----------------------- MODULE SourceLifecycleProofs -----------------------
(***************************************************************************)
(* LifecycleInv is an inductive invariant of SourceLifecycle for any       *)
(* documents, facts, worker processes and bounds, and every step of        *)
(* SourceLifecycle is a step of SourceLedger or leaves it alone.  The last *)
(* part is about what the schedule, one run per worker, adds to that.      *)
(***************************************************************************)
EXTENDS SourceLifecycle, FiniteSetTheorems, WellFoundedInduction, TLAPS

-----------------------------------------------------------------------------
(* Batches.                                                                *)

\* SELECT ... LIMIT answers distinct eligible rows.
LEMMA SelectionsAreRows ==
  ASSUME NEW eligible \in SUBSET Sources,
         NEW q \in Selections(eligible)
  PROVE  /\ q \in Seq(eligible)
         /\ \A i, j \in DOMAIN q : i # j => q[i] # q[j]
<1> DEFINE n == IF Cardinality(eligible) < Limit THEN Cardinality(eligible) ELSE Limit
<1>1. n \in Nat
  BY SourcesFinite, BoundsType, FS_Subset, FS_CardinalityType
<1>2. q \in [1..n -> eligible]
  BY DEF Selections
<1>3. \A i, j \in 1..n : i < j => q[i] # q[j]
  BY DEF Selections
<1>4. \A i, j \in 1..n : i # j => i < j \/ j < i
  BY <1>1
<1> HIDE DEF n
<1> QED
  BY <1>1, <1>2, <1>3, <1>4

\* The batch that a run begins with.
LEMMA BatchBegins ==
  ASSUME TypeOK,
         NEW w \in Workers,
         NEW eligible \in SUBSET Sources,
         BeginBatch(w, eligible)
  PROVE  /\ run' \in [Workers -> [open : BOOLEAN, batch : Seq(Pending), now : Nat]]
         /\ \A v \in Workers : v # w => run'[v] = run[v]
         /\ run'[w].open /\ run'[w].now = day
         /\ \A i \in DOMAIN run'[w].batch :
              LET item == run'[w].batch[i] IN
                /\ item.id \in eligible
                /\ item.status = sources[item.id].status
                /\ \A j \in DOMAIN run'[w].batch : i # j => run'[w].batch[j].id # item.id
<1>1. PICK q \in Selections(eligible) :
        run' = [run EXCEPT ![w] =
                 [open  |-> TRUE,
                  batch |-> [i \in DOMAIN q |-> [id |-> q[i], status |-> sources[q[i]].status]],
                  now   |-> day]]
  BY DEF BeginBatch
<1> DEFINE b == [i \in DOMAIN q |-> [id |-> q[i], status |-> sources[q[i]].status]]
<1>2. /\ q \in Seq(eligible)
      /\ \A i, j \in DOMAIN q : i # j => q[i] # q[j]
  BY <1>1, SelectionsAreRows
<1>3. \A i \in DOMAIN q : q[i] \in eligible
  BY <1>2
<1>4. \A i \in DOMAIN q : [id |-> q[i], status |-> sources[q[i]].status] \in Pending
  BY <1>3 DEF TypeOK, Row, Pending
<1>5. PICK m \in Nat : DOMAIN q = 1..m
  BY <1>2
<1>6. b \in Seq(Pending)
  BY <1>4, <1>5
<1>7. DOMAIN b = DOMAIN q
  OBVIOUS
<1>8. run' = [run EXCEPT ![w] = [open |-> TRUE, batch |-> b, now |-> day]]
  BY <1>1
<1>9. \A i \in DOMAIN b :
        /\ b[i].id \in eligible
        /\ b[i].status = sources[b[i].id].status
        /\ \A j \in DOMAIN b : i # j => b[j].id # b[i].id
  BY <1>2, <1>3
<1> HIDE DEF b
<1>10. run'[w] = [open |-> TRUE, batch |-> b, now |-> day]
  BY <1>8 DEF TypeOK
<1> QED
  BY <1>6, <1>8, <1>9, <1>10 DEF TypeOK

\* What is left of a batch when its first item is done.
LEMMA BatchShrinks ==
  ASSUME TypeOK,
         NEW w \in Workers,
         HasItem(w),
         DropItem(w)
  PROVE  /\ run' \in [Workers -> [open : BOOLEAN, batch : Seq(Pending), now : Nat]]
         /\ Item(w) \in Pending
         /\ 1 \in DOMAIN run[w].batch /\ Item(w) = run[w].batch[1]
         /\ \A v \in Workers : v # w => run'[v] = run[v]
         /\ run'[w].open = run[w].open /\ run'[w].now = run[w].now
         /\ \A i \in DOMAIN run'[w].batch :
              /\ i + 1 \in DOMAIN run[w].batch
              /\ i + 1 # 1
              /\ run'[w].batch[i] = run[w].batch[i + 1]
<1> DEFINE b == run[w].batch
<1>1. b \in Seq(Pending) /\ b # <<>>
  BY DEF TypeOK, HasItem
<1>2. /\ Tail(b) \in Seq(Pending)
      /\ Head(b) \in Pending
      /\ 1 \in DOMAIN b /\ Head(b) = b[1]
      /\ \A i \in DOMAIN Tail(b) : i + 1 \in DOMAIN b /\ i + 1 # 1 /\ Tail(b)[i] = b[i + 1]
  <2> HIDE DEF b
  <2> QED BY <1>1
<1>3. run' = [run EXCEPT ![w].batch = Tail(b)]
  BY DEF DropItem
<1> HIDE DEF b
<1>4. /\ run'[w].batch = Tail(b)
      /\ run'[w].open = run[w].open
      /\ run'[w].now = run[w].now
  BY <1>3 DEF TypeOK
<1>5. run' \in [Workers -> [open : BOOLEAN, batch : Seq(Pending), now : Nat]]
  BY <1>2, <1>3 DEF TypeOK
<1>6. \A v \in Workers : v # w => run'[v] = run[v]
  BY <1>3 DEF TypeOK
<1> USE DEF b
<1> QED
  BY <1>2, <1>4, <1>5, <1>6 DEF Item

-----------------------------------------------------------------------------
(* Rows: what one step of the ledger leaves of a row.                      *)

LEMMA NewRow ==
  ASSUME NEW old \in Row, NEW now \in Nat, old.status = "absent"
  PROVE  /\ Collected(now) \in Row
         /\ Captured(old, Collected(now))
         /\ Collected(now).last_verified_at = 0
         /\ Collected(now).status = "collected"
<1>1. NoRow \in Row /\ NoRow.last_verified_at = 0
  BY DEF NoRow, Row
<1>2. /\ Collected(now) \in Row
      /\ Collected(now).status = "collected"
      /\ Collected(now).fetched_at = now
      /\ Collected(now).last_verified_at = 0
  BY <1>1 DEF Collected, Row, Statuses
<1> QED
  BY <1>2 DEF Captured

LEMMA CapturedRow ==
  ASSUME NEW old \in Row, NEW new \in Row, Captured(old, new)
  PROVE  /\ old.status = "absent"
         /\ new.status = "collected"
         /\ new.raw_text = "null"
         /\ new.last_verified_at = 0
         /\ new.log = <<>>
BY DEF Captured, Collected, NoRow, Row

LEMMA ArchivedRow ==
  ASSUME NEW s \in Sources, NEW old \in Row, NEW new \in Row,
         Archived(s, old, new)
  PROVE  /\ old.status # "absent"
         /\ new.status = "archived"
         /\ new.raw_text = stripHTML(s)
         /\ new.last_verified_at = old.last_verified_at
         /\ new.log = old.log
BY DEF Archived, WithText, Row

LEMMA LastOfAppend ==
  ASSUME NEW S, NEW q \in Seq(S), NEW e
  PROVE  /\ Append(q, e) # <<>>
         /\ Len(q) + 1 \in DOMAIN Append(q, e)
         /\ Append(q, e)[Len(q) + 1] = e
         /\ \A i \in DOMAIN q : i \in DOMAIN Append(q, e) /\ Append(q, e)[i] = q[i]
OBVIOUS

LEMMA CheckedRow ==
  ASSUME NEW linked, NEW old \in Row, NEW new \in Row,
         Checked(linked, old, new)
  PROVE  /\ old.status \notin {"absent", "collected"}
         /\ new.status \in {"extracted", "verified", "link-rot", "content-changed"}
         /\ new.status = "extracted" => linked
         /\ new.raw_text = old.raw_text
         /\ new.last_verified_at > 0
         /\ new.log # <<>>
         /\ new.status # "extracted" => ShowsLoggedCheck(new)
<1>1. PICK outcome \in Outcomes, seen \in Statuses :
        /\ seen = "extracted" => linked
        /\ new = WithCheck(old, outcome, seen, new.last_verified_at)
  BY DEF Checked
<1> DEFINE line == [outcome |-> outcome, at |-> new.last_verified_at]
<1>2. /\ new.log = Append(old.log, line)
      /\ new.status = mapSourceStatus(outcome, seen)
      /\ new.raw_text = old.raw_text
  BY <1>1 DEF Row, WithCheck, Logged
<1>3. old.log \in Seq(Verification)
  BY DEF Row
<1> HIDE DEF line
<1>4. new.log # <<>> /\ \E i \in DOMAIN new.log : new.log[i] = line
  BY <1>2, <1>3, LastOfAppend
<1>5. /\ mapSourceStatus(outcome, seen) \in {"extracted", "verified", "link-rot", "content-changed"}
      /\ mapSourceStatus(outcome, seen) = "extracted" => seen = "extracted"
      /\ mapSourceStatus(outcome, seen) # "extracted"
           => VerdictOf(mapSourceStatus(outcome, seen)) = outcome
  BY DEF mapSourceStatus, VerdictOf, Outcomes
<1>6. new.status # "extracted" => ShowsLoggedCheck(new)
  BY <1>2, <1>4, <1>5 DEF ShowsLoggedCheck, line
<1> QED
  BY <1>1, <1>2, <1>4, <1>5, <1>6 DEF Checked

\* What the archiver makes of a row that is committed or its own.
LEMMA ArchivedAgain ==
  ASSUME NEW s \in Sources, NEW old \in Row, NEW mid \in Row,
         old.status # "absent",
         mid = old \/ Archived(s, old, mid),
         NEW url \in {"empty", "url"}
  PROVE  /\ WithText(s, mid, url) \in Row
         /\ Archived(s, old, WithText(s, mid, url))
BY DEF Archived, WithText, Row, Statuses, stripHTML

\* What the verifier makes of a committed row.
LEMMA CheckedNow ==
  ASSUME NEW old \in Row, NEW linked, NEW outcome \in Outcomes, NEW seen \in Statuses,
         NEW now \in Nat \ {0},
         old.status \notin {"absent", "collected"},
         seen = "extracted" => linked
  PROVE  /\ WithCheck(old, outcome, seen, now) \in Row
         /\ Checked(linked, old, WithCheck(old, outcome, seen, now))
<1> DEFINE new == WithCheck(old, outcome, seen, now)
<1>1. mapSourceStatus(outcome, seen) \in Statuses
  BY DEF mapSourceStatus, Statuses
<1>2. old.log \in Seq(Verification) /\ [outcome |-> outcome, at |-> now] \in Verification
  BY DEF Row, Verification
<1>3. Logged(old.log, outcome, now) \in Seq(Verification)
  BY <1>2 DEF Logged
<1>4. new \in Row /\ new.last_verified_at = now
  BY <1>1, <1>3 DEF Row, WithCheck
<1>5. Checked(linked, old, new)
  BY <1>4 DEF Checked
<1> QED BY <1>4, <1>5

-----------------------------------------------------------------------------
(* Batches while rows change.                                              *)

\* Rows never go back to a state before their capture, and links stay.
Onward ==
  /\ \A s \in Sources :
       /\ sources[s].status # "absent" => sources'[s].status # "absent"
       /\ sources[s].status \notin {"absent", "collected"}
            => sources'[s].status \notin {"absent", "collected"}
  /\ evidence \subseteq evidence'

\* What was true of the batches stays true when batches end and locks are
\* released.
LEMMA BatchesEnd ==
  ASSUME TypeOK, BatchesExist, ChecksToCome, Onward,
         \A v \in Workers : run'[v].batch = run[v].batch \/ run'[v].batch = <<>>,
         \A s \in Sources : lock'[s] = lock[s] \/ lock'[s] = Free
  PROVE  BatchesExist' /\ ChecksToCome'
<1>1. \A v \in Workers : \A i \in DOMAIN run'[v].batch :
        run'[v].batch = run[v].batch /\ run[v].batch[i] \in Pending
  BY DEF TypeOK
<1>2. BatchesExist'
  BY <1>1 DEF BatchesExist, Onward, Workers, Pending
<1>3. ASSUME NEW v \in Verifiers, NEW i \in DOMAIN run'[v].batch
      PROVE  LET item == run'[v].batch[i] IN
               /\ lock'[item.id] # v
               /\ \A j \in DOMAIN run'[v].batch : i # j => run'[v].batch[j].id # item.id
               /\ item.status # "absent"
               /\ item.status = "extracted" => \E f \in Facts : <<f, item.id>> \in evidence'
  <2> DEFINE b == run[v].batch
  <2>1. v \in Workers /\ run'[v].batch = b /\ i \in DOMAIN b /\ b[i] \in Pending
    BY <1>1 DEF Workers
  <2>2. lock'[b[i].id] # v
    BY <2>1, FreeIsFree DEF ChecksToCome, Pending
  <2>3. /\ \A j \in DOMAIN b : i # j => b[j].id # b[i].id
        /\ b[i].status # "absent"
        /\ b[i].status = "extracted" => \E f \in Facts : <<f, b[i].id>> \in evidence'
    BY <2>1 DEF ChecksToCome, Onward, Ledger!Linked
  <2> HIDE DEF b
  <2> QED
    BY <2>1, <2>2, <2>3
<1>4. ChecksToCome'
  BY <1>3 DEF ChecksToCome, Ledger!Linked
<1> QED
  BY <1>2, <1>4

\* ... and when a worker takes the next item and locks at most that row.
LEMMA BatchesGoOn ==
  ASSUME TypeOK, BatchesExist, ChecksToCome, Onward,
         NEW w \in Workers, HasItem(w), DropItem(w),
         \A s \in Sources : \/ lock'[s] = lock[s]
                            \/ lock'[s] = w /\ s = Item(w).id
  PROVE  BatchesExist' /\ ChecksToCome'
<1>1. \A v \in Workers : v # w => run'[v] = run[v]
  BY BatchShrinks
<1>2. /\ 1 \in DOMAIN run[w].batch /\ Item(w) = run[w].batch[1]
      /\ \A i \in DOMAIN run'[w].batch :
           i + 1 \in DOMAIN run[w].batch /\ i + 1 # 1 /\ run'[w].batch[i] = run[w].batch[i + 1]
  BY BatchShrinks
<1>3. /\ \A v \in Workers : \A i \in DOMAIN run[v].batch :
           i \in Int /\ run[v].batch[i] \in Pending
      /\ \A v \in Workers : \A i \in DOMAIN run'[v].batch : i \in Int
  BY BatchShrinks DEF TypeOK
<1>4. BatchesExist'
  BY <1>1, <1>2, <1>3 DEF BatchesExist, Onward, Workers, Pending
<1>5. ASSUME NEW v \in Verifiers, NEW i \in DOMAIN run'[v].batch
      PROVE  LET item == run'[v].batch[i] IN
               /\ lock'[item.id] # v
               /\ \A j \in DOMAIN run'[v].batch : i # j => run'[v].batch[j].id # item.id
               /\ item.status # "absent"
               /\ item.status = "extracted" => \E f \in Facts : <<f, item.id>> \in evidence'
  <2>1. CASE v = w
    <3> DEFINE item == run[w].batch[i + 1]
    <3>1. /\ i + 1 \in DOMAIN run[w].batch /\ i + 1 # 1
          /\ run'[w].batch[i] = item /\ item \in Pending
      BY <1>2, <1>3, <2>1
    <3>2. lock[item.id] # w /\ item.id # Item(w).id
      <4> HIDE DEF item
      <4> QED BY <1>2, <2>1, <3>1 DEF ChecksToCome, item
    <3>3. lock'[item.id] # w
      BY <3>1, <3>2 DEF Pending
    <3>4. \A j \in DOMAIN run'[w].batch : i # j => run'[w].batch[j].id # item.id
      <4> SUFFICES ASSUME NEW j \in DOMAIN run'[w].batch, i # j
                   PROVE  run'[w].batch[j].id # item.id
        OBVIOUS
      <4>1. j + 1 \in DOMAIN run[w].batch /\ run'[w].batch[j] = run[w].batch[j + 1]
        BY <1>2
      <4>2. i + 1 # j + 1
        BY <1>3, <2>1
      <4> QED BY <2>1, <3>1, <4>1, <4>2 DEF ChecksToCome
    <3>5. /\ item.status # "absent"
          /\ item.status = "extracted" => \E f \in Facts : <<f, item.id>> \in evidence'
      BY <2>1, <3>1 DEF ChecksToCome, Onward, Ledger!Linked
    <3> QED BY <2>1, <3>1, <3>3, <3>4, <3>5
  <2>2. CASE v # w
    <3>1. v \in Workers /\ run'[v] = run[v] /\ run[v].batch[i] \in Pending
      BY <1>1, <1>3, <2>2 DEF Workers
    <3>2. lock[run[v].batch[i].id] # v
      BY <3>1 DEF ChecksToCome
    <3>3. lock'[run[v].batch[i].id] # v
      BY <2>2, <3>1, <3>2 DEF Pending
    <3> QED
      BY <3>1, <3>3 DEF ChecksToCome, Onward, Ledger!Linked
  <2> QED BY <2>1, <2>2
<1>6. ChecksToCome'
  BY <1>5 DEF ChecksToCome, Ledger!Linked
<1> QED
  BY <1>4, <1>6

-----------------------------------------------------------------------------
(* The steps of a worker, by what they do to rows and locks.               *)

RunsType == [Workers -> [open : BOOLEAN, batch : Seq(Pending), now : Nat]]

\* Steps that only move on in a batch, or begin one.
LEMMA RunStep ==
  ASSUME LifecycleInv,
         UNCHANGED <<sources, draft, lock, evidence, day>>,
         run' \in RunsType, collects' \in Nat, failures' \in Nat,
         BatchesExist', ChecksToCome',
         \A w \in Workers : run[w].open => run'[w].open,
         \A w \in Verifiers : run'[w].open => run'[w].now \in 1..day
  PROVE  LifecycleInv'
<1> USE DEF LifecycleInv
<1>1. TypeOK'
  BY DEF TypeOK, RunsType
<1>2. DraftsHaveWriters'
  BY DEF DraftsHaveWriters
<1>3. DraftsAreSteps'
  BY DEF DraftsAreSteps, Ledger!Linked
<1>4. TimeIsPast'
  BY DEF TimeIsPast
<1>5. TextCaptured' /\ VerdictIsLogged'
  BY DEF TextCaptured, VerdictIsLogged
<1>6. EvidenceGrounded' /\ ExtractedHasEvidence'
  BY DEF EvidenceGrounded, ExtractedHasEvidence, Ledger!Linked
<1> QED
  BY <1>1, <1>2, <1>3, <1>4, <1>5, <1>6

\* Steps that write the row of the next item.
LEMMA WriteStep ==
  ASSUME LifecycleInv,
         NEW w \in Workers, w \notin Extractors,
         NEW row \in Row,
         HasItem(w), Write(w, Item(w).id, row), DropItem(w),
         UNCHANGED <<sources, evidence, collects, day, failures>>,
         w \in Collectors => Captured(sources[Item(w).id], row),
         w \in Archivers  => Archived(Item(w).id, sources[Item(w).id], row),
         w \in Verifiers  => Checked(Ledger!Linked(Item(w).id), sources[Item(w).id], row)
  PROVE  LifecycleInv'
<1> USE DEF LifecycleInv
<1> DEFINE s == Item(w).id
<1>1. /\ s \in Sources
      /\ run' \in RunsType
      /\ run'[w].open /\ run'[w].now = run[w].now
      /\ \A v \in Workers : v # w => run'[v] = run[v]
  BY BatchShrinks DEF Pending, RunsType, HasItem
<1>2. /\ draft' = [draft EXCEPT ![s] = row]
      /\ lock'  = [lock EXCEPT ![s] = w]
      /\ lock[s] \in {Free, w}
  BY DEF Write
<1> HIDE DEF s
<1>3. TypeOK'
  BY <1>1, <1>2 DEF TypeOK, RunsType
<1>4. DraftsHaveWriters'
  BY <1>1, <1>2 DEF DraftsHaveWriters, TypeOK
<1>5. DraftsAreSteps'
  <2> SUFFICES ASSUME NEW t \in Sources
               PROVE  /\ lock'[t] \in Collectors => Captured(sources[t], draft'[t])
                      /\ lock'[t] \in Archivers  => Archived(t, sources[t], draft'[t])
                      /\ lock'[t] \in Verifiers  => Checked(Ledger!Linked(t), sources[t], draft'[t])
    BY DEF DraftsAreSteps, Ledger!Linked
  <2>1. CASE t = s
    BY <1>1, <1>2, <2>1 DEF TypeOK, s
  <2>2. CASE t # s
    BY <1>1, <1>2, <2>2 DEF TypeOK, DraftsAreSteps
  <2> QED BY <2>1, <2>2
<1>6. BatchesExist' /\ ChecksToCome'
  <2>1. Onward
    BY DEF Onward
  <2>2. \A t \in Sources : lock'[t] = lock[t] \/ (lock'[t] = w /\ t = s)
    BY <1>1, <1>2 DEF TypeOK
  <2> QED
    BY <2>1, <2>2, BatchesGoOn DEF s
<1>7. TimeIsPast'
  BY <1>1, <1>2 DEF TimeIsPast, TypeOK, HasItem, Workers
<1>8. TextCaptured' /\ VerdictIsLogged'
  BY DEF TextCaptured, VerdictIsLogged
<1>9. EvidenceGrounded' /\ ExtractedHasEvidence'
  BY DEF EvidenceGrounded, ExtractedHasEvidence, Ledger!Linked
<1> QED
  BY <1>3, <1>4, <1>5, <1>6, <1>7, <1>8, <1>9

\* Rolling a transaction back.
LEMMA RollbackStep ==
  ASSUME LifecycleInv,
         NEW w \in Workers,
         Rollback(w),
         UNCHANGED <<sources, evidence, collects, day>>,
         failures' \in Nat
  PROVE  LifecycleInv'
<1> USE DEF LifecycleInv
<1>1. /\ draft' = [s \in Sources |-> IF lock[s] = w THEN sources[s] ELSE draft[s]]
      /\ lock'  = [s \in Sources |-> IF lock[s] = w THEN Free ELSE lock[s]]
      /\ run'   = [run EXCEPT ![w] = Idle]
  BY DEF Rollback, Release
<1>2. run' \in RunsType /\ run'[w] = Idle /\ \A v \in Workers : v # w => run'[v] = run[v]
  BY <1>1 DEF TypeOK, RunsType, Idle
<1>3. TypeOK'
  BY <1>1, <1>2 DEF TypeOK, RunsType
<1>4. DraftsHaveWriters'
  BY <1>1, <1>2 DEF DraftsHaveWriters, TypeOK
<1>5. DraftsAreSteps'
  <2> SUFFICES ASSUME NEW t \in Sources
               PROVE  /\ lock'[t] \in Collectors => Captured(sources[t], draft'[t])
                      /\ lock'[t] \in Archivers  => Archived(t, sources[t], draft'[t])
                      /\ lock'[t] \in Verifiers  => Checked(Ledger!Linked(t), sources[t], draft'[t])
    BY DEF DraftsAreSteps, Ledger!Linked
  <2>1. CASE lock[t] = w
    BY <1>1, <2>1, FreeIsFree DEF Workers
  <2>2. CASE lock[t] # w
    BY <1>1, <2>2 DEF DraftsAreSteps
  <2> QED BY <2>1, <2>2
<1>6. BatchesExist' /\ ChecksToCome'
  <2>1. Onward
    BY DEF Onward
  <2> QED
    BY <1>1, <1>2, <2>1, BatchesEnd DEF Idle
<1>7. TimeIsPast'
  BY <1>1, <1>2 DEF TimeIsPast, Idle, Workers
<1>8. TextCaptured' /\ VerdictIsLogged'
  BY DEF TextCaptured, VerdictIsLogged
<1>9. EvidenceGrounded' /\ ExtractedHasEvidence'
  BY DEF EvidenceGrounded, ExtractedHasEvidence, Ledger!Linked
<1> QED
  BY <1>3, <1>4, <1>5, <1>6, <1>7, <1>8, <1>9

\* What the row that takes the place of another must be like.
Succeeds(s, linked, old, new) ==
  /\ (new.status \in {"absent", "collected"}) <=> (new.raw_text = "null")
  /\ new.raw_text \in {"null", stripHTML(s)}
  /\ old.raw_text # "null" => new.raw_text = old.raw_text
  /\ old.status # "absent" => new.status # "absent"
  /\ old.status \notin {"absent", "collected"}
       => new.status \notin {"absent", "collected"}
  /\ new.status = "extracted" => linked
  /\ new.last_verified_at > 0 <=> new.log # <<>>
  /\ new.status \in {"verified", "link-rot", "content-changed"} => ShowsLoggedCheck(new)

LEMMA CommitRow ==
  ASSUME LifecycleInv,
         NEW w \in Workers,
         NEW s \in Sources, lock[s] = w
  PROVE  Succeeds(s, Ledger!Linked(s), sources[s], draft[s])
<1> DEFINE old == sources[s]
           new == draft[s]
           linked == Ledger!Linked(s)
<1>1. /\ old \in Row /\ new \in Row
      /\ stripHTML(s) \in {"blank", "text"}
      /\ (old.status \in {"absent", "collected"}) <=> (old.raw_text = "null")
      /\ old.raw_text \in {"null", stripHTML(s)}
      /\ old.last_verified_at > 0 <=> old.log # <<>>
  BY DEF LifecycleInv, TypeOK, TextCaptured, VerdictIsLogged, stripHTML
<1>2. \/ Captured(old, new)
      \/ Archived(s, old, new)
      \/ Checked(linked, old, new)
  BY FreeIsFree DEF LifecycleInv, DraftsHaveWriters, DraftsAreSteps, Workers
<1> HIDE DEF old, new, linked
<1>3. ASSUME Captured(old, new) PROVE Succeeds(s, linked, old, new)
  BY <1>1, <1>3, CapturedRow DEF Succeeds
<1>4. ASSUME Archived(s, old, new) PROVE Succeeds(s, linked, old, new)
  BY <1>1, <1>4, ArchivedRow DEF Succeeds
<1>5. ASSUME Checked(linked, old, new) PROVE Succeeds(s, linked, old, new)
  <2>1. /\ new.status \in {"extracted", "verified", "link-rot", "content-changed"}
        /\ new.status = "extracted" => linked
        /\ new.raw_text = old.raw_text /\ old.status \notin {"absent", "collected"}
        /\ new.last_verified_at > 0 /\ new.log # <<>>
        /\ new.status # "extracted" => ShowsLoggedCheck(new)
    BY <1>1, <1>5, CheckedRow
  <2> QED BY <1>1, <2>1 DEF Succeeds
<1> QED
  BY <1>2, <1>3, <1>4, <1>5 DEF old, new, linked

\* A commit.
LEMMA CommitStep ==
  ASSUME LifecycleInv,
         NEW w \in Workers,
         Commit(w)
  PROVE  LifecycleInv' /\ Onward
<1> USE DEF LifecycleInv
<1>1. /\ sources' = [s \in Sources |-> IF lock[s] = w THEN draft[s] ELSE sources[s]]
      /\ lock'  = [s \in Sources |-> IF lock[s] = w THEN Free ELSE lock[s]]
      /\ run'   = [run EXCEPT ![w] = Idle]
      /\ UNCHANGED <<draft, evidence, collects, day, failures>>
  BY DEF Commit, Release
<1>2. run' \in RunsType /\ run'[w] = Idle /\ \A v \in Workers : v # w => run'[v] = run[v]
  BY <1>1 DEF TypeOK, RunsType, Idle
<1>3. TypeOK'
  BY <1>1, <1>2 DEF TypeOK, RunsType
<1>4. DraftsHaveWriters'
  BY <1>1, <1>2 DEF DraftsHaveWriters, TypeOK
<1>5. DraftsAreSteps'
  <2> SUFFICES ASSUME NEW t \in Sources
               PROVE  /\ lock'[t] \in Collectors => Captured(sources'[t], draft'[t])
                      /\ lock'[t] \in Archivers  => Archived(t, sources'[t], draft'[t])
                      /\ lock'[t] \in Verifiers  => Checked(Ledger!Linked(t), sources'[t], draft'[t])
    BY <1>1 DEF DraftsAreSteps, Ledger!Linked
  <2>1. CASE lock[t] = w
    BY <1>1, <2>1, FreeIsFree DEF Workers
  <2>2. CASE lock[t] # w
    BY <1>1, <2>2 DEF DraftsAreSteps
  <2> QED BY <2>1, <2>2
<1>6. Onward
  BY <1>1, CommitRow DEF Succeeds, Onward
<1>7. BatchesExist' /\ ChecksToCome'
  BY <1>1, <1>2, <1>6, BatchesEnd DEF Idle
<1>8. TimeIsPast'
  BY <1>1, <1>2 DEF TimeIsPast, Idle, Workers
<1>9. TextCaptured'
  BY <1>1, CommitRow DEF Succeeds, TextCaptured
<1>10. VerdictIsLogged'
  BY <1>1, CommitRow DEF Succeeds, VerdictIsLogged
<1>11. EvidenceGrounded'
  <2> SUFFICES ASSUME NEW e \in evidence
               PROVE  e[1] \in Grounded[e[2]] /\ sources'[e[2]].raw_text = "text"
    BY <1>1 DEF EvidenceGrounded
  <2>1. e[2] \in Sources /\ e[1] \in Grounded[e[2]] /\ sources[e[2]].raw_text = "text"
    BY DEF EvidenceGrounded, TypeOK
  <2> QED
    BY <1>1, <2>1, CommitRow DEF Succeeds
<1>12. ExtractedHasEvidence'
  BY <1>1, CommitRow DEF Succeeds, ExtractedHasEvidence, Ledger!Linked
<1> QED
  BY <1>3, <1>4, <1>5, <1>6, <1>7, <1>8, <1>9, <1>10, <1>11, <1>12

LEMMA ExtractedRow ==
  ASSUME NEW old \in Row
  PROVE  LET new == WithFacts(old) IN
           /\ new \in Row
           /\ new.status = "extracted"
           /\ new.raw_text = old.raw_text
           /\ new.log = old.log
           /\ new.last_verified_at = old.last_verified_at
BY DEF WithFacts, Row, Statuses

\* One source extracted.
LEMMA ExtractStep ==
  ASSUME LifecycleInv,
         NEW w \in Extractors,
         ExtractItem(w)
  PROVE  LifecycleInv'
<1> USE DEF LifecycleInv
<1> DEFINE s == Item(w).id
<1>1. /\ w \in Workers /\ HasItem(w) /\ DropItem(w)
      /\ UNCHANGED <<lock, collects, day, failures>>
  BY DEF ExtractItem, Workers
<1>2. /\ s \in Sources
      /\ run' \in RunsType
      /\ run'[w].open = run[w].open /\ run'[w].now = run[w].now
      /\ \A v \in Workers : v # w => run'[v] = run[v]
      /\ 1 \in DOMAIN run[w].batch /\ s = run[w].batch[1].id
  BY <1>1, BatchShrinks DEF Pending, RunsType
<1>2a. /\ sources[s] \in Row
       /\ sources[s].status \notin {"absent", "collected"}
  BY <1>2 DEF BatchesExist, TypeOK
<1>2b. sources[s].raw_text = stripHTML(s)
  BY <1>2, <1>2a DEF TextCaptured
<1>3. PICK proposal \in SUBSET Facts :
        /\ s \in Blank => proposal = {}
        /\ evidence' = evidence \cup {<<f, s>> : f \in Accepted(s, proposal)}
        /\ IF Accepted(s, proposal) = {}
             THEN UNCHANGED <<sources, draft>>
             ELSE /\ lock[s] = Free
                  /\ sources' = [sources EXCEPT ![s] = WithFacts(@)]
                  /\ draft'   = [draft EXCEPT ![s] = WithFacts(@)]
  BY DEF ExtractItem, Proposals
<1> DEFINE accepted == Accepted(s, proposal)
<1>4. accepted \subseteq Facts /\ accepted \subseteq proposal \cap Grounded[s]
  BY DEF Accepted
<1> HIDE DEF s, accepted
<1>5. \/ accepted = {} /\ evidence' = evidence /\ UNCHANGED <<sources, draft>>
      \/ /\ accepted # {}
         /\ lock[s] = Free
         /\ evidence' = evidence \cup {<<f, s>> : f \in accepted}
         /\ sources' = [sources EXCEPT ![s] = WithFacts(sources[s])]
         /\ draft'   = [draft EXCEPT ![s] = WithFacts(draft[s])]
  BY <1>3 DEF accepted
<1>6. CASE accepted = {} /\ evidence' = evidence /\ UNCHANGED <<sources, draft>>
  <2>1. BatchesExist' /\ ChecksToCome'
    BY <1>1, <1>6, BatchesGoOn DEF Onward
  <2> QED
    BY <1>1, <1>2, <1>6, <2>1, RunStep, BoundsType DEF TypeOK, TimeIsPast, Workers
<1>7. CASE /\ accepted # {}
           /\ lock[s] = Free
           /\ evidence' = evidence \cup {<<f, s>> : f \in accepted}
           /\ sources' = [sources EXCEPT ![s] = WithFacts(sources[s])]
           /\ draft'   = [draft EXCEPT ![s] = WithFacts(draft[s])]
  <2> DEFINE new == WithFacts(sources[s])
  <2>1. /\ new \in Row
        /\ new.status = "extracted"
        /\ new.raw_text = sources[s].raw_text
        /\ new.log = sources[s].log
        /\ new.last_verified_at = sources[s].last_verified_at
    BY <1>2a, ExtractedRow
  <2>2. draft[s] = sources[s]
    BY <1>2, <1>7, FreeIsFree DEF DraftsHaveWriters, Workers
  <2>3. /\ sources' = [sources EXCEPT ![s] = new]
        /\ draft'   = [draft EXCEPT ![s] = new]
        /\ sources'[s] = new /\ draft'[s] = new
        /\ \A t \in Sources : t # s => sources'[t] = sources[t] /\ draft'[t] = draft[t]
    BY <1>2, <1>7, <2>2 DEF TypeOK
  <2> HIDE DEF new
  <2>4. TypeOK'
    <3>1. sources' \in [Sources -> Row] /\ draft' \in [Sources -> Row]
      BY <2>1, <2>3 DEF TypeOK
    <3>2. evidence' \subseteq Facts \X Sources
      BY <1>2, <1>4, <1>7 DEF TypeOK
    <3> QED
      BY <1>1, <1>2, <3>1, <3>2 DEF TypeOK, RunsType
  <2>5. DraftsHaveWriters'
    BY <1>1, <1>2, <2>3, <1>7 DEF DraftsHaveWriters
  <2>6. Onward
    BY <1>7, <2>1, <2>3 DEF Onward
  <2>7. DraftsAreSteps'
    <3> SUFFICES ASSUME NEW t \in Sources
                 PROVE  /\ lock[t] \in Collectors => Captured(sources'[t], draft'[t])
                        /\ lock[t] \in Archivers  => Archived(t, sources'[t], draft'[t])
                        /\ lock[t] \in Verifiers  => Checked(Ledger!Linked(t)', sources'[t], draft'[t])
      BY <1>1 DEF DraftsAreSteps
    <3>1. CASE t = s
      BY <3>1, <1>7, FreeIsFree DEF Workers
    <3>2. CASE t # s
      <4>1. Ledger!Linked(t) => Ledger!Linked(t)'
        BY <2>6 DEF Onward, Ledger!Linked
      <4>2. \A r1, r2 : Checked(Ledger!Linked(t), r1, r2) => Checked(Ledger!Linked(t)', r1, r2)
        BY <4>1 DEF Checked
      <4> QED
        BY <3>2, <2>3, <4>2 DEF DraftsAreSteps
    <3> QED BY <3>1, <3>2
  <2>8. BatchesExist' /\ ChecksToCome'
    BY <1>1, <2>6, BatchesGoOn
  <2>9. TimeIsPast'
    BY <1>1, <1>2 DEF TimeIsPast, Workers
  <2>10. TextCaptured'
    BY <2>1, <2>3, <1>2a, <1>2b DEF TextCaptured, stripHTML
  <2>11. VerdictIsLogged'
    BY <2>1, <2>3 DEF VerdictIsLogged
  <2>12. EvidenceGrounded'
    <3>1. s \notin Blank /\ sources[s].raw_text = "text"
      BY <1>2b, <1>3, <1>4, <1>7 DEF stripHTML
    <3> QED
      BY <1>4, <1>7, <2>1, <2>3, <3>1 DEF EvidenceGrounded, TypeOK
  <2>13. ExtractedHasEvidence'
    BY <1>4, <1>7, <2>1, <2>3 DEF ExtractedHasEvidence, Ledger!Linked
  <2> QED
    BY <2>4, <2>5, <2>7, <2>8, <2>9, <2>10, <2>11, <2>12, <2>13
<1> QED
  BY <1>5, <1>6, <1>7

-----------------------------------------------------------------------------
(* The invariant.                                                          *)

LEMMA InitInv == Init => LifecycleInv
<1> SUFFICES ASSUME Init PROVE LifecycleInv
  OBVIOUS
<1>1. NoRow \in Row /\ Idle \in [open : BOOLEAN, batch : Seq(Pending), now : Nat]
  BY DEF NoRow, Row, Idle
<1>2. TypeOK
  BY <1>1 DEF Init, TypeOK
<1>3. DraftsHaveWriters /\ DraftsAreSteps
  BY FreeIsFree DEF Init, DraftsHaveWriters, DraftsAreSteps, Workers
<1>4. BatchesExist /\ ChecksToCome
  BY DEF Init, BatchesExist, ChecksToCome, Idle, Workers
<1>5. TimeIsPast
  BY DEF Init, TimeIsPast, NoRow, Idle, Workers
<1>6. TextCaptured /\ VerdictIsLogged /\ EvidenceGrounded /\ ExtractedHasEvidence
  BY DEF Init, NoRow, TextCaptured, VerdictIsLogged, EvidenceGrounded, ExtractedHasEvidence
<1> QED
  BY <1>2, <1>3, <1>4, <1>5, <1>6 DEF LifecycleInv

\* The begin of a run of archive, verify or extract.
LEMMA BeginStep ==
  ASSUME LifecycleInv,
         NEW w \in Workers, w \notin Collectors,
         NEW eligible \in SUBSET Sources,
         BeginBatch(w, eligible),
         \A s \in eligible : sources[s].status # "absent",
         w \in Verifiers \cup Extractors => \A s \in eligible : sources[s].status # "collected",
         UNCHANGED <<sources, draft, lock, evidence, collects, day, failures>>
  PROVE  LifecycleInv'
<1> USE DEF LifecycleInv
<1>1. /\ run' \in RunsType
      /\ \A v \in Workers : v # w => run'[v] = run[v]
      /\ run'[w].open /\ run'[w].now = day
      /\ \A i \in DOMAIN run'[w].batch :
           LET item == run'[w].batch[i] IN
             /\ item.id \in eligible
             /\ item.status = sources[item.id].status
             /\ \A j \in DOMAIN run'[w].batch : i # j => run'[w].batch[j].id # item.id
  BY BatchBegins DEF RunsType
<1>2. BatchesExist'
  <2>1. ASSUME NEW v \in Archivers, NEW i \in DOMAIN run'[v].batch
        PROVE  sources[run'[v].batch[i].id].status # "absent"
    BY <1>1, <2>1 DEF BatchesExist, Workers
  <2>2. ASSUME NEW v \in Verifiers \cup Extractors, NEW i \in DOMAIN run'[v].batch
        PROVE  sources[run'[v].batch[i].id].status \notin {"absent", "collected"}
    BY <1>1, <2>2 DEF BatchesExist, Workers
  <2> QED BY <2>1, <2>2 DEF BatchesExist
<1>3. \A s \in Sources : lock[s] # w
  BY FreeIsFree DEF DraftsHaveWriters, BeginBatch
<1>4. ASSUME NEW v \in Verifiers, NEW i \in DOMAIN run'[v].batch
      PROVE  LET item == run'[v].batch[i] IN
               /\ lock[item.id] # v
               /\ \A j \in DOMAIN run'[v].batch : i # j => run'[v].batch[j].id # item.id
               /\ item.status # "absent"
               /\ item.status = "extracted" => Ledger!Linked(item.id)
  <2>1. CASE v = w
    BY <1>1, <1>3, <2>1 DEF ExtractedHasEvidence
  <2>2. CASE v # w
    BY <1>1, <2>2 DEF ChecksToCome, Workers
  <2> QED BY <2>1, <2>2
<1>5. ChecksToCome'
  BY <1>4 DEF ChecksToCome, Ledger!Linked
<1>6. ASSUME NEW v \in Verifiers, run'[v].open
      PROVE  run'[v].now \in 1..day
  <2>1. CASE v = w
    BY <1>1, <2>1 DEF TimeIsPast, TypeOK
  <2>2. CASE v # w
    BY <1>1, <1>6, <2>2 DEF TimeIsPast, Workers
  <2> QED BY <2>1, <2>2
<1>7. \A v \in Workers : run[v].open => run'[v].open
  BY <1>1
<1> QED
  BY <1>1, <1>2, <1>5, <1>6, <1>7, RunStep DEF TypeOK

\* The invariant is inductive.
LEMMA NextInv == LifecycleInv /\ [Next]_vars => LifecycleInv'
<1> SUFFICES ASSUME LifecycleInv, [Next]_vars PROVE LifecycleInv'
  OBVIOUS
<1> USE DEF LifecycleInv
<1>1. ASSUME NEW w \in Collectors, CollectBegin(w) PROVE LifecycleInv'
  <2>1. PICK n \in 1..MaxItems : \E q \in [1..n -> Sources] :
          run' = [run EXCEPT ![w] =
                   [open  |-> TRUE,
                    batch |-> [i \in 1..n |-> [id |-> q[i], status |-> "absent"]],
                    now   |-> collects + 1]]
    BY <1>1 DEF CollectBegin
  <2>2. PICK q \in [1..n -> Sources] :
          run' = [run EXCEPT ![w] =
                   [open  |-> TRUE,
                    batch |-> [i \in 1..n |-> [id |-> q[i], status |-> "absent"]],
                    now   |-> collects + 1]]
    BY <2>1
  <2> DEFINE b == [i \in 1..n |-> [id |-> q[i], status |-> "absent"]]
  <2>3. b \in Seq(Pending)
    BY BoundsType DEF Pending
  <2> HIDE DEF b
  <2>4. /\ run' \in RunsType
        /\ run'[w].open
        /\ \A v \in Workers : v # w => run'[v] = run[v]
    BY <2>2, <2>3 DEF b, TypeOK, RunsType, Workers
  <2>5. collects' \in Nat /\ UNCHANGED <<sources, draft, lock, evidence, day, failures>>
    BY <1>1 DEF CollectBegin, TypeOK
  <2>6. \A v \in Archivers \cup Verifiers \cup Extractors : run'[v] = run[v]
    BY <2>4, RolesDisjoint DEF Workers
  <2>7. BatchesExist' /\ ChecksToCome'
    <3>1. BatchesExist'
      BY <2>5, <2>6 DEF BatchesExist
    <3>2. ChecksToCome'
      <4> SUFFICES ASSUME NEW v \in Verifiers, NEW i \in DOMAIN run'[v].batch
                   PROVE  LET item == run'[v].batch[i] IN
                            /\ lock'[item.id] # v
                            /\ \A j \in DOMAIN run'[v].batch : i # j => run'[v].batch[j].id # item.id
                            /\ item.status # "absent"
                            /\ item.status = "extracted" => Ledger!Linked(item.id)
        BY <2>5 DEF ChecksToCome, Ledger!Linked
      <4> QED
        BY <2>5, <2>6 DEF ChecksToCome
    <3> QED BY <3>1, <3>2
  <2> QED
    BY <2>4, <2>5, <2>6, <2>7, RunStep DEF TypeOK, TimeIsPast
<1>2. ASSUME NEW w \in Collectors, CollectItem(w) PROVE LifecycleInv'
  <2> DEFINE s == Item(w).id
  <2>1. /\ w \in Workers \ Extractors /\ HasItem(w) /\ DropItem(w)
        /\ UNCHANGED <<sources, evidence, collects, day, failures>>
    BY <1>2, RolesDisjoint DEF CollectItem, Workers
  <2>2. CASE draft[s].status = "absent" /\ Write(w, s, Collected(run[w].now))
    <3>1. s \in Sources /\ run[w].now \in Nat
      BY <2>1, BatchShrinks DEF Pending, TypeOK
    <3>2. lock[s] = Free /\ sources[s].status = "absent"
      <4>1. lock[s] # w
        BY <2>2, <3>1, <1>2, CapturedRow DEF DraftsAreSteps, TypeOK
      <4> QED
        BY <2>2, <3>1, <4>1, FreeIsFree DEF Write, DraftsHaveWriters, Workers
    <3> QED
      <4>1. sources[s] \in Row
        BY <3>1 DEF TypeOK
      <4>2. /\ Collected(run[w].now) \in Row
            /\ Captured(sources[s], Collected(run[w].now))
        BY <3>1, <3>2, <4>1, NewRow DEF TypeOK
      <4>3. w \notin Archivers /\ w \notin Verifiers
        BY RolesDisjoint
      <4> QED
        BY <2>1, <2>2, <4>2, <4>3, WriteStep
  <2>3. CASE UNCHANGED <<draft, lock>>
    <3>1. BatchesExist' /\ ChecksToCome'
      BY <2>1, <2>3, BatchesGoOn DEF Onward
    <3> QED
      BY <2>1, <2>3, <3>1, BatchShrinks, RunStep DEF TypeOK, TimeIsPast, Workers, RunsType
  <2> QED BY <1>2, <2>2, <2>3 DEF CollectItem
<1>3. ASSUME NEW w \in Workers, HasItem(w), DropItem(w),
             UNCHANGED <<sources, draft, lock, evidence, collects, day>>,
             failures' \in Nat
      PROVE  LifecycleInv'
  <2>1. BatchesExist' /\ ChecksToCome'
    BY <1>3, BatchesGoOn DEF Onward
  <2> QED
    BY <1>3, <2>1, BatchShrinks, RunStep DEF TypeOK, TimeIsPast, Workers, RunsType
<1>4. ASSUME NEW w \in Collectors, CollectItemError(w) PROVE LifecycleInv'
  <2>1. w \in Workers
    BY DEF Workers
  <2>2. /\ HasItem(w) /\ DropItem(w)
        /\ UNCHANGED <<sources, draft, lock, evidence, collects, day>>
        /\ failures' = failures + 1
    BY <1>4 DEF CollectItemError
  <2>3. failures' \in Nat
    BY <2>2 DEF TypeOK
  <2> HIDE DEF LifecycleInv
  <2> QED BY <1>3, <2>1, <2>2, <2>3
<1>5. ASSUME NEW w \in Archivers, ArchiveBegin(w) PROVE LifecycleInv'
  <2>1. w \in Workers /\ w \notin Collectors /\ w \notin Verifiers \cup Extractors
    BY RolesDisjoint DEF Workers
  <2> QED
    BY <1>5, <2>1, BeginStep DEF ArchiveBegin
<1>6. ASSUME NEW w \in Archivers, ArchiveItem(w) PROVE LifecycleInv'
  <2> DEFINE s == Item(w).id
  <2>1. /\ w \in Workers /\ w \notin Extractors
        /\ w \notin Collectors /\ w \notin Verifiers
        /\ HasItem(w) /\ DropItem(w)
        /\ UNCHANGED <<sources, evidence, collects, day, failures>>
    BY <1>6, RolesDisjoint DEF ArchiveItem, Workers
  <2>2. PICK url \in {"empty", "url"} : Write(w, s, WithText(s, draft[s], url))
    BY <1>6 DEF ArchiveItem
  <2>3. /\ s \in Sources
        /\ 1 \in DOMAIN run[w].batch /\ s = run[w].batch[1].id
    BY <2>1, BatchShrinks DEF Pending
  <2>4. draft[s] \in Row /\ sources[s] \in Row /\ sources[s].status # "absent"
    BY <2>3 DEF TypeOK, BatchesExist
  <2>5. \/ draft[s] = sources[s]
        \/ Archived(s, sources[s], draft[s])
    BY <2>1, <2>2, <2>3, FreeIsFree DEF Write, DraftsHaveWriters, DraftsAreSteps, Workers
  <2>6. /\ WithText(s, draft[s], url) \in Row
        /\ Archived(s, sources[s], WithText(s, draft[s], url))
    <3>1. url \in {"empty", "url"}
      BY <2>2
    <3> HIDE DEF s, LifecycleInv
    <3> QED BY <2>3, <2>4, <2>5, <3>1, ArchivedAgain
  <2> QED
    BY <2>1, <2>2, <2>3, <2>6, WriteStep
<1>7. ASSUME NEW w \in Verifiers, VerifyBegin(w) PROVE LifecycleInv'
  <2>1. w \in Workers /\ w \notin Collectors
    BY RolesDisjoint DEF Workers
  <2> QED
    BY <1>7, <2>1, BeginStep DEF VerifyBegin, Due, Verifiable
<1>8. ASSUME NEW w \in Verifiers, VerifyItem(w) PROVE LifecycleInv'
  <2> DEFINE s == Item(w).id
  <2>1. /\ w \in Workers /\ w \notin Extractors
        /\ w \notin Collectors /\ w \notin Archivers
        /\ HasItem(w) /\ DropItem(w) /\ run[w].open
        /\ UNCHANGED <<sources, evidence, collects, day, failures>>
    BY <1>8, RolesDisjoint DEF VerifyItem, HasItem, Workers
  <2>2. PICK outcome \in Outcomes : Write(w, s, WithCheck(draft[s], outcome, Item(w).status, run[w].now))
    BY <1>8 DEF VerifyItem
  <2>3. /\ s \in Sources /\ Item(w).status \in Statuses \cup {"absent"}
        /\ 1 \in DOMAIN run[w].batch /\ Item(w) = run[w].batch[1]
    BY <2>1, BatchShrinks DEF Pending
  <2>4. /\ sources[s] \in Row
        /\ sources[s].status \notin {"absent", "collected"}
        /\ Item(w).status \in Statuses
        /\ Item(w).status = "extracted" => Ledger!Linked(s)
        /\ lock[s] # w
    BY <2>3 DEF TypeOK, BatchesExist, ChecksToCome
  <2>5. draft[s] = sources[s]
    BY <2>2, <2>3, <2>4, FreeIsFree DEF Write, DraftsHaveWriters, Workers
  <2>6. run[w].now \in Nat \ {0}
    BY <2>1 DEF TimeIsPast, TypeOK
  <2>7. /\ WithCheck(draft[s], outcome, Item(w).status, run[w].now) \in Row
        /\ Checked(Ledger!Linked(s), sources[s], WithCheck(draft[s], outcome, Item(w).status, run[w].now))
    BY <2>4, <2>5, <2>6, CheckedNow
  <2>8. PICK row \in Row : row = WithCheck(draft[s], outcome, Item(w).status, run[w].now)
    BY <2>7
  <2>9. Write(w, s, row) /\ Checked(Ledger!Linked(s), sources[s], row)
    BY <2>2, <2>7, <2>8
  <2> HIDE DEF LifecycleInv
  <2> QED
    BY <2>1, <2>9, WriteStep
<1>9. ASSUME NEW w \in Extractors, ExtractBegin(w) PROVE LifecycleInv'
  <2>1. w \in Workers /\ w \notin Collectors
    BY RolesDisjoint DEF Workers
  <2> QED
    BY <1>9, <2>1, BeginStep DEF ExtractBegin
<1>10. ASSUME NEW w \in Extractors, ExtractItem(w) PROVE LifecycleInv'
  BY <1>10, ExtractStep
<1>11. ASSUME NEW w \in Workers, Commit(w) PROVE LifecycleInv'
  BY <1>11, CommitStep
<1>12. ASSUME NEW w \in Workers, Fail(w) PROVE LifecycleInv'
  BY <1>12, RollbackStep DEF Fail, TypeOK
<1>13. ASSUME NEW w \in Workers, DeadlockVictim(w) PROVE LifecycleInv'
  <2>1. CASE w \in Collectors
    <3>1. HasItem(w)
      BY <1>13 DEF DeadlockVictim, Deadlocked, WaitsFor
    <3> QED
      BY <1>3, <1>13, <2>1, <3>1 DEF DeadlockVictim, TypeOK
  <2>2. CASE w \notin Collectors
    BY <1>13, <2>2, RollbackStep DEF DeadlockVictim, TypeOK
  <2> QED BY <2>1, <2>2
<1>14. ASSUME NextDay PROVE LifecycleInv'
  <2>1. /\ day' = day + 1
        /\ UNCHANGED <<sources, draft, lock, evidence, run, collects, failures>>
    BY <1>14 DEF NextDay
  <2>2. TypeOK' /\ TimeIsPast'
    BY <2>1 DEF TypeOK, TimeIsPast, Row
  <2>3. DraftsHaveWriters' /\ DraftsAreSteps'
    BY <2>1 DEF DraftsHaveWriters, DraftsAreSteps, Ledger!Linked
  <2>4. BatchesExist' /\ ChecksToCome'
    BY <2>1 DEF BatchesExist, ChecksToCome, Ledger!Linked
  <2>5. TextCaptured' /\ EvidenceGrounded' /\ ExtractedHasEvidence' /\ VerdictIsLogged'
    BY <2>1 DEF TextCaptured, EvidenceGrounded, ExtractedHasEvidence, VerdictIsLogged, Ledger!Linked
  <2> QED BY <2>2, <2>3, <2>4, <2>5
<1>15. CASE UNCHANGED vars
  <2>1. BatchesExist' /\ ChecksToCome'
    BY <1>15 DEF vars, BatchesExist, ChecksToCome, Ledger!Linked
  <2> QED
    BY <1>15, <2>1, RunStep DEF vars, TypeOK, RunsType, TimeIsPast
<1> QED
  BY <1>1, <1>2, <1>4, <1>5, <1>6, <1>7, <1>8, <1>9, <1>10, <1>11, <1>12, <1>13, <1>14, <1>15
     DEF Next, Collect, Archive, Verify, Extract

\* Every reachable state satisfies the inductive invariant: the rows under way
\* of source_pipeline.go are one step of the ledger ahead of the committed
\* ones, whichever runs overlap or fail.
THEOREM Invariance == Spec => []LifecycleInv
<1>1. Init => LifecycleInv
  BY InitInv
<1>2. LifecycleInv /\ [Next]_vars => LifecycleInv'
  BY NextInv
<1> QED
  BY <1>1, <1>2, PTL DEF Spec

\* The variables keep their types (schema: sources, source_verifications).
THEOREM TypeCorrect == Spec => []TypeOK
<1>1. LifecycleInv => TypeOK
  BY DEF LifecycleInv
<1> QED
  BY <1>1, Invariance, PTL

\* The later stages find the captured text, for any number of overlapping or
\* failing runs (source_pipeline.go:159, 235).
THEOREM TextStaysCaptured == Spec => []TextCaptured
<1>1. LifecycleInv => TextCaptured
  BY DEF LifecycleInv
<1> QED
  BY <1>1, Invariance, PTL

\* No fact is linked to a source that does not contain it (extract.go:176).
THEOREM EvidenceStaysGrounded == Spec => []EvidenceGrounded
<1>1. LifecycleInv => EvidenceGrounded
  BY DEF LifecycleInv
<1> QED
  BY <1>1, Invariance, PTL

\* Status 'extracted' always stands for a linked fact, although verify writes
\* it from a row it read earlier (source_pipeline.go:285).
THEOREM ExtractedStaysBacked == Spec => []ExtractedHasEvidence
<1>1. LifecycleInv => ExtractedHasEvidence
  BY DEF LifecycleInv
<1> QED
  BY <1>1, Invariance, PTL

\* The verdict and the date of a row are those of one and the same logged check,
\* for any number of overlapping verifiers; nothing is said of which one of the
\* log it is (source_pipeline.go:228, 235).
THEOREM VerdictsStayLogged == Spec => []VerdictIsLogged
<1>1. LifecycleInv => VerdictIsLogged
  BY DEF LifecycleInv
<1> QED
  BY <1>1, Invariance, PTL

-----------------------------------------------------------------------------
(* The ledger.                                                             *)

\* The ledger speaks of the same rows.
LEMMA SameRows ==
  /\ Ledger!Row = Row
  /\ Ledger!NoRow = NoRow
  /\ \A old, new : Captured(old, new) <=> Ledger!Captured(old, new)
  /\ \A s, old, new : Archived(s, old, new) <=> Ledger!Archived(s, old, new)
  /\ \A linked, old, new : Checked(linked, old, new) <=> Ledger!Checked(linked, old, new)
  /\ \A row : Ledger!WithFacts(row) = WithFacts(row)
<1>1. Ledger!Row = Row /\ Ledger!NoRow = NoRow
  BY DEF Row, NoRow, Statuses, Outcomes, Verification,
         Ledger!Row, Ledger!NoRow, Ledger!Statuses, Ledger!Outcomes, Ledger!Verification
<1>2. \A now : Ledger!Collected(now) = Collected(now)
  BY <1>1 DEF Collected, Ledger!Collected
<1>3. \A old, new : Captured(old, new) <=> Ledger!Captured(old, new)
  BY <1>2 DEF Captured, Ledger!Captured
<1>4. \A s, old, new : Archived(s, old, new) <=> Ledger!Archived(s, old, new)
  BY DEF Archived, Ledger!Archived, WithText, Ledger!WithText, stripHTML, Ledger!stripHTML
<1>5. \A outcome, seen : Ledger!mapSourceStatus(outcome, seen) = mapSourceStatus(outcome, seen)
  BY DEF mapSourceStatus, Ledger!mapSourceStatus
<1>6. \A row, outcome, seen, now :
        Ledger!WithCheck(row, outcome, seen, now) = WithCheck(row, outcome, seen, now)
  BY <1>5 DEF WithCheck, Ledger!WithCheck, Logged, Ledger!Logged
<1>7. Ledger!Outcomes = Outcomes /\ Ledger!Statuses = Statuses
  BY DEF Statuses, Outcomes, Ledger!Statuses, Ledger!Outcomes
<1>8. \A linked, old, new : Checked(linked, old, new) <=> Ledger!Checked(linked, old, new)
  BY <1>6, <1>7 DEF Checked, Ledger!Checked
<1>9. \A row : Ledger!WithFacts(row) = WithFacts(row)
  BY DEF WithFacts, Ledger!WithFacts
<1> QED
  BY <1>1, <1>3, <1>4, <1>8, <1>9

\* A commit is one batch of the ledger.
LEMMA CommitRefines ==
  ASSUME LifecycleInv, LifecycleInv',
         NEW w \in Workers, Commit(w)
  PROVE  Ledger!Next \/ UNCHANGED Ledger!ledger
<1>1. /\ sources' = [s \in Sources |-> IF lock[s] = w THEN draft[s] ELSE sources[s]]
      /\ UNCHANGED evidence
  BY DEF Commit
<1>2. Ledger!Batch
  BY <1>1, SameRows DEF LifecycleInv, TypeOK, Ledger!Batch
<1>3. ASSUME NEW s \in Sources, lock[s] # w
      PROVE  Ledger!Kept(s)
  BY <1>1, <1>3 DEF Ledger!Kept
<1>4. ASSUME NEW s \in Sources, lock[s] = w
      PROVE  sources'[s] = draft[s]
  BY <1>1, <1>4
<1>5. CASE w \in Collectors
  <2>1. \A s \in Sources : lock[s] = w => Ledger!Captured(sources[s], sources'[s])
    BY <1>4, <1>5, SameRows DEF LifecycleInv, DraftsAreSteps
  <2> QED BY <1>2, <1>3, <2>1 DEF Ledger!Capture, Ledger!Next
<1>6. CASE w \in Archivers
  <2>1. \A s \in Sources : lock[s] = w => Ledger!Archived(s, sources[s], sources'[s])
    BY <1>4, <1>6, SameRows DEF LifecycleInv, DraftsAreSteps
  <2> QED BY <1>2, <1>3, <2>1 DEF Ledger!Archive, Ledger!Next
<1>7. CASE w \in Verifiers
  <2>1. \A s \in Sources : lock[s] = w => Ledger!Checked(Ledger!Linked(s), sources[s], sources'[s])
    BY <1>4, <1>7, SameRows DEF LifecycleInv, DraftsAreSteps
  <2> QED BY <1>2, <1>3, <2>1 DEF Ledger!Check, Ledger!Next
<1>8. CASE w \in Extractors
  <2>1. \A s \in Sources : lock[s] # w
    BY <1>8, FreeIsFree DEF LifecycleInv, DraftsHaveWriters, Workers
  <2>2. sources' = sources
    BY <1>1, <2>1 DEF LifecycleInv, TypeOK
  <2> QED BY <1>1, <2>2 DEF Ledger!ledger
<1> QED BY <1>5, <1>6, <1>7, <1>8 DEF Workers

\* The transaction of one source is one extraction of the ledger.
LEMMA ExtractRefines ==
  ASSUME LifecycleInv,
         NEW w \in Extractors, ExtractItem(w)
  PROVE  Ledger!Next \/ UNCHANGED Ledger!ledger
<1> DEFINE s == Item(w).id
<1>1. w \in Workers /\ HasItem(w) /\ DropItem(w)
  BY DEF ExtractItem, Workers
<1>2. /\ s \in Sources
      /\ 1 \in DOMAIN run[w].batch /\ s = run[w].batch[1].id
  BY <1>1, BatchShrinks DEF LifecycleInv, Pending
<1>3. sources[s].raw_text = stripHTML(s)
  BY <1>2 DEF LifecycleInv, BatchesExist, TextCaptured
<1>4. PICK proposal \in SUBSET Facts :
        /\ s \in Blank => proposal = {}
        /\ evidence' = evidence \cup {<<f, s>> : f \in Accepted(s, proposal)}
        /\ IF Accepted(s, proposal) = {}
             THEN UNCHANGED <<sources, draft>>
             ELSE /\ lock[s] = Free
                  /\ sources' = [sources EXCEPT ![s] = WithFacts(@)]
                  /\ draft'   = [draft EXCEPT ![s] = WithFacts(@)]
  BY DEF ExtractItem, Proposals
<1> DEFINE accepted == Accepted(s, proposal)
<1>5. /\ accepted \in SUBSET Facts
      /\ accepted \subseteq Grounded[s]
      /\ accepted \subseteq proposal
      /\ \A f \in accepted, t \in Sources : <<f, t>> \notin evidence
  BY DEF Accepted, HasStatement
<1> HIDE DEF s, accepted
<1>6. CASE accepted = {}
  BY <1>4, <1>6 DEF accepted, Ledger!ledger
<1>7. CASE accepted # {}
  <2>1. sources[s].raw_text = "text"
    BY <1>3, <1>4, <1>5, <1>7 DEF stripHTML
  <2>2. sources' = [sources EXCEPT ![s] = Ledger!WithFacts(@)]
    BY <1>4, <1>7, SameRows DEF accepted
  <2>3. evidence' = evidence \cup {<<f, s>> : f \in accepted}
    BY <1>4 DEF accepted
  <2> QED
    BY <1>2, <1>5, <1>7, <2>1, <2>2, <2>3 DEF Ledger!Extract, Ledger!Next
<1> QED BY <1>6, <1>7

\* The pipeline implements the ledger: readers see whole runs, each check with
\* its log row, and only grounded links, whatever runs overlap, deadlock or
\* fail (the transactions of source_pipeline.go and extract.go).
THEOREM Refinement == Spec => ImplementsLedger
<1>1. Init => Ledger!Init
  BY SameRows DEF Init, Ledger!Init
<1>2. LifecycleInv /\ LifecycleInv' /\ [Next]_vars => [Ledger!Next]_(Ledger!ledger)
  <2> SUFFICES ASSUME LifecycleInv, LifecycleInv', [Next]_vars
               PROVE  Ledger!Next \/ UNCHANGED Ledger!ledger
    OBVIOUS
  <2>1. ASSUME NEW w \in Workers, Commit(w)
        PROVE  Ledger!Next \/ UNCHANGED Ledger!ledger
    BY <2>1, CommitRefines
  <2>2. ASSUME NEW w \in Extractors, ExtractItem(w)
        PROVE  Ledger!Next \/ UNCHANGED Ledger!ledger
    BY <2>2, ExtractRefines
  <2>3. CASE UNCHANGED <<sources, evidence>>
    BY <2>3 DEF Ledger!ledger
  <2>4. ASSUME NEW w \in Workers, Fail(w) \/ DeadlockVictim(w)
        PROVE  UNCHANGED <<sources, evidence>>
    BY <2>4 DEF Fail, DeadlockVictim
  <2>5. ASSUME NEW w \in Collectors, Collect(w)
        PROVE  UNCHANGED <<sources, evidence>>
    BY <2>5 DEF Collect, CollectBegin, CollectItem, CollectItemError
  <2>6. ASSUME NEW w \in Archivers, Archive(w)
        PROVE  UNCHANGED <<sources, evidence>>
    BY <2>6 DEF Archive, ArchiveBegin, ArchiveItem
  <2>7. ASSUME NEW w \in Verifiers, Verify(w)
        PROVE  UNCHANGED <<sources, evidence>>
    BY <2>7 DEF Verify, VerifyBegin, VerifyItem
  <2>8. ASSUME NEW w \in Extractors, ExtractBegin(w)
        PROVE  UNCHANGED <<sources, evidence>>
    BY <2>8 DEF ExtractBegin
  <2>9. CASE NextDay \/ UNCHANGED vars
    BY <2>9, <2>3 DEF NextDay, vars
  <2> QED
    BY <2>1, <2>2, <2>3, <2>4, <2>5, <2>6, <2>7, <2>8, <2>9 DEF Next, Extract
<1> QED
  BY <1>1, <1>2, Invariance, PTL DEF Spec, ImplementsLedger, Ledger!Spec

-----------------------------------------------------------------------------
(* What the ledger alone guarantees: whoever implements it keeps the rows  *)
(* sound and the history complete.                                         *)

RowsSound ==
  /\ sources \in [Sources -> Row]
  /\ evidence \subseteq Facts \X Sources
  /\ TextCaptured /\ EvidenceGrounded /\ ExtractedHasEvidence /\ VerdictIsLogged

\* What is captured stays as it was: its row, its fetched_at, its text and the
\* log of its checks, and all links.
HistoryKept ==
  /\ evidence \subseteq evidence'
  /\ \A s \in Sources : sources[s].status # "absent" =>
       /\ sources'[s].status # "absent"
       /\ sources'[s].fetched_at = sources[s].fetched_at
       /\ sources[s].raw_text # "null" => sources'[s].raw_text = sources[s].raw_text
       /\ \A i \in DOMAIN sources[s].log :
            i \in DOMAIN sources'[s].log /\ sources'[s].log[i] = sources[s].log[i]

\* What a step of the ledger makes of a row.
RowAfter(s, new) ==
  /\ new.status \in {"absent", "collected"} <=> new.raw_text = "null"
  /\ new.raw_text \in {"null", stripHTML(s)}
  /\ new.status = "extracted" => Ledger!Linked(s)
  /\ new.last_verified_at > 0 <=> new.log # <<>>
  /\ new.status \in {"verified", "link-rot", "content-changed"} => ShowsLoggedCheck(new)
  /\ sources[s].status # "absent" =>
       /\ new.status # "absent"
       /\ new.fetched_at = sources[s].fetched_at
       /\ sources[s].raw_text # "null" => new.raw_text = sources[s].raw_text
       /\ \A i \in DOMAIN sources[s].log :
            i \in DOMAIN new.log /\ new.log[i] = sources[s].log[i]
  /\ sources[s].raw_text = "text" => new.raw_text = "text"

LEMMA LedgerRow ==
  ASSUME RowsSound, NEW s \in Sources, NEW new \in Row,
         \/ Captured(sources[s], new)
         \/ Archived(s, sources[s], new)
         \/ Checked(Ledger!Linked(s), sources[s], new)
         \/ new = sources[s]
  PROVE  RowAfter(s, new)
<1> DEFINE old == sources[s]
<1>1. /\ old \in Row
      /\ old.status \in {"absent", "collected"} <=> old.raw_text = "null"
      /\ old.raw_text \in {"null", stripHTML(s)}
      /\ old.status = "extracted" => Ledger!Linked(s)
      /\ old.last_verified_at > 0 <=> old.log # <<>>
      /\ old.status \in {"verified", "link-rot", "content-changed"} => ShowsLoggedCheck(old)
  BY DEF RowsSound, TextCaptured, ExtractedHasEvidence, VerdictIsLogged
<1>2. old.last_verified_at \in Nat /\ old.log \in Seq(Verification)
  BY <1>1 DEF Row
<1>3. stripHTML(s) # "null"
  BY DEF stripHTML
<1> HIDE DEF old
<1>4. CASE Captured(old, new)
  BY <1>1, <1>4, CapturedRow DEF old, RowAfter
<1>5. CASE Archived(s, old, new)
  <2>1. /\ old.status # "absent" /\ new.status = "archived" /\ new.raw_text = stripHTML(s)
        /\ new.last_verified_at = old.last_verified_at /\ new.log = old.log
    BY <1>1, <1>5, ArchivedRow
  <2>2. new.fetched_at = old.fetched_at
    BY <1>1, <1>5 DEF Archived, WithText, Row
  <2> QED BY <1>1, <1>2, <1>3, <2>1, <2>2 DEF old, RowAfter
<1>6. CASE Checked(Ledger!Linked(s), old, new)
  <2>1. PICK outcome \in Outcomes, seen \in Statuses :
          new = WithCheck(old, outcome, seen, new.last_verified_at)
    BY <1>6 DEF Checked
  <2>2. /\ new.log = Append(old.log, [outcome |-> outcome, at |-> new.last_verified_at])
        /\ new.fetched_at = old.fetched_at
    BY <1>1, <2>1 DEF WithCheck, Logged, Row
  <2>3. \A i \in DOMAIN old.log : i \in DOMAIN new.log /\ new.log[i] = old.log[i]
    BY <1>2, <2>2, LastOfAppend
  <2>4. /\ old.status \notin {"absent", "collected"}
        /\ new.status \in {"extracted", "verified", "link-rot", "content-changed"}
        /\ new.status = "extracted" => Ledger!Linked(s)
        /\ new.raw_text = old.raw_text
        /\ new.last_verified_at > 0 /\ new.log # <<>>
        /\ new.status # "extracted" => ShowsLoggedCheck(new)
    BY <1>1, <1>6, CheckedRow
  <2> QED BY <1>1, <2>2, <2>3, <2>4 DEF old, RowAfter
<1>7. CASE new = old
  BY <1>1, <1>2, <1>7 DEF old, RowAfter
<1> QED BY <1>4, <1>5, <1>6, <1>7 DEF old

LEMMA LedgerStep ==
  ASSUME RowsSound, [Ledger!Next]_(Ledger!ledger)
  PROVE  RowsSound' /\ HistoryKept
<1>1. CASE Ledger!Capture \/ Ledger!Archive \/ Ledger!Check \/ UNCHANGED Ledger!ledger
  <2>1. sources' \in [Sources -> Row] /\ UNCHANGED evidence
    BY <1>1, SameRows DEF Ledger!Capture, Ledger!Archive, Ledger!Check, Ledger!Batch, Ledger!ledger, RowsSound
  <2>2. ASSUME NEW s \in Sources
        PROVE  \/ Captured(sources[s], sources'[s])
               \/ Archived(s, sources[s], sources'[s])
               \/ Checked(Ledger!Linked(s), sources[s], sources'[s])
               \/ sources'[s] = sources[s]
    BY <1>1, SameRows DEF Ledger!Capture, Ledger!Archive, Ledger!Check, Ledger!Kept, Ledger!ledger
  <2>3. \A s \in Sources : Ledger!Linked(s)' <=> Ledger!Linked(s)
    BY <2>1 DEF Ledger!Linked
  <2>4. ASSUME NEW s \in Sources
        PROVE  RowAfter(s, sources'[s])
    <3>1. sources'[s] \in Row
      BY <2>1
    <3> QED BY <2>2, <3>1, LedgerRow
  <2>5. TextCaptured'
    BY <2>4 DEF TextCaptured, stripHTML, RowAfter
  <2>6. EvidenceGrounded'
    <3>1. \A e \in evidence : e[2] \in Sources
      BY DEF RowsSound
    <3> QED BY <2>1, <2>4, <3>1 DEF EvidenceGrounded, RowsSound, RowAfter
  <2>7. ExtractedHasEvidence'
    BY <2>3, <2>4 DEF ExtractedHasEvidence, RowAfter
  <2>8. VerdictIsLogged'
    BY <2>4 DEF VerdictIsLogged, VerdictOf, RowAfter
  <2>9. HistoryKept
    BY <2>1, <2>4 DEF HistoryKept, RowAfter
  <2> QED BY <2>1, <2>5, <2>6, <2>7, <2>8, <2>9 DEF RowsSound
<1>2. CASE Ledger!Extract
  <2>1. PICK s \in Sources, facts \in SUBSET Facts :
          /\ facts # {} /\ facts \subseteq Grounded[s] /\ sources[s].raw_text = "text"
          /\ evidence' = evidence \cup {<<f, s>> : f \in facts}
          /\ sources' = [sources EXCEPT ![s] = WithFacts(@)]
    BY <1>2, SameRows DEF Ledger!Extract
  <2>2. \A t \in Sources : sources[t] \in Row
    BY DEF RowsSound
  <2>3. /\ sources'[s] \in Row /\ sources'[s].status = "extracted"
        /\ sources'[s].raw_text = sources[s].raw_text
        /\ sources'[s].fetched_at = sources[s].fetched_at
        /\ sources'[s].last_verified_at = sources[s].last_verified_at
        /\ sources'[s].log = sources[s].log
    BY <2>1, <2>2 DEF WithFacts, Row, Statuses, RowsSound
  <2>4. \A t \in Sources : t # s => sources'[t] = sources[t]
    BY <2>1 DEF RowsSound
  <2>5. sources' \in [Sources -> Row]
    BY <2>1, <2>3 DEF RowsSound
  <2>6. evidence' \subseteq Facts \X Sources /\ evidence \subseteq evidence'
    BY <2>1 DEF RowsSound
  <2>7. \A t \in Sources : Ledger!Linked(t) => Ledger!Linked(t)'
    BY <2>6 DEF Ledger!Linked
  <2>8. Ledger!Linked(s)'
    <3>1. PICK f \in facts : TRUE
      BY <2>1
    <3>2. <<f, s>> \in evidence' /\ f \in Facts
      BY <2>1
    <3> QED BY <3>2 DEF Ledger!Linked
  <2>9. TextCaptured'
    BY <2>1, <2>3, <2>4 DEF RowsSound, TextCaptured, stripHTML
  <2>10. EvidenceGrounded'
    <3>1. ASSUME NEW e \in evidence
          PROVE  e[1] \in Grounded[e[2]] /\ sources'[e[2]].raw_text = "text"
      <4>1. e[2] \in Sources
        BY DEF RowsSound
      <4> QED BY <2>3, <2>4, <4>1 DEF RowsSound, EvidenceGrounded
    <3>2. ASSUME NEW f \in facts PROVE f \in Grounded[s] /\ sources'[s].raw_text = "text"
      BY <2>1, <2>3
    <3> QED BY <2>1, <3>1, <3>2 DEF EvidenceGrounded
  <2>11. ExtractedHasEvidence'
    BY <2>4, <2>7, <2>8 DEF RowsSound, ExtractedHasEvidence
  <2>12. VerdictIsLogged'
    BY <2>3, <2>4 DEF RowsSound, VerdictIsLogged, VerdictOf
  <2>13. HistoryKept
    <3>1. \A t \in Sources : sources[t].last_verified_at \in Nat
      BY <2>2 DEF Row
    <3> QED BY <2>3, <2>4, <2>6, <3>1 DEF HistoryKept
  <2> QED BY <2>5, <2>6, <2>9, <2>10, <2>11, <2>12, <2>13 DEF RowsSound
<1> QED BY <1>1, <1>2 DEF Ledger!Next

LEMMA LedgerBegins == Ledger!Init => RowsSound
<1> SUFFICES ASSUME Ledger!Init PROVE RowsSound
  OBVIOUS
<1>1. sources = [s \in Sources |-> NoRow] /\ evidence = {}
  BY SameRows DEF Ledger!Init
<1>2. /\ NoRow \in Row /\ NoRow.status = "absent" /\ NoRow.raw_text = "null"
      /\ NoRow.last_verified_at = 0 /\ NoRow.log = <<>>
  BY DEF NoRow, Row
<1> QED
  BY <1>1, <1>2 DEF RowsSound, TextCaptured, EvidenceGrounded, ExtractedHasEvidence, VerdictIsLogged, stripHTML

\* The safety of the rows is a consequence of the ledger's promise alone, without
\* transactions and locks: any pipeline that commits whole captures, archivals,
\* checks and extractions has it.
THEOREM LedgerIsSound == ImplementsLedger => []RowsSound
<1> QED BY LedgerBegins, LedgerStep, PTL DEF ImplementsLedger, Ledger!Spec

\* Nothing is deleted, and nothing overwritten but the status, the URL of the
\* snapshot and the date of the last check (README.md:21), which an overlapping
\* verifier may even set back: whatever overlaps, restarts or fails, a captured
\* source keeps its fetched_at, its text, every line of its log and every link
\* of a fact (source_pipeline.go:159, 228, 235, extract.go:189).
THEOREM HistoryStaysKept == Spec => [][HistoryKept]_vars
<1>1. RowsSound /\ [Ledger!Next]_(Ledger!ledger) => [HistoryKept]_vars
  BY LedgerStep
<1> QED BY <1>1, LedgerIsSound, Refinement, PTL DEF ImplementsLedger, Ledger!Spec

-----------------------------------------------------------------------------
(* What the schedule adds: with one verifier the checks of a source are    *)
(* dated more than Age apart, with one archiver it is archived once.  And  *)
(* what the ORDER BY of the batches adds, for any number of workers: those *)
(* who wait for each other in a circle are at rows of the same fetched_at. *)

\* A row whose checks are dated more than Age apart, none after the date that
\* it shows.
SpacedOut(row) ==
  /\ \A i \in DOMAIN row.log : row.log[i].at \in 1..row.last_verified_at
  /\ \A i, j \in DOMAIN row.log : i < j => row.log[i].at + Age < row.log[j].at

\* A row that was never checked, or more than Age before `now`.
DueAt(row, now) == row.last_verified_at = 0 \/ row.last_verified_at + Age < now

\* With one verifier all rows are spaced out, and what it still has to check was
\* due when its run began and still is.
ChecksAreDue ==
  /\ \A s \in Sources : SpacedOut(sources[s]) /\ SpacedOut(draft[s])
  /\ \A w \in Verifiers : run[w].open =>
       \A i \in DOMAIN run[w].batch :
         DueAt(sources[run[w].batch[i].id], run[w].now)

\* With one archiver: what it has written or still has to write is committed as
\* 'collected' only.
ArchivesAreNew ==
  /\ \A s \in Sources : lock[s] \in Archivers => sources[s].status = "collected"
  /\ \A w \in Archivers : \A i \in DOMAIN run[w].batch :
       sources[run[w].batch[i].id].status = "collected"

\* Whoever updates several rows goes through them, and has locked them, in the
\* order of fetched_at.
LocksInOrder ==
  \A w \in Archivers \cup Verifiers : \A i \in DOMAIN run[w].batch :
    LET fetched == sources[run[w].batch[i].id].fetched_at IN
      /\ \A j \in DOMAIN run[w].batch :
           i < j => fetched <= sources[run[w].batch[j].id].fetched_at
      /\ \A s \in Sources : lock[s] = w => sources[s].fetched_at <= fetched

\* concurrencyPolicy: Forbid of the CronJob that runs the workers of S.
AtMostOne(S) == \A v, w \in S : v = w

-----------------------------------------------------------------------------
(* What a step does to a row, to a lock and to a batch.                    *)

\* A committed row changes when its writer commits, or by an extraction that
\* finds it unlocked; either way it is unlocked afterwards.
LEMMA NextRow ==
  ASSUME LifecycleInv, [Next]_vars, NEW s \in Sources, sources'[s] # sources[s]
  PROVE  /\ lock'[s] = Free
         /\ \/ /\ lock[s] \in Workers /\ run'[lock[s]] = Idle
               /\ sources'[s] = draft[s]
            \/ /\ sources[s].status \notin {"absent", "collected"}
               /\ sources'[s] = WithFacts(sources[s])
<1>1. ASSUME NEW w \in Workers, Commit(w)
      PROVE  lock[s] = w /\ lock'[s] = Free /\ run'[w] = Idle /\ sources'[s] = draft[s]
  BY <1>1 DEF Commit, Release, LifecycleInv, TypeOK
<1>2. ASSUME NEW w \in Extractors, ExtractItem(w)
      PROVE  /\ lock'[s] = Free
             /\ sources[s].status \notin {"absent", "collected"}
             /\ sources'[s] = WithFacts(sources[s])
  <2>1. w \in Workers /\ HasItem(w) /\ DropItem(w) /\ lock' = lock
    BY <1>2 DEF ExtractItem, Workers
  <2>2. PICK t : t = Item(w).id
    OBVIOUS
  <2>3. t \in Sources /\ sources[t].status \notin {"absent", "collected"}
    BY <2>1, <2>2, <1>2, BatchShrinks DEF LifecycleInv, BatchesExist, Pending
  <2>4. lock[t] = Free /\ sources' = [sources EXCEPT ![t] = WithFacts(@)]
    BY <1>2, <2>2 DEF ExtractItem
  <2>5. s = t
    BY <2>3, <2>4 DEF LifecycleInv, TypeOK
  <2> QED BY <2>1, <2>3, <2>4, <2>5 DEF LifecycleInv, TypeOK
<1>3. ASSUME NEW w \in Workers, Fail(w) \/ DeadlockVictim(w) PROVE FALSE
  BY <1>3 DEF Fail, DeadlockVictim
<1>4. ASSUME NEW w \in Collectors, Collect(w) PROVE FALSE
  BY <1>4 DEF Collect, CollectBegin, CollectItem, CollectItemError
<1>5. ASSUME NEW w \in Archivers, Archive(w) PROVE FALSE
  BY <1>5 DEF Archive, ArchiveBegin, ArchiveItem
<1>6. ASSUME NEW w \in Verifiers, Verify(w) PROVE FALSE
  BY <1>6 DEF Verify, VerifyBegin, VerifyItem
<1>7. ASSUME NEW w \in Extractors, ExtractBegin(w) PROVE FALSE
  BY <1>7 DEF ExtractBegin
<1>8. ~NextDay /\ ~UNCHANGED vars
  BY DEF NextDay, vars
<1> QED
  BY <1>1, <1>2, <1>3, <1>4, <1>5, <1>6, <1>7, <1>8 DEF Next, Extract

\* A row is locked by the worker that writes it, as the next item of its batch.
LEMMA NextLock ==
  ASSUME LifecycleInv, [Next]_vars, NEW s \in Sources,
         NEW w \in Workers, lock'[s] = w, lock[s] # w
  PROVE  /\ HasItem(w) /\ DropItem(w) /\ Item(w).id = s
         /\ lock[s] = Free
         /\ UNCHANGED sources
<1>1. \A v \in Workers : Release(v) => lock'[s] # w
  BY FreeIsFree DEF Release
<1>2. ASSUME NEW v \in Workers, NEW row, HasItem(v), Write(v, Item(v).id, row)
      PROVE  v = w /\ Item(v).id = s /\ lock[s] = Free
  <2> DEFINE t == Item(v).id
  <2>1. /\ lock' = [lock EXCEPT ![t] = v]
        /\ lock[t] \in {Free, v}
    BY <1>2 DEF Write
  <2> HIDE DEF t
  <2> QED BY <2>1 DEF LifecycleInv, TypeOK, t
<1>3. lock' # lock
  OBVIOUS
<1>4. ASSUME NEW v \in Workers, Commit(v) \/ Fail(v) PROVE FALSE
  BY <1>1, <1>4 DEF Commit, Fail, Rollback
<1>5. ASSUME NEW v \in Workers, DeadlockVictim(v) PROVE FALSE
  BY <1>1, <1>3, <1>5 DEF DeadlockVictim, Rollback
<1>6. ASSUME NEW v \in Collectors, Collect(v)
      PROVE  /\ HasItem(v) /\ DropItem(v) /\ UNCHANGED sources
             /\ \E row : Write(v, Item(v).id, row)
  BY <1>3, <1>6 DEF Collect, CollectBegin, CollectItem, CollectItemError
<1>7. ASSUME NEW v \in Archivers, Archive(v)
      PROVE  /\ HasItem(v) /\ DropItem(v) /\ UNCHANGED sources
             /\ \E row : Write(v, Item(v).id, row)
  BY <1>3, <1>7 DEF Archive, ArchiveBegin, ArchiveItem
<1>8. ASSUME NEW v \in Verifiers, Verify(v)
      PROVE  /\ HasItem(v) /\ DropItem(v) /\ UNCHANGED sources
             /\ \E row : Write(v, Item(v).id, row)
  BY <1>3, <1>8 DEF Verify, VerifyBegin, VerifyItem
<1>9. ASSUME NEW v \in Extractors, Extract(v) PROVE FALSE
  BY <1>3, <1>9 DEF Extract, ExtractBegin, ExtractItem
<1>10. ~NextDay /\ ~UNCHANGED vars
  BY <1>3 DEF NextDay, vars
<1>11. \E v \in Workers : /\ HasItem(v) /\ DropItem(v) /\ UNCHANGED sources
                          /\ \E row : Write(v, Item(v).id, row)
  BY <1>4, <1>5, <1>6, <1>7, <1>8, <1>9, <1>10 DEF Next, Workers
<1> QED BY <1>2, <1>11

\* What an archiver or verifier reads when its run begins.
BatchQuery(w) == IF w \in Archivers THEN {s \in Sources : sources[s].status = "collected"}
                                    ELSE {s \in Sources : Due(s)}

\* The batch of an archiver or verifier is read, worked off, or given up.
LEMMA NextBatch ==
  ASSUME LifecycleInv, [Next]_vars,
         NEW w \in Archivers \cup Verifiers, run'[w] # run[w]
  PROVE  \/ run'[w] = Idle
         \/ HasItem(w) /\ DropItem(w) /\ UNCHANGED sources
         \/ BeginBatch(w, BatchQuery(w)) /\ UNCHANGED <<sources, lock>>
<1>1. w \in Workers /\ run \in RunsType
  BY DEF Workers, LifecycleInv, TypeOK, RunsType
<1>2. ASSUME NEW v \in Workers, Commit(v) \/ Fail(v)
      PROVE  run'[w] = Idle
  <2>1. run' = [run EXCEPT ![v] = Idle]
    BY <1>2 DEF Commit, Fail, Rollback
  <2> QED BY <1>1, <2>1 DEF RunsType
<1>3. ASSUME NEW v \in Workers, DropItem(v) PROVE v = w
  BY <1>1, <1>3 DEF DropItem, RunsType
<1>4. ASSUME NEW v \in Workers, NEW eligible, BeginBatch(v, eligible) PROVE v = w
  BY <1>1, <1>4 DEF BeginBatch, RunsType
<1>5. ASSUME NEW v \in Workers, DeadlockVictim(v)
      PROVE  run'[w] = Idle
  <2>1. CASE v \in Collectors
    BY <1>3, <1>5, <2>1, RolesDisjoint DEF DeadlockVictim
  <2>2. CASE v \notin Collectors
    <3>1. run' = [run EXCEPT ![v] = Idle]
      BY <1>5, <2>2 DEF DeadlockVictim, Rollback
    <3> QED BY <1>1, <3>1 DEF RunsType
  <2> QED BY <2>1, <2>2
<1>6. ASSUME NEW v \in Collectors, Collect(v)
      PROVE  HasItem(w) /\ DropItem(w) /\ UNCHANGED sources
  <2>1. v \in Workers /\ v # w
    BY RolesDisjoint DEF Workers
  <2>2. ~CollectBegin(v)
    BY <1>1, <2>1 DEF CollectBegin, RunsType
  <2> QED BY <1>3, <1>6, <2>1, <2>2 DEF Collect, CollectItem, CollectItemError
<1>7. ASSUME NEW v \in Archivers, Archive(v)
      PROVE  \/ HasItem(w) /\ DropItem(w) /\ UNCHANGED sources
             \/ BeginBatch(w, BatchQuery(w)) /\ UNCHANGED <<sources, lock>>
  BY <1>3, <1>4, <1>7 DEF Archive, ArchiveBegin, ArchiveItem, BatchQuery, Workers
<1>8. ASSUME NEW v \in Verifiers, Verify(v)
      PROVE  \/ HasItem(w) /\ DropItem(w) /\ UNCHANGED sources
             \/ BeginBatch(w, BatchQuery(w)) /\ UNCHANGED <<sources, lock>>
  <2>1. v \in Workers /\ v \notin Archivers
    BY RolesDisjoint DEF Workers
  <2> QED
    BY <1>3, <1>4, <1>8, <2>1 DEF Verify, VerifyBegin, VerifyItem, BatchQuery
<1>9. ASSUME NEW v \in Extractors, Extract(v) PROVE FALSE
  <2>1. v \in Workers /\ v # w
    BY RolesDisjoint DEF Workers
  <2> QED BY <1>3, <1>4, <1>9, <2>1 DEF Extract, ExtractBegin, ExtractItem
<1>10. ~NextDay /\ ~UNCHANGED vars
  BY DEF NextDay, vars
<1> QED
  BY <1>2, <1>5, <1>6, <1>7, <1>8, <1>9, <1>10 DEF Next

\* Until the next run, what is in a batch was in it before.
LEMMA WhatIsLeft ==
  ASSUME LifecycleInv,
         NEW w \in Workers,
         \/ run'[w] = run[w]
         \/ run'[w] = Idle
         \/ HasItem(w) /\ DropItem(w),
         NEW i \in DOMAIN run'[w].batch
  PROVE  /\ run'[w].open = run[w].open /\ run'[w].now = run[w].now
         /\ run'[w].batch[i].id \in Sources
         /\ \E j \in DOMAIN run[w].batch : run'[w].batch[i] = run[w].batch[j]
<1>1. \A j \in DOMAIN run[w].batch : run[w].batch[j] \in Pending
  BY DEF LifecycleInv, TypeOK
<1>2. CASE run'[w] = run[w]
  BY <1>1, <1>2 DEF Pending
<1>3. CASE run'[w] = Idle
  BY <1>3 DEF Idle
<1>4. CASE HasItem(w) /\ DropItem(w)
  BY <1>1, <1>4, BatchShrinks DEF LifecycleInv, Pending
<1> QED BY <1>2, <1>3, <1>4

\* A worker that holds a lock is under way, so one that begins holds none.
LEMMA BeginsUnlocked ==
  ASSUME LifecycleInv, NEW w \in Workers, ~run[w].open, NEW s \in Sources
  PROVE  lock[s] # w
BY FreeIsFree DEF LifecycleInv, DraftsHaveWriters

\* What a check leaves of a row besides status, log and date.
LEMMA CheckedKeeps ==
  ASSUME NEW linked, NEW old \in Row, NEW new \in Row, Checked(linked, old, new)
  PROVE  /\ new.archive_url = old.archive_url
         /\ new.fetched_at = old.fetched_at
BY DEF Checked, WithCheck, Row

-----------------------------------------------------------------------------
(* One archiver.                                                           *)

\* While the one archiver has a row in hand, nobody moves it on.
LEMMA NewStep ==
  ASSUME AtMostOne(Archivers)
  PROVE  LifecycleInv /\ ArchivesAreNew /\ [Next]_vars => ArchivesAreNew'
<1> SUFFICES ASSUME LifecycleInv, ArchivesAreNew, [Next]_vars PROVE ArchivesAreNew'
  OBVIOUS
<1>1. ASSUME NEW s \in Sources, sources[s].status = "collected", sources'[s] # sources[s]
      PROVE  /\ lock'[s] = Free
             /\ lock[s] \in Archivers /\ run'[lock[s]] = Idle
  <2>1. /\ lock'[s] = Free
        /\ lock[s] \in Workers /\ run'[lock[s]] = Idle
    BY <1>1, NextRow
  <2>2. lock[s] \notin Collectors /\ lock[s] \notin Verifiers /\ lock[s] \notin Extractors
    BY <1>1, <2>1, FreeIsFree DEF LifecycleInv, DraftsHaveWriters, DraftsAreSteps, Captured, Checked
  <2> QED BY <2>1, <2>2 DEF Workers
<1>2. ASSUME NEW s \in Sources, NEW w \in Archivers, lock'[s] = w
      PROVE  sources'[s].status = "collected"
  <2>1. w \in Workers
    BY DEF Workers
  <2>2. sources[s].status = "collected"
    <3>1. CASE lock[s] = w
      BY <3>1 DEF ArchivesAreNew
    <3>2. CASE lock[s] # w
      <4>1. HasItem(w) /\ DropItem(w) /\ Item(w).id = s
        BY <1>2, <2>1, <3>2, NextLock
      <4>2. 1 \in DOMAIN run[w].batch /\ Item(w) = run[w].batch[1]
        BY <2>1, <4>1, BatchShrinks DEF LifecycleInv
      <4> QED BY <4>1, <4>2 DEF ArchivesAreNew
    <3> QED BY <3>1, <3>2
  <2> QED BY <1>1, <1>2, <2>1, <2>2, FreeIsFree
<1>3. ASSUME NEW w \in Archivers, NEW i \in DOMAIN run'[w].batch
      PROVE  sources'[run'[w].batch[i].id].status = "collected"
  <2>1. w \in Workers
    BY DEF Workers
  <2>2. CASE BeginBatch(w, BatchQuery(w)) /\ UNCHANGED <<sources, lock>>
    <3>1. BatchQuery(w) \in SUBSET Sources
      BY DEF BatchQuery
    <3>2. run'[w].batch[i].id \in BatchQuery(w)
      BY <2>1, <2>2, <3>1, BatchBegins DEF LifecycleInv
    <3> QED BY <2>2, <3>2 DEF BatchQuery
  <2>3. CASE run'[w] = run[w] \/ run'[w] = Idle \/ (HasItem(w) /\ DropItem(w))
    <3>1. PICK s \in Sources : s = run'[w].batch[i].id
      BY <2>1, <2>3, WhatIsLeft
    <3>2. sources[s].status = "collected"
      BY <2>1, <2>3, <3>1, WhatIsLeft DEF ArchivesAreNew
    <3>3. run'[w] # Idle
      BY DEF Idle
    <3> QED BY <1>1, <3>1, <3>2, <3>3 DEF AtMostOne
  <2> QED BY <2>2, <2>3, NextBatch
<1> QED BY <1>2, <1>3 DEF ArchivesAreNew

\* With one archiver, its rows stay 'collected' for every reader until it
\* commits, whatever the other workers do meanwhile (source_pipeline.go:124).
THEOREM ArchivesStayNew ==
  ASSUME AtMostOne(Archivers)
  PROVE  Spec => []ArchivesAreNew
<1>1. Init => ArchivesAreNew
  BY FreeIsFree DEF Init, ArchivesAreNew, Idle, Workers
<1>2. LifecycleInv /\ ArchivesAreNew /\ [Next]_vars => ArchivesAreNew'
  BY NewStep
<1> QED BY <1>1, <1>2, Invariance, PTL DEF Spec

\* The archiver that concurrencyPolicy Forbid keeps alone archives a source
\* once: no later step changes its snapshot URL or queues it for extraction
\* again (source_pipeline.go:124, 159).
THEOREM NeverArchivedTwice ==
  ASSUME AtMostOne(Archivers)
  PROVE  Spec => ArchivedOnce
<1>1. LifecycleInv /\ ArchivesAreNew /\ [Next]_vars =>
        [\A s \in Sources :
           sources[s].status \notin {"absent", "collected"} =>
             /\ sources'[s].archive_url = sources[s].archive_url
             /\ sources'[s].status = "archived" => sources[s].status = "archived"]_vars
  <2> SUFFICES ASSUME LifecycleInv, ArchivesAreNew, [Next]_vars,
                      NEW s \in Sources,
                      sources[s].status \notin {"absent", "collected"},
                      sources'[s] # sources[s]
               PROVE  /\ sources'[s].archive_url = sources[s].archive_url
                      /\ sources'[s].status = "archived" => sources[s].status = "archived"
    OBVIOUS
  <2>1. sources[s] \in Row /\ draft[s] \in Row
    BY DEF LifecycleInv, TypeOK
  <2>2. CASE lock[s] \in Workers /\ sources'[s] = draft[s]
    <3>1. lock[s] \in Verifiers
      BY <2>2, FreeIsFree
         DEF Workers, LifecycleInv, DraftsHaveWriters, DraftsAreSteps, ArchivesAreNew, Captured
    <3>2. Checked(Ledger!Linked(s), sources[s], draft[s])
      BY <3>1 DEF LifecycleInv, DraftsAreSteps
    <3>3. draft[s].archive_url = sources[s].archive_url
      BY <2>1, <3>2, CheckedKeeps
    <3>4. draft[s].status # "archived"
      BY <2>1, <3>2, CheckedRow
    <3> QED
      BY <2>2, <3>3, <3>4
  <2>3. CASE sources'[s] = WithFacts(sources[s])
    BY <2>1, <2>3 DEF WithFacts, Row
  <2> QED BY <2>2, <2>3, NextRow
<1> QED
  BY <1>1, Invariance, ArchivesStayNew, PTL DEF Spec, ArchivedOnce

-----------------------------------------------------------------------------
(* One verifier.                                                           *)

LEMMA SpacedOutRows ==
  /\ \A now \in Nat : SpacedOut(Collected(now))
  /\ \A s \in Sources, row \in Row : SpacedOut(row) =>
       \A url : SpacedOut(WithText(s, row, url))
  /\ \A row \in Row : SpacedOut(row) => SpacedOut(WithFacts(row))
  /\ \A row \in Row, outcome \in Outcomes, now \in Nat \ {0} :
       SpacedOut(row) /\ DueAt(row, now)
         => \A seen : SpacedOut(WithCheck(row, outcome, seen, now))
<1>1. \A now \in Nat : Collected(now).log = <<>> /\ Collected(now).last_verified_at = 0
  BY DEF Collected, NoRow
<1>2. \A s \in Sources, row \in Row : \A url :
        /\ WithText(s, row, url).log = row.log
        /\ WithText(s, row, url).last_verified_at = row.last_verified_at
  BY DEF WithText, Row
<1>3. \A row \in Row : /\ WithFacts(row).log = row.log
                       /\ WithFacts(row).last_verified_at = row.last_verified_at
  BY DEF WithFacts, Row
<1>4. ASSUME NEW row \in Row, NEW outcome \in Outcomes, NEW seen, NEW now \in Nat \ {0},
             SpacedOut(row), DueAt(row, now)
      PROVE  SpacedOut(WithCheck(row, outcome, seen, now))
  <2> DEFINE new == WithCheck(row, outcome, seen, now)
             last == row.last_verified_at
  <2>1. /\ new.log = Append(row.log, [outcome |-> outcome, at |-> now])
        /\ new.last_verified_at = now
    BY DEF WithCheck, Logged, Row
  <2>2. row.log \in Seq(Verification) /\ last \in Nat /\ Age \in Nat
    BY BoundsType DEF Row
  <2> HIDE DEF new
  <2>3. PICK n \in Nat : /\ n = Len(row.log) /\ DOMAIN row.log = 1..n
                         /\ DOMAIN new.log = 1..n+1
                         /\ new.log[n + 1].at = now
                         /\ \A i \in 1..n : new.log[i] = row.log[i]
    BY <2>1, <2>2
  <2>4. \A i \in 1..n : row.log[i].at \in 1..last
    BY <1>4, <2>3 DEF SpacedOut
  <2>5. \A i \in 1..n : row.log[i].at \in Nat \ {0} /\ row.log[i].at + Age < now
    BY <1>4, <2>2, <2>4 DEF DueAt
  <2>6. ASSUME NEW i \in 1..n+1 PROVE new.log[i].at \in 1..now
    <3>1. CASE i = n + 1
      BY <2>3, <3>1
    <3>2. CASE i # n + 1
      <4>1. i \in 1..n /\ new.log[i] = row.log[i]
        BY <2>3, <3>2
      <4>2. row.log[i].at \in Nat \ {0} /\ row.log[i].at + Age < now
        BY <2>5, <4>1
      <4> QED BY <2>2, <4>1, <4>2
    <3> QED BY <3>1, <3>2
  <2>7. ASSUME NEW i \in 1..n+1, NEW j \in 1..n+1, i < j
        PROVE  new.log[i].at + Age < new.log[j].at
    <3>1. CASE j = n + 1
      BY <2>3, <2>5, <2>7, <3>1
    <3>2. CASE j # n + 1
      <4>1. i \in 1..n /\ j \in 1..n
        BY <2>7, <3>2
      <4> QED BY <1>4, <2>3, <2>7, <4>1 DEF SpacedOut
    <3> QED BY <3>1, <3>2
  <2>8. SpacedOut(new)
    BY <2>1, <2>3, <2>6, <2>7 DEF SpacedOut
  <2> QED BY <2>8 DEF new
<1>5. \A i : i \notin DOMAIN <<>>
  OBVIOUS
<1>6. \A row, new : /\ new.log = row.log
                   /\ new.last_verified_at = row.last_verified_at
                   /\ SpacedOut(row)
                   => SpacedOut(new)
  BY DEF SpacedOut
<1>7. \A now \in Nat : SpacedOut(Collected(now))
  BY <1>1, <1>5 DEF SpacedOut
<1> QED BY <1>2, <1>3, <1>4, <1>6, <1>7

\* The newest version of a row changes by a roll-back or by one of the four
\* ways to write it.
LEMMA NextDraft ==
  ASSUME LifecycleInv, [Next]_vars, NEW s \in Sources, draft'[s] # draft[s]
  PROVE  \/ draft'[s] = sources[s]
         \/ \E now \in Nat : draft'[s] = Collected(now)
         \/ \E url : draft'[s] = WithText(s, draft[s], url)
         \/ draft'[s] = WithFacts(draft[s])
         \/ \E w \in Verifiers, outcome \in Outcomes :
              /\ HasItem(w) /\ DropItem(w) /\ Item(w).id = s
              /\ draft[s] = sources[s]
              /\ draft'[s] = WithCheck(draft[s], outcome, Item(w).status, run[w].now)
<1> USE DEF LifecycleInv
<1>1. ASSUME NEW w \in Workers, Commit(w) PROVE FALSE
  BY <1>1 DEF Commit
<1>2. ASSUME NEW w \in Workers, Rollback(w) PROVE draft'[s] = sources[s]
  BY <1>2 DEF Rollback
<1>3. ASSUME NEW w \in Workers, Fail(w) \/ DeadlockVictim(w) PROVE draft'[s] = sources[s]
  BY <1>2, <1>3 DEF Fail, DeadlockVictim
<1>4. ASSUME NEW w \in Workers, HasItem(w), DropItem(w), NEW row, Write(w, Item(w).id, row)
      PROVE  Item(w).id = s /\ draft'[s] = row /\ lock[s] \in {Free, w}
  <2> DEFINE t == Item(w).id
  <2>1. t \in Sources
    BY <1>4, BatchShrinks DEF Pending
  <2>2. draft' = [draft EXCEPT ![t] = row] /\ lock[t] \in {Free, w}
    BY <1>4 DEF Write
  <2> HIDE DEF t
  <2>3. t = s
    BY <2>1, <2>2 DEF TypeOK
  <2> QED BY <2>1, <2>2, <2>3 DEF TypeOK, t
<1>5. ASSUME NEW w \in Collectors, Collect(w)
      PROVE  \E now \in Nat : draft'[s] = Collected(now)
  <2>1. w \in Workers
    BY DEF Workers
  <2>2. HasItem(w) /\ DropItem(w) /\ Write(w, Item(w).id, Collected(run[w].now))
    BY <1>5 DEF Collect, CollectBegin, CollectItem, CollectItemError
  <2>3. run[w].now \in Nat
    BY <2>1 DEF TypeOK
  <2> QED BY <1>4, <2>1, <2>2, <2>3
<1>6. ASSUME NEW w \in Archivers, Archive(w)
      PROVE  \E url : draft'[s] = WithText(s, draft[s], url)
  <2>1. w \in Workers
    BY DEF Workers
  <2>2. PICK url : /\ HasItem(w) /\ DropItem(w)
                   /\ Write(w, Item(w).id, WithText(Item(w).id, draft[Item(w).id], url))
    BY <1>6 DEF Archive, ArchiveBegin, ArchiveItem
  <2> QED BY <1>4, <2>1, <2>2
<1>7. ASSUME NEW w \in Verifiers, Verify(w)
      PROVE  \E outcome \in Outcomes :
               /\ HasItem(w) /\ DropItem(w) /\ Item(w).id = s
               /\ draft[s] = sources[s]
               /\ draft'[s] = WithCheck(draft[s], outcome, Item(w).status, run[w].now)
  <2>1. w \in Workers
    BY DEF Workers
  <2>2. PICK outcome \in Outcomes :
          /\ HasItem(w) /\ DropItem(w)
          /\ Write(w, Item(w).id, WithCheck(draft[Item(w).id], outcome, Item(w).status, run[w].now))
    BY <1>7 DEF Verify, VerifyBegin, VerifyItem
  <2>3. /\ Item(w).id = s /\ lock[s] \in {Free, w}
        /\ draft'[s] = WithCheck(draft[Item(w).id], outcome, Item(w).status, run[w].now)
    BY <1>4, <2>1, <2>2
  <2>4. 1 \in DOMAIN run[w].batch /\ Item(w) = run[w].batch[1]
    BY <2>1, <2>2, BatchShrinks
  <2>5. lock[s] # w
    BY <2>3, <2>4 DEF ChecksToCome
  <2>6. draft[s] = sources[s]
    BY <2>3, <2>5, FreeIsFree DEF DraftsHaveWriters, Workers
  <2> QED BY <2>2, <2>3, <2>6
<1>8. ASSUME NEW w \in Extractors, Extract(w) PROVE draft'[s] = WithFacts(draft[s])
  <2>1. PICK t : draft' = [draft EXCEPT ![t] = WithFacts(@)]
    BY <1>8 DEF Extract, ExtractBegin, ExtractItem
  <2> QED BY <2>1 DEF TypeOK
<1>9. ~NextDay /\ ~UNCHANGED vars
  BY DEF NextDay, vars
<1> QED
  BY <1>1, <1>3, <1>5, <1>6, <1>7, <1>8, <1>9 DEF Next

\* What the one verifier still has to check was not checked today.
LEMMA DueStep ==
  ASSUME AtMostOne(Verifiers)
  PROVE  LifecycleInv /\ ChecksAreDue /\ [Next]_vars => ChecksAreDue'
<1> SUFFICES ASSUME LifecycleInv, ChecksAreDue, [Next]_vars PROVE ChecksAreDue'
  OBVIOUS
<1> USE DEF LifecycleInv
<1>1. \A s \in Sources : /\ sources[s] \in Row /\ SpacedOut(sources[s])
                         /\ draft[s] \in Row /\ SpacedOut(draft[s])
  BY DEF ChecksAreDue, TypeOK
<1>2. ASSUME NEW s \in Sources PROVE SpacedOut(sources'[s])
  <2>1. CASE sources'[s] \in {sources[s], draft[s]}
    BY <1>1, <2>1
  <2>2. CASE sources'[s] = WithFacts(sources[s])
    BY <1>1, <2>2, SpacedOutRows
  <2> QED BY <2>1, <2>2, NextRow
<1>3. ASSUME NEW s \in Sources PROVE SpacedOut(draft'[s])
  <2>1. CASE draft'[s] \in {sources[s], draft[s]}
    BY <1>1, <2>1
  <2>2. CASE \E now \in Nat : draft'[s] = Collected(now)
    BY <2>2, SpacedOutRows
  <2>3. CASE \E url : draft'[s] = WithText(s, draft[s], url)
    BY <1>1, <2>3, SpacedOutRows
  <2>4. CASE draft'[s] = WithFacts(draft[s])
    BY <1>1, <2>4, SpacedOutRows
  <2>5. ASSUME NEW w \in Verifiers, NEW outcome \in Outcomes,
               HasItem(w), DropItem(w), Item(w).id = s, draft[s] = sources[s],
               draft'[s] = WithCheck(draft[s], outcome, Item(w).status, run[w].now)
        PROVE  SpacedOut(draft'[s])
    <3>1. w \in Workers /\ run[w].open /\ run[w].now \in Nat \ {0}
      BY <2>5 DEF Workers, HasItem, TypeOK, TimeIsPast
    <3>2. 1 \in DOMAIN run[w].batch /\ Item(w) = run[w].batch[1]
      BY <2>5, <3>1, BatchShrinks
    <3>3. DueAt(draft[s], run[w].now)
      BY <2>5, <3>1, <3>2 DEF ChecksAreDue
    <3> QED BY <1>1, <2>5, <3>1, <3>3, SpacedOutRows
  <2> QED BY <2>1, <2>2, <2>3, <2>4, <2>5, NextDraft
<1>4. ASSUME NEW w \in Verifiers, run'[w].open, NEW i \in DOMAIN run'[w].batch
      PROVE  DueAt(sources'[run'[w].batch[i].id], run'[w].now)
  <2>1. w \in Workers
    BY DEF Workers
  <2>2. CASE BeginBatch(w, BatchQuery(w)) /\ UNCHANGED <<sources, lock>>
    <3>1. BatchQuery(w) \in SUBSET Sources
      BY DEF BatchQuery
    <3>2. run'[w].batch[i].id \in BatchQuery(w) /\ run'[w].now = day
      BY <2>1, <2>2, <3>1, BatchBegins
    <3>3. w \notin Archivers
      BY RolesDisjoint
    <3> QED BY <2>2, <3>2, <3>3 DEF BatchQuery, Due, NeverChecked, DueAt
  <2>3. CASE run'[w] = run[w] \/ run'[w] = Idle \/ (HasItem(w) /\ DropItem(w))
    <3>1. PICK s \in Sources : s = run'[w].batch[i].id
      BY <2>1, <2>3, WhatIsLeft
    <3>2. /\ run[w].open /\ run'[w].now = run[w].now
          /\ DueAt(sources[s], run[w].now)
          /\ sources[s].status \notin {"absent", "collected"}
      BY <1>4, <2>1, <2>3, <3>1, WhatIsLeft DEF ChecksAreDue, BatchesExist
    <3>3. CASE sources'[s] = sources[s]
      BY <3>1, <3>2, <3>3
    <3>4. CASE sources'[s] = WithFacts(sources[s])
      <4>1. sources'[s].last_verified_at = sources[s].last_verified_at
        BY <1>1, <3>4, ExtractedRow
      <4> QED BY <3>1, <3>2, <4>1 DEF DueAt
    <3>5. CASE lock[s] \in Workers /\ run'[lock[s]] = Idle /\ sources'[s] = draft[s]
      <4>1. lock[s] # w
        BY <1>4, <3>5 DEF Idle
      <4>2. lock[s] \in Archivers
        BY <3>2, <3>5, <4>1, FreeIsFree
           DEF Workers, AtMostOne, DraftsHaveWriters, DraftsAreSteps, Captured
      <4>3. Archived(s, sources[s], draft[s])
        BY <4>2 DEF DraftsAreSteps
      <4>4. draft[s].last_verified_at = sources[s].last_verified_at
        BY <1>1, <4>3, ArchivedRow
      <4> QED BY <3>1, <3>2, <3>5, <4>4 DEF DueAt
    <3> QED BY <3>3, <3>4, <3>5, NextRow
  <2> QED BY <2>2, <2>3, NextBatch
<1> QED BY <1>2, <1>3, <1>4 DEF ChecksAreDue

\* With one verifier, a selected source is due until it is checked, whatever
\* archive and extract do to the row between its selection and its check
\* (source_pipeline.go:198, 228).
THEOREM ChecksStayDue ==
  ASSUME AtMostOne(Verifiers)
  PROVE  Spec => []ChecksAreDue
<1>1. Init => ChecksAreDue
  <2>1. SpacedOut(NoRow)
    <3>1. NoRow.log = <<>> /\ \A i : i \notin DOMAIN <<>>
      BY DEF NoRow
    <3> QED BY <3>1 DEF SpacedOut
  <2> QED BY <2>1 DEF Init, ChecksAreDue, Idle, Workers
<1>2. LifecycleInv /\ ChecksAreDue /\ [Next]_vars => ChecksAreDue'
  BY DueStep
<1> QED BY <1>1, <1>2, Invariance, PTL DEF Spec

\* The verifier that concurrencyPolicy Forbid keeps alone never checks a source
\* again within --age-days: any two checks are dated more than Age apart, however
\* long its transactions stay open (source_pipeline.go:198, 237).
THEOREM NeverCheckedTwice ==
  ASSUME AtMostOne(Verifiers)
  PROVE  Spec => []CheckedOncePerPeriod
<1>1. LifecycleInv /\ ChecksAreDue => CheckedOncePerPeriod
  <2> SUFFICES ASSUME LifecycleInv, ChecksAreDue, NEW s \in Sources,
                      NEW i \in DOMAIN sources[s].log, NEW j \in DOMAIN sources[s].log, i # j
               PROVE  LET t == sources[s].log[i].at
                          u == sources[s].log[j].at
                      IN  t + Age < u \/ u + Age < t
    BY DEF CheckedOncePerPeriod
  <2>1. sources[s].log \in Seq(Verification)
    BY DEF LifecycleInv, TypeOK, Row
  <2>2. i < j \/ j < i
    BY <2>1
  <2> QED BY <2>2 DEF ChecksAreDue, SpacedOut
<1> QED BY <1>1, Invariance, ChecksStayDue, PTL

\* Its verdicts are never older than what it has logged: the row shows the date of
\* the latest check (source_pipeline.go:235).
THEOREM VerdictsStayLatest ==
  ASSUME AtMostOne(Verifiers)
  PROVE  Spec => []VerdictIsLatest
<1>1. LifecycleInv /\ ChecksAreDue => VerdictIsLatest
  <2> SUFFICES ASSUME LifecycleInv, ChecksAreDue,
                      NEW s \in Sources, NEW i \in DOMAIN sources[s].log
               PROVE  sources[s].log[i].at <= sources[s].last_verified_at
    BY DEF VerdictIsLatest
  <2>1. sources[s].log[i].at \in 1..sources[s].last_verified_at
    BY DEF ChecksAreDue, SpacedOut
  <2>2. sources[s].last_verified_at \in Nat
    BY DEF LifecycleInv, TypeOK, Row
  <2> QED BY <2>1, <2>2
<1> QED BY <1>1, Invariance, ChecksStayDue, PTL

-----------------------------------------------------------------------------
(* The order of the locks.                                                 *)

\* The ORDER BY of the batch queries.
LEMMA BatchBeginsInOrder ==
  ASSUME TypeOK,
         NEW w \in Workers,
         NEW eligible \in SUBSET Sources,
         BeginBatch(w, eligible)
  PROVE  \A i, j \in DOMAIN run'[w].batch : i < j =>
           sources[run'[w].batch[i].id].fetched_at <= sources[run'[w].batch[j].id].fetched_at
<1>1. PICK q \in Selections(eligible) :
        run' = [run EXCEPT ![w] =
                 [open  |-> TRUE,
                  batch |-> [i \in DOMAIN q |-> [id |-> q[i], status |-> sources[q[i]].status]],
                  now   |-> day]]
  BY DEF BeginBatch
<1> DEFINE b == [i \in DOMAIN q |-> [id |-> q[i], status |-> sources[q[i]].status]]
           n == IF Cardinality(eligible) < Limit THEN Cardinality(eligible) ELSE Limit
<1>2. /\ q \in [1..n -> eligible]
      /\ \A i, j \in 1..n : i < j => sources[q[i]].fetched_at <= sources[q[j]].fetched_at
  BY DEF Selections
<1>3. run'[w].batch = b
  BY <1>1 DEF TypeOK
<1>4. DOMAIN b = 1..n /\ \A i \in 1..n : b[i].id = q[i]
  BY <1>2
<1> HIDE DEF b, n
<1> QED BY <1>2, <1>3, <1>4

\* A row keeps its fetched_at.
LEMMA FetchedStays ==
  ASSUME LifecycleInv, [Next]_vars, NEW s \in Sources, sources[s].status # "absent"
  PROVE  /\ sources'[s].status # "absent"
         /\ sources'[s].fetched_at = sources[s].fetched_at
<1> USE DEF LifecycleInv
<1>1. sources[s] \in Row /\ draft[s] \in Row
  BY DEF TypeOK
<1>2. CASE sources'[s] = WithFacts(sources[s])
  BY <1>1, <1>2 DEF WithFacts, Row
<1>3. CASE lock[s] \in Workers /\ sources'[s] = draft[s]
  <2>1. \/ Archived(s, sources[s], draft[s])
        \/ Checked(Ledger!Linked(s), sources[s], draft[s])
    BY <1>3, FreeIsFree DEF Workers, DraftsHaveWriters, DraftsAreSteps, Captured
  <2>2. ASSUME Archived(s, sources[s], draft[s])
        PROVE  draft[s].status = "archived" /\ draft[s].fetched_at = sources[s].fetched_at
    BY <1>1, <2>2 DEF Archived, WithText, Row
  <2>3. ASSUME Checked(Ledger!Linked(s), sources[s], draft[s])
        PROVE  draft[s].status # "absent" /\ draft[s].fetched_at = sources[s].fetched_at
    BY <1>1, <2>3, CheckedRow, CheckedKeeps
  <2> QED BY <1>3, <2>1, <2>2, <2>3
<1> QED BY <1>2, <1>3, NextRow

\* What an archiver or verifier has in its batch, or has locked, is committed.
LEMMA InHandIsCommitted ==
  ASSUME LifecycleInv, NEW w \in Archivers \cup Verifiers
  PROVE  /\ \A i \in DOMAIN run[w].batch :
              /\ run[w].batch[i].id \in Sources
              /\ sources[run[w].batch[i].id].status # "absent"
         /\ \A s \in Sources : lock[s] = w => sources[s].status # "absent"
<1> USE DEF LifecycleInv
<1>1. \A i \in DOMAIN run[w].batch : run[w].batch[i] \in Pending
  BY DEF TypeOK, Workers
<1>2. \A s \in Sources : lock[s] = w => sources[s].status # "absent"
  BY DEF DraftsAreSteps, Archived, Checked
<1> QED BY <1>1, <1>2 DEF BatchesExist, Pending

LEMMA TailIsShorter ==
  ASSUME NEW S, NEW q \in Seq(S), q # <<>>
  PROVE  Tail(q) # q
<1>1. Len(Tail(q)) = Len(q) - 1 /\ Len(q) \in Nat
  OBVIOUS
<1>2. \A n \in Nat : n - 1 # n
  OBVIOUS
<1> QED BY <1>1, <1>2, Zenon

\* Batches are worked off, and their rows locked, in the order of fetched_at.
LEMMA OrderStep ==
  LifecycleInv /\ LocksInOrder /\ [Next]_vars => LocksInOrder'
<1> SUFFICES ASSUME LifecycleInv, LocksInOrder, [Next]_vars,
                    NEW w \in Archivers \cup Verifiers, NEW i \in DOMAIN run'[w].batch
             PROVE  LET fetched == sources'[run'[w].batch[i].id].fetched_at IN
                      /\ \A j \in DOMAIN run'[w].batch :
                           i < j => fetched <= sources'[run'[w].batch[j].id].fetched_at
                      /\ \A s \in Sources : lock'[s] = w => sources'[s].fetched_at <= fetched
  BY DEF LocksInOrder
<1> USE DEF LifecycleInv
<1>1. w \in Workers
  BY DEF Workers
<1>2. CASE BeginBatch(w, BatchQuery(w)) /\ UNCHANGED <<sources, lock>>
  <2>1. BatchQuery(w) \in SUBSET Sources
    BY DEF BatchQuery
  <2>2. \A j, k \in DOMAIN run'[w].batch : j < k =>
          sources[run'[w].batch[j].id].fetched_at <= sources[run'[w].batch[k].id].fetched_at
    BY <1>1, <1>2, <2>1, BatchBeginsInOrder
  <2>3. \A s \in Sources : lock[s] # w
    BY <1>1, <1>2, BeginsUnlocked DEF BeginBatch
  <2> QED BY <1>2, <2>2, <2>3
<1>3. CASE run'[w] = run[w] \/ run'[w] = Idle
  <2>1. run'[w] = run[w]
    BY <1>3 DEF Idle
  <2>2. \A j \in DOMAIN run[w].batch :
          sources'[run[w].batch[j].id].fetched_at = sources[run[w].batch[j].id].fetched_at
    BY InHandIsCommitted, FetchedStays
  <2>3. ASSUME NEW s \in Sources, lock'[s] = w
        PROVE  lock[s] = w /\ sources'[s].fetched_at = sources[s].fetched_at
    <3>1. ~(HasItem(w) /\ DropItem(w))
      <4>1. ASSUME HasItem(w), DropItem(w) PROVE FALSE
        <5>1. run[w].batch \in Seq(Pending) /\ run[w].batch # <<>>
          BY <1>1, <4>1 DEF HasItem, TypeOK
        <5>2. run'[w].batch = Tail(run[w].batch)
          BY <1>1, <4>1 DEF DropItem, TypeOK
        <5> QED BY <2>1, <5>1, <5>2, TailIsShorter
      <4> QED BY <4>1
    <3>2. lock[s] = w
      BY <1>1, <2>3, <3>1, NextLock
    <3> QED BY <3>2, InHandIsCommitted, FetchedStays
  <2> QED BY <2>1, <2>2, <2>3 DEF LocksInOrder
<1>4. CASE HasItem(w) /\ DropItem(w) /\ UNCHANGED sources
  <2>1. /\ 1 \in DOMAIN run[w].batch /\ Item(w) = run[w].batch[1]
        /\ \A j \in DOMAIN run'[w].batch :
             /\ j + 1 \in DOMAIN run[w].batch
             /\ j + 1 # 1
             /\ run'[w].batch[j] = run[w].batch[j + 1]
        /\ run[w].batch \in Seq(Pending) /\ run'[w].batch \in Seq(Pending)
    BY <1>1, <1>4, BatchShrinks DEF TypeOK
  <2>2. ASSUME NEW j \in DOMAIN run'[w].batch, i < j
        PROVE  sources[run'[w].batch[i].id].fetched_at <= sources[run'[w].batch[j].id].fetched_at
    <3>1. i + 1 < j + 1
      BY <2>1, <2>2
    <3> QED BY <2>1, <3>1 DEF LocksInOrder
  <2>3. ASSUME NEW s \in Sources, lock'[s] = w
        PROVE  sources[s].fetched_at <= sources[run'[w].batch[i].id].fetched_at
    <3>1. CASE lock[s] = w
      BY <2>1, <3>1 DEF LocksInOrder
    <3>2. CASE lock[s] # w
      <4>1. s = run[w].batch[1].id
        BY <1>1, <2>1, <2>3, <3>2, NextLock
      <4>2. 1 < i + 1
        BY <2>1
      <4> QED BY <2>1, <4>1, <4>2 DEF LocksInOrder
    <3> QED BY <3>1, <3>2
  <2> QED BY <1>4, <2>2, <2>3
<1> QED BY <1>2, <1>3, <1>4, NextBatch

-----------------------------------------------------------------------------
(* Circles of waits.                                                       *)

\* Archivers and verifiers wait for each other only: what a collector holds is
\* not committed, and what they have in hand is.
LEMMA NobodyWaitsForCollectors ==
  ASSUME LifecycleInv, NEW w \in Archivers \cup Verifiers, NEW v \in Workers, WaitsFor(w, v)
  PROVE  /\ 1 \in DOMAIN run[w].batch /\ Item(w) = run[w].batch[1]
         /\ Item(w).id \in Sources
         /\ lock[Item(w).id] = v
         /\ v \in Archivers \cup Verifiers
<1> USE DEF LifecycleInv
<1>1. run[w].batch \in Seq(Pending) /\ run[w].batch # <<>>
  BY DEF WaitsFor, HasItem, TypeOK, Workers
<1>2. /\ 1 \in DOMAIN run[w].batch /\ Head(run[w].batch) = run[w].batch[1]
  BY <1>1
<1>3. Item(w) = run[w].batch[1]
  BY <1>2 DEF Item
<1>4. PICK s \in Sources : s = Item(w).id /\ sources[s].status # "absent"
  BY <1>2, <1>3, InHandIsCommitted
<1>5. lock[s] = v
  BY <1>4 DEF WaitsFor
<1>6. v \notin Collectors
  BY <1>4, <1>5 DEF DraftsAreSteps, Captured
<1>7. v \notin Extractors
  BY <1>4, <1>5, FreeIsFree DEF DraftsHaveWriters
<1> QED BY <1>2, <1>3, <1>4, <1>5, <1>6, <1>7 DEF Workers

\* The rows that were fetched at the same time as s or later.
FetchedFrom(s) == {t \in Sources : sources[t].fetched_at >= sources[s].fetched_at}

\* Who waits is waiting for a row fetched no later than the row that its holder
\* is at; so of those in a circle one is at a row fetched last of all, and its
\* holder's row must be as late.
LEMMA WaitsEndInTies == LifecycleInv /\ LocksInOrder => DeadlocksAreTies
<1> USE DEF LifecycleInv
<1> SUFFICES ASSUME LifecycleInv, LocksInOrder,
                    NEW C \in SUBSET (Workers \ Collectors), C # {},
                    \A x \in C : \E y \in C : WaitsFor(x, y)
             PROVE  \E x, y \in C : WaitsFor(x, y) /\ Tied(x, y)
  BY DEF DeadlocksAreTies
<1>1. \A x \in C : x \in Archivers \cup Verifiers /\ x \in Workers
  BY DEF WaitsFor, Workers
<1>2. ASSUME NEW x \in C, NEW y \in C, WaitsFor(x, y)
      PROVE  /\ 1 \in DOMAIN run[x].batch /\ Item(x) = run[x].batch[1]
             /\ Item(x).id \in Sources /\ lock[Item(x).id] = y /\ x # y
  BY <1>1, <1>2, NobodyWaitsForCollectors DEF WaitsFor
<1>3. ASSUME NEW x \in C, NEW y \in C, WaitsFor(x, y)
      PROVE  /\ Item(y).id \in Sources /\ Item(y).id # Item(x).id
             /\ sources[Item(x).id].fetched_at <= sources[Item(y).id].fetched_at
  <2>1. PICK z \in C : WaitsFor(y, z)
    OBVIOUS
  <2>2. /\ 1 \in DOMAIN run[y].batch /\ Item(y) = run[y].batch[1]
        /\ Item(y).id \in Sources /\ lock[Item(y).id] = z /\ y # z
    BY <1>2, <2>1
  <2>3. Item(x).id \in Sources /\ lock[Item(x).id] = y
    BY <1>2, <1>3
  <2> QED BY <1>1, <2>2, <2>3 DEF LocksInOrder
<1> DEFINE T == {FetchedFrom(Item(x).id) : x \in C}
<1>4. T \subseteq FiniteSubsetsOf(Sources) /\ T # {}
  <2>1. FiniteSubsetsOf(Sources) = SUBSET Sources
    BY SourcesFinite, FS_FiniteSubsetsOfFinite
  <2>2. \A s : FetchedFrom(s) \in SUBSET Sources
    BY DEF FetchedFrom
  <2> QED BY <2>1, <2>2
<1>5. IsWellFoundedOn(StrictSubsetOrdering(Sources), FiniteSubsetsOf(Sources))
  BY FS_StrictSubsetOrderingWellFounded
<1> HIDE DEF T
<1>6. PICK A \in T : \A B \in T : <<B, A>> \notin StrictSubsetOrdering(Sources)
  BY <1>4, <1>5, WFMin
<1>7. PICK x \in C : A = FetchedFrom(Item(x).id)
  BY DEF T
<1>8. PICK y \in C : WaitsFor(x, y)
  OBVIOUS
<1>9. PICK s \in Sources, t \in Sources :
        /\ s = Item(x).id /\ t = Item(y).id /\ s # t
        /\ sources[s].fetched_at <= sources[t].fetched_at
  BY <1>2, <1>3, <1>8
<1>10. \A r \in Sources : sources[r].fetched_at \in Nat
  BY DEF TypeOK, Row
<1>11. ASSUME sources[s].fetched_at # sources[t].fetched_at PROVE FALSE
  <2>1. /\ FetchedFrom(t) \subseteq FetchedFrom(s)
        /\ s \in FetchedFrom(s) /\ s \notin FetchedFrom(t)
        /\ FetchedFrom(s) \in SUBSET Sources /\ FetchedFrom(t) \in SUBSET Sources
    BY <1>9, <1>10, <1>11 DEF FetchedFrom
  <2>2. <<FetchedFrom(t), FetchedFrom(s)>> \in StrictSubsetOrdering(Sources)
    BY <2>1 DEF StrictSubsetOrdering
  <2>3. FetchedFrom(t) \in T
    BY <1>9 DEF T
  <2> QED BY <1>6, <1>7, <1>9, <2>2, <2>3
<1> QED BY <1>8, <1>9, <1>11 DEF Tied

\* The ORDER BY of source_pipeline.go:126 and 199 is an order of the locks, for
\* any number of overlapping workers: nobody has locked a row fetched later than
\* one that it still has to write.
THEOREM LocksStayInOrder == Spec => []LocksInOrder
<1>1. Init => LocksInOrder
  BY DEF Init, LocksInOrder, Idle, Workers
<1>2. LifecycleInv /\ LocksInOrder /\ [Next]_vars => LocksInOrder'
  BY OrderStep
<1> QED BY <1>1, <1>2, Invariance, PTL DEF Spec

\* So archivers and verifiers, however many overlap, deadlock over rows of the
\* same fetched_at only: over sources that came from different collector runs
\* they never do (source_pipeline.go:126, 199).
THEOREM DeadlocksNeedTies == Spec => []DeadlocksAreTies
<1>1. LifecycleInv /\ LocksInOrder => DeadlocksAreTies
  BY WaitsEndInTies
<1> QED BY <1>1, LocksStayInOrder, Invariance, PTL
=============================================================================
