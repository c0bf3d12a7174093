-------------------------- MODULE EmbedWorkerProofs --------------------------
(***************************************************************************)
(* EmbedInv is an inductive invariant of EmbedWorker for any rows, times,  *)
(* embedders, limits and bounds, and every step of EmbedWorker is a step   *)
(* of EmbeddingColumns or leaves its columns alone.                        *)
(***************************************************************************)
EXTENDS EmbedWorker, FiniteSetTheorems, TLAPS

-----------------------------------------------------------------------------
(* Texts and batches.                                                      *)

\* The text of a row is a text, now and ever.
LEMMA TextsAreTexts ==
  ASSUME NEW r \in Rows, NEW stored
  PROVE  Columns!EmbedText(r, stored) \in Columns!Texts
BY DEF Rows, Columns!Rows, Columns!EmbedText, Columns!entityEmbedText,
       Columns!sourceEmbedText, Columns!statementEmbedText, Columns!Texts

\* Archive adds a text to a source and takes none away.
LEMMA TextsRemain ==
  ASSUME NEW r \in Rows, archived \subseteq archived'
  PROVE  Columns!TextsOf(r) \subseteq Columns!TextsOf(r)'
BY DEF Columns!TextsOf, Columns!EmbedText, Columns!entityEmbedText,
       Columns!sourceEmbedText, Columns!statementEmbedText

LEMMA TablesAreRows ==
  ASSUME NEW n \in 0..3
  PROVE  TableOf(n) \in Columns!Tables /\ TableOf(n) \subseteq Rows
BY DEF TableOf, Columns!Tables, Rows, Columns!Rows

\* SELECT ... LIMIT answers distinct eligible rows.
LEMMA SelectionsAreRows ==
  ASSUME NEW eligible \in SUBSET Rows,
         NEW q \in Selections(eligible)
  PROVE  /\ q \in Seq(eligible)
         /\ \A i, j \in DOMAIN q : q[i] = q[j] => i = j
<1> DEFINE n == IF Cardinality(eligible) < Limit THEN Cardinality(eligible) ELSE Limit
<1>1. n \in Nat
  BY RowsFinite, BoundsType, FS_Subset, FS_CardinalityType
<1>2. q \in [1..n -> eligible]
  BY DEF Selections
<1>3. \A i, j \in 1..n : i < j => q[i] # q[j]
  BY DEF Selections
<1>4. \A i, j \in 1..n : i # j => i < j \/ j < i
  BY <1>1
<1> HIDE DEF n
<1> QED
  BY <1>1, <1>2, <1>3, <1>4

LEMMA PendingAreRows ==
  ASSUME TypeOK, NEW w \in Embedders
  PROVE  /\ run[w].pending \in Seq(embedRow)
         /\ \A i \in DOMAIN run[w].pending :
              run[w].pending[i].id \in Rows /\ run[w].pending[i].text \in Columns!Texts
<1>1. run[w].pending \in Seq(embedRow)
  BY DEF TypeOK, Run
<1>2. \A i \in DOMAIN run[w].pending : run[w].pending[i] \in embedRow
  BY <1>1
<1> QED
  BY <1>1, <1>2 DEF embedRow

-----------------------------------------------------------------------------
(* The conjuncts of the invariant, for steps that change one run.          *)

\* A run that is over, or goes on with the next table, has nothing pending.
LEMMA FreshRun ==
  ASSUME EmbedInv,
         NEW w \in Embedders,
         run' \in [Embedders -> Run],
         run'[w].pending = <<>>,
         \A v \in Embedders : v # w => run'[v] = run[v],
         present \subseteq present', archived \subseteq archived',
         written' = [written EXCEPT ![w] = {}],
         \A v \in Embedders : v # w => \A r \in written[v] : vector'[r] = vector[r]
  PROVE  /\ written' \in [Embedders -> SUBSET Rows]
         /\ BatchesExist'
         /\ WritersAreAlone'
<1>1. /\ written' \in [Embedders -> SUBSET Rows]
      /\ written'[w] = {}
      /\ \A v \in Embedders : v # w => written'[v] = written[v]
  BY DEF EmbedInv, TypeOK
<1>2. BatchesExist'
  <2>1. \A v \in Embedders : v # w =>
          \A i \in DOMAIN run[v].pending : run[v].pending[i].id \in Rows
    BY PendingAreRows DEF EmbedInv
  <2>2. \A r \in Rows : Columns!TextsOf(r) \subseteq Columns!TextsOf(r)'
    BY TextsRemain
  <2> QED
    BY <2>1, <2>2 DEF EmbedInv, BatchesExist
<1>3. WritersAreAlone'
  BY <1>1 DEF EmbedInv, WritersAreAlone, At
<1> QED
  BY <1>1, <1>2, <1>3

LEMMA NothingWritten ==
  ASSUME EmbedInv, NEW w \in Embedders, ~At(w, "write")
  PROVE  written[w] = {} /\ written = [written EXCEPT ![w] = {}]
BY DEF EmbedInv, TypeOK, WritersAreAlone

\* What other embedders read and wrote stays valid while rows and texts appear.
LEMMA OthersKeep ==
  ASSUME EmbedInv,
         NEW w \in Embedders, NEW r \in Run,
         run' = [run EXCEPT ![w] = r],
         UNCHANGED <<present, archived, vector>>,
         \A i \in DOMAIN r.pending :
           /\ r.pending[i].id \in TableOf(r.table) \cap present
           /\ r.pending[i].text \in Columns!TextsOf(r.pending[i].id)
           /\ \A j \in DOMAIN r.pending : r.pending[i].id = r.pending[j].id => i = j
  PROVE  /\ run' \in [Embedders -> Run]
         /\ run'[w] = r
         /\ \A v \in Embedders : v # w => run'[v] = run[v]
         /\ BatchesExist'
<1>1. /\ run' \in [Embedders -> Run]
      /\ run'[w] = r
      /\ \A v \in Embedders : v # w => run'[v] = run[v]
  BY DEF EmbedInv, TypeOK
<1>2. \A x \in Rows : Columns!TextsOf(x)' = Columns!TextsOf(x)
  BY DEF Columns!TextsOf, Columns!EmbedText, Columns!entityEmbedText,
         Columns!sourceEmbedText, Columns!statementEmbedText
<1>3. present \subseteq Rows
  BY DEF EmbedInv, TypeOK
<1> QED
  BY <1>1, <1>2, <1>3 DEF EmbedInv, BatchesExist

-----------------------------------------------------------------------------
(* One lemma per action.                                                   *)

LEMMA BeginKeeps ==
  ASSUME EmbedInv, NEW w \in Embedders, Begin(w)
  PROVE  EmbedInv'
<1> DEFINE fresh == [step |-> "fetch", table |-> 1, pending |-> <<>>, at |-> 1]
<1>1. written' = [written EXCEPT ![w] = {}]
  BY NothingWritten DEF Begin, At
<1>2. fresh \in Run /\ fresh.pending = <<>>
  BY DEF Run
<1>3. /\ run' \in [Embedders -> Run]
      /\ run'[w].pending = <<>>
      /\ \A v \in Embedders : v # w => run'[v] = run[v]
  BY <1>2 DEF Begin, EmbedInv, TypeOK
<1>4. /\ written' \in [Embedders -> SUBSET Rows]
      /\ BatchesExist'
      /\ WritersAreAlone'
  BY <1>1, <1>3, FreshRun DEF Begin
<1>5. byHand' \in Nat
  BY DEF Begin, EmbedInv, TypeOK
<1> QED
  BY <1>3, <1>4, <1>5 DEF Begin, EmbedInv, TypeOK

LEMMA NextTableKeeps ==
  ASSUME EmbedInv, NEW w \in Embedders, run[w].table \in 1..3, NextTable(w),
         UNCHANGED <<present, archived>>,
         written' = [written EXCEPT ![w] = {}],
         \A v \in Embedders : v # w => \A r \in written[v] : vector'[r] = vector[r]
  PROVE  /\ run' \in [Embedders -> Run]
         /\ written' \in [Embedders -> SUBSET Rows]
         /\ BatchesExist'
         /\ WritersAreAlone'
<1> DEFINE next == IF run[w].table = 3 THEN Idle
                   ELSE [step |-> "fetch", table |-> run[w].table + 1,
                         pending |-> <<>>, at |-> 1]
<1>1. next \in Run /\ next.pending = <<>>
  BY DEF Run, Idle
<1>2. run' = [run EXCEPT ![w] = next]
  BY DEF NextTable
<1> HIDE DEF next
<1>3. /\ run' \in [Embedders -> Run]
      /\ run'[w].pending = <<>>
      /\ \A v \in Embedders : v # w => run'[v] = run[v]
  BY <1>1, <1>2 DEF EmbedInv, TypeOK
<1> QED
  BY <1>3, FreshRun

LEMMA AbortKeeps ==
  ASSUME EmbedInv, NEW w \in Embedders, Abort(w),
         UNCHANGED <<present, archived, vector>>
  PROVE  /\ run' \in [Embedders -> Run]
         /\ written' \in [Embedders -> SUBSET Rows]
         /\ BatchesExist'
         /\ WritersAreAlone'
<1>1. Idle \in Run /\ Idle.pending = <<>>
  BY DEF Idle, Run
<1>2. /\ run' \in [Embedders -> Run]
      /\ run'[w].pending = <<>>
      /\ \A v \in Embedders : v # w => run'[v] = run[v]
  BY <1>1 DEF Abort, EmbedInv, TypeOK
<1> QED
  BY <1>2, FreshRun DEF Abort

LEMMA FetchKeeps ==
  ASSUME EmbedInv, NEW w \in Embedders, run[w].table \in 1..3, Fetch(w)
  PROVE  EmbedInv'
<1> DEFINE n == run[w].table
<1>1. written[w] = {} /\ written' = [written EXCEPT ![w] = {}]
  BY NothingWritten DEF Fetch, At
<1>2. CASE Missing(n) = {}
  <2>1. NextTable(w)
    BY <1>2 DEF Fetch
  <2> QED
    BY <1>1, <2>1, NextTableKeeps DEF Fetch, EmbedInv, TypeOK
<1>3. CASE Missing(n) # {}
  <2>1. PICK q \in Selections(Missing(n)) :
          run' = [run EXCEPT
                  ![w].step    = "embed",
                  ![w].pending = [i \in DOMAIN q |->
                                   [id |-> q[i], text |-> Columns!EmbedText(q[i], archived)]]]
    BY <1>3 DEF Fetch
  <2> DEFINE p == [i \in DOMAIN q |->
                    [id |-> q[i], text |-> Columns!EmbedText(q[i], archived)]]
             r == [run[w] EXCEPT !.step = "embed", !.pending = p]
  <2>2. Missing(n) \in SUBSET Rows /\ Missing(n) \subseteq TableOf(n) \cap present
    BY DEF Missing, EmbedInv, TypeOK
  <2>3. /\ q \in Seq(Missing(n))
        /\ \A i, j \in DOMAIN q : q[i] = q[j] => i = j
    BY <2>2, SelectionsAreRows
  <2>4. \A i \in DOMAIN q : q[i] \in Missing(n)
    BY <2>3
  <2>5. \A i \in DOMAIN q : p[i] \in embedRow
    BY <2>2, <2>4, TextsAreTexts DEF embedRow
  <2>6. p \in Seq(embedRow)
    <3>1. PICK m \in Nat : DOMAIN q = 1..m
      BY <2>3
    <3> HIDE DEF p
    <3>2. p = [i \in 1..m |-> p[i]]
      BY <3>1 DEF p
    <3> QED BY <2>5, <3>1, <3>2
  <2>7. \A i \in DOMAIN p :
          /\ p[i].id \in TableOf(n) \cap present
          /\ p[i].text \in Columns!TextsOf(p[i].id)
          /\ \A j \in DOMAIN p : p[i].id = p[j].id => i = j
    BY <2>2, <2>3, <2>4 DEF Columns!TextsOf
  <2>8. run' = [run EXCEPT ![w] = r]
    BY <2>1 DEF EmbedInv, TypeOK
  <2> HIDE DEF p
  <2>9. r \in Run /\ r.pending = p /\ r.table = n
    BY <2>6 DEF EmbedInv, TypeOK, Run
  <2> HIDE DEF r
  <2>10. /\ run' \in [Embedders -> Run]
         /\ \A v \in Embedders : v # w => run'[v] = run[v]
         /\ BatchesExist'
    BY <2>7, <2>8, <2>9, OthersKeep DEF Fetch
  <2>11. WritersAreAlone'
    BY <1>1, <2>10 DEF Fetch, EmbedInv, WritersAreAlone, At
  <2> QED
    BY <2>10, <2>11 DEF Fetch, EmbedInv, TypeOK
<1> QED BY <1>2, <1>3

LEMMA EmbedKeeps ==
  ASSUME EmbedInv, NEW w \in Embedders, Embed(w)
  PROVE  EmbedInv'
<1> DEFINE r == [run[w] EXCEPT !.step = "write"]
<1>1. run[w] \in Run
  BY DEF EmbedInv, TypeOK
<1>2. /\ r \in Run
      /\ r.pending = run[w].pending
      /\ r.table = run[w].table
  BY <1>1 DEF Run
<1>3. run' = [run EXCEPT ![w] = r]
  BY <1>1 DEF Embed, EmbedInv, TypeOK
<1> HIDE DEF r
<1>4. \A i \in DOMAIN r.pending :
        /\ r.pending[i].id \in TableOf(r.table) \cap present
        /\ r.pending[i].text \in Columns!TextsOf(r.pending[i].id)
        /\ \A j \in DOMAIN r.pending : r.pending[i].id = r.pending[j].id => i = j
  BY <1>2 DEF EmbedInv, BatchesExist
<1>5. /\ run' \in [Embedders -> Run]
      /\ \A v \in Embedders : v # w => run'[v] = run[v]
      /\ BatchesExist'
  BY <1>2, <1>3, <1>4, OthersKeep DEF Embed
<1>6. written[w] = {}
  BY NothingWritten DEF Embed, At
<1>7. WritersAreAlone'
  BY <1>5, <1>6 DEF Embed, EmbedInv, WritersAreAlone, At
<1> QED
  BY <1>5, <1>7 DEF Embed, EmbedInv, TypeOK

LEMMA WriteKeeps ==
  ASSUME EmbedInv, NEW w \in Embedders, Write(w)
  PROVE  EmbedInv'
<1> DEFINE r == [run[w] EXCEPT !.at = @ + 1]
<1>1. run[w] \in Run
  BY DEF EmbedInv, TypeOK
<1>2. /\ r \in Run
      /\ r.step = run[w].step
      /\ r.pending = run[w].pending
      /\ r.table = run[w].table
  BY <1>1 DEF Run
<1>3. run' = [run EXCEPT ![w] = r]
  BY <1>1 DEF Write, EmbedInv, TypeOK
<1> HIDE DEF r
<1>4. \A i \in DOMAIN r.pending :
        /\ r.pending[i].id \in TableOf(r.table) \cap present
        /\ r.pending[i].text \in Columns!TextsOf(r.pending[i].id)
        /\ \A j \in DOMAIN r.pending : r.pending[i].id = r.pending[j].id => i = j
  BY <1>2 DEF EmbedInv, BatchesExist
<1>5. /\ run' \in [Embedders -> Run]
      /\ run'[w] = r
      /\ \A v \in Embedders : v # w => run'[v] = run[v]
      /\ BatchesExist'
  BY <1>2, <1>3, <1>4, OthersKeep DEF Write
<1> DEFINE i == run[w].at
<1>6. /\ i \in DOMAIN run[w].pending
      /\ Pending(w) = run[w].pending[i]
      /\ Pending(w).id \in Rows
  <2>1. i \in Nat \ {0} /\ i <= Len(run[w].pending)
    BY <1>1 DEF Write, HasRow, Run
  <2>2. i \in DOMAIN run[w].pending
    BY <1>1, <2>1 DEF Run
  <2> QED BY <2>2, PendingAreRows DEF Pending, EmbedInv
<1> DEFINE row == Pending(w).id
<1>7. /\ written' \in [Embedders -> SUBSET Rows]
      /\ \A v \in Embedders : v # w => written'[v] = written[v]
      /\ \A x \in written'[w] : x \in written[w] \/ (x = row /\ vector[x] = NoVector)
  BY <1>6 DEF Write, EmbedInv, TypeOK
<1>8. WritersAreAlone'
  <2>1. /\ run'[w].step = "write" /\ run'[w].pending = run[w].pending
        /\ run[w].pending[i].id = row
        /\ vector' = vector
    BY <1>2, <1>5, <1>6 DEF Write, HasRow, At
  <2>2. \A v \in Embedders : \A x \in written[v] :
          /\ run[v].step = "write"
          /\ vector[x] = NoVector
          /\ \E k \in DOMAIN run[v].pending : run[v].pending[k].id = x
          /\ \A u \in Embedders \ {v} : x \notin written[u]
    BY DEF EmbedInv, WritersAreAlone, At
  <2>3. \A v \in Embedders \ {w} : row \notin written[v]
    BY DEF Write
  <2> HIDE DEF i, row
  <2>4. ASSUME NEW x \in written'[w]
        PROVE  /\ run'[w].step = "write"
               /\ vector'[x] = NoVector
               /\ \E k \in DOMAIN run'[w].pending : run'[w].pending[k].id = x
    <3>1. CASE x \in written[w]
      BY <2>1, <2>2, <3>1
    <3>2. CASE x = row /\ vector[x] = NoVector
      BY <1>6, <2>1, <3>2
    <3> QED BY <1>7, <3>1, <3>2
  <2>5. ASSUME NEW x \in written'[w], NEW v \in Embedders \ {w}
        PROVE  x \notin written'[v]
    BY <1>7, <2>2, <2>3
  <2>6. ASSUME NEW v \in Embedders \ {w}, NEW x \in written'[v]
        PROVE  /\ run'[v].step = "write"
               /\ vector'[x] = NoVector
               /\ \E k \in DOMAIN run'[v].pending : run'[v].pending[k].id = x
               /\ \A u \in Embedders \ {v} : x \notin written'[u]
    <3>1. x \in written[v] /\ run'[v] = run[v]
      BY <1>5, <1>7
    <3>2. ASSUME NEW u \in Embedders \ {v} PROVE x \notin written'[u]
      <4>1. CASE u = w
        BY <2>5, <4>1
      <4>2. CASE u # w
        BY <1>7, <2>2, <3>1, <4>2
      <4> QED BY <4>1, <4>2
    <3> QED BY <2>1, <2>2, <3>1, <3>2
  <2> QED BY <2>4, <2>5, <2>6 DEF WritersAreAlone, At
<1> QED
  BY <1>5, <1>7, <1>8 DEF Write, EmbedInv, TypeOK

\* A row that w has written gets the vector of a text that it has or had.
LEMMA OwnVector ==
  ASSUME EmbedInv, NEW w \in Embedders, NEW r \in written[w]
  PROVE  /\ r \in TableOf(run[w].table) \cap present
         /\ VectorFor(w, r) \in Columns!TextsOf(r)
         /\ VectorFor(w, r) \in Columns!Texts
<1> DEFINE i == CHOOSE j \in DOMAIN run[w].pending : run[w].pending[j].id = r
<1>1. i \in DOMAIN run[w].pending /\ run[w].pending[i].id = r
  BY DEF EmbedInv, WritersAreAlone
<1>2. VectorFor(w, r) = run[w].pending[i].text
  BY DEF VectorFor
<1> HIDE DEF i
<1> QED
  BY <1>1, <1>2, PendingAreRows DEF EmbedInv, BatchesExist

LEMMA CommitKeeps ==
  ASSUME EmbedInv, NEW w \in Embedders, run[w].table \in 1..3, Commit(w)
  PROVE  EmbedInv'
<1>1. vector' \in [Rows -> Columns!Texts \cup {NoVector}]
  <2>1. \A r \in Rows :
          (IF r \in written[w] THEN VectorFor(w, r) ELSE vector[r])
            \in Columns!Texts \cup {NoVector}
    BY OwnVector DEF EmbedInv, TypeOK
  <2> QED
    BY <2>1 DEF Commit
<1>2. \A v \in Embedders : v # w => \A r \in written[v] : vector'[r] = vector[r]
  BY DEF Commit, EmbedInv, TypeOK, WritersAreAlone
<1>3. /\ run' \in [Embedders -> Run]
      /\ written' \in [Embedders -> SUBSET Rows]
      /\ BatchesExist'
      /\ WritersAreAlone'
  BY <1>2, NextTableKeeps DEF Commit
<1> QED
  BY <1>1, <1>3 DEF Commit, EmbedInv, TypeOK

\* Rows and texts that appear disturb nobody.
LEMMA AppearingKeeps ==
  ASSUME EmbedInv,
         present \subseteq present', present' \subseteq Rows,
         archived \subseteq archived', archived' \subseteq Sources,
         UNCHANGED <<vector, run, written, byHand, failures>>
  PROVE  EmbedInv'
<1>1. BatchesExist'
  <2>1. \A v \in Embedders :
          \A i \in DOMAIN run[v].pending : run[v].pending[i].id \in Rows
    BY PendingAreRows DEF EmbedInv
  <2>2. \A r \in Rows : Columns!TextsOf(r) \subseteq Columns!TextsOf(r)'
    BY TextsRemain
  <2> QED
    BY <2>1, <2>2 DEF EmbedInv, BatchesExist
<1>2. WritersAreAlone'
  BY DEF EmbedInv, WritersAreAlone, At
<1> QED
  BY <1>1, <1>2 DEF EmbedInv, TypeOK

\* Errors and deadlock victims.
LEMMA AbandonKeeps ==
  ASSUME EmbedInv, NEW w \in Embedders, Abort(w),
         UNCHANGED <<present, archived, vector, byHand>>,
         failures' \in Nat
  PROVE  EmbedInv'
BY AbortKeeps DEF EmbedInv, TypeOK

LEMMA PopulateKeeps ==
  ASSUME EmbedInv, NEW w \in Embedders, run[w].table \in 1..3, Populate(w)
  PROVE  EmbedInv'
<1>1. CASE Fetch(w)  BY <1>1, FetchKeeps
<1>2. CASE Embed(w)  BY <1>2, EmbedKeeps
<1>3. CASE Reject(w)
  BY <1>3, AbandonKeeps DEF Reject, EmbedInv, TypeOK
<1>4. CASE Write(w)  BY <1>4, WriteKeeps
<1>5. CASE Commit(w) BY <1>5, CommitKeeps
<1> QED
  BY <1>1, <1>2, <1>3, <1>4, <1>5 DEF Populate

LEMMA StepKeeps ==
  ASSUME EmbedInv, [Next]_vars
  PROVE  EmbedInv'
<1>1. ASSUME NEW w \in Embedders, RunOnce(w) PROVE EmbedInv'
  <2>1. CASE Begin(w) BY <2>1, BeginKeeps
  <2>2. CASE run[w].table \in 1..3 /\ Populate(w) BY <2>2, PopulateKeeps
  <2> QED
    BY <1>1, <2>1, <2>2
    DEF RunOnce, populateEntities, populateSources, populateStatements
<1>2. ASSUME NEW w \in Embedders, Fail(w) PROVE EmbedInv'
  BY <1>2, AbandonKeeps DEF Fail, EmbedInv, TypeOK
<1>3. ASSUME NEW w \in Embedders, DeadlockVictim(w) PROVE EmbedInv'
  BY <1>3, AbandonKeeps DEF DeadlockVictim, EmbedInv, TypeOK
<1>4. ASSUME NEW r \in Rows, Insert(Created[r]) PROVE EmbedInv'
  BY <1>4, AppearingKeeps DEF Insert, EmbedInv, TypeOK
<1>5. ASSUME NEW s \in Sources, Archive(s) PROVE EmbedInv'
  BY <1>5, AppearingKeeps DEF Archive, EmbedInv, TypeOK
<1>6. CASE UNCHANGED vars
  BY <1>6, AppearingKeeps DEF vars, EmbedInv, TypeOK
<1> QED
  BY <1>1, <1>2, <1>3, <1>4, <1>5, <1>6 DEF Next

LEMMA InitEmbedInv == Init => EmbedInv
<1> SUFFICES ASSUME Init PROVE EmbedInv
  OBVIOUS
<1>1. Idle \in Run /\ Idle.pending = <<>>
  BY DEF Idle, Run
<1>2. TypeOK
  BY <1>1 DEF Init, Columns!Init, TypeOK, Rows
<1>3. BatchesExist
  BY <1>1 DEF Init, BatchesExist
<1>4. WritersAreAlone
  BY DEF Init, WritersAreAlone
<1> QED BY <1>2, <1>3, <1>4 DEF EmbedInv

\* Whatever overlaps, fails or deadlocks: a batch holds present rows of its
\* table with their texts, an open transaction holds rows of its batch that are
\* NULL for everybody, and no two hold the same row (embed.go:72, 123, 164).
THEOREM EmbedInvariance == Spec => []EmbedInv
<1>1. Init => EmbedInv
  BY InitEmbedInv
<1>2. EmbedInv /\ [Next]_vars => EmbedInv'
  BY StepKeeps
<1> QED
  BY <1>1, <1>2, PTL DEF Spec

-----------------------------------------------------------------------------
(* The abstract columns.                                                   *)

\* What a run commits fills NULL columns of one table.
LEMMA CommitFills ==
  ASSUME EmbedInv, EmbedInv', NEW w \in Embedders, run[w].table \in 1..3, Commit(w)
  PROVE  Columns!Fill
<1> DEFINE T == TableOf(run[w].table)
<1>1. T \in Columns!Tables
  BY TablesAreRows
<1>2. written[w] \in SUBSET (T \cap present)
  BY OwnVector
<1>3. \A r \in written[w] : vector[r] = NoVector /\ vector'[r] \in Columns!TextsOf(r)
  BY OwnVector DEF Commit, EmbedInv, TypeOK, WritersAreAlone
<1>4. /\ vector' \in [Rows -> Columns!Texts \cup {NoVector}]
      /\ \A r \in Rows \ written[w] : vector'[r] = vector[r]
  BY DEF Commit, EmbedInv, TypeOK
<1>5. UNCHANGED <<present, archived>>
  BY DEF Commit
<1> HIDE DEF T
<1> QED
  BY <1>1, <1>2, <1>3, <1>4, <1>5 DEF Columns!Fill, Rows

LEMMA StepRefines ==
  ASSUME EmbedInv, EmbedInv', [Next]_vars
  PROVE  [Columns!Next]_(Columns!columns)
<1> USE DEF Columns!columns, Columns!Next
<1>1. ASSUME NEW w \in Embedders, RunOnce(w) PROVE [Columns!Next]_(Columns!columns)
  <2>1. CASE run[w].table \in 1..3 /\ Commit(w)
    BY <2>1, CommitFills
  <2>2. CASE Begin(w) \/ Fetch(w) \/ Embed(w) \/ Reject(w) \/ Write(w)
    BY <2>2 DEF Begin, Fetch, Embed, Reject, Write
  <2> QED
    BY <1>1, <2>1, <2>2
    DEF RunOnce, Populate, populateEntities, populateSources, populateStatements
<1>2. ASSUME NEW w \in Embedders, Fail(w) \/ DeadlockVictim(w)
      PROVE  [Columns!Next]_(Columns!columns)
  BY <1>2 DEF Fail, DeadlockVictim
<1>3. ASSUME NEW r \in Rows, Insert(Created[r])
      PROVE  [Columns!Next]_(Columns!columns)
  BY <1>3 DEF Insert, Columns!Insert, EmbedInv, TypeOK, Rows
<1>4. ASSUME NEW s \in Sources, Archive(s)
      PROVE  [Columns!Next]_(Columns!columns)
  BY <1>4 DEF Archive, Columns!Archive
<1>5. CASE UNCHANGED vars
  BY <1>5 DEF vars
<1> QED
  BY <1>1, <1>2, <1>3, <1>4, <1>5 DEF Next

\* The worker implements EmbeddingColumns: a NULL column is filled with the
\* vector of a text of that row, and never replaced (embed.go:19, 164).
THEOREM EmbedRefinement == Spec => ImplementsColumns
<1>1. Init => Columns!Init
  BY DEF Init
<1>2. EmbedInv /\ EmbedInv' /\ [Next]_vars => [Columns!Next]_(Columns!columns)
  BY StepRefines
<1> QED
  BY <1>1, <1>2, EmbedInvariance, PTL DEF Spec, ImplementsColumns, Columns!Spec
=============================================================================
