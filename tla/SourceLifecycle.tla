-------------------------- MODULE SourceLifecycle --------------------------
(***************************************************************************)
(* The life of the rows of table `sources` under the workers that write    *)
(* them: CollectOnce, ArchiveOnce, VerifyOnce (source_pipeline.go) and     *)
(* ExtractOnce (extract.go).                                               *)
(*                                                                         *)
(* Each worker is a process of its own (a CronJob, or an operator's        *)
(* `factvault worker <name>`), so runs of different workers overlap.       *)
(* Collect, archive and verify each do one run in ONE transaction: they    *)
(* read a batch, then work through it row by row, with network calls in    *)
(* between, and commit at the end.  Extract reads its batch in a short     *)
(* transaction and then writes one transaction per source.  Transactions   *)
(* are READ COMMITTED: a read sees committed rows only, an UPDATE locks    *)
(* its row until the end of the transaction, and a second UPDATE of the    *)
(* same row waits and then works on the newest version.                    *)
(*                                                                         *)
(* A row under way is kept in `draft`: draft[s] is the newest version of   *)
(* the row, lock[s] the transaction that wrote it (Free when draft[s] is   *)
(* committed), sources[s] the version every other transaction reads.       *)
(***************************************************************************)
EXTENDS SourceRows

CONSTANTS
  Thorough,     \* TRUE: extraction of s proposes every fact of Grounded[s]
  Collectors, Archivers, Verifiers, Extractors,  \* the worker processes
  Free,         \* "no transaction" in lock
  Limit,        \* --limit: rows per run
  Age,          \* --age-days: how old a check is when the source is due again
  MaxItems,     \* bound: items that one collector run returns
  MaxCollects,  \* bound: collector runs
  MaxDays,      \* bound: the clock
  MaxFailures   \* bound: runs (and items) that fail

Workers == Collectors \cup Archivers \cup Verifiers \cup Extractors

ASSUME ThoroughType  == Thorough \in BOOLEAN
ASSUME FreeIsFree    == Free \notin Workers
ASSUME RolesDisjoint ==
  /\ Collectors \cap (Archivers \cup Verifiers \cup Extractors) = {}
  /\ Archivers \cap (Verifiers \cup Extractors) = {}
  /\ Verifiers \cap Extractors = {}
ASSUME BoundsType    ==
  /\ Limit \in Nat \ {0}
  /\ Age \in Nat \ {0}
  /\ MaxItems \in Nat
  /\ MaxCollects \in Nat
  /\ MaxDays \in Nat
  /\ MaxFailures \in Nat

VARIABLES
  sources,    \* committed rows
  draft,      \* newest row versions, committed or not
  lock,       \* who wrote the newest version and has not ended yet
  evidence,   \* committed statement_sources: pairs <<fact, source>>
  run,        \* per worker: the batch it still has to work through, and now()
  collects,   \* collector runs begun, now() of the latest one
  day,        \* the clock that checks are dated with
  failures    \* failures so far

vars == <<sources, draft, lock, evidence, run, collects, day, failures>>

-----------------------------------------------------------------------------
(* Batches and transactions.                                               *)

\* What a worker remembers of a row it selected.
Pending == [id : Sources, status : Statuses \cup {"absent"}]

Idle == [open |-> FALSE, batch |-> <<>>, now |-> 0]

\* Mutant of Selections: no ORDER BY.
SelectionsUnordered(eligible) ==
  LET n == IF Cardinality(eligible) < Limit THEN Cardinality(eligible) ELSE Limit
  IN  {q \in [1..n -> eligible] : \A i, j \in 1..n : i < j => q[i] # q[j]}

\* The possible results of SELECT ... ORDER BY fetched_at LIMIT n on the rows
\* of eligible: fetched_at ties are broken arbitrarily.
Selections(eligible) ==
  LET n == IF Cardinality(eligible) < Limit THEN Cardinality(eligible) ELSE Limit
      Fetched(s) == sources[s].fetched_at
  IN  {q \in [1..n -> eligible] :
         /\ \A i, j \in 1..n : i < j => q[i] # q[j] /\ Fetched(q[i]) <= Fetched(q[j])
         /\ \A i \in 1..n, s \in eligible :
              (\A j \in 1..n : q[j] # s) => Fetched(q[i]) <= Fetched(s)}

BeginBatch(w, eligible) ==
  /\ ~run[w].open
  /\ eligible # {}
  /\ \E q \in Selections(eligible) :
       run' = [run EXCEPT ![w] =
                [open  |-> TRUE,
                 batch |-> [i \in DOMAIN q |-> [id |-> q[i], status |-> sources[q[i]].status]],
                 now   |-> day]]

HasItem(w) == run[w].open /\ run[w].batch # <<>>
Item(w)    == Head(run[w].batch)
DropItem(w) == run' = [run EXCEPT ![w].batch = Tail(@)]

\* Mutant of Write: does not wait for the transaction that holds the row.
WriteAtOnce(w, s, row) ==
  /\ draft' = [draft EXCEPT ![s] = row]
  /\ lock'  = [lock EXCEPT ![s] = w]

\* UPDATE (or INSERT) of row s to `row` inside w's transaction.
Write(w, s, row) ==
  /\ lock[s] \in {Free, w}
  /\ draft' = [draft EXCEPT ![s] = row]
  /\ lock'  = [lock EXCEPT ![s] = w]

Release(w) == lock' = [s \in Sources |-> IF lock[s] = w THEN Free ELSE lock[s]]

Rollback(w) ==
  /\ draft' = [s \in Sources |-> IF lock[s] = w THEN sources[s] ELSE draft[s]]
  /\ Release(w)
  /\ run' = [run EXCEPT ![w] = Idle]

\* Mutant of Commit: makes the uncommitted rows of other runs visible.
CommitEveryDraft(w) ==
  /\ run[w].open
  /\ run[w].batch = <<>>
  /\ sources' = draft
  /\ Release(w)
  /\ run' = [run EXCEPT ![w] = Idle]
  /\ UNCHANGED <<draft, evidence, collects, day, failures>>

\* The end of a run: every worker commits after its last item.
Commit(w) ==
  /\ run[w].open
  /\ run[w].batch = <<>>
  /\ sources' = [s \in Sources |-> IF lock[s] = w THEN draft[s] ELSE sources[s]]
  /\ Release(w)
  /\ run' = [run EXCEPT ![w] = Idle]
  /\ UNCHANGED <<draft, evidence, collects, day, failures>>

\* An error, a context timeout, or the end of the process: the transaction
\* is rolled back and the run is over.
Fail(w) ==
  /\ run[w].open
  /\ failures < MaxFailures
  /\ Rollback(w)
  /\ failures' = failures + 1
  /\ UNCHANGED <<sources, evidence, collects, day>>

-----------------------------------------------------------------------------
(* CollectOnce: the transaction begins before the collector fetches.       *)

CollectBegin(w) ==
  /\ ~run[w].open
  /\ collects < MaxCollects
  /\ \E n \in 1..MaxItems : \E q \in [1..n -> Sources] :
       run' = [run EXCEPT ![w] =
                [open  |-> TRUE,
                 batch |-> [i \in 1..n |-> [id |-> q[i], status |-> "absent"]],
                 now   |-> collects + 1]]
  /\ collects' = collects + 1
  /\ UNCHANGED <<sources, draft, lock, evidence, day, failures>>

\* INSERT ... ON CONFLICT (tenant_id, url) DO NOTHING: waits for another
\* transaction's uncommitted insert of the same url, never for an update.
CollectItem(w) ==
  /\ HasItem(w)
  /\ LET s == Item(w).id IN
       \/ /\ draft[s].status = "absent"
          /\ Write(w, s, Collected(run[w].now))
       \/ /\ draft[s].status # "absent"
          /\ sources[s].status # "absent" \/ lock[s] = w
          /\ UNCHANGED <<draft, lock>>
  /\ DropItem(w)
  /\ UNCHANGED <<sources, evidence, collects, day, failures>>

\* The INSERT fails: ROLLBACK TO SAVEPOINT, go on with the next item.
CollectItemError(w) ==
  /\ HasItem(w)
  /\ failures < MaxFailures
  /\ failures' = failures + 1
  /\ DropItem(w)
  /\ UNCHANGED <<sources, draft, lock, evidence, collects, day>>

-----------------------------------------------------------------------------
(* ArchiveOnce.                                                            *)

\* Mutant of ArchiveBegin: a changed page is archived anew.
ArchiveBeginAgain(w) ==
  /\ BeginBatch(w, {s \in Sources : sources[s].status \in {"collected", "content-changed"}})
  /\ UNCHANGED <<sources, draft, lock, evidence, collects, day, failures>>

ArchiveBegin(w) ==
  /\ BeginBatch(w, {s \in Sources : sources[s].status = "collected"})
  /\ UNCHANGED <<sources, draft, lock, evidence, collects, day, failures>>

\* Mutant of ArchiveItem: a source without a snapshot is left for the next run.
ArchiveItemOnlyWithSnapshot(w) ==
  /\ HasItem(w)
  /\ LET s == Item(w).id IN
       \/ Write(w, s, WithText(s, draft[s], "url"))
       \/ UNCHANGED <<draft, lock>>
  /\ DropItem(w)
  /\ UNCHANGED <<sources, evidence, collects, day, failures>>

\* UPDATE ... WHERE id: no condition on the status.  submitWayback answers ""
\* when the snapshot fails.
ArchiveItem(w) ==
  /\ HasItem(w)
  /\ LET s == Item(w).id IN
       \E archiveURL \in {"empty", "url"} :
         Write(w, s, WithText(s, draft[s], archiveURL))
  /\ DropItem(w)
  /\ UNCHANGED <<sources, evidence, collects, day, failures>>

-----------------------------------------------------------------------------
(* VerifyOnce.                                                             *)

Verifiable == {"archived", "extracted", "verified", "content-changed"}

NeverChecked(s) == sources[s].last_verified_at = 0

\* Mutants of Due: no filter on the status; a source is due a day too soon.
DueAnyStatus(s) == /\ sources[s].status # "absent"
                   /\ NeverChecked(s) \/ sources[s].last_verified_at + Age < day

DueTooSoon(s) == /\ sources[s].status \in Verifiable
                 /\ NeverChecked(s) \/ sources[s].last_verified_at + Age <= day

\* last_verified_at IS NULL OR last_verified_at < now - ageDays.
Due(s) == /\ sources[s].status \in Verifiable
          /\ NeverChecked(s) \/ sources[s].last_verified_at + Age < day

\* Mutant of VerifyBegin: the query does not ask for IS NULL.
VerifyBeginChecked(w) ==
  /\ BeginBatch(w, {s \in Sources : Due(s) /\ ~NeverChecked(s)})
  /\ UNCHANGED <<sources, draft, lock, evidence, collects, day, failures>>

VerifyBegin(w) ==
  /\ BeginBatch(w, {s \in Sources : Due(s)})
  /\ UNCHANGED <<sources, draft, lock, evidence, collects, day, failures>>

\* The log row and the new status, computed from the status that the batch
\* query read; both are dated with the begin of the transaction.
VerifyItem(w) ==
  /\ HasItem(w)
  /\ LET s == Item(w).id IN
       \E outcome \in Outcomes :
         Write(w, s, WithCheck(draft[s], outcome, Item(w).status, run[w].now))
  /\ DropItem(w)
  /\ UNCHANGED <<sources, evidence, collects, day, failures>>

\* Time passes, whoever is under way.
NextDay ==
  /\ day < MaxDays
  /\ day' = day + 1
  /\ UNCHANGED <<sources, draft, lock, evidence, run, collects, failures>>

-----------------------------------------------------------------------------
(* ExtractOnce.                                                            *)

ExtractBegin(w) ==
  /\ BeginBatch(w, {s \in Sources : sources[s].status = "archived"
                                      /\ sources[s].raw_text # "null"})
  /\ UNCHANGED <<sources, draft, lock, evidence, collects, day, failures>>

HasStatement(f) == \E s \in Sources : <<f, s>> \in evidence

\* Proposals that extraction can come up with, grounded in the text or not.
Proposals(s) == {p \in SUBSET Facts : Thorough => Grounded[s] \subseteq p}

\* Mutant of Accepted: offsets are not compared with the text.
AcceptedUnread(s, proposal) == {f \in proposal : ~HasStatement(f)}

\* The facts of a proposal that become statements of their own: their excerpt
\* is at its offsets, and no statement says the same yet.
Accepted(s, proposal) == {f \in proposal \cap Grounded[s] : ~HasStatement(f)}

\* Mutant of ExtractItem: a source counts as extracted although it brings nothing.
ExtractItemAnyway(w) ==
  /\ HasItem(w)
  /\ LET s == Item(w).id IN
       \E proposal \in IF s \in Blank THEN {{}} ELSE Proposals(s) :
         /\ lock[s] = Free
         /\ evidence' = evidence \cup {<<f, s>> : f \in Accepted(s, proposal)}
         /\ sources'  = [sources EXCEPT ![s] = WithFacts(@)]
         /\ draft'    = [draft EXCEPT ![s] = WithFacts(@)]
  /\ DropItem(w)
  /\ UNCHANGED <<lock, collects, day, failures>>

\* One source of the batch: extraction outside any transaction, then one
\* transaction that writes the facts and, if one was new, the status.
ExtractItem(w) ==
  /\ HasItem(w)
  /\ LET s == Item(w).id IN
       \E proposal \in IF s \in Blank THEN {{}} ELSE Proposals(s) :
         LET accepted == Accepted(s, proposal) IN
           /\ evidence' = evidence \cup {<<f, s>> : f \in accepted}
           /\ IF accepted = {}
                THEN UNCHANGED <<sources, draft>>
                ELSE /\ lock[s] = Free
                     /\ sources' = [sources EXCEPT ![s] = WithFacts(@)]
                     /\ draft'   = [draft EXCEPT ![s] = WithFacts(@)]
  /\ DropItem(w)
  /\ UNCHANGED <<lock, collects, day, failures>>

-----------------------------------------------------------------------------
(* Deadlocks: PostgreSQL cancels one statement of a cycle of lock waits.   *)

WaitsFor(w, v) ==
  /\ HasItem(w)
  /\ w \notin Extractors
  /\ v # w
  /\ lock[Item(w).id] = v
  /\ w \in Collectors => sources[Item(w).id].status = "absent"

\* w is on a cycle of waits: everyone in a set waits for a member of it, and
\* everyone in it is waited for.
Deadlocked(w) ==
  \E C \in SUBSET Workers :
    /\ w \in C
    /\ \A x \in C : \E y \in C : WaitsFor(x, y)
    /\ \A y \in C : \E x \in C : WaitsFor(x, y)

\* A collector's statement fails inside its savepoint, any other worker's
\* error ends its run.
DeadlockVictim(w) ==
  /\ Deadlocked(w)
  /\ IF w \in Collectors
       THEN DropItem(w) /\ UNCHANGED <<draft, lock>>
       ELSE Rollback(w)
  /\ UNCHANGED <<sources, evidence, collects, day, failures>>

-----------------------------------------------------------------------------
Init ==
  /\ sources  = [s \in Sources |-> NoRow]
  /\ draft    = [s \in Sources |-> NoRow]
  /\ lock     = [s \in Sources |-> Free]
  /\ evidence = {}
  /\ run      = [w \in Workers |-> Idle]
  /\ collects = 0
  /\ day      = 1
  /\ failures = 0

Collect(w) == CollectBegin(w) \/ CollectItem(w) \/ CollectItemError(w)
Archive(w) == ArchiveBegin(w) \/ ArchiveItem(w)
Verify(w)  == VerifyBegin(w) \/ VerifyItem(w)
Extract(w) == ExtractBegin(w) \/ ExtractItem(w)

Next ==
  \/ \E w \in Collectors : Collect(w)
  \/ \E w \in Archivers  : Archive(w)
  \/ \E w \in Verifiers  : Verify(w)
  \/ \E w \in Extractors : Extract(w)
  \/ \E w \in Workers : Commit(w) \/ Fail(w) \/ DeadlockVictim(w)
  \/ NextDay

\* A started run goes on (Go code does not stop by itself), PostgreSQL
\* resolves deadlocks, and the schedule starts archive, verify and extract
\* again and again.  Strong fairness, because those who wait for a row lock
\* queue up for it: a worker that finds the row free again and again gets it.
\* Nothing says that a collector runs, that a run fails or that a day ends.
Fairness ==
  /\ \A w \in Workers    : WF_vars(Commit(w)) /\ WF_vars(DeadlockVictim(w))
  /\ \A w \in Collectors : SF_vars(CollectItem(w))
  /\ \A w \in Archivers  : SF_vars(Archive(w))
  /\ \A w \in Verifiers  : SF_vars(Verify(w))
  /\ \A w \in Extractors : SF_vars(Extract(w))

Spec == Init /\ [][Next]_vars

FairSpec == Spec /\ Fairness

\* The committed rows and links, as the rest of the system reads them.
Ledger == INSTANCE SourceLedger

-----------------------------------------------------------------------------
(* What a correct pipeline guarantees.                                     *)

\* The variables hold rows, versions and batches of the declared shapes.
TypeOK ==
  /\ sources \in [Sources -> Row]
  /\ draft \in [Sources -> Row]
  /\ lock \in [Sources -> Workers \cup {Free}]
  /\ evidence \subseteq Facts \X Sources
  /\ run \in [Workers -> [open : BOOLEAN, batch : Seq(Pending), now : Nat]]
  /\ collects \in Nat
  /\ day \in Nat
  /\ failures \in Nat

\* Stages 3 to 7 find the captured text: a source has its raw_text exactly
\* when it is past stage Collect, and it is the text of the captured page,
\* whichever runs overlapped or failed (source_pipeline.go:159, 235).
TextCaptured ==
  \A s \in Sources :
    /\ (sources[s].status \in {"absent", "collected"}) <=> (sources[s].raw_text = "null")
    /\ sources[s].raw_text \in {"null", stripHTML(s)}

\* No fact without its source: whatever is linked to a source is in the text
\* that the table keeps for it (extract.go:176).
EvidenceGrounded ==
  \A e \in evidence : /\ e[1] \in Grounded[e[2]]
                      /\ sources[e[2]].raw_text = "text"

\* Status 'extracted' is never a leftover: some fact is linked to the source,
\* even where verify wrote the status from a row it read earlier
\* (source_pipeline.go:285, extract.go:188).
ExtractedHasEvidence ==
  \A s \in Sources :
    sources[s].status = "extracted" => Ledger!Linked(s)

\* The log holds the check whose verdict and date the row shows.
ShowsLoggedCheck(row) ==
  \E i \in DOMAIN row.log :
    row.log[i] = [outcome |-> VerdictOf(row.status), at |-> row.last_verified_at]

\* A source has a date of verification exactly when some check of it is
\* logged, and the verdict that its row shows is the outcome of a check logged
\* under that very date, although log row and status are two statements and
\* the status was computed from an earlier read (source_pipeline.go:228, 235).
\* Where verifiers overlap that need not be the check with the latest date.
VerdictIsLogged ==
  \A s \in Sources :
    LET row == sources[s] IN
      /\ row.last_verified_at > 0 <=> row.log # <<>>
      /\ row.status \in {"verified", "link-rot", "content-changed"} => ShowsLoggedCheck(row)

\* With the one verifier that concurrencyPolicy Forbid allows, any two checks of
\* a source are dated more than Age apart, however long a run takes and
\* whatever archive and extract do meanwhile (source_pipeline.go:198, 237).
CheckedOncePerPeriod ==
  \A s \in Sources : \A i, j \in DOMAIN sources[s].log :
    i # j => LET t == sources[s].log[i].at
                 u == sources[s].log[j].at
             IN  t + Age < u \/ u + Age < t

\* With one verifier no logged check is later than the one that the row shows,
\* so the verdict of the row is the latest (source_pipeline.go:235, and the
\* index on verified_at DESC of 00001_initial_schema.sql:179).
VerdictIsLatest ==
  \A s \in Sources : \A i \in DOMAIN sources[s].log :
    sources[s].log[i].at <= sources[s].last_verified_at

\* With one archiver a source is archived once: its snapshot URL stays, and it
\* is never put back in the queue of the extractor (source_pipeline.go:159).
ArchivedOnce ==
  [][\A s \in Sources :
       sources[s].status \notin {"absent", "collected"} =>
         /\ sources'[s].archive_url = sources[s].archive_url
         /\ sources'[s].status = "archived" => sources[s].status = "archived"]_vars

\* Re-verification of an extracted source that is still live leaves it
\* extracted (comment at source_pipeline.go:284).
ExtractedStaysExtracted ==
  [][\A s \in Sources :
       sources[s].status = "extracted" /\ sources'[s].status # "extracted"
         => sources'[s].status \in {"link-rot", "content-changed"}]_vars

\* The rows that x and y are at were fetched at the same time.
Tied(x, y) == /\ Item(x).id # Item(y).id
              /\ sources[Item(x).id].fetched_at = sources[Item(y).id].fetched_at

\* Archivers and verifiers lock the rows of their batches in the order of
\* fetched_at, so when some of them wait for each other in a circle, one waits
\* for a row that was fetched at the same time as the row its holder waits for:
\* both came from one collector run, whose now() is the fetched_at of all its
\* rows (the ORDER BY of source_pipeline.go:126, 199;
\* 00001_initial_schema.sql:128).
DeadlocksAreTies ==
  \A C \in SUBSET (Workers \ Collectors) :
    C # {} /\ (\A x \in C : \E y \in C : WaitsFor(x, y))
      => \E x, y \in C : WaitsFor(x, y) /\ Tied(x, y)

\* Archive gets to every collected source (source_pipeline.go:124).
CollectedIsArchived ==
  \A s \in Sources : sources[s].status = "collected" ~> sources[s].status # "collected"

\* Verify gets to every source that is due: a source due on day d gets a check
\* that is not too old on day d, or one that finds its link rotten
\* (source_pipeline.go:195).
DueIsVerified ==
  \A s \in Sources, d \in 1..MaxDays :
    (Due(s) /\ day = d) ~> /\ ~NeverChecked(s)
                           /\ \/ sources[s].status = "link-rot"
                              \/ sources[s].last_verified_at + Age >= d

\* Whatever runs overlap, wait or fail, readers see each run whole or not at
\* all, and one log row per check (the transactions of source_pipeline.go:45,
\* 113, 184 and extract.go:164).
ImplementsLedger == Ledger!Spec

-----------------------------------------------------------------------------
(* Why the safety properties hold: an inductive invariant.                 *)

\* Without a writer, the newest version of a row is the committed one; and a
\* writer is a collector, archiver or verifier under way.
DraftsHaveWriters ==
  \A s \in Sources :
    \/ lock[s] = Free /\ draft[s] = sources[s]
    \/ lock[s] \in Workers \ Extractors /\ run[lock[s]].open

\* A draft differs from the committed row by one step of the ledger.
DraftsAreSteps ==
  \A s \in Sources :
    /\ lock[s] \in Collectors => Captured(sources[s], draft[s])
    /\ lock[s] \in Archivers  => Archived(s, sources[s], draft[s])
    /\ lock[s] \in Verifiers  => Checked(Ledger!Linked(s), sources[s], draft[s])

\* The rows of a batch exist; those of a verifier or extractor have their text.
BatchesExist ==
  /\ \A w \in Archivers : \A i \in DOMAIN run[w].batch :
       sources[run[w].batch[i].id].status # "absent"
  /\ \A w \in Verifiers \cup Extractors : \A i \in DOMAIN run[w].batch :
       sources[run[w].batch[i].id].status \notin {"absent", "collected"}

\* A verifier checks each source of its batch once, and remembers a status
\* that stands for linked facts if it is 'extracted'.
ChecksToCome ==
  \A w \in Verifiers : \A i \in DOMAIN run[w].batch :
    LET item == run[w].batch[i] IN
      /\ lock[item.id] # w
      /\ \A j \in DOMAIN run[w].batch : i # j => run[w].batch[j].id # item.id
      /\ item.status # "absent"
      /\ item.status = "extracted" => Ledger!Linked(item.id)

\* A verifier under way began today or before.
TimeIsPast ==
  /\ day > 0
  /\ \A w \in Verifiers : run[w].open => run[w].now \in 1..day

\* The inductive invariant.
LifecycleInv ==
  /\ TypeOK
  /\ DraftsHaveWriters
  /\ DraftsAreSteps
  /\ BatchesExist
  /\ ChecksToCome
  /\ TimeIsPast
  /\ TextCaptured
  /\ EvidenceGrounded
  /\ ExtractedHasEvidence
  /\ VerdictIsLogged

=============================================================================
