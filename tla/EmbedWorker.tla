----------------------------- MODULE EmbedWorker -----------------------------
(***************************************************************************)
(* Runs of `factvault worker embed`: EmbedWorker.RunOnce of                *)
(* internal/workers/embed.go, next to the workers that insert and archive  *)
(* the rows.  A run fills the three tables one after the other.  For each  *)
(* it reads a batch in one transaction, calls the embedder outside any     *)
(* transaction, and writes the vectors, row by row, in another one, by     *)
(* which time all of it may be outdated.                                   *)
(***************************************************************************)
EXTENDS Naturals, Sequences, FiniteSets

CONSTANTS
  Entities, Sources, Statements, NoVector,
  Created,      \* created_at of the rows: equal for the rows of a transaction
  Embedders,    \* the processes
  Scheduled,    \* the one that is started again and again
  Limit,        \* --limit: rows per table and run
  MaxTexts,     \* MAX_EMBED_TEXTS: texts that the embedder takes per request
  MaxByHand,    \* bound: runs of the other embedders
  MaxFailures   \* bound: runs that fail

VARIABLES
  present, archived, vector,  \* the committed columns: see EmbeddingColumns
  run,       \* per embedder: where it is, and its batch
  written,   \* per embedder: the rows written in its open transaction
  byHand,    \* runs started by hand so far
  failures   \* failures so far

vars == <<present, archived, vector, run, written, byHand, failures>>

Columns == INSTANCE EmbeddingColumns

Rows == Columns!Rows

ASSUME NoVectorIsNone == NoVector \notin Columns!Texts
ASSUME TablesDisjoint ==
  \A T, U \in Columns!Tables : T # U => T \cap U = {}
ASSUME RowsFinite   == IsFiniteSet(Rows)
ASSUME CreatedType  == Created \in [Rows -> Nat]
ASSUME ScheduledOne == Scheduled \in Embedders
ASSUME BoundsType   == /\ Limit \in Nat \ {0}
                       /\ MaxTexts \in Nat
                       /\ MaxByHand \in Nat
                       /\ MaxFailures \in Nat

-----------------------------------------------------------------------------
\* embedRow: a row and its text when it was read.
embedRow == [id : Rows, text : Columns!Texts]

\* table: 1 entities, 2 sources, 3 statements.
Run == [step : {"idle", "fetch", "embed", "write"}, table : 0..3,
        pending : Seq(embedRow), at : Nat \ {0}]

Idle == [step |-> "idle", table |-> 0, pending |-> <<>>, at |-> 1]

At(w, step) == run[w].step = step

TableOf(n) == CASE n = 1 -> Entities [] n = 2 -> Sources [] OTHER -> Statements

NextTable(w) ==
  run' = [run EXCEPT ![w] = IF run[w].table = 3 THEN Idle
                            ELSE [step |-> "fetch", table |-> run[w].table + 1,
                                  pending |-> <<>>, at |-> 1]]

\* An error: no transaction is left open, and the later tables are not reached.
Abort(w) ==
  /\ run'     = [run EXCEPT ![w] = Idle]
  /\ written' = [written EXCEPT ![w] = {}]

\* Mutant of Missing: no `embedding IS NULL`.
MissingOrNot(n) == TableOf(n) \cap present

\* The rows of a table that the batch query looks for.
Missing(n) == {r \in TableOf(n) \cap present : vector[r] = NoVector}

\* The results of ORDER BY created_at ASC LIMIT: ties in any order.
Selections(eligible) ==
  LET n == IF Cardinality(eligible) < Limit THEN Cardinality(eligible) ELSE Limit
  IN  {q \in [1..n -> eligible] :
         /\ \A i, j \in 1..n : i < j => q[i] # q[j] /\ Created[q[i]] <= Created[q[j]]
         /\ \A i \in 1..n, r \in eligible :
              (\A j \in 1..n : q[j] # r) => Created[q[i]] <= Created[r]}

-----------------------------------------------------------------------------
(* The steps of RunOnce.                                                   *)

Begin(w) ==
  /\ At(w, "idle")
  /\ w = Scheduled \/ byHand < MaxByHand
  /\ byHand' = IF w = Scheduled THEN byHand ELSE byHand + 1
  /\ run' = [run EXCEPT ![w] = [step |-> "fetch", table |-> 1, pending |-> <<>>, at |-> 1]]
  /\ UNCHANGED <<present, archived, vector, written, failures>>

\* Phase 1: a table without NULL columns is done.
Fetch(w) ==
  /\ At(w, "fetch")
  /\ LET missing == Missing(run[w].table) IN
       IF missing = {}
         THEN NextTable(w)
         ELSE \E q \in Selections(missing) :
                run' = [run EXCEPT
                  ![w].step    = "embed",
                  ![w].pending = [i \in DOMAIN q |->
                                   [id |-> q[i], text |-> Columns!EmbedText(q[i], archived)]]]
  /\ UNCHANGED <<present, archived, vector, written, byHand, failures>>

\* Phase 2: one vector per text, in the order of the texts.  The client has no
\* timeout, so that the answer may come late or never.
Embed(w) ==
  /\ At(w, "embed")
  /\ Len(run[w].pending) <= MaxTexts
  /\ run' = [run EXCEPT ![w].step = "write"]
  /\ UNCHANGED <<present, archived, vector, written, byHand, failures>>

\* The embedder answers 422 to a request with too many texts.
Reject(w) ==
  /\ At(w, "embed")
  /\ Len(run[w].pending) > MaxTexts
  /\ Abort(w)
  /\ UNCHANGED <<present, archived, vector, byHand, failures>>

Pending(w) == run[w].pending[run[w].at]

HasRow(w) == At(w, "write") /\ run[w].at <= Len(run[w].pending)

\* Mutant of Write: no `embedding IS NULL`.
WriteAlways(w) ==
  /\ HasRow(w)
  /\ \A v \in Embedders \ {w} : Pending(w).id \notin written[v]
  /\ written' = [written EXCEPT ![w] = @ \cup {Pending(w).id}]
  /\ run' = [run EXCEPT ![w].at = @ + 1]
  /\ UNCHANGED <<present, archived, vector, byHand, failures>>

\* Mutant of Write: does not wait for the row lock.
WriteAtOnce(w) ==
  /\ HasRow(w)
  /\ written' = [written EXCEPT ![w] =
                  IF vector[Pending(w).id] = NoVector THEN @ \cup {Pending(w).id} ELSE @]
  /\ run' = [run EXCEPT ![w].at = @ + 1]
  /\ UNCHANGED <<present, archived, vector, byHand, failures>>

\* Phase 3: UPDATE ... SET embedding = $1 WHERE id = $2 AND embedding IS NULL,
\* which waits for another transaction that has updated the row and then looks
\* at the column again.
Write(w) ==
  /\ HasRow(w)
  /\ \A v \in Embedders \ {w} : Pending(w).id \notin written[v]
  /\ written' = [written EXCEPT ![w] =
                  IF vector[Pending(w).id] = NoVector THEN @ \cup {Pending(w).id} ELSE @]
  /\ run' = [run EXCEPT ![w].at = @ + 1]
  /\ UNCHANGED <<present, archived, vector, byHand, failures>>

\* The vector that w has for row r.
VectorFor(w, r) ==
  LET i == CHOOSE j \in DOMAIN run[w].pending : run[w].pending[j].id = r
  IN  run[w].pending[i].text

Commit(w) ==
  /\ At(w, "write")
  /\ run[w].at > Len(run[w].pending)
  /\ vector' = [r \in Rows |-> IF r \in written[w] THEN VectorFor(w, r) ELSE vector[r]]
  /\ written' = [written EXCEPT ![w] = {}]
  /\ NextTable(w)
  /\ UNCHANGED <<present, archived, byHand, failures>>

Populate(w) == Fetch(w) \/ Embed(w) \/ Reject(w) \/ Write(w) \/ Commit(w)

populateEntities(w)   == run[w].table = 1 /\ Populate(w)
populateSources(w)    == run[w].table = 2 /\ Populate(w)
populateStatements(w) == run[w].table = 3 /\ Populate(w)

\* A network error, a wrong number of vectors or dimensions, a lost connection,
\* or the process is ended.
Fail(w) ==
  /\ ~At(w, "idle")
  /\ failures < MaxFailures
  /\ failures' = failures + 1
  /\ Abort(w)
  /\ UNCHANGED <<present, archived, vector, byHand>>

WaitsFor(w, v) == v # w /\ HasRow(w) /\ Pending(w).id \in written[v]

Deadlocked(w) ==
  \E circle \in SUBSET Embedders :
    /\ w \in circle
    /\ \A u \in circle : \E v \in circle : WaitsFor(u, v)

\* PostgreSQL ends one transaction of a circle of waits.
DeadlockVictim(w) ==
  /\ Deadlocked(w)
  /\ Abort(w)
  /\ UNCHANGED <<present, archived, vector, byHand, failures>>

-----------------------------------------------------------------------------
(* The other workers: CollectOnce, writeExtractedFacts, ArchiveOnce.       *)

\* The rows of one transaction, whose created_at is the time it began.
Insert(now) ==
  /\ {r \in Rows : Created[r] = now} \cap present = {}
  /\ present' = present \cup {r \in Rows : Created[r] = now}
  /\ UNCHANGED <<archived, vector, run, written, byHand, failures>>

\* The UPDATE of ArchiveOnce waits for an embedder that has written the row.
Archive(s) ==
  /\ s \in present \ archived
  /\ \A w \in Embedders : s \notin written[w]
  /\ archived' = archived \cup {s}
  /\ UNCHANGED <<present, vector, run, written, byHand, failures>>

Init ==
  /\ Columns!Init
  /\ run      = [w \in Embedders |-> Idle]
  /\ written  = [w \in Embedders |-> {}]
  /\ byHand   = 0
  /\ failures = 0

RunOnce(w) == Begin(w) \/ populateEntities(w) \/ populateSources(w) \/ populateStatements(w)

Next ==
  \/ \E w \in Embedders : RunOnce(w) \/ Fail(w) \/ DeadlockVictim(w)
  \/ \E r \in Rows : Insert(Created[r])
  \/ \E s \in Sources : Archive(s)

Spec == Init /\ [][Next]_vars

\* What a run does on its own and with PostgreSQL: all but the embedder's part.
Proceed(w) == Begin(w) \/ Fetch(w) \/ Write(w) \/ Commit(w)

\* A run that has its answer goes on, the scheduled embedder is started again when
\* it has ended, PostgreSQL resolves deadlocks and queues those who wait for a row.
\* Nothing is assumed of the embedder: http.DefaultClient waits for it without end.
Fairness == \A w \in Embedders : SF_vars(Proceed(w)) /\ WF_vars(DeadlockVictim(w))

FairSpec == Spec /\ Fairness

-----------------------------------------------------------------------------
(* What correct embedding guarantees.                                      *)

TypeOK ==
  /\ present \subseteq Rows
  /\ archived \subseteq Sources
  /\ vector \in [Rows -> Columns!Texts \cup {NoVector}]
  /\ run \in [Embedders -> Run]
  /\ written \in [Embedders -> SUBSET Rows]
  /\ byHand \in Nat
  /\ failures \in Nat

\* A batch holds present rows of the one table, each once, with a text that the
\* row has or had (embed.go:104).
BatchesExist ==
  \A w \in Embedders : \A i \in DOMAIN run[w].pending :
    /\ run[w].pending[i].id \in TableOf(run[w].table) \cap present
    /\ run[w].pending[i].text \in Columns!TextsOf(run[w].pending[i].id)
    /\ \A j \in DOMAIN run[w].pending :
         run[w].pending[i].id = run[w].pending[j].id => i = j

\* An open transaction has written rows of its batch whose column is NULL for
\* everybody else, and no two hold the same row (embed.go:164).
WritersAreAlone ==
  \A w \in Embedders : \A r \in written[w] :
    /\ At(w, "write")
    /\ vector[r] = NoVector
    /\ \E i \in DOMAIN run[w].pending : run[w].pending[i].id = r
    /\ \A v \in Embedders \ {w} : r \notin written[v]

\* The inductive invariant: what is fetched, and what is written, before it is
\* committed, with overlapping runs, errors and deadlocks (embed.go:72, 123).
EmbedInv == TypeOK /\ BatchesExist /\ WritersAreAlone

\* Whatever overlaps or fails, columns are filled once, with a vector of the
\* row's own text, and all rows of a request together (embed.go:19, 72).
ImplementsColumns == Columns!Spec

\* More rows wait in some table than the embedder takes in one request, though
\* the worker sends them (embed.go:60).
Crowded ==
  /\ Limit > MaxTexts
  /\ \E T \in Columns!Tables :
       Cardinality({r \in T \cap present : vector[r] = NoVector}) > MaxTexts

\* Every row gets its vector, unless requests are refused for their size or the
\* scheduled run itself waits for the embedder forever (embed.go:49; client.go:26
\* sets no timeout).  Another run that hangs, or fails, does not keep it from that.
EveryRowEmbedded ==
  \A r \in Rows :
    r \in present ~> vector[r] # NoVector \/ Crowded \/ [](At(Scheduled, "embed"))
=============================================================================
