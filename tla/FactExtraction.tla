--------------------------- MODULE FactExtraction ---------------------------
(***************************************************************************)
(* ExtractOnce (extract.go), statement by SQL statement: how the proposals *)
(* read in a source become rows of entities, properties,                   *)
(* proposed_properties, statements and statement_sources.                  *)
(*                                                                         *)
(* A run reads a batch of archived sources, then writes each source in a   *)
(* READ COMMITTED transaction of its own.  Every INSERT carries ON CONFLICT *)
(* DO NOTHING: it waits while another transaction holds an uncommitted row *)
(* with the same unique key, and afterwards leaves a committed row alone.  *)
(* SourceLifecycle has the transaction as one step; here other extractors  *)
(* and the operator who reviews the vocabulary come in between.            *)
(***************************************************************************)
EXTENDS Naturals, Sequences, FiniteSets

CONSTANTS
  Sources, Facts,     \* a fact is a statement: subject, property and value
  Entities, Slugs, ValueTypes,
  SubjectOf, SlugOf,  \* the subject and the property of a fact
  TypeOf,             \* the value type that it is proposed with
  Malformed,          \* facts whose value does not convert to its value type
  Catalog,            \* the built-in catalog: slug -> value type
  Vocabulary,         \* table properties at the start: slug -> value type
  Readings,           \* Readings[s]: what extraction may propose for source s
  Age,                \* fetched_at: equal for sources of one collector run
  Extractors,
  Permissive,         \* the extractors that run in ModePermissive
  Limit,              \* --limit: sources per run
  MaxFailures         \* bound: runs that fail for an outside reason

\* A proposal: a fact, and whether its excerpt is at its offsets.
Mention == [fact : Facts, ok : BOOLEAN]

ASSUME FactsType ==
  /\ SubjectOf \in [Facts -> Entities]
  /\ SlugOf \in [Facts -> Slugs]
  /\ TypeOf \in [Facts -> ValueTypes]
  /\ Malformed \subseteq Facts
  /\ \E D \in SUBSET Slugs : Catalog \in [D -> ValueTypes]
  /\ \E D \in SUBSET Slugs : Vocabulary \in [D -> ValueTypes]
ASSUME ReadingsType == Readings \in [Sources -> SUBSET Seq(Mention)]
ASSUME AgeType ==
  /\ IsFiniteSet(Sources)
  /\ Age \in [Sources -> Nat]
ASSUME ExtractorsType ==
  /\ Permissive \subseteq Extractors
  /\ Limit \in Nat \ {0}
  /\ MaxFailures \in Nat

VARIABLES
  rows,      \* committed rows of the five tables
  status,    \* sources.status
  run,       \* per extractor: what it is doing
  mine,      \* per extractor: rows its open transaction has inserted
  failures

vars == <<rows, status, run, mine, failures>>

\* A row starts with its table and its unique key there: (tenant_id, ext_id),
\* (tenant_id, slug), (tenant_id, proposed_slug, status), the logical identity
\* of a statement.  A link belongs to one new statement.
Rows == ({"entity"} \X Entities) \cup ({"property"} \X Slugs \X ValueTypes)
          \cup ({"pending", "approved"} \X Slugs \X ValueTypes)
          \cup ({"statement"} \X Facts) \cup ({"link"} \X Facts \X Sources)

Key(row) == <<row[1], row[2]>>

KeysOf(S) == {Key(row) : row \in S}

Steps == {"idle", "source", "mention", "property", "register", "propose", "statement"}

\* batch: sources to go, the current one first; facts: what was read in it;
\* at: the position in facts.
Run == [step : Steps, batch : Seq(Sources), facts : Seq(Mention), at : Nat, accepted : BOOLEAN]

Idle == [step |-> "idle", batch |-> <<>>, facts |-> <<>>, at |-> 0, accepted |-> FALSE]

Current(w) == Head(run[w].batch)
Fact(w)    == run[w].facts[run[w].at].fact
At(w, step) == run[w].step = step
Go(w, step) == run' = [run EXCEPT ![w].step = step]

NextMention(w) == run' = [run EXCEPT ![w].step = "mention", ![w].at = @ + 1]

\* What a query of w sees.
Visible(w) == rows \cup mine[w]

\* Mutant of Unheld: does not wait for the other transaction.
UnheldAlways(w, key) == TRUE

\* No other transaction has inserted an uncommitted row with this key.
Unheld(w, key) == \A v \in Extractors \ {w} : key \notin KeysOf(mine[v])

\* INSERT ... ON CONFLICT DO NOTHING (with the SELECT that fetches the row in
\* case of a conflict).
Insert(w, row) ==
  /\ Unheld(w, Key(row))
  /\ mine' = [mine EXCEPT ![w] =
              IF Key(row) \in KeysOf(Visible(w)) THEN @ ELSE @ \cup {row}]

\* Mutant of Abort: the transaction is left open.
AbortOpen(w) == run' = [run EXCEPT ![w] = Idle] /\ UNCHANGED mine

\* An error anywhere: the transaction is rolled back and ExtractOnce returns.
Abort(w) ==
  /\ run'  = [run EXCEPT ![w] = Idle]
  /\ mine' = [mine EXCEPT ![w] = {}]

-----------------------------------------------------------------------------
(* The batch.                                                              *)

\* loadArchivedSources: the oldest archived sources; ties in any order.
Begin(w) ==
  /\ At(w, "idle")
  /\ LET archived == {s \in Sources : status[s] = "archived"}
         n == IF Cardinality(archived) < Limit THEN Cardinality(archived) ELSE Limit
     IN  /\ n > 0
         /\ \E q \in [1..n -> archived] :
              /\ \A i, j \in 1..n : i < j => q[i] # q[j] /\ Age[q[i]] <= Age[q[j]]
              /\ \A s \in archived : (\A i \in 1..n : q[i] # s) => Age[q[n]] <= Age[s]
              /\ run' = [run EXCEPT ![w] = [Idle EXCEPT !.step = "source", !.batch = q]]
  /\ UNCHANGED <<rows, status, mine, failures>>

\* extractFacts, outside any transaction.  A source without proposals is done.
Read(w) ==
  /\ At(w, "source")
  /\ run[w].batch # <<>>
  /\ \E reading \in Readings[Current(w)] :
       IF reading = <<>>
         THEN run' = [run EXCEPT ![w].batch = Tail(@)]
         ELSE run' = [run EXCEPT ![w] = [step |-> "mention", batch |-> run[w].batch,
                                         facts |-> reading, at |-> 1, accepted |-> FALSE]]
  /\ UNCHANGED <<rows, status, mine, failures>>

End(w) ==
  /\ At(w, "source")
  /\ run[w].batch = <<>>
  /\ run' = [run EXCEPT ![w] = Idle]
  /\ UNCHANGED <<rows, status, mine, failures>>

-----------------------------------------------------------------------------
(* One proposal: writeExtractedFacts' loop with insertFact.                *)

HasMention(w) == At(w, "mention") /\ run[w].at <= Len(run[w].facts)

RejectExcerpt(w) ==
  /\ HasMention(w)
  /\ ~run[w].facts[run[w].at].ok
  /\ NextMention(w)
  /\ UNCHANGED <<rows, status, mine, failures>>

EnsureEntity(w) ==
  /\ HasMention(w)
  /\ run[w].facts[run[w].at].ok
  /\ Insert(w, <<"entity", SubjectOf[Fact(w)]>>)
  /\ Go(w, "property")
  /\ UNCHANGED <<rows, status, failures>>

\* Resolve: a slug is known if it is in the catalog, which then gives the
\* value type, and in permissive mode anyway.
Known(w, slug) == slug \in DOMAIN Catalog \/ w \in Permissive

ValueType(f) == IF SlugOf[f] \in DOMAIN Catalog THEN Catalog[SlugOf[f]] ELSE TypeOf[f]

\* Mutant of LookUpProperty: what is in the catalog is taken to be in the table.
LookUpCatalog(w) ==
  /\ At(w, "property")
  /\ LET slug == SlugOf[Fact(w)] IN
       Go(w, IF <<"property", slug>> \in KeysOf(Visible(w)) \/ Known(w, slug)
             THEN "statement" ELSE "propose")
  /\ UNCHANGED <<rows, status, mine, failures>>

\* Mutant of LookUpProperty: the mode is ignored.
LookUpAnyProperty(w) ==
  /\ At(w, "property")
  /\ Go(w, IF <<"property", SlugOf[Fact(w)]>> \in KeysOf(Visible(w))
             THEN "statement" ELSE "register")
  /\ UNCHANGED <<rows, status, mine, failures>>

\* ensureProperty looks for the slug first, whatever its value type ...
LookUpProperty(w) ==
  /\ At(w, "property")
  /\ LET slug == SlugOf[Fact(w)] IN
       Go(w, IF <<"property", slug>> \in KeysOf(Visible(w)) THEN "statement"
             ELSE IF Known(w, slug) THEN "register" ELSE "propose")
  /\ UNCHANGED <<rows, status, mine, failures>>

\* ... then registers a known property,
RegisterProperty(w) ==
  /\ At(w, "register")
  /\ Insert(w, <<"property", SlugOf[Fact(w)], ValueType(Fact(w))>>)
  /\ Go(w, "statement")
  /\ UNCHANGED <<rows, status, failures>>

\* Mutant of ProposeProperty: the unknown slug is dropped.
ProposeNothing(w) ==
  /\ At(w, "propose")
  /\ NextMention(w)
  /\ UNCHANGED <<rows, status, mine, failures>>

\* or queues an unknown one for review, and the fact is not written.
ProposeProperty(w) ==
  /\ At(w, "propose")
  /\ Insert(w, <<"pending", SlugOf[Fact(w)], ValueType(Fact(w))>>)
  /\ NextMention(w)
  /\ UNCHANGED <<rows, status, failures>>

\* Mutant of InsertStatement: a duplicate counts as accepted.
InsertStatementCounted(w) ==
  /\ At(w, "statement")
  /\ Fact(w) \notin Malformed
  /\ Insert(w, <<"statement", Fact(w)>>)
  /\ run' = [run EXCEPT ![w].step = "mention", ![w].at = @ + 1, ![w].accepted = TRUE]
  /\ UNCHANGED <<rows, status, failures>>

\* Mutant of InsertStatement: every fact is committed by itself.
InsertStatementNow(w) ==
  /\ At(w, "statement")
  /\ Fact(w) \notin Malformed
  /\ Unheld(w, <<"statement", Fact(w)>>)
  /\ IF <<"statement", Fact(w)>> \in Visible(w)
       THEN NextMention(w) /\ UNCHANGED <<rows, mine>>
       ELSE /\ rows' = rows \cup mine[w] \cup {<<"statement", Fact(w)>>,
                                               <<"link", Fact(w), Current(w)>>}
            /\ mine' = [mine EXCEPT ![w] = {}]
            /\ run'  = [run EXCEPT ![w].step = "mention", ![w].at = @ + 1,
                                   ![w].accepted = TRUE]
  /\ UNCHANGED <<status, failures>>

\* INSERT INTO statements ... RETURNING id, and the link to the source if the
\* statement is new.
InsertStatement(w) ==
  /\ At(w, "statement")
  /\ Fact(w) \notin Malformed
  /\ Unheld(w, <<"statement", Fact(w)>>)
  /\ IF <<"statement", Fact(w)>> \in Visible(w)
       THEN NextMention(w) /\ UNCHANGED mine
       ELSE /\ mine' = [mine EXCEPT ![w] = @ \cup {<<"statement", Fact(w)>>,
                                                   <<"link", Fact(w), Current(w)>>}]
            /\ run'  = [run EXCEPT ![w].step = "mention", ![w].at = @ + 1,
                                   ![w].accepted = TRUE]
  /\ UNCHANGED <<rows, status, failures>>

\* The value does not convert ($5::numeric, ::timestamptz, ::uuid).
StatementError(w) ==
  /\ At(w, "statement")
  /\ Fact(w) \in Malformed
  /\ Abort(w)
  /\ UNCHANGED <<rows, status, failures>>

\* Mutant of WriteSource: the status is not advanced.
WriteSourceOnly(w) ==
  /\ At(w, "mention")
  /\ run[w].at > Len(run[w].facts)
  /\ rows'   = rows \cup mine[w]
  /\ mine'   = [mine EXCEPT ![w] = {}]
  /\ run'    = [run EXCEPT ![w] = [Idle EXCEPT !.step = "source", !.batch = Tail(run[w].batch)]]
  /\ UNCHANGED <<status, failures>>

\* The status of the source, and the commit.
WriteSource(w) ==
  /\ At(w, "mention")
  /\ run[w].at > Len(run[w].facts)
  /\ rows'   = rows \cup mine[w]
  /\ mine'   = [mine EXCEPT ![w] = {}]
  /\ status' = IF run[w].accepted THEN [status EXCEPT ![Current(w)] = "extracted"] ELSE status
  /\ run'    = [run EXCEPT ![w] = [Idle EXCEPT !.step = "source", !.batch = Tail(run[w].batch)]]
  /\ UNCHANGED failures

\* An LLM error, a lost connection, the end of the process.
Fail(w) ==
  /\ ~At(w, "idle")
  /\ failures < MaxFailures
  /\ Abort(w)
  /\ failures' = failures + 1
  /\ UNCHANGED <<rows, status>>

-----------------------------------------------------------------------------
(* Other actors.                                                           *)

\* The operator approves a proposal, by the SQL of the guide.
Approve ==
  \E slug \in Slugs, type \in ValueTypes :
    /\ <<"pending", slug, type>> \in rows
    /\ <<"property", slug>> \notin KeysOf(rows)
    /\ \A v \in Extractors : <<"property", slug>> \notin KeysOf(mine[v])
    /\ rows' = (rows \ {<<"pending", slug, type>>})
                 \cup {<<"approved", slug, type>>, <<"property", slug, type>>}
    /\ UNCHANGED <<status, run, mine, failures>>

\* The key that the next INSERT of w needs.
Wanted(w) ==
  CASE HasMention(w)       -> <<"entity", SubjectOf[Fact(w)]>>
    [] At(w, "register")   -> <<"property", SlugOf[Fact(w)]>>
    [] At(w, "propose")    -> <<"pending", SlugOf[Fact(w)]>>
    [] At(w, "statement")  -> <<"statement", Fact(w)>>
    [] OTHER               -> <<>>

Blocked(w) == /\ HasMention(w) => run[w].facts[run[w].at].ok
              /\ At(w, "statement") => Fact(w) \notin Malformed

WaitsFor(w, v) == v # w /\ Blocked(w) /\ Wanted(w) \in KeysOf(mine[v])

Deadlocked(w) ==
  \E C \in SUBSET Extractors :
    /\ w \in C
    /\ \A x \in C : \E y \in C : WaitsFor(x, y)
    /\ \A y \in C : \E x \in C : WaitsFor(x, y)

\* PostgreSQL cancels one transaction of a cycle of waits.
DeadlockVictim(w) ==
  /\ Deadlocked(w)
  /\ Abort(w)
  /\ UNCHANGED <<rows, status, failures>>

-----------------------------------------------------------------------------
Init ==
  /\ rows     = {<<"property", slug, Vocabulary[slug]>> : slug \in DOMAIN Vocabulary}
  /\ status   = [s \in Sources |-> "archived"]
  /\ run      = [w \in Extractors |-> Idle]
  /\ mine     = [w \in Extractors |-> {}]
  /\ failures = 0

Extract(w) ==
  \/ Begin(w) \/ Read(w) \/ End(w)
  \/ RejectExcerpt(w) \/ EnsureEntity(w)
  \/ LookUpProperty(w) \/ RegisterProperty(w) \/ ProposeProperty(w)
  \/ InsertStatement(w) \/ StatementError(w)
  \/ WriteSource(w)

Next ==
  \/ \E w \in Extractors : Extract(w) \/ Fail(w) \/ DeadlockVictim(w)
  \/ Approve

Spec == Init /\ [][Next]_vars

\* The schedule starts extractors again and again, a started run goes on, and
\* PostgreSQL resolves deadlocks and wakes those who wait for a row.  Nothing
\* says that an operator reviews the queue.
Fairness == \A w \in Extractors : SF_vars(Extract(w)) /\ WF_vars(DeadlockVictim(w))

FairSpec == Spec /\ Fairness

-----------------------------------------------------------------------------
(* What correct extraction guarantees.                                     *)

TypeOK ==
  /\ rows \subseteq Rows
  /\ status \in [Sources -> {"archived", "extracted"}]
  /\ run \in [Extractors -> Run]
  /\ mine \in [Extractors -> SUBSET Rows]
  /\ failures \in Nat

\* Concurrent extractors never write a row twice: among the committed and the
\* uncommitted rows, a key occurs once (W-05, W-06, W-07: extract.go:271, 342,
\* 368), and a statement comes with exactly one link.
NoDuplicates ==
  /\ \A r, q \in rows : Key(r) = Key(q) => r = q
  /\ \A w \in Extractors : \A r \in mine[w] :
       /\ Key(r) \notin KeysOf(rows)
       /\ \A v \in Extractors : \A q \in mine[v] : Key(q) = Key(r) => v = w /\ q = r
  /\ \A w \in Extractors, f \in Facts :
       <<"statement", f>> \in Visible(w) =>
         \E s \in Sources : <<"link", f, s>> \in Visible(w)

\* Rows and runs have their types, and a statement refers to an entity and a
\* property that are committed with it or before it, so no foreign key fails
\* (extract.go:246).
ReferencesHold ==
  /\ TypeOK
  /\ \A f \in Facts : <<"statement", f>> \in rows =>
       {<<"entity", SubjectOf[f]>>, <<"property", SlugOf[f]>>} \subseteq KeysOf(rows)

\* A source is 'extracted' exactly if some statement is linked to it: a source
\* that brought nothing new stays in the queue (extract.go:188).
ExtractedIffLinked ==
  \A s \in Sources :
    status[s] = "extracted" <=> \E f \in Facts : <<"link", f, s>> \in rows

\* Strict extraction never widens the vocabulary: a property that appears is in
\* the catalog, was approved, or comes from a permissive extractor, even if
\* extractors of both modes and the operator meet at a slug (extract.go:326).
VocabularyGuarded ==
  [][\A slug \in Slugs :
       <<"property", slug>> \in KeysOf(rows') \ KeysOf(rows) =>
         \/ slug \in DOMAIN Catalog
         \/ <<"approved", slug>> \in KeysOf(rows')
         \/ \E w \in Permissive : <<"property", slug>> \in KeysOf(mine[w])]_vars

\* What w finds of the fact f: the statement, or its slug in the review queue.
Outcome(w, f) ==
  KeysOf(Visible(w)) \cap {<<"statement", f>>, <<"pending", SlugOf[f]>>, <<"approved", SlugOf[f]>>}

\* Nothing that was read with a good excerpt is dropped: by the time the
\* extractor is past it, it is a statement or its slug is in the review queue
\* (docs/guides/defining-properties.md:96; extract.go:326, 250).
NothingDropped ==
  \A w \in Extractors : \A i \in 1..Len(run[w].facts) :
    i < run[w].at /\ run[w].facts[i].ok => Outcome(w, run[w].facts[i].fact) # {}

\* The rows and statuses that others read, in the terms of SourceLedger.
GroundedIn == [s \in Sources |->
  {f \in Facts : \E reading \in Readings[s] : \E i \in DOMAIN reading :
                   reading[i] = [fact |-> f, ok |-> TRUE]}]

Table == INSTANCE SourceRows WITH Grounded <- GroundedIn, Blank <- {}

Ledger == INSTANCE SourceLedger WITH
  Grounded <- GroundedIn,
  Blank    <- {},
  sources  <- [s \in Sources |-> [Table!Collected(0) EXCEPT !.raw_text = "text",
                                    !.archive_url = "empty", !.status = status[s]]],
  evidence <- {e \in Facts \X Sources : <<"link", e[1], e[2]>> \in rows}

\* However the statements of several extractors interleave, a reader sees a
\* source extracted in one step, as SourceLifecycle has it (the transaction of
\* extract.go:164).
ExtractsAtOnce == [][Ledger!Extract]_(Ledger!ledger)

\* No extractor is in a circle of waits, which ends with an error of one of them.
NoDeadlock == \A w \in Extractors : ~Deadlocked(w)

\* Every run ends, deadlocks and errors included.
RunsEnd == \A w \in Extractors : ~At(w, "idle") ~> At(w, "idle")

\* The facts that extraction finds in s whatever it reads, that can be stored,
\* and that no other source asserts.
Own(s) == {f \in Facts \ Malformed :
             /\ SlugOf[f] \in DOMAIN Catalog \cup DOMAIN Vocabulary
             /\ \A reading \in Readings[s] :
                  [fact |-> f, ok |-> TRUE] \in {reading[i] : i \in DOMAIN reading}
             /\ \A t \in Sources \ {s} : f \notin GroundedIn[t]}

\* A source with a fact of its own ends up extracted, whatever its neighbours
\* in the batch are, if the batch holds all sources, no older one has a value
\* that its column does not accept, and runs do not deadlock for ever
\* (extract.go:88).
ProductiveIsExtracted ==
  <>[]NoDeadlock => \A s \in Sources : Own(s) # {} => <>(status[s] = "extracted")

-----------------------------------------------------------------------------
(* Why the safety properties hold: an inductive invariant.                 *)

\* Statements and links come and go in pairs, an approved slug is registered,
\* and only the operator approves.
RowsPaired ==
  /\ \A f \in Facts :
       /\ <<"statement", f>> \in rows <=> \E s \in Sources : <<"link", f, s>> \in rows
       /\ \A w \in Extractors :
            <<"statement", f>> \in mine[w] <=> \E s \in Sources : <<"link", f, s>> \in mine[w]
  /\ \A slug \in Slugs, type \in ValueTypes :
       /\ <<"approved", slug, type>> \in rows => <<"property", slug>> \in KeysOf(rows)
       /\ \A w \in Extractors : <<"approved", slug, type>> \notin mine[w]

\* A transaction is about the current source: it is 'accepted' exactly if it has
\* linked something to it, and what it has linked is in its text.
LinksCurrent(w) ==
  /\ run[w].accepted <=> \E f \in Facts, s \in Sources : <<"link", f, s>> \in mine[w]
  /\ \A f \in Facts, s \in Sources : <<"link", f, s>> \in mine[w] =>
       s = Current(w) /\ f \in GroundedIn[s]

\* What a statement refers to is visible to the transaction that writes it, and
\* a property that it registers is known to it.
RefersToVisible(w) ==
  /\ \A f \in Facts : <<"statement", f>> \in mine[w] =>
       {<<"entity", SubjectOf[f]>>, <<"property", SlugOf[f]>>} \subseteq KeysOf(Visible(w))
  /\ \A slug \in Slugs : <<"property", slug>> \in KeysOf(mine[w]) => Known(w, slug)

\* How far a run is: between sources it has no open transaction; otherwise it
\* works on a reading of its current source, and on a good mention of it.
Progress(w) ==
  /\ At(w, "idle") \/ At(w, "source") => run[w].facts = <<>> /\ mine[w] = {}
  /\ ~At(w, "idle") /\ ~At(w, "source") =>
       run[w].batch # <<>> /\ run[w].at > 0 /\ run[w].facts \in Readings[Current(w)]
  /\ run[w].step \in {"property", "register", "propose", "statement"} =>
       /\ run[w].at \in DOMAIN run[w].facts /\ run[w].facts[run[w].at].ok
       /\ <<"entity", SubjectOf[Fact(w)]>> \in KeysOf(Visible(w))
  /\ At(w, "register") => Known(w, SlugOf[Fact(w)])
  /\ At(w, "statement") => <<"property", SlugOf[Fact(w)]>> \in KeysOf(Visible(w))

\* The inductive invariant.
FactInv ==
  /\ ReferencesHold /\ NoDuplicates /\ ExtractedIffLinked /\ NothingDropped
  /\ RowsPaired
  /\ \A w \in Extractors : LinksCurrent(w) /\ RefersToVisible(w) /\ Progress(w)
=============================================================================
