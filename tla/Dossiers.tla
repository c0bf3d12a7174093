------------------------------ MODULE Dossiers ------------------------------
(***************************************************************************)
(* The readers of the evidence: the dossier worker (dossier.go), which     *)
(* assembles and stores the bundle of each entity that has none from the   *)
(* last 24 hours, and the generation of briefs (api.go, briefs.go), which  *)
(* assembles a bundle in one transaction and stores the brief in another.  *)
(* Meanwhile the other workers commit: between any two queries of an       *)
(* assembly there may be new evidence.                                     *)
(***************************************************************************)
EXTENDS Briefs

CONSTANTS
  Present,       \* the links that are there at first, with their statements
  NewLinks,      \* the links that may be added
  Qualifiable,   \* the statements that an editor may qualify
  Related,       \* the relations that are there at first
  NewRelations,  \* the relations that an editor may add
  Created,       \* Created[e]: created_at of entity e
  Workers,       \* runs of the dossier worker
  Scheduled,     \* the one that the CronJob starts, one run at a time
  Writers,       \* requests for a brief
  Limit,         \* --limit
  RunsPerDay,    \* scheduled runs that fit into 24 hours, at least
  MaxWrites,     \* bound: changes of the evidence
  MaxByHand,     \* bound: runs that a person starts
  MaxFailures    \* bound: runs that fail for an outside reason

ASSUME DossiersConstants ==
  /\ Present \cup NewLinks \subseteq Statements \X Sources /\ Qualifiable \subseteq Statements
  /\ Related \cup NewRelations \subseteq Relation
  /\ \A r \in Related : {r.from, r.to} \subseteq {SubjectOf[l[1]] : l \in Present}
  /\ Created \in [Entities -> Nat]
  /\ Scheduled \in Workers /\ Workers \cap Writers = {}
  /\ {Limit, RunsPerDay, MaxWrites, MaxByHand, MaxFailures} \subseteq Nat

\* A day has room for the dossiers of all entities.
ASSUME LimitSuffices == Limit * RunsPerDay >= Cardinality(Entities)

VARIABLES
  dossiers,   \* table dossiers: entity -> [bundle, recent: less than 24 hours old]
  briefs,     \* table evidence_briefs: the payloads
  run,        \* per worker or writer: its open transaction
  doneToday,  \* scheduled runs that committed in the last 24 hours, up to RunsPerDay
  writes, byHand, failures

vars == <<evidence, dossiers, briefs, run, doneToday, writes, byHand, failures>>
bounds == <<writes, byHand, failures>>

Readers == Workers \cup Writers

\* Table f after an upsert: row v under key k, new or in place of the old one.
WithRow(f, k, v) == [x \in DOMAIN f \cup {k} |-> IF x = k THEN v ELSE f[x]]

\* todo: the entities to assemble, the current one first; seeds and depth: the
\* arguments of Assemble; stored: what the transaction has upserted, and so
\* locked; recent: its now() is less than 24 hours ago.
Idle == [pc |-> "idle", todo |-> <<>>, seeds |-> {}, depth |-> 0, bundle |-> EmptyBundle(0),
         stored |-> [e \in {} |-> EmptyBundle(0)], recent |-> TRUE]

-----------------------------------------------------------------------------
(* Which entities a run takes.                                             *)

\* Mutant of Due: only missing dossiers count.
DueMissing == entities \ DOMAIN dossiers

Due == {e \in entities : e \in DOMAIN dossiers => ~dossiers[e].recent}

\* ORDER BY created_at LIMIT: rows with equal times come in any order.
Batches(S) ==
  {SubSeq(q, 1, Min({Limit, Len(q)})) :
     q \in {p \in SetToSeqs(S) :
              \A i, j \in DOMAIN p : i < j => Created[p[i]] <= Created[p[j]]}}

\* The next call of Assemble in run r, or the commit when there is none left.
Next1(r) == IF r.todo = <<>> THEN [r EXCEPT !.pc = "commit"]
            ELSE [r EXCEPT !.pc = "entities", !.seeds = {Head(r.todo)}, !.depth = 0,
                           !.bundle = EmptyBundle(Head(r.todo))]

StartWith(w, todo) == run' = [run EXCEPT ![w] = Next1([Idle EXCEPT !.todo = todo])]

BeginScheduled ==
  /\ run[Scheduled].pc = "idle"
  /\ \E todo \in Batches(Due) : StartWith(Scheduled, todo)
  /\ UNCHANGED <<evidence, dossiers, briefs, doneToday, bounds>>

\* A person asks for the entities that are due, for all, or for one, which
\* need not exist.
BeginByHand(w) ==
  /\ run[w].pc = "idle" /\ w # Scheduled
  /\ byHand < MaxByHand /\ byHand' = byHand + 1
  /\ \E todo \in Batches(Due) \cup Batches(entities) \cup {<<e>> : e \in Entities} :
       StartWith(w, todo)
  /\ UNCHANGED <<evidence, dossiers, briefs, doneToday, writes, failures>>

\* A brief of a dossier is about one entity, that of a story about what a
\* search finds and its neighbourhood of depth 2.  Which hit comes first gives the
\* bundle its name and no more.
BeginBrief(w) ==
  /\ run[w].pc = "idle"
  /\ byHand < MaxByHand /\ byHand' = byHand + 1
  /\ \E seeds \in SUBSET entities : \E depth \in {0, 2} :
       /\ seeds # {} /\ (depth = 0 => Cardinality(seeds) = 1)
       /\ run' = [run EXCEPT ![w] =
            [Idle EXCEPT !.pc = IF depth > 0 THEN "expand" ELSE "entities",
                         !.seeds = seeds, !.depth = depth, !.bundle = EmptyBundle(Min(seeds))]]
  /\ UNCHANGED <<evidence, dossiers, briefs, doneToday, writes, failures>>

-----------------------------------------------------------------------------
(* Assemble, one query after the other.                                    *)

Query(w, from, to, bundle) ==
  /\ run[w].pc = from
  /\ run' = [run EXCEPT ![w].pc = to, ![w].bundle = bundle]
  /\ UNCHANGED <<evidence, dossiers, briefs, doneToday, bounds>>

Expand(w) ==
  /\ run[w].pc = "expand"
  /\ run' = [run EXCEPT ![w].pc = "entities",
                        ![w].seeds = ExpandGraph(@, run[w].depth)]
  /\ UNCHANGED <<evidence, dossiers, briefs, doneToday, bounds>>

\* The rows of entities never change, so it does not matter when they are read.
LoadStatements(w) ==
  /\ run[w].seeds \subseteq entities
  /\ Query(w, "entities", "sources", WithStatements(WithEntities(run[w].bundle, run[w].seeds)))

LoadSources(w)    == Query(w, "sources", "qualifiers", WithSources(run[w].bundle))
LoadQualifiers(w) == Query(w, "qualifiers", "relations", WithQualifiers(run[w].bundle))
LoadRelations(w)  == Query(w, "relations", "store", WithRelations(run[w].bundle))

Assemble(w) ==
  \/ Expand(w) \/ LoadStatements(w) \/ LoadSources(w) \/ LoadQualifiers(w) \/ LoadRelations(w)

-----------------------------------------------------------------------------
(* What becomes of the bundle.                                             *)

\* w waits for v, which has upserted the dossier that w is to upsert.
WaitsFor(w, v) ==
  /\ v # w
  /\ run[w].pc = "store" /\ w \in Workers
  /\ Head(run[w].todo) \in DOMAIN run[v].stored

Upsert(w) ==
  /\ run[w].pc = "store" /\ w \in Workers
  /\ \A v \in Workers : ~WaitsFor(w, v)
  /\ run' = [run EXCEPT ![w] =
       Next1([@ EXCEPT !.stored = WithRow(run[w].stored, run[w].bundle.entity, run[w].bundle),
                       !.todo   = Tail(run[w].todo)])]
  /\ UNCHANGED <<evidence, dossiers, briefs, doneToday, bounds>>

\* The transaction of w stores its bundles with the date of its beginning.
Commit(w) ==
  /\ run[w].pc = "commit"
  /\ dossiers' = [e \in DOMAIN run[w].stored \cup DOMAIN dossiers |->
                    IF e \in DOMAIN run[w].stored
                      THEN [bundle |-> run[w].stored[e], recent |-> run[w].recent]
                      ELSE dossiers[e]]
  /\ doneToday' = IF w = Scheduled /\ run[w].recent
                    THEN Min({doneToday + 1, RunsPerDay}) ELSE doneToday
  /\ run' = [run EXCEPT ![w] = Idle]
  /\ UNCHANGED <<evidence, briefs, bounds>>

\* The brief is derived from the bundle and inserted in a second transaction.
StoreBrief(w) ==
  /\ run[w].pc = "store" /\ w \in Writers
  /\ \E brief \in Generated(run[w].bundle) : briefs' = briefs \cup {brief}
  /\ run' = [run EXCEPT ![w] = Idle]
  /\ UNCHANGED <<evidence, dossiers, doneToday, bounds>>

Abort(w) == run' = [run EXCEPT ![w] = Idle]

\* ErrEntityNotFound.
NotFound(w) ==
  /\ run[w].pc = "entities" /\ ~(run[w].seeds \subseteq entities)
  /\ Abort(w)
  /\ UNCHANGED <<evidence, dossiers, briefs, doneToday, bounds>>

Fail(w) ==
  /\ run[w].pc # "idle"
  /\ failures < MaxFailures /\ failures' = failures + 1
  /\ Abort(w)
  /\ UNCHANGED <<evidence, dossiers, briefs, doneToday, writes, byHand>>

\* PostgreSQL ends one of two runs that wait for each other.
DeadlockVictim(w) ==
  /\ \E v \in Workers : WaitsFor(w, v) /\ WaitsFor(v, w)
  /\ Abort(w)
  /\ UNCHANGED <<evidence, dossiers, briefs, doneToday, bounds>>

\* 24 hours pass.
NextDay ==
  /\ doneToday = RunsPerDay
  /\ doneToday' = 0
  /\ dossiers' = [e \in DOMAIN dossiers |-> [dossiers[e] EXCEPT !.recent = FALSE]]
  /\ run' = [w \in Readers |-> [run[w] EXCEPT !.recent = run[w].pc = "idle"]]
  /\ UNCHANGED <<evidence, briefs, bounds>>

-----------------------------------------------------------------------------
(* The writers of the evidence, each in a transaction of its own.          *)

Write ==
  /\ writes < MaxWrites /\ writes' = writes + 1
  /\ UNCHANGED <<dossiers, briefs, run, doneToday, byHand, failures>>

\* A statement comes with its first link.
Extract(st, s) ==
  /\ st \notin DOMAIN confidence /\ <<st, s>> \in NewLinks
  /\ confidence' = WithRow(confidence, st, "low")
  /\ links' = links \cup {<<st, s>>}
  /\ UNCHANGED <<status, qualified, relations>>
  /\ Write

AddEvidence(st, s) ==
  /\ st \in DOMAIN confidence /\ <<st, s>> \in NewLinks \ links
  /\ links' = links \cup {<<st, s>>}
  /\ UNCHANGED <<confidence, status, qualified, relations>>
  /\ Write

\* One source gives at most 0.5, whatever its weight.
Corroborate(st) ==
  /\ st \in DOMAIN confidence
  /\ confidence[st] = "low" => \E l, k \in links : l[1] = st /\ k[1] = st /\ l # k
  /\ confidence' = [confidence EXCEPT ![st] = IF @ = "low" THEN "high" ELSE "low"]
  /\ UNCHANGED <<links, status, qualified, relations>>
  /\ Write

Verify(s) ==
  /\ \E st \in DOMAIN confidence : <<st, s>> \in links
  /\ status[s] = "verified"
  /\ status' = [status EXCEPT ![s] = "link-rot"]
  /\ UNCHANGED <<confidence, links, qualified, relations>>
  /\ Write

\* An editor qualifies a statement or relates two entities.
Qualify(st) ==
  /\ st \in (Qualifiable \cap DOMAIN confidence) \ qualified
  /\ qualified' = qualified \cup {st}
  /\ UNCHANGED <<confidence, links, status, relations>>
  /\ Write

Relate(r) ==
  /\ r \in NewRelations \ relations
  /\ {r.from, r.to} \subseteq entities
  /\ relations' = relations \cup {r}
  /\ UNCHANGED <<confidence, links, status, qualified>>
  /\ Write

-----------------------------------------------------------------------------
Init ==
  /\ confidence = [st \in {l[1] : l \in Present} |-> "low"]
  /\ links = Present
  /\ status = [s \in Sources |-> "verified"]
  /\ qualified = {}
  /\ relations = Related
  /\ dossiers = [e \in {} |-> [bundle |-> EmptyBundle(0), recent |-> TRUE]]
  /\ briefs = {}
  /\ run = [w \in Readers |-> Idle]
  /\ doneToday = 0
  /\ writes = 0 /\ byHand = 0 /\ failures = 0

Dossier(w) == (w = Scheduled /\ BeginScheduled) \/ Assemble(w) \/ Upsert(w) \/ Commit(w) \/ NotFound(w)

Next ==
  \/ \E w \in Workers : Dossier(w) \/ BeginByHand(w) \/ DeadlockVictim(w)
  \/ \E w \in Writers : BeginBrief(w) \/ Assemble(w) \/ StoreBrief(w)
  \/ \E w \in Readers : Fail(w)
  \/ NextDay
  \/ \E st \in Statements : \/ Corroborate(st) \/ Qualify(st)
                            \/ \E s \in Sources : Extract(st, s) \/ AddEvidence(st, s)
  \/ \E s \in Sources : Verify(s)
  \/ \E r \in NewRelations : Relate(r)

Spec == Init /\ [][Next]_vars

\* The CronJob starts a run every 15 minutes and a started run goes on; time passes.
Fairness ==
  /\ \A w \in Workers : SF_vars(Dossier(w)) /\ WF_vars(DeadlockVictim(w))
  /\ WF_vars(NextDay)

FairSpec == Spec /\ Fairness

-----------------------------------------------------------------------------
(* What correct reading guarantees.                                        *)

\* The bundles that are finished, stored or not.
Bundles == {dossiers[e].bundle : e \in DOMAIN dossiers}
             \cup {run[w].bundle : w \in {v \in Readers : run[v].pc = "store"}}
             \cup UNION {{run[w].stored[e] : e \in DOMAIN run[w].stored} : w \in Workers}

\* Although six queries read it one after the other while writers commit, no
\* bundle refers to what it does not contain or contains what nothing in it
\* refers to, and every statement in it is sourced: "complete sourcing for
\* every claim" (docs/concepts/dossiers-vs-stories.md:43, README.md:30).
BundlesCoherent == EvidenceType /\ \A b \in Bundles : Coherent(b)

\* The recursive query returns exactly the entities within reach, in graphs
\* with cycles, weak edges and edges of either direction (graph.go:33-46).
ExpansionIsReachability ==
  \A w \in Writers : run[w].pc = "expand" =>
    \A depth \in 1..3 : ExpandGraph(run[w].seeds, depth) = Reachable(run[w].seeds, depth)

\* A bundle has one brief, whatever the order in which Go visits the map of
\* its statements: "stable across repeated calls for the same input"
\* (briefs.go:134), up to the number of conflicts that sort.Slice keeps in order.
BriefsStable ==
  \A w \in Writers : run[w].pc = "store" =>
    LET b == run[w].bundle IN
      Cardinality(Disagreements(b)) <= InsertionMax =>
        \A brief1, brief2 \in Generated(b) : brief1 = brief2

\* Every entity's dossier ends up as what the evidence gives, whatever older
\* bundles overlapping runs stored over newer ones in between.
DossiersEndCurrent ==
  <>[](\A e \in entities : e \in DOMAIN dossiers /\ dossiers[e].bundle = BundleNow(e, {e}, 0))

-----------------------------------------------------------------------------
(* Why bundles are coherent: an inductive invariant.                       *)

\* A statement is committed together with a link, and links stay.
EveryClaimSourced ==
  \A st \in DOMAIN confidence : \E s \in Sources : <<st, s>> \in links

\* What the queries of r have brought so far, and what it has upserted, are
\* about statements that are known, that is, in the table.
GoodRun(r, known) ==
  LET b == r.bundle IN
    /\ DOMAIN r = DOMAIN Idle
    /\ DOMAIN b = DOMAIN EmptyBundle(0)
    /\ r.pc = "expand" => r.seeds \subseteq {SubjectOf[st] : st \in known}
    /\ r.pc \in {"expand", "entities"} => DOMAIN b.statements = {}
    /\ r.pc \in {"expand", "entities", "sources"} =>
         /\ \A st \in DOMAIN b.statements : st \in known /\ SubjectOf[st] \in b.entities
         /\ b.qualifiers = {} /\ b.relations = {}
    /\ r.pc \in {"qualifiers", "relations", "store"} =>
         DOMAIN b.statements \subseteq known /\ Coherent(b)
    /\ \A e \in DOMAIN r.stored : Coherent(r.stored[e])

\* The inductive invariant.
BundlesInv ==
  /\ EvidenceType
  /\ EveryClaimSourced
  /\ DOMAIN run = Readers
  /\ \A w \in Readers : GoodRun(run[w], DOMAIN confidence)
  /\ \A e \in DOMAIN dossiers : Coherent(dossiers[e].bundle)
=============================================================================
