------------------------------ MODULE Assembler ------------------------------
(***************************************************************************)
(* The evidence of one tenant and the queries that Assemble (bundle.go)    *)
(* runs on it.  Assemble is not one query but six, each with a snapshot of *)
(* its own (READ COMMITTED), so every operator here takes what the earlier *)
(* queries returned and reads the rest from the tables as they are now.    *)
(***************************************************************************)
EXTENDS Naturals, FiniteSets, Sequences, SequencesExt

CONSTANTS
  Entities, Statements, Sources,  \* numbered in the order of their uuids
  SubjectOf                       \* SubjectOf[st]: the entity st is about

ASSUME IdsType == /\ Entities \subseteq Nat /\ Statements \subseteq Nat /\ Sources \subseteq Nat
                  /\ IsFiniteSet(Entities) /\ IsFiniteSet(Statements) /\ IsFiniteSet(Sources)
ASSUME SubjectType == SubjectOf \in [Statements -> Entities]

VARIABLES
  confidence,  \* table statements: the statement -> "low", or "high" from 0.7
  links,       \* table statement_sources: pairs <<statement, source>>
  status,      \* sources.status of each source, as far as readers care
  qualified,   \* table qualifiers: the statements that have one
  relations    \* table relations: records [from, to, strong: confidence >= 0.4]

evidence == <<confidence, links, status, qualified, relations>>

SourceStatuses == {"verified", "link-rot"}

\* An entity is created with the first statement about it.
entities == {SubjectOf[st] : st \in DOMAIN confidence}

Relation == [from : Entities, to : Entities, strong : BOOLEAN]

EvidenceType ==
  /\ DOMAIN confidence \subseteq Statements
  /\ \A st \in DOMAIN confidence : confidence[st] \in {"low", "high"}
  /\ links \subseteq (DOMAIN confidence) \X Sources
  /\ status \in [Sources -> SourceStatuses]
  /\ qualified \subseteq DOMAIN confidence
  /\ relations \subseteq Relation
  /\ \A r \in relations : {r.from, r.to} \subseteq entities

-----------------------------------------------------------------------------
(* The graph.                                                              *)

\* Mutant of Adjacent: the edges are followed forwards only.
AdjacentForwards(S) == {r.to : r \in {q \in relations : q.strong /\ q.from \in S}}

\* The entities one edge away from S, in either direction; the threshold
\* leaves out weak edges.
Adjacent(S) ==
  LET strong == {r \in relations : r.strong}
  IN  {r.to : r \in {q \in strong : q.from \in S}}
        \cup {r.from : r \in {q \in strong : q.to \in S}}

\* The recursive query: its rows are pairs of an entity and a depth, kept as
\* a set (UNION), and each round extends the rows of the round before.
ExpandGraph(seeds, depth) ==
  LET graph[d \in 0..depth] ==
        IF d = 0 THEN seeds \X {0}
        ELSE LET frontier == {row[1] : row \in {r \in graph[d - 1] : r[2] = d - 1}}
             IN  graph[d - 1] \cup (Adjacent(frontier) \X {d})
  IN  {row[1] : row \in graph[depth]}

\* What it should return: the ends of paths of at most `depth` strong edges,
\* whatever the direction of each.
Reachable(seeds, depth) ==
  LET Edge(a, b) == \E r \in relations : r.strong /\ {r.from, r.to} = {a, b}
  IN  {e \in entities :
         \E n \in 0..depth : \E path \in [0..n -> entities] :
           /\ path[0] \in seeds /\ path[n] = e
           /\ \A i \in 1..n : Edge(path[i - 1], path[i])}

-----------------------------------------------------------------------------
(* The bundle.                                                             *)

\* What the queries have returned so far: `of` of a source is the statement
\* whose excerpt it carries.
EmptyBundle(primary) ==
  [entity |-> primary, entities |-> {}, statements |-> [st \in {} |-> "low"],
   sourceIds |-> {}, sources |-> [s \in {} |-> [status |-> "verified", of |-> 0]],
   qualifiers |-> {}, relations |-> {}]

WithEntities(b, ids) == [b EXCEPT !.entities = ids]

WithStatements(b) ==
  [b EXCEPT !.statements =
     [st \in {t \in DOMAIN confidence : SubjectOf[t] \in b.entities} |-> confidence[st]]]

\* A source that several statements cite is listed once, with the excerpt of
\* the first row, so of the statement with the smallest id.
SourcesFor(L) ==
  [s \in {l[2] : l \in L} |->
     [status |-> status[s], of |-> Min({l[1] : l \in {k \in L : k[2] = s}})]]

\* Mutant of WithSources: joined on the subjects instead of the statements read.
WithSourcesOfSubjects(b) ==
  LET L == {l \in links : SubjectOf[l[1]] \in b.entities}
  IN  [b EXCEPT !.sourceIds = L, !.sources = SourcesFor(L)]

WithSources(b) ==
  LET L == {l \in links : l[1] \in DOMAIN b.statements}
  IN  [b EXCEPT !.sourceIds = L, !.sources = SourcesFor(L)]

WithQualifiers(b) ==
  [b EXCEPT !.qualifiers = qualified \cap DOMAIN b.statements]

\* Weak relations are listed too.
WithRelations(b) ==
  [b EXCEPT !.relations = {r \in relations : {r.from, r.to} \subseteq b.entities}]

\* The bundle that Assemble would return if nothing changed meanwhile.
BundleNow(primary, seeds, depth) ==
  LET ids == IF depth > 0 THEN ExpandGraph(seeds, depth) ELSE seeds
  IN  WithRelations(WithQualifiers(WithSources(WithStatements(
        WithEntities(EmptyBundle(primary), ids)))))

\* A bundle is one document: each statement is about one of its entities and
\* cites sources of the bundle, each source is there for a statement whose
\* excerpt it carries, qualifiers and relations refer to what is there.
Coherent(b) ==
  /\ \A st \in DOMAIN b.statements :
       /\ SubjectOf[st] \in b.entities
       /\ \E s \in DOMAIN b.sources : <<st, s>> \in b.sourceIds
  /\ \A l \in b.sourceIds : l[1] \in DOMAIN b.statements /\ l[2] \in DOMAIN b.sources
  /\ \A s \in DOMAIN b.sources : <<b.sources[s].of, s>> \in b.sourceIds
  /\ b.qualifiers \subseteq DOMAIN b.statements
  /\ \A r \in b.relations : {r.from, r.to} \subseteq b.entities
=============================================================================
