--------------------------- MODULE DossiersProofs ---------------------------
(***************************************************************************)
(* Bundles are coherent, whatever is committed between the queries that    *)
(* read them: BundlesInv is an inductive invariant of Dossiers for any     *)
(* entities, statements, sources, workers and bounds.                      *)
(***************************************************************************)
EXTENDS Dossiers, FiniteSetTheorems, WellFoundedInduction, TLAPS

-----------------------------------------------------------------------------
\* Min of a non-empty set of numbers is its least member: with it a proof takes the
\* first number for which something fails, which is how it argues by induction.
LEMMA MinIsLeast ==
  ASSUME NEW S \in SUBSET Nat, S # {}
  PROVE  Min(S) \in S /\ \A y \in S : Min(S) <= y
<1> DEFINE R == {p \in Nat \X Nat : p[1] < p[2]}
<1>1. IsWellFoundedOn(R, Nat)
  BY NatLessThanWellFounded DEF OpToRel
<1> HIDE DEF R
<1>2. PICK x \in S : \A y \in S : <<y, x>> \notin R
  BY <1>1, WFMin
<1>3. ASSUME NEW y \in S PROVE x <= y
  <2>1. <<y, x>> \in Nat \X Nat /\ x \in Nat /\ y \in Nat
    OBVIOUS
  <2>2. ~(y < x)
    BY <1>2, <2>1 DEF R
  <2> QED BY <2>1, <2>2
<1> QED BY <1>3 DEF Min

-----------------------------------------------------------------------------
(* The queries.                                                            *)

LEMMA StatementsRead ==
  ASSUME NEW b, DOMAIN b = DOMAIN EmptyBundle(0), NEW ids,
         b.qualifiers = {}, b.relations = {}
  PROVE  LET c == WithStatements(WithEntities(b, ids)) IN
           /\ DOMAIN c = DOMAIN EmptyBundle(0)
           /\ \A st \in DOMAIN c.statements : st \in DOMAIN confidence /\ SubjectOf[st] \in c.entities
           /\ c.qualifiers = {} /\ c.relations = {}
BY DEF WithStatements, WithEntities, EmptyBundle

\* Each statement read has a link, and each source listed was found by one.
LEMMA SourcesRead ==
  ASSUME EvidenceType, EveryClaimSourced,
         NEW b, DOMAIN b = DOMAIN EmptyBundle(0),
         \A st \in DOMAIN b.statements : st \in DOMAIN confidence /\ SubjectOf[st] \in b.entities,
         b.qualifiers = {}, b.relations = {}
  PROVE  /\ DOMAIN WithSources(b) = DOMAIN EmptyBundle(0) /\ Coherent(WithSources(b))
         /\ WithSources(b).statements = b.statements
<1> DEFINE L == {l \in links : l[1] \in DOMAIN b.statements}
           c == WithSources(b)
<1>1. /\ DOMAIN c = DOMAIN EmptyBundle(0)
      /\ c.statements = b.statements /\ c.entities = b.entities
      /\ c.qualifiers = {} /\ c.relations = {}
      /\ c.sourceIds = L /\ c.sources = SourcesFor(L)
  BY DEF WithSources, EmptyBundle
<1>2. links \subseteq Statements \X Sources
  BY DEF EvidenceType
<1>3. DOMAIN c.sources = {l[2] : l \in L}
  BY <1>1 DEF SourcesFor
<1>4. ASSUME NEW st \in DOMAIN c.statements
      PROVE  SubjectOf[st] \in c.entities /\ \E s \in DOMAIN c.sources : <<st, s>> \in c.sourceIds
  <2>1. PICK s \in Sources : <<st, s>> \in links
    BY <1>1 DEF EveryClaimSourced
  <2>2. <<st, s>> \in L /\ <<st, s>>[2] = s
    BY <1>1, <2>1
  <2>3. s \in DOMAIN c.sources
    BY <1>3, <2>2
  <2> QED BY <1>1, <2>2, <2>3
<1>5. ASSUME NEW s \in DOMAIN c.sources
      PROVE  <<c.sources[s].of, s>> \in c.sourceIds
  <2> DEFINE S == {l[1] : l \in {k \in L : k[2] = s}}
  <2>1. c.sources[s].of = Min(S)
    BY <1>1, <1>3 DEF SourcesFor
  <2>2. S \in SUBSET Statements
    BY <1>2
  <2>3. S # {}
    BY <1>3
  <2>4. IsFiniteSet(S) /\ S \in SUBSET Nat
    BY <2>2, IdsType, FS_Subset
  <2>5. Min(S) \in S
    <3> HIDE DEF S
    <3> QED BY <2>3, <2>4, MinIsLeast
  <2>6. PICK l \in L : l[2] = s /\ l[1] = Min(S)
    BY <2>5
  <2>7. l = <<Min(S), s>>
    BY <1>2, <2>6
  <2> QED BY <1>1, <2>1, <2>6, <2>7
<1>6. \A l \in c.sourceIds : l[1] \in DOMAIN c.statements /\ l[2] \in DOMAIN c.sources
  BY <1>1, <1>3
<1> HIDE DEF L, c
<1>7. Coherent(c)
  BY <1>1, <1>4, <1>5, <1>6 DEF Coherent
<1> QED BY <1>1, <1>7 DEF c

\* Qualifiers and relations are those of what is already there.
LEMMA RestRead ==
  ASSUME NEW b, DOMAIN b = DOMAIN EmptyBundle(0), Coherent(b)
  PROVE  /\ DOMAIN WithQualifiers(b) = DOMAIN EmptyBundle(0) /\ Coherent(WithQualifiers(b))
         /\ DOMAIN WithRelations(b) = DOMAIN EmptyBundle(0) /\ Coherent(WithRelations(b))
         /\ WithQualifiers(b).statements = b.statements
         /\ WithRelations(b).statements = b.statements
<1>1. LET c == WithQualifiers(b) IN
        /\ DOMAIN c = DOMAIN EmptyBundle(0)
        /\ c.statements = b.statements /\ c.entities = b.entities
        /\ c.sourceIds = b.sourceIds /\ c.sources = b.sources /\ c.relations = b.relations
        /\ c.qualifiers = qualified \cap DOMAIN b.statements
  BY DEF WithQualifiers, EmptyBundle
<1>2. LET c == WithRelations(b) IN
        /\ DOMAIN c = DOMAIN EmptyBundle(0)
        /\ c.statements = b.statements /\ c.entities = b.entities
        /\ c.sourceIds = b.sourceIds /\ c.sources = b.sources /\ c.qualifiers = b.qualifiers
        /\ c.relations = {r \in relations : {r.from, r.to} \subseteq b.entities}
  BY DEF WithRelations, EmptyBundle
<1>3. Coherent(WithQualifiers(b))
  BY <1>1 DEF Coherent
<1>4. Coherent(WithRelations(b))
  BY <1>2 DEF Coherent
<1> QED BY <1>1, <1>2, <1>3, <1>4

-----------------------------------------------------------------------------
(* The expansion of the graph.                                             *)

Edge(a, b) == \E r \in relations : r.strong /\ {r.from, r.to} = {a, b}

\* A walk of n edges from the seeds to e.
Walk(seeds, n, e, path) ==
  /\ path \in [0..n -> entities]
  /\ path[0] \in seeds /\ path[n] = e
  /\ \A i \in 1..n : Edge(path[i - 1], path[i])

Reaches(seeds, n, e) == \E path : Walk(seeds, n, e, path)

LEMMA WalksStay ==
  ASSUME NEW seeds, NEW n \in Nat, NEW e, Reaches(seeds, n, e) PROVE e \in entities
<1>1. n \in 0..n
  OBVIOUS
<1> QED BY <1>1 DEF Reaches, Walk

LEMMA NoEdges ==
  ASSUME NEW seeds \in SUBSET entities, NEW e
  PROVE  Reaches(seeds, 0, e) <=> e \in seeds
<1>1. ASSUME e \in seeds PROVE Walk(seeds, 0, e, [i \in 0..0 |-> e])
  BY <1>1 DEF Walk
<1> QED BY <1>1 DEF Reaches, Walk

\* A walk of n + 1 edges is one of n edges and an edge.
LEMMA OneMoreEdge ==
  ASSUME NEW seeds \in SUBSET entities, NEW n \in Nat, NEW e
  PROVE  Reaches(seeds, n + 1, e) <=>
           e \in entities /\ \E a : Reaches(seeds, n, a) /\ Edge(a, e)
<1>1. ASSUME NEW path, Walk(seeds, n + 1, e, path)
      PROVE  e \in entities /\ \E a : Reaches(seeds, n, a) /\ Edge(a, e)
  <2> DEFINE front == [i \in 0..n |-> path[i]]
  <2>1. \A i \in 0..n : i \in 0..(n + 1)
    OBVIOUS
  <2>2. front \in [0..n -> entities] /\ front[0] = path[0] /\ front[n] = path[n]
    BY <1>1, <2>1 DEF Walk
  <2>3. ASSUME NEW i \in 1..n PROVE Edge(front[i - 1], front[i])
    <3>1. i \in 1..(n + 1) /\ i - 1 \in 0..n /\ i \in 0..n
      OBVIOUS
    <3>2. Edge(path[i - 1], path[i])
      BY <1>1, <3>1 DEF Walk
    <3> QED BY <3>1, <3>2
  <2> HIDE DEF front
  <2>4. Walk(seeds, n, path[n], front)
    BY <1>1, <2>2, <2>3 DEF Walk
  <2>5. Edge(path[n], e) /\ e \in entities
    <3>1. n + 1 \in 1..(n + 1) /\ (n + 1) - 1 = n /\ n + 1 \in 0..(n + 1)
      OBVIOUS
    <3>2. Edge(path[(n + 1) - 1], path[n + 1])
      BY <1>1, <3>1 DEF Walk
    <3> QED BY <1>1, <3>1, <3>2 DEF Walk
  <2> QED BY <2>4, <2>5 DEF Reaches
<1>2. ASSUME e \in entities, NEW a, NEW front, Walk(seeds, n, a, front), Edge(a, e)
      PROVE  Reaches(seeds, n + 1, e)
  <2> DEFINE path == [i \in 0..(n + 1) |-> IF i = n + 1 THEN e ELSE front[i]]
  <2>1. \A i \in 0..(n + 1) : i # n + 1 => i \in 0..n
    OBVIOUS
  <2>2. path \in [0..(n + 1) -> entities]
    BY <1>2, <2>1 DEF Walk
  <2>3. path[0] \in seeds /\ path[n + 1] = e /\ path[n] = a
    BY <1>2 DEF Walk
  <2>4. ASSUME NEW i \in 1..(n + 1) PROVE Edge(path[i - 1], path[i])
    <3>1. CASE i = n + 1
      BY <1>2, <2>3, <3>1
    <3>2. CASE i # n + 1
      <4>1. i \in 1..n /\ i - 1 # n + 1 /\ i - 1 \in 0..(n + 1) /\ i \in 0..(n + 1)
        BY <3>2
      <4>2. Edge(front[i - 1], front[i])
        BY <1>2, <4>1 DEF Walk
      <4> QED BY <3>2, <4>1, <4>2
    <3> QED BY <3>1, <3>2
  <2> HIDE DEF path
  <2> QED BY <2>2, <2>3, <2>4 DEF Walk, Reaches
<1> QED BY <1>1, <1>2 DEF Reaches

\* An edge leads in both directions.
LEMMA AdjacentByEdge ==
  ASSUME NEW S, NEW e
  PROVE  e \in Adjacent(S) <=> \E a \in S : Edge(a, e)
<1>1. ASSUME e \in Adjacent(S) PROVE \E a \in S : Edge(a, e)
  <2>1. PICK r \in relations : /\ r.strong
                               /\ (r.from \in S /\ e = r.to) \/ (r.to \in S /\ e = r.from)
    BY <1>1 DEF Adjacent
  <2>2. CASE r.from \in S /\ e = r.to
    BY <2>1, <2>2 DEF Edge
  <2>3. CASE r.to \in S /\ e = r.from
    <3>1. {r.from, r.to} = {r.to, e}
      BY <2>3
    <3> QED BY <2>1, <2>3, <3>1 DEF Edge
  <2> QED BY <2>1, <2>2, <2>3
<1>2. ASSUME NEW a \in S, Edge(a, e) PROVE e \in Adjacent(S)
  <2>1. PICK r \in relations : r.strong /\ {r.from, r.to} = {a, e}
    BY <1>2 DEF Edge
  <2>2. (r.from = a /\ r.to = e) \/ (r.from = e /\ r.to = a)
    <3>1. r.from \in {a, e} /\ r.to \in {a, e} /\ a \in {r.from, r.to} /\ e \in {r.from, r.to}
      BY <2>1
    <3> QED BY <3>1
  <2> QED BY <2>1, <2>2 DEF Adjacent
<1> QED BY <1>1, <1>2

\* One round of the recursive query.
Round(seeds, g, d) ==
  IF d = 0 THEN seeds \X {0}
  ELSE LET frontier == {row[1] : row \in {r \in g[d - 1] : r[2] = d - 1}}
       IN  g[d - 1] \cup (Adjacent(frontier) \X {d})

\* The rounds end, so the query has an answer.
LEMMA RoundsDefined ==
  ASSUME NEW seeds, NEW depth \in Nat
  PROVE  \E g : /\ g = [d \in 0..depth |-> Round(seeds, g, d)]
                /\ ExpandGraph(seeds, depth) = {row[1] : row \in g[depth]}
<1> DEFINE Is(g, m) == g = [d \in 0..m |-> Round(seeds, g, d)]
           Bad == {m \in 0..depth : ~\E g : Is(g, m)}
<1>1. ASSUME Bad # {} PROVE FALSE
  <2> DEFINE m == Min(Bad)
  <2>1. Bad \in SUBSET Nat
    OBVIOUS
  <2>2. m \in Bad /\ \A k \in Bad : m <= k
    <3> HIDE DEF Bad
    <3> QED BY <1>1, <2>1, MinIsLeast
  <2>3. m \in 0..depth /\ ~\E g : Is(g, m)
    BY <2>2
  <2> HIDE DEF m
  <2>4. CASE m = 0
    <3> DEFINE g == [d \in 0..0 |-> seeds \X {0}]
    <3>1. \A d \in 0..0 : Round(seeds, g, d) = seeds \X {0}
      BY DEF Round
    <3>2. Is(g, 0)
      BY <3>1
    <3> QED BY <2>3, <2>4, <3>2
  <2>5. CASE m # 0
    <3>1. m - 1 \in 0..depth /\ ~(m <= m - 1) /\ m \in Nat /\ m - 1 \in Nat
      BY <2>3, <2>5
    <3>2. PICK h : Is(h, m - 1)
      BY <2>2, <3>1
    <3> DEFINE g == [d \in 0..m |-> IF d = m THEN Round(seeds, h, m) ELSE h[d]]
    <3>3. ASSUME NEW d \in 0..m PROVE g[d] = Round(seeds, g, d)
      <4>1. d \in Nat
        BY <3>1
      <4>2. d # 0 => g[d - 1] = h[d - 1]
        BY <3>1, <4>1
      <4>3. Round(seeds, g, d) = Round(seeds, h, d)
        BY <4>2 DEF Round
      <4>4. CASE d = m
        BY <4>3, <4>4
      <4>5. CASE d # m
        <5>1. d \in 0..(m - 1)
          BY <3>1, <4>1, <4>5
        <5>2. h[d] = Round(seeds, h, d)
          BY <3>2, <5>1
        <5> QED BY <4>3, <4>5, <5>2
      <4> QED BY <4>4, <4>5
    <3>4. g = [d \in 0..m |-> g[d]]
      OBVIOUS
    <3> HIDE DEF g
    <3>5. Is(g, m)
      BY <3>3, <3>4
    <3> QED BY <2>3, <3>5
  <2> QED BY <2>4, <2>5
<1>2. \E g : Is(g, depth)
  BY <1>1
<1> DEFINE graph == CHOOSE g : Is(g, depth)
<1>3. Is(graph, depth)
  BY <1>2
<1>4. ExpandGraph(seeds, depth) = {row[1] : row \in graph[depth]}
  BY DEF ExpandGraph, Round
<1> QED BY <1>3, <1>4

\* The rows after d rounds are the ends of the walks of at most d edges.
LEMMA RoundsWalk ==
  ASSUME NEW seeds \in SUBSET entities, NEW depth \in Nat, NEW g,
         g = [d \in 0..depth |-> Round(seeds, g, d)],
         \A r \in relations : {r.from, r.to} \subseteq entities
  PROVE  \A d \in 0..depth : \A row :
           row \in g[d] <=> row \in entities \X (0..d) /\ Reaches(seeds, row[2], row[1])
<1> DEFINE Good(d) == \A row : row \in g[d] <=>
                        row \in entities \X (0..d) /\ Reaches(seeds, row[2], row[1])
           Bad == {d \in 0..depth : ~Good(d)}
<1>1. \A d \in 0..depth : g[d] = Round(seeds, g, d)
  OBVIOUS
<1>2. ASSUME Bad # {} PROVE FALSE
  <2> DEFINE m == Min(Bad)
  <2>1. Bad \in SUBSET Nat
    OBVIOUS
  <2>2. m \in Bad /\ \A k \in Bad : m <= k
    <3> HIDE DEF Bad
    <3> QED BY <1>2, <2>1, MinIsLeast
  <2>3. m \in 0..depth /\ ~Good(m)
    BY <2>2
  <2> HIDE DEF m
  <2>4. CASE m = 0
    <3>1. g[0] = seeds \X {0}
      BY <1>1, <2>3, <2>4 DEF Round
    <3>2. \A e : Reaches(seeds, 0, e) <=> e \in seeds
      BY NoEdges
    <3>3. ASSUME NEW row PROVE row \in g[0] <=>
                                row \in entities \X (0..0) /\ Reaches(seeds, row[2], row[1])
      <4>1. ASSUME row \in g[0]
            PROVE  row \in entities \X (0..0) /\ Reaches(seeds, row[2], row[1])
        BY <3>1, <3>2, <4>1
      <4>2. ASSUME row \in entities \X (0..0), Reaches(seeds, row[2], row[1])
            PROVE  row \in g[0]
        <5>1. row[2] = 0 /\ row = <<row[1], 0>>
          BY <4>2
        <5> QED BY <3>1, <3>2, <4>2, <5>1
      <4> QED BY <4>1, <4>2
    <3> QED BY <2>3, <2>4, <3>3
  <2>5. CASE m # 0
    <3>1. m - 1 \in 0..depth /\ ~(m <= m - 1) /\ m \in Nat /\ m - 1 \in Nat /\ (m - 1) + 1 = m
      BY <2>3, <2>5
    <3>2. PICK n : n = m - 1
      OBVIOUS
    <3>3. n \in Nat /\ m = n + 1 /\ Good(n)
      BY <2>2, <3>1, <3>2
    <3> DEFINE frontier == {row[1] : row \in {r \in g[n] : r[2] = n}}
    <3>4. g[m] = g[n] \cup (Adjacent(frontier) \X {m})
      <4>1. g[m] = Round(seeds, g, m)
        BY <1>1, <2>3
      <4>2. n = m - 1
        BY <3>2
      <4> QED BY <2>5, <4>1, <4>2 DEF Round
    <3>5. \A a : a \in frontier <=> Reaches(seeds, n, a)
      <4>1. ASSUME NEW a, a \in frontier PROVE Reaches(seeds, n, a)
        <5>1. PICK row \in g[n] : row[2] = n /\ row[1] = a
          BY <4>1
        <5> QED BY <3>3, <5>1
      <4>2. ASSUME NEW a, Reaches(seeds, n, a) PROVE a \in frontier
        <5>1. a \in entities
          BY <3>3, <4>2, WalksStay
        <5>2. <<a, n>> \in entities \X (0..n) /\ <<a, n>>[1] = a /\ <<a, n>>[2] = n
          BY <3>3, <5>1
        <5>3. <<a, n>> \in g[n]
          BY <3>3, <4>2, <5>2
        <5> QED BY <5>2, <5>3
      <4> QED BY <4>1, <4>2
    <3> HIDE DEF frontier
    <3>6. \A e : e \in Adjacent(frontier) <=> Reaches(seeds, m, e)
      <4> SUFFICES ASSUME NEW e PROVE e \in Adjacent(frontier) <=> Reaches(seeds, m, e)
        OBVIOUS
      <4>1. e \in Adjacent(frontier) <=> \E a : Reaches(seeds, n, a) /\ Edge(a, e)
        BY <3>5, AdjacentByEdge
      <4>2. Reaches(seeds, m, e) <=>
              e \in entities /\ \E a : Reaches(seeds, n, a) /\ Edge(a, e)
        BY <3>3, OneMoreEdge
      <4>3. \A a : Edge(a, e) => e \in entities
        <5> SUFFICES ASSUME NEW a, NEW r \in relations, {r.from, r.to} = {a, e}
                     PROVE  e \in entities
          BY DEF Edge
        <5>1. e \in {r.from, r.to}
          OBVIOUS
        <5> QED BY <5>1
      <4> QED BY <4>1, <4>2, <4>3
    <3>7. ASSUME NEW row PROVE row \in g[m] <=>
                                row \in entities \X (0..m) /\ Reaches(seeds, row[2], row[1])
      <4>1. ASSUME row \in g[n]
            PROVE  row \in entities \X (0..m) /\ Reaches(seeds, row[2], row[1])
        <5>1. row \in entities \X (0..n) /\ Reaches(seeds, row[2], row[1])
          BY <3>3, <4>1
        <5>2. \A k \in 0..n : k \in 0..m
          BY <3>3
        <5> QED BY <5>1, <5>2
      <4>2. ASSUME row \in Adjacent(frontier) \X {m}
            PROVE  row \in entities \X (0..m) /\ Reaches(seeds, row[2], row[1])
        <5>1. row = <<row[1], m>> /\ row[2] = m /\ Reaches(seeds, m, row[1])
          BY <3>6, <4>2
        <5>2. row[1] \in entities
          BY <3>1, <5>1, WalksStay
        <5>3. m \in 0..m
          BY <3>1
        <5> QED BY <5>1, <5>2, <5>3
      <4>3. ASSUME row \in entities \X (0..m), Reaches(seeds, row[2], row[1])
            PROVE  row \in g[m]
        <5>1. row = <<row[1], row[2]>> /\ row[1] \in entities /\ row[2] \in 0..m
          BY <4>3
        <5>2. CASE row[2] = m
          <6>1. row[1] \in Adjacent(frontier)
            BY <3>6, <4>3, <5>2
          <6> QED BY <3>4, <5>1, <5>2, <6>1
        <5>3. CASE row[2] # m
          <6>1. row[2] \in 0..n
            BY <3>3, <5>1, <5>3
          <6>2. row \in entities \X (0..n)
            BY <5>1, <6>1
          <6>3. row \in g[n]
            BY <3>3, <4>3, <6>2
          <6> QED BY <3>4, <6>3
        <5> QED BY <5>2, <5>3
      <4> QED BY <3>4, <4>1, <4>2, <4>3
    <3> QED BY <2>3, <3>7
  <2> QED BY <2>4, <2>5
<1> QED BY <1>2

\* The recursive query returns what is within reach, whatever the graph.
LEMMA ExpansionReaches ==
  ASSUME EvidenceType, NEW seeds \in SUBSET entities, NEW depth \in Nat
  PROVE  ExpandGraph(seeds, depth) = Reachable(seeds, depth)
<1>1. PICK g : /\ g = [d \in 0..depth |-> Round(seeds, g, d)]
               /\ ExpandGraph(seeds, depth) = {row[1] : row \in g[depth]}
  BY RoundsDefined
<1>2. \A r \in relations : {r.from, r.to} \subseteq entities
  BY DEF EvidenceType
<1>3. \A d \in 0..depth : \A row :
        row \in g[d] <=> row \in entities \X (0..d) /\ Reaches(seeds, row[2], row[1])
  BY <1>1, <1>2, RoundsWalk
<1>4. depth \in 0..depth
  OBVIOUS
<1>5. \A row : row \in g[depth] <=>
        row \in entities \X (0..depth) /\ Reaches(seeds, row[2], row[1])
  BY <1>3, <1>4
<1>6. \A e : e \in ExpandGraph(seeds, depth) <=>
        e \in entities /\ \E n \in 0..depth : Reaches(seeds, n, e)
  <2> SUFFICES ASSUME NEW e
               PROVE  e \in {row[1] : row \in g[depth]} <=>
                        e \in entities /\ \E n \in 0..depth : Reaches(seeds, n, e)
    BY <1>1
  <2>1. ASSUME e \in {row[1] : row \in g[depth]}
        PROVE  e \in entities /\ \E n \in 0..depth : Reaches(seeds, n, e)
    <3>1. PICK row \in g[depth] : row[1] = e
      BY <2>1
    <3>2. row \in entities \X (0..depth) /\ Reaches(seeds, row[2], row[1])
      BY <1>5
    <3> QED BY <3>1, <3>2
  <2>2. ASSUME e \in entities, NEW n \in 0..depth, Reaches(seeds, n, e)
        PROVE  e \in {row[1] : row \in g[depth]}
    <3>1. <<e, n>> \in entities \X (0..depth) /\ <<e, n>>[1] = e /\ <<e, n>>[2] = n
      BY <2>2
    <3>2. <<e, n>> \in g[depth]
      BY <1>5, <2>2, <3>1
    <3> QED BY <3>1, <3>2
  <2> QED BY <2>1, <2>2
<1>7. \A e : e \in Reachable(seeds, depth) <=>
        e \in entities /\ \E n \in 0..depth : Reaches(seeds, n, e)
  BY DEF Reachable, Reaches, Walk, Edge
<1> QED BY <1>6, <1>7

-----------------------------------------------------------------------------
(* The steps of a reader.                                                  *)

\* A reader that keeps its own record good keeps the invariant.
LEMMA ReaderStep ==
  ASSUME BundlesInv, UNCHANGED <<evidence, dossiers>>,
         NEW w \in Readers, NEW r,
         run' = [run EXCEPT ![w] = r],
         GoodRun(r, DOMAIN confidence)
  PROVE  BundlesInv'
<1>1. EvidenceType' /\ EveryClaimSourced'
  BY DEF BundlesInv, EvidenceType, EveryClaimSourced, evidence, entities
<1>2. DOMAIN run' = Readers
  BY DEF BundlesInv
<1>3. \A v \in Readers : GoodRun(run'[v], DOMAIN confidence')
  <2>1. DOMAIN confidence' = DOMAIN confidence
    BY DEF evidence
  <2>2. \A v \in Readers : run'[v] = IF v = w THEN r ELSE run[v]
    BY DEF BundlesInv
  <2> QED BY <2>1, <2>2 DEF BundlesInv
<1>4. \A e \in DOMAIN dossiers' : Coherent(dossiers'[e].bundle)
  BY DEF BundlesInv
<1> QED BY <1>1, <1>2, <1>3, <1>4 DEF BundlesInv

\* An idle reader, and one that goes on to its next entity, has read nothing.
LEMMA IdleIsGood == ASSUME NEW known PROVE GoodRun(Idle, known)
BY DEF GoodRun, Idle, EmptyBundle

LEMMA NextIsGood ==
  ASSUME NEW known, NEW r, DOMAIN r = DOMAIN Idle, DOMAIN r.bundle = DOMAIN EmptyBundle(0),
         \A e \in DOMAIN r.stored : Coherent(r.stored[e])
  PROVE  GoodRun(Next1(r), known)
<1>1. CASE r.todo = <<>>
  <2>1. /\ DOMAIN Next1(r) = DOMAIN Idle /\ Next1(r).pc = "commit"
        /\ Next1(r).bundle = r.bundle /\ Next1(r).stored = r.stored
    BY <1>1 DEF Next1, Idle
  <2> QED BY <2>1 DEF GoodRun
<1>2. CASE r.todo # <<>>
  <2> DEFINE b == EmptyBundle(Head(r.todo))
  <2>1. /\ DOMAIN Next1(r) = DOMAIN Idle /\ Next1(r).pc = "entities"
        /\ Next1(r).bundle = b /\ Next1(r).stored = r.stored
    BY <1>2 DEF Next1, Idle
  <2>2. /\ DOMAIN b = DOMAIN EmptyBundle(0) /\ DOMAIN b.statements = {}
        /\ b.qualifiers = {} /\ b.relations = {}
    BY DEF EmptyBundle
  <2> HIDE DEF b
  <2> QED BY <2>1, <2>2 DEF GoodRun
<1> QED BY <1>1, <1>2

LEMMA IdleShape ==
  /\ DOMAIN Idle.bundle = DOMAIN EmptyBundle(0) /\ DOMAIN Idle.stored = {}
BY DEF Idle, EmptyBundle

LEMMA StartKeeps ==
  ASSUME BundlesInv, UNCHANGED <<evidence, dossiers>>, NEW w \in Readers, NEW todo,
         StartWith(w, todo)
  PROVE  BundlesInv'
<1> DEFINE r == [Idle EXCEPT !.todo = todo]
<1>1. DOMAIN r = DOMAIN Idle /\ r.bundle = Idle.bundle /\ r.stored = Idle.stored
  BY DEF Idle
<1>2. run' = [run EXCEPT ![w] = Next1(r)]
  BY DEF StartWith
<1> HIDE DEF r
<1>3. GoodRun(Next1(r), DOMAIN confidence)
  BY <1>1, IdleShape, NextIsGood
<1> QED BY <1>2, <1>3, ReaderStep

LEMMA BeginScheduledKeeps == BundlesInv /\ BeginScheduled => BundlesInv'
<1> SUFFICES ASSUME BundlesInv, BeginScheduled PROVE BundlesInv'
  OBVIOUS
<1>1. PICK todo \in Batches(Due) : StartWith(Scheduled, todo)
  BY DEF BeginScheduled
<1>2. Scheduled \in Readers /\ UNCHANGED <<evidence, dossiers>>
  BY DossiersConstants DEF BeginScheduled, Readers
<1> QED BY <1>1, <1>2, StartKeeps

LEMMA BeginByHandKeeps ==
  ASSUME BundlesInv, NEW w \in Workers, BeginByHand(w) PROVE BundlesInv'
<1>1. PICK todo : StartWith(w, todo)
  BY DEF BeginByHand
<1>2. w \in Readers /\ UNCHANGED <<evidence, dossiers>>
  BY DEF BeginByHand, Readers
<1> QED BY <1>1, <1>2, StartKeeps

LEMMA BeginBriefKeeps ==
  ASSUME BundlesInv, NEW w \in Writers, BeginBrief(w) PROVE BundlesInv'
<1>1. PICK seeds \in SUBSET entities : \E depth \in {0, 2} :
         run' = [run EXCEPT ![w] =
            [Idle EXCEPT !.pc = IF depth > 0 THEN "expand" ELSE "entities",
                         !.seeds = seeds, !.depth = depth, !.bundle = EmptyBundle(Min(seeds))]]
  BY DEF BeginBrief
<1>2. PICK depth \in {0, 2} :
         run' = [run EXCEPT ![w] =
            [Idle EXCEPT !.pc = IF depth > 0 THEN "expand" ELSE "entities",
                         !.seeds = seeds, !.depth = depth, !.bundle = EmptyBundle(Min(seeds))]]
  BY <1>1
<1> DEFINE b == EmptyBundle(Min(seeds))
           r == [Idle EXCEPT !.pc = IF depth > 0 THEN "expand" ELSE "entities",
                             !.seeds = seeds, !.depth = depth, !.bundle = b]
<1>3. /\ DOMAIN r = DOMAIN Idle /\ r.pc \in {"expand", "entities"}
      /\ r.bundle = b /\ r.stored = Idle.stored /\ r.seeds = seeds
      /\ seeds \subseteq {SubjectOf[st] : st \in DOMAIN confidence}
  BY DEF Idle, entities
<1>4. /\ DOMAIN b = DOMAIN EmptyBundle(0) /\ DOMAIN b.statements = {}
      /\ b.qualifiers = {} /\ b.relations = {}
  BY DEF EmptyBundle
<1>5. run' = [run EXCEPT ![w] = r]
  BY <1>2
<1> HIDE DEF r, b
<1>6. GoodRun(r, DOMAIN confidence)
  BY <1>3, <1>4, IdleShape DEF GoodRun
<1>7. w \in Readers /\ UNCHANGED <<evidence, dossiers>>
  BY DEF BeginBrief, Readers
<1> QED BY <1>5, <1>6, <1>7, ReaderStep

-----------------------------------------------------------------------------
(* The queries keep the invariant: each adds what the last ones refer to.  *)

LEMMA RunIsGood ==
  ASSUME BundlesInv, NEW w \in Readers
  PROVE  /\ GoodRun(run[w], DOMAIN confidence)
         /\ DOMAIN run[w] = DOMAIN Idle
         /\ DOMAIN run[w].bundle = DOMAIN EmptyBundle(0)
         /\ \A e \in DOMAIN run[w].stored : Coherent(run[w].stored[e])
         /\ run[w].pc \in {"qualifiers", "relations", "store"} =>
              DOMAIN run[w].bundle.statements \subseteq DOMAIN confidence /\ Coherent(run[w].bundle)
BY DEF BundlesInv, GoodRun

LEMMA QueryKeeps ==
  ASSUME BundlesInv, NEW w \in Readers, NEW from, NEW to, NEW b,
         Query(w, from, to, b),
         GoodRun([run[w] EXCEPT !.pc = to, !.bundle = b], DOMAIN confidence)
  PROVE  BundlesInv'
<1> DEFINE r == [run[w] EXCEPT !.pc = to, !.bundle = b]
<1>1. run' = [run EXCEPT ![w] = r] /\ UNCHANGED <<evidence, dossiers>>
  BY DEF Query
<1>2. GoodRun(r, DOMAIN confidence)
  OBVIOUS
<1> HIDE DEF r
<1> QED BY <1>1, <1>2, ReaderStep

\* The record after a query, as far as the invariant sees it.
LEMMA QueryShape ==
  ASSUME NEW r, DOMAIN r = DOMAIN Idle, NEW to, NEW b
  PROVE  LET q == [r EXCEPT !.pc = to, !.bundle = b] IN
           DOMAIN q = DOMAIN Idle /\ q.pc = to /\ q.bundle = b /\ q.stored = r.stored
BY DEF Idle

LEMMA ExpandKeeps ==
  ASSUME BundlesInv, NEW w \in Readers, Expand(w) PROVE BundlesInv'
<1>1. PICK ids : ids = ExpandGraph(run[w].seeds, run[w].depth)
  OBVIOUS
<1> DEFINE r == [run[w] EXCEPT !.pc = "entities", !.seeds = ids]
<1>2. run' = [run EXCEPT ![w] = r] /\ UNCHANGED <<evidence, dossiers>>
  BY <1>1 DEF Expand
<1>3. DOMAIN run[w] = DOMAIN Idle
  BY RunIsGood
<1>4. /\ DOMAIN r = DOMAIN Idle /\ r.pc = "entities"
      /\ r.bundle = run[w].bundle /\ r.stored = run[w].stored
  BY <1>3 DEF Idle
<1>5. GoodRun(r, DOMAIN confidence)
  <2> HIDE DEF r
  <2>1. GoodRun(run[w], DOMAIN confidence) /\ run[w].pc = "expand"
    BY RunIsGood DEF Expand
  <2> QED BY <1>4, <2>1 DEF GoodRun
<1> HIDE DEF r
<1> QED BY <1>2, <1>5, ReaderStep

LEMMA LoadStatementsKeeps ==
  ASSUME BundlesInv, NEW w \in Readers, LoadStatements(w) PROVE BundlesInv'
<1>1. PICK b : b = WithStatements(WithEntities(run[w].bundle, run[w].seeds))
  OBVIOUS
<1>2. Query(w, "entities", "sources", b)
  BY <1>1 DEF LoadStatements
<1>3. /\ DOMAIN run[w].bundle = DOMAIN EmptyBundle(0)
      /\ run[w].bundle.qualifiers = {} /\ run[w].bundle.relations = {}
  BY <1>2, RunIsGood DEF Query, GoodRun
<1>4. /\ DOMAIN b = DOMAIN EmptyBundle(0)
      /\ \A st \in DOMAIN b.statements : st \in DOMAIN confidence /\ SubjectOf[st] \in b.entities
      /\ b.qualifiers = {} /\ b.relations = {}
  BY <1>1, <1>3, StatementsRead
<1> DEFINE r == [run[w] EXCEPT !.pc = "sources", !.bundle = b]
<1>5. /\ DOMAIN r = DOMAIN Idle /\ r.pc = "sources"
      /\ r.bundle = b /\ r.stored = run[w].stored
  BY RunIsGood, QueryShape
<1> HIDE DEF r
<1>6. GoodRun(r, DOMAIN confidence)
  BY <1>4, <1>5, RunIsGood DEF GoodRun
<1> QED BY <1>2, <1>6, QueryKeeps DEF r

\* The last three queries make the bundle coherent and keep it so.
LEMMA CoherentQueryKeeps ==
  ASSUME BundlesInv, NEW w \in Readers, NEW from, NEW b,
         NEW to \in {"qualifiers", "relations", "store"},
         Query(w, from, to, b),
         DOMAIN b = DOMAIN EmptyBundle(0), Coherent(b),
         DOMAIN b.statements \subseteq DOMAIN confidence
  PROVE  BundlesInv'
<1> DEFINE r == [run[w] EXCEPT !.pc = to, !.bundle = b]
<1>1. /\ DOMAIN r = DOMAIN Idle /\ r.pc = to
      /\ r.bundle = b /\ r.stored = run[w].stored
  BY RunIsGood, QueryShape
<1> HIDE DEF r
<1>2. GoodRun(r, DOMAIN confidence)
  BY <1>1, RunIsGood DEF GoodRun
<1> QED BY <1>2, QueryKeeps DEF r

LEMMA LoadSourcesKeeps ==
  ASSUME BundlesInv, NEW w \in Readers, LoadSources(w) PROVE BundlesInv'
<1>1. PICK b : b = WithSources(run[w].bundle)
  OBVIOUS
<1>2. Query(w, "sources", "qualifiers", b)
  BY <1>1 DEF LoadSources
<1>3. /\ DOMAIN run[w].bundle = DOMAIN EmptyBundle(0)
      /\ \A st \in DOMAIN run[w].bundle.statements :
           st \in DOMAIN confidence /\ SubjectOf[st] \in run[w].bundle.entities
      /\ run[w].bundle.qualifiers = {} /\ run[w].bundle.relations = {}
  BY <1>2, RunIsGood DEF Query, GoodRun
<1>4. EvidenceType /\ EveryClaimSourced
  BY DEF BundlesInv
<1>5. /\ DOMAIN b = DOMAIN EmptyBundle(0) /\ Coherent(b)
      /\ b.statements = run[w].bundle.statements
  BY <1>1, <1>3, <1>4, SourcesRead
<1> QED BY <1>2, <1>3, <1>5, CoherentQueryKeeps

LEMMA LoadQualifiersKeeps ==
  ASSUME BundlesInv, NEW w \in Readers, LoadQualifiers(w) PROVE BundlesInv'
<1>1. PICK b : b = WithQualifiers(run[w].bundle)
  OBVIOUS
<1>2. Query(w, "qualifiers", "relations", b)
  BY <1>1 DEF LoadQualifiers
<1>3. /\ DOMAIN run[w].bundle = DOMAIN EmptyBundle(0) /\ Coherent(run[w].bundle)
      /\ DOMAIN run[w].bundle.statements \subseteq DOMAIN confidence
  BY <1>2, RunIsGood DEF Query
<1>4. /\ DOMAIN b = DOMAIN EmptyBundle(0) /\ Coherent(b)
      /\ b.statements = run[w].bundle.statements
  BY <1>1, <1>3, RestRead
<1> QED BY <1>2, <1>3, <1>4, CoherentQueryKeeps

LEMMA LoadRelationsKeeps ==
  ASSUME BundlesInv, NEW w \in Readers, LoadRelations(w) PROVE BundlesInv'
<1>1. PICK b : b = WithRelations(run[w].bundle)
  OBVIOUS
<1>2. Query(w, "relations", "store", b)
  BY <1>1 DEF LoadRelations
<1>3. /\ DOMAIN run[w].bundle = DOMAIN EmptyBundle(0) /\ Coherent(run[w].bundle)
      /\ DOMAIN run[w].bundle.statements \subseteq DOMAIN confidence
  BY <1>2, RunIsGood DEF Query
<1>4. /\ DOMAIN b = DOMAIN EmptyBundle(0) /\ Coherent(b)
      /\ b.statements = run[w].bundle.statements
  BY <1>1, <1>3, RestRead
<1> QED BY <1>2, <1>3, <1>4, CoherentQueryKeeps

LEMMA AssembleKeeps ==
  ASSUME BundlesInv, NEW w \in Readers, Assemble(w) PROVE BundlesInv'
BY ExpandKeeps, LoadStatementsKeeps, LoadSourcesKeeps, LoadQualifiersKeeps,
   LoadRelationsKeeps DEF Assemble

-----------------------------------------------------------------------------
(* What becomes of the bundle: it is stored, shown or dropped.             *)

LEMMA UpsertKeeps ==
  ASSUME BundlesInv, NEW w \in Workers, Upsert(w) PROVE BundlesInv'
<1> DEFINE b == run[w].bundle
           stored == WithRow(run[w].stored, b.entity, b)
           r == [run[w] EXCEPT !.stored = stored, !.todo = Tail(run[w].todo)]
<1>1. w \in Readers
  BY DEF Readers
<1>2. /\ DOMAIN run[w] = DOMAIN Idle /\ DOMAIN b = DOMAIN EmptyBundle(0) /\ Coherent(b)
      /\ \A e \in DOMAIN run[w].stored : Coherent(run[w].stored[e])
  BY <1>1, RunIsGood DEF Upsert
<1>3. \A e \in DOMAIN stored : Coherent(stored[e])
  <2>1. PICK c : c = b
    OBVIOUS
  <2>2. PICK f : f = run[w].stored
    OBVIOUS
  <2>3. \A e \in DOMAIN WithRow(f, c.entity, c) : Coherent(WithRow(f, c.entity, c)[e])
    BY <1>2, <2>1, <2>2 DEF WithRow
  <2> QED BY <2>1, <2>2, <2>3
<1>4. run' = [run EXCEPT ![w] = Next1(r)] /\ UNCHANGED <<evidence, dossiers>>
  <2>1. w \in DOMAIN run
    BY <1>1 DEF BundlesInv
  <2> QED BY <2>1 DEF Upsert
<1> HIDE DEF stored
<1>5. DOMAIN r = DOMAIN Idle /\ r.bundle = b /\ r.stored = stored
  BY <1>2 DEF Idle
<1> HIDE DEF r
<1>6. GoodRun(Next1(r), DOMAIN confidence)
  BY <1>2, <1>3, <1>5, NextIsGood
<1> QED BY <1>1, <1>4, <1>6, ReaderStep

\* A run that ends, one way or the other.
LEMMA EndKeeps ==
  ASSUME BundlesInv, NEW w \in Readers, Abort(w), UNCHANGED <<evidence, dossiers>>
  PROVE  BundlesInv'
<1>1. GoodRun(Idle, DOMAIN confidence)
  BY IdleIsGood
<1> QED BY <1>1, ReaderStep DEF Abort

LEMMA CommitKeeps ==
  ASSUME BundlesInv, NEW w \in Workers, Commit(w) PROVE BundlesInv'
<1>1. w \in Readers
  BY DEF Readers
<1>2. EvidenceType' /\ EveryClaimSourced'
  BY DEF BundlesInv, EvidenceType, EveryClaimSourced, evidence, entities, Commit
<1>3. DOMAIN run' = Readers
  BY DEF BundlesInv, Commit
<1>4. \A v \in Readers : GoodRun(run'[v], DOMAIN confidence')
  <2>1. DOMAIN confidence' = DOMAIN confidence
    BY DEF evidence, Commit
  <2>2. \A v \in Readers : run'[v] = IF v = w THEN Idle ELSE run[v]
    BY DEF BundlesInv, Commit
  <2> QED BY <2>1, <2>2, IdleIsGood DEF BundlesInv
<1>5. ASSUME NEW e \in DOMAIN dossiers' PROVE Coherent(dossiers'[e].bundle)
  <2>1. \A x \in DOMAIN run[w].stored : Coherent(run[w].stored[x])
    BY <1>1, RunIsGood
  <2>2. \A x \in DOMAIN dossiers : Coherent(dossiers[x].bundle)
    BY DEF BundlesInv
  <2>3. CASE e \in DOMAIN run[w].stored
    <3>1. dossiers'[e].bundle = run[w].stored[e]
      BY <2>3 DEF Commit
    <3> QED BY <2>1, <2>3, <3>1
  <2>4. CASE e \notin DOMAIN run[w].stored
    <3>1. e \in DOMAIN dossiers /\ dossiers'[e] = dossiers[e]
      BY <2>4 DEF Commit
    <3> QED BY <2>2, <3>1
  <2> QED BY <2>3, <2>4
<1> QED BY <1>2, <1>3, <1>4, <1>5 DEF BundlesInv

LEMMA StoreBriefKeeps ==
  ASSUME BundlesInv, NEW w \in Writers, StoreBrief(w) PROVE BundlesInv'
BY EndKeeps DEF StoreBrief, Abort, Readers

LEMMA NotFoundKeeps ==
  ASSUME BundlesInv, NEW w \in Readers, NotFound(w) PROVE BundlesInv'
BY EndKeeps DEF NotFound

LEMMA FailKeeps ==
  ASSUME BundlesInv, NEW w \in Readers, Fail(w) PROVE BundlesInv'
BY EndKeeps DEF Fail

LEMMA DeadlockVictimKeeps ==
  ASSUME BundlesInv, NEW w \in Readers, DeadlockVictim(w) PROVE BundlesInv'
BY EndKeeps DEF DeadlockVictim

LEMMA NextDayKeeps == ASSUME BundlesInv, NextDay PROVE BundlesInv'
<1>1. EvidenceType' /\ EveryClaimSourced'
  BY DEF BundlesInv, EvidenceType, EveryClaimSourced, evidence, entities, NextDay
<1>2. DOMAIN run' = Readers
  BY DEF NextDay
<1>3. ASSUME NEW v \in Readers PROVE GoodRun(run'[v], DOMAIN confidence')
  <2>1. DOMAIN confidence' = DOMAIN confidence
    BY DEF evidence, NextDay
  <2>2. PICK r : r = run[v]
    OBVIOUS
  <2>3. GoodRun(r, DOMAIN confidence) /\ DOMAIN r = DOMAIN Idle
    BY <2>2, RunIsGood
  <2>4. run'[v] = [r EXCEPT !.recent = r.pc = "idle"]
    BY <2>2 DEF NextDay
  <2>5. /\ DOMAIN run'[v] = DOMAIN Idle /\ run'[v].pc = r.pc /\ run'[v].seeds = r.seeds
        /\ run'[v].bundle = r.bundle /\ run'[v].stored = r.stored
    BY <2>3, <2>4 DEF Idle
  <2> QED BY <2>1, <2>3, <2>5 DEF GoodRun
<1>4. ASSUME NEW e \in DOMAIN dossiers' PROVE Coherent(dossiers'[e].bundle)
  <2>1. e \in DOMAIN dossiers /\ dossiers'[e] = [dossiers[e] EXCEPT !.recent = FALSE]
    BY DEF NextDay
  <2>2. dossiers'[e].bundle = dossiers[e].bundle
    BY <2>1
  <2> QED BY <2>1, <2>2 DEF BundlesInv
<1> QED BY <1>1, <1>2, <1>3, <1>4 DEF BundlesInv

-----------------------------------------------------------------------------
(* The writers: the evidence grows, so what was read remains known.        *)

LEMMA EvidenceStep ==
  ASSUME BundlesInv, Write, EvidenceType', EveryClaimSourced',
         DOMAIN confidence \subseteq DOMAIN confidence'
  PROVE  BundlesInv'
<1>1. run' = run /\ dossiers' = dossiers
  BY DEF Write
<1>2. \A w \in Readers : GoodRun(run[w], DOMAIN confidence')
  <2> SUFFICES ASSUME NEW w \in Readers PROVE GoodRun(run[w], DOMAIN confidence')
    OBVIOUS
  <2>1. GoodRun(run[w], DOMAIN confidence)
    BY RunIsGood
  <2> QED BY <2>1 DEF GoodRun
<1> QED BY <1>1, <1>2 DEF BundlesInv

\* What EvidenceType promises of the entities, however confidence changes.
LEMMA EntitiesGrow ==
  ASSUME DOMAIN confidence \subseteq DOMAIN confidence'
  PROVE  entities \subseteq entities'
BY DEF entities

LEMMA NewLinkTypes ==
  ASSUME NEW l \in Present \cup NewLinks
  PROVE  l \in Statements \X Sources
BY DossiersConstants

LEMMA ExtractKeeps ==
  ASSUME BundlesInv, NEW st \in Statements, NEW s \in Sources, Extract(st, s)
  PROVE  BundlesInv'
<1>1. EvidenceType /\ EveryClaimSourced
  BY DEF BundlesInv
<1>2. /\ DOMAIN confidence' = DOMAIN confidence \cup {st}
      /\ \A t \in DOMAIN confidence' : confidence'[t] = IF t = st THEN "low" ELSE confidence[t]
      /\ links' = links \cup {<<st, s>>}
      /\ status' = status /\ qualified' = qualified /\ relations' = relations
      /\ Write
  BY DEF Extract, WithRow
<1>3. entities \subseteq entities'
  BY <1>2, EntitiesGrow
<1>4. EvidenceType'
  BY <1>1, <1>2, <1>3 DEF EvidenceType
<1>5. EveryClaimSourced'
  BY <1>1, <1>2 DEF EveryClaimSourced
<1> QED BY <1>2, <1>4, <1>5, EvidenceStep

LEMMA AddEvidenceKeeps ==
  ASSUME BundlesInv, NEW st \in Statements, NEW s \in Sources, AddEvidence(st, s)
  PROVE  BundlesInv'
<1>1. EvidenceType /\ EveryClaimSourced
  BY DEF BundlesInv
<1>2. /\ st \in DOMAIN confidence /\ links' = links \cup {<<st, s>>}
      /\ confidence' = confidence /\ status' = status
      /\ qualified' = qualified /\ relations' = relations
  BY DEF AddEvidence
<1>3. EvidenceType'
  BY <1>1, <1>2 DEF EvidenceType, entities
<1>4. EveryClaimSourced'
  BY <1>1, <1>2 DEF EveryClaimSourced
<1> QED BY <1>2, <1>3, <1>4, EvidenceStep DEF AddEvidence

LEMMA CorroborateKeeps ==
  ASSUME BundlesInv, NEW st \in Statements, Corroborate(st) PROVE BundlesInv'
<1>1. EvidenceType /\ EveryClaimSourced
  BY DEF BundlesInv
<1>2. /\ DOMAIN confidence' = DOMAIN confidence
      /\ \A t \in DOMAIN confidence : confidence'[t] \in {"low", "high"}
      /\ links' = links /\ status' = status /\ qualified' = qualified /\ relations' = relations
      /\ Write
  BY <1>1 DEF Corroborate, EvidenceType
<1>3. EvidenceType' /\ EveryClaimSourced'
  BY <1>1, <1>2 DEF EvidenceType, EveryClaimSourced, entities
<1> QED BY <1>2, <1>3, EvidenceStep

LEMMA VerifyKeeps ==
  ASSUME BundlesInv, NEW s \in Sources, Verify(s) PROVE BundlesInv'
<1>1. EvidenceType /\ EveryClaimSourced
  BY DEF BundlesInv
<1>2. EvidenceType' /\ EveryClaimSourced'
  BY <1>1 DEF Verify, EvidenceType, EveryClaimSourced, entities, SourceStatuses
<1> QED BY <1>2, EvidenceStep DEF Verify

LEMMA QualifyKeeps ==
  ASSUME BundlesInv, NEW st \in Statements, Qualify(st) PROVE BundlesInv'
<1>1. EvidenceType /\ EveryClaimSourced
  BY DEF BundlesInv
<1>2. EvidenceType' /\ EveryClaimSourced'
  BY <1>1 DEF Qualify, EvidenceType, EveryClaimSourced, entities
<1> QED BY <1>2, EvidenceStep DEF Qualify

LEMMA RelateKeeps ==
  ASSUME BundlesInv, NEW r \in NewRelations, Relate(r) PROVE BundlesInv'
<1>1. EvidenceType /\ EveryClaimSourced
  BY DEF BundlesInv
<1>2. r \in Relation
  BY DossiersConstants
<1>3. EvidenceType' /\ EveryClaimSourced'
  BY <1>1, <1>2 DEF Relate, EvidenceType, EveryClaimSourced, entities
<1> QED BY <1>3, EvidenceStep DEF Relate

-----------------------------------------------------------------------------
(* The theorems.                                                           *)

LEMMA InitHolds == Init => BundlesInv
<1> SUFFICES ASSUME Init PROVE BundlesInv
  OBVIOUS
<1>1. DOMAIN confidence = {l[1] : l \in Present} /\ links = Present
  BY DEF Init
<1>2. Present \subseteq Statements \X Sources
  BY DossiersConstants
<1>3. EvidenceType
  <2>1. /\ DOMAIN confidence \subseteq Statements
        /\ \A st \in DOMAIN confidence : confidence[st] \in {"low", "high"}
        /\ links \subseteq (DOMAIN confidence) \X Sources
    BY <1>1, <1>2 DEF Init
  <2>2. status \in [Sources -> SourceStatuses] /\ qualified \subseteq DOMAIN confidence
    BY DEF Init, SourceStatuses
  <2>3. entities = {SubjectOf[l[1]] : l \in Present}
    BY <1>1 DEF entities
  <2>4. relations \subseteq Relation /\ \A r \in relations : {r.from, r.to} \subseteq entities
    BY <2>3, DossiersConstants DEF Init
  <2> QED BY <2>1, <2>2, <2>4 DEF EvidenceType
<1>4. EveryClaimSourced
  <2> SUFFICES ASSUME NEW st \in DOMAIN confidence
               PROVE  \E s \in Sources : <<st, s>> \in links
    BY DEF EveryClaimSourced
  <2>1. PICK l \in Present : l[1] = st
    BY <1>1
  <2>2. l = <<st, l[2]>> /\ l[2] \in Sources
    BY <1>2, <2>1
  <2> QED BY <1>1, <2>2
<1>5. DOMAIN run = Readers /\ \A w \in Readers : GoodRun(run[w], DOMAIN confidence)
  BY IdleIsGood DEF Init
<1>6. \A e \in DOMAIN dossiers : Coherent(dossiers[e].bundle)
  BY DEF Init
<1> QED BY <1>3, <1>4, <1>5, <1>6 DEF BundlesInv

LEMMA StutterHolds == BundlesInv /\ UNCHANGED vars => BundlesInv'
BY DEF vars, evidence, BundlesInv, EvidenceType, EveryClaimSourced, entities

LEMMA NextHolds == BundlesInv /\ [Next]_vars => BundlesInv'
<1> SUFFICES ASSUME BundlesInv, [Next]_vars PROVE BundlesInv'
  OBVIOUS
<1>1. ASSUME NEW w \in Workers, Dossier(w) \/ BeginByHand(w) \/ DeadlockVictim(w)
      PROVE  BundlesInv'
  <2>1. w \in Readers
    BY DEF Readers
  <2>2. CASE Dossier(w)
    BY <2>1, <2>2, BeginScheduledKeeps, AssembleKeeps, UpsertKeeps, CommitKeeps,
       NotFoundKeeps DEF Dossier
  <2> QED BY <1>1, <2>1, <2>2, BeginByHandKeeps, DeadlockVictimKeeps
<1>2. ASSUME NEW w \in Writers, BeginBrief(w) \/ Assemble(w) \/ StoreBrief(w)
      PROVE  BundlesInv'
  <2>1. w \in Readers
    BY DEF Readers
  <2> QED BY <1>2, <2>1, BeginBriefKeeps, AssembleKeeps, StoreBriefKeeps
<1>3. ASSUME NEW st \in Statements,
             \/ Corroborate(st) \/ Qualify(st)
             \/ \E s \in Sources : Extract(st, s) \/ AddEvidence(st, s)
      PROVE  BundlesInv'
  BY <1>3, CorroborateKeeps, QualifyKeeps, ExtractKeeps, AddEvidenceKeeps
<1>4. CASE UNCHANGED vars
  BY <1>4, StutterHolds
<1> QED BY <1>1, <1>2, <1>3, <1>4, FailKeeps, NextDayKeeps, VerifyKeeps, RelateKeeps DEF Next

\* Whatever is committed between two queries, what a reader has read so far
\* fits together (bundle.go:81-150).
THEOREM BundlesInvariance == Spec => []BundlesInv
<1> QED BY InitHolds, NextHolds, PTL DEF Spec

\* In any graph the recursive query returns exactly the entities within reach
\* (graph.go:33-46).
THEOREM ExpansionReachesAll == Spec => []ExpansionIsReachability
<1>1. BundlesInv => ExpansionIsReachability
  <2> SUFFICES ASSUME BundlesInv, NEW w \in Writers, run[w].pc = "expand", NEW depth \in 1..3
               PROVE  ExpandGraph(run[w].seeds, depth) = Reachable(run[w].seeds, depth)
    BY DEF ExpansionIsReachability
  <2>1. w \in Readers
    BY DEF Readers
  <2>2. run[w].seeds \in SUBSET entities
    BY <2>1, RunIsGood DEF GoodRun, entities
  <2>3. depth \in Nat /\ EvidenceType
    BY DEF BundlesInv
  <2> QED BY <2>2, <2>3, ExpansionReaches
<1> QED BY <1>1, BundlesInvariance, PTL

LEMMA InvariantSuffices == BundlesInv => BundlesCoherent
<1> SUFFICES ASSUME BundlesInv, NEW b \in Bundles PROVE Coherent(b)
  BY DEF BundlesCoherent, BundlesInv
<1>1. CASE b \in {dossiers[e].bundle : e \in DOMAIN dossiers}
  BY <1>1 DEF BundlesInv
<1>2. CASE b \in {run[w].bundle : w \in {v \in Readers : run[v].pc = "store"}}
  BY <1>2, RunIsGood
<1>3. CASE b \in UNION {{run[w].stored[e] : e \in DOMAIN run[w].stored} : w \in Workers}
  <2>1. PICK w \in Workers : b \in {run[w].stored[e] : e \in DOMAIN run[w].stored}
    BY <1>3
  <2>2. w \in Readers
    BY DEF Readers
  <2> QED BY <2>1, <2>2, RunIsGood
<1> QED BY <1>1, <1>2, <1>3 DEF Bundles

\* No bundle, being stored or stored, refers to what it lacks, and each claim
\* in it is sourced ("complete sourcing for every claim",
\* docs/concepts/dossiers-vs-stories.md:43).
THEOREM BundlesStayCoherent == Spec => []BundlesCoherent
<1> QED BY BundlesInvariance, InvariantSuffices, PTL
-----------------------------------------------------------------------------
(* The brief of a bundle.                                                  *)

\* However Go visits the map, sort.Slice gives the conflicts one order: those of
\* different keys are told apart by Less, those of one key come by their ids.
LEMMA OneOrder ==
  ASSUME NEW b, DOMAIN b.statements \subseteq Statements,
         Cardinality(Disagreements(b)) <= InsertionMax,
         NEW order1 \in Orders(b), NEW order2 \in Orders(b)
  PROVE  Before(b, order1) \subseteq Before(b, order2)
<1> DEFINE D == Disagreements(b)
<1>1. ASSUME NEW order \in Orders(b)
      PROVE  /\ order \in [D -> 1..Cardinality(D)]
             /\ \A p, q \in D : KeyOf(p[1]) = KeyOf(q[1]) /\ First(p, q) => order[p] < order[q]
  BY DEF Orders, Injection
<1>2. ASSUME NEW p \in D
      PROVE  /\ p = <<p[1], p[2]>> /\ p[1] \in Nat /\ p[2] \in Nat
             /\ SubjectOf[p[1]] \in Nat /\ SlugOf[p[1]] \in Nat /\ ValueOf[p[1]] \in Nat
  <2>1. PICK S : S = DOMAIN b.statements
    OBVIOUS
  <2>2. p \in S \X S
    BY <2>1 DEF Disagreements
  <2>3. p = <<p[1], p[2]>> /\ p[1] \in Statements /\ p[2] \in Statements
    BY <2>1, <2>2
  <2>4. SubjectOf[p[1]] \in Entities
    BY <2>3, SubjectType
  <2> QED BY <2>3, <2>4, IdsType, SlugType, ValueType
<1>3. SUFFICES ASSUME NEW p \in D, NEW q \in D, <<p, q>> \in Before(b, order1)
               PROVE  <<p, q>> \in Before(b, order2)
  BY DEF Before
<1> DEFINE c == Conflict(p)
           d == Conflict(q)
<1>4. Less(c, d) \/ (~Less(d, c) /\ order1[p] < order1[q])
  BY <1>3 DEF Before
<1>5. CASE Less(c, d)
  BY <1>5 DEF Before
<1>6. CASE ~Less(c, d)
  <2>1. ~Less(d, c) /\ order1[p] < order1[q]
    BY <1>4, <1>6
  <2>2. SubjectOf[p[1]] = SubjectOf[q[1]] /\ SlugOf[p[1]] = SlugOf[q[1]]
    BY <1>2, <1>6, <2>1 DEF Less, Conflict
  <2>3. KeyOf(p[1]) = KeyOf(q[1])
    BY <2>2 DEF KeyOf
  <2>4. p # q /\ ~First(q, p)
    <3> HIDE DEF D
    <3>1. order1[p] \in Int /\ order1[q] \in Int
      BY <1>1
    <3> QED BY <1>1, <2>1, <2>3, <3>1
  <2>5. First(p, q)
    BY <1>2, <2>4 DEF First
  <2>6. order2[p] < order2[q]
    BY <1>1, <2>3, <2>5
  <2> QED BY <2>1, <2>6 DEF Before
<1> QED BY <1>5, <1>6

\* So the two calls of detectConflicts, and any two runs of Generate, agree
\* (briefs.go:134).
THEOREM BriefsStayStable == Spec => []BriefsStable
<1>1. BundlesInv => BriefsStable
  <2> SUFFICES ASSUME BundlesInv, NEW w \in Writers, run[w].pc = "store",
                      Cardinality(Disagreements(run[w].bundle)) <= InsertionMax,
                      NEW brief1 \in Generated(run[w].bundle),
                      NEW brief2 \in Generated(run[w].bundle)
               PROVE  brief1 = brief2
    BY DEF BriefsStable
  <2>1. PICK b : b = run[w].bundle
    OBVIOUS
  <2>2. DOMAIN b.statements \subseteq Statements
    <3>1. w \in Readers
      BY DEF Readers
    <3> QED BY <2>1, <3>1, RunIsGood DEF BundlesInv, EvidenceType
  <2>3. ASSUME NEW order1 \in Orders(b), NEW order2 \in Orders(b)
        PROVE  detectConflicts(b, order1) = detectConflicts(b, order2)
    <3>1. Cardinality(Disagreements(b)) <= InsertionMax
      BY <2>1
    <3>2. Before(b, order1) \subseteq Before(b, order2)
      BY <2>2, <3>1, OneOrder
    <3>3. Before(b, order2) \subseteq Before(b, order1)
      BY <2>2, <3>1, OneOrder
    <3>4. Before(b, order1) = Before(b, order2)
      BY <3>2, <3>3
    <3> QED BY <3>4 DEF detectConflicts
  <2>4. ASSUME NEW order1 \in Orders(b), NEW again1 \in Orders(b),
               NEW order2 \in Orders(b), NEW again2 \in Orders(b)
        PROVE  Generate(b, order1, again1) = Generate(b, order2, again2)
    <3>1. /\ detectConflicts(b, order1) = detectConflicts(b, order2)
          /\ detectConflicts(b, again1) = detectConflicts(b, again2)
      BY <2>3
    <3>2. deriveWriterPrompts(b, again1) = deriveWriterPrompts(b, again2)
      BY <3>1 DEF deriveWriterPrompts
    <3> QED BY <3>1, <3>2 DEF Generate
  <2> QED BY <2>1, <2>4 DEF Generated
<1> QED BY <1>1, BundlesInvariance, PTL
=============================================================================
