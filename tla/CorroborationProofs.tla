------------------------- MODULE CorroborationProofs -------------------------
(***************************************************************************)
(* Confidences are warranted and counts are bounded, for any statements,   *)
(* sources, texts, weights and overlapping runs.  The first half is about  *)
(* the clusters, which a recursive function computes: that it exists, and  *)
(* that its values are good, is shown from the first number that fails.    *)
(***************************************************************************)
EXTENDS Corroboration, FiniteSetTheorems, WellFoundedInduction, TLAPS

-----------------------------------------------------------------------------
(* Numbers.                                                                *)

\* Min of a non-empty set of numbers is its least member: with it a proof takes the
\* first number for which something fails, which is how it argues by induction.
LEMMA MinIsLeast ==
  ASSUME NEW S \in SUBSET Nat, S # {}
  PROVE  Min(S) \in S /\ \A y \in S : Min(S) <= y
<1> DEFINE R == {p \in Nat \X Nat : p[1] < p[2]}
<1>1. IsWellFoundedOn(R, Nat)
  BY NatLessThanWellFounded DEF OpToRel
<1> HIDE DEF R
<1>2. PICK x \in S : \A y \in S : <<y, x>> \notin R
  BY <1>1, WFMin
<1>3. ASSUME NEW y \in S PROVE x <= y
  <2>1. <<y, x>> \in Nat \X Nat /\ x \in Nat /\ y \in Nat
    OBVIOUS
  <2>2. ~(y < x)
    BY <1>2, <2>1 DEF R
  <2> QED BY <2>1, <2>2
<1> QED BY <1>3 DEF Min

\* Max of a non-empty finite set of numbers is its greatest member.
LEMMA MaxIsGreatest ==
  ASSUME NEW S \in SUBSET Nat, IsFiniteSet(S), S # {}
  PROVE  Max(S) \in S /\ \A y \in S : y <= Max(S)
<1> DEFINE From(x) == {y \in S : x <= y}
           T == {From(x) : x \in S}
<1>1. T \subseteq FiniteSubsetsOf(S) /\ T # {}
  <2>1. FiniteSubsetsOf(S) = SUBSET S
    BY FS_FiniteSubsetsOfFinite
  <2>2. \A x \in S : From(x) \in SUBSET S
    OBVIOUS
  <2>3. T \subseteq SUBSET S
    BY <2>2
  <2>4. T # {}
    OBVIOUS
  <2> QED BY <2>1, <2>3, <2>4
<1>2. IsWellFoundedOn(StrictSubsetOrdering(S), FiniteSubsetsOf(S))
  BY FS_StrictSubsetOrderingWellFounded
<1> HIDE DEF T
<1>3. PICK A \in T : \A B \in T : <<B, A>> \notin StrictSubsetOrdering(S)
  BY <1>1, <1>2, WFMin
<1>4. PICK x \in S : A = From(x)
  BY DEF T
<1>5. ASSUME NEW y \in S, x < y PROVE FALSE
  <2>1. From(y) \in T
    BY DEF T
  <2>2. /\ From(y) \subseteq From(x)
        /\ x \in From(x) /\ x \notin From(y)
        /\ From(x) \in SUBSET S /\ From(y) \in SUBSET S
    <3>1. x \in Nat /\ \A z \in S : z \in Nat
      OBVIOUS
    <3>2. \A z \in S : y <= z => x <= z
      BY <1>5, <3>1
    <3>3. ~(y <= x) /\ x <= x
      BY <1>5, <3>1
    <3> QED BY <3>2, <3>3
  <2>3. <<From(y), From(x)>> \in StrictSubsetOrdering(S)
    BY <2>2 DEF StrictSubsetOrdering
  <2> QED BY <1>3, <1>4, <2>1, <2>3
<1>6. \A y \in S : x >= y
  <2>1. \A y \in S : x \in Nat /\ y \in Nat
    OBVIOUS
  <2> QED BY <1>5, <2>1
<1>7. Max(S) \in S /\ \A y \in S : Max(S) >= y
  BY <1>6 DEF Max
<1>8. \A y \in S : Max(S) \in Nat /\ y \in Nat
  BY <1>7
<1> QED BY <1>7, <1>8

-----------------------------------------------------------------------------
(* The clustering function.                                                *)

Step(S, f, n) ==
  IF n = 0 THEN <<>> ELSE IF n \in S THEN Join(f[n - 1], n) ELSE f[n - 1]

LEMMA SourcesAreNumbers ==
  ASSUME NEW S \in SUBSET Sources
  PROVE  S \in SUBSET Nat /\ 0 \notin S /\ IsFiniteSet(S)
BY IdsType, FS_Subset

\* The recursion is well-founded, so the function is what its definition says.
LEMMA ClustersDefined ==
  ASSUME NEW S \in SUBSET Sources, S # {}
  PROVE  ClustersUpTo(S) = [n \in 0..Max(S) |-> Step(S, ClustersUpTo(S), n)]
<1> DEFINE Is(f, m) == f = [n \in 0..m |-> Step(S, f, n)]
           Bad == {m \in 0..Max(S) : ~\E f : Is(f, m)}
<1>1. Max(S) \in Nat
  BY SourcesAreNumbers, MaxIsGreatest
<1>2. ASSUME Bad # {} PROVE FALSE
  <2> DEFINE m == Min(Bad)
  <2>1. Bad \in SUBSET Nat
    BY <1>1
  <2>2. m \in Bad /\ \A k \in Bad : m <= k
    <3> HIDE DEF Bad
    <3> QED BY <1>2, <2>1, MinIsLeast
  <2>3. m \in 0..Max(S) /\ ~\E f : Is(f, m)
    BY <2>2
  <2> HIDE DEF m
  <2>4. CASE m = 0
    <3> DEFINE f == [n \in 0..0 |-> <<>>]
    <3>1. \A n \in 0..0 : Step(S, f, n) = <<>>
      BY DEF Step
    <3>2. Is(f, 0)
      BY <3>1
    <3> QED BY <2>3, <2>4, <3>2
  <2>5. CASE m # 0
    <3>1. m - 1 \in 0..Max(S) /\ ~(m <= m - 1) /\ m \in Nat /\ m - 1 \in Nat
      BY <1>1, <2>3, <2>5
    <3>2. PICK g : Is(g, m - 1)
      BY <2>2, <3>1
    <3> DEFINE f == [n \in 0..m |-> IF n = m THEN Step(S, g, m) ELSE g[n]]
    <3>3. ASSUME NEW n \in 0..m PROVE f[n] = Step(S, f, n)
      <4>1. n \in Nat
        BY <3>1
      <4>2. n # 0 => f[n - 1] = g[n - 1]
        BY <3>1, <4>1
      <4>3. Step(S, f, n) = Step(S, g, n)
        BY <4>2 DEF Step
      <4>4. CASE n = m
        BY <4>3, <4>4
      <4>5. CASE n # m
        <5>1. n \in 0..(m - 1)
          BY <3>1, <4>1, <4>5
        <5>2. g[n] = Step(S, g, n)
          BY <3>2, <5>1
        <5> QED BY <4>3, <4>5, <5>2
      <4> QED BY <4>4, <4>5
    <3>4. f = [n \in 0..m |-> f[n]]
      OBVIOUS
    <3> HIDE DEF f
    <3>5. Is(f, m)
      BY <3>3, <3>4
    <3> QED BY <2>3, <3>5
  <2> QED BY <2>4, <2>5
<1>3. \E f : Is(f, Max(S))
  <2>1. Max(S) \in 0..Max(S)
    BY <1>1
  <2> QED BY <1>2, <2>1
<1>4. ClustersUpTo(S) = CHOOSE f : Is(f, Max(S))
  BY DEF ClustersUpTo, Step
<1> QED BY <1>3, <1>4

-----------------------------------------------------------------------------
(* What the clusters are like.                                             *)

\* The sets of sources in S that nothing else in S is near.
Unions(S) == {U \in (SUBSET S) \ {{}} : \A s \in U, t \in S : Near(s, t) => t \in U}

\* C clusters the sources of S up to n: each is in a cluster, there are as many
\* clusters as there are sources of some set that is apart, and no cluster
\* crosses the border of a union.
Clustered(S, C, n) ==
  /\ C \in Seq(SUBSET S)
  /\ \A i \in DOMAIN C : C[i] # {} /\ \A t \in C[i] : t <= n
  /\ \A s \in S : s <= n => \E i \in DOMAIN C : s \in C[i]
  /\ \E T \in SUBSET S : /\ Apart(T) /\ Cardinality(T) = Len(C)
                         /\ \A t \in T : \E i \in DOMAIN C : t \in C[i]
  /\ \A V \in Unions(S) : \A i \in DOMAIN C : C[i] \subseteq V \/ C[i] \cap V = {}

LEMMA NearSymmetric ==
  ASSUME similar \in Similarities, NEW s \in Sources, NEW t \in Sources, Near(s, t)
  PROVE  Near(t, s)
BY DEF Similarities, Near

\* The first source of a new cluster is near to no earlier one.
LEMMA NewCluster ==
  ASSUME similar \in Similarities, NEW S \in SUBSET Sources, NEW s \in S, NEW C,
         Clustered(S, C, s - 1),
         \A i \in DOMAIN C : ~Matches(C[i], s)
  PROVE  Clustered(S, Append(C, {s}), s)
<1> DEFINE D == Append(C, {s})
<1>1. C \in Seq(SUBSET S) /\ {s} \in SUBSET S
  BY DEF Clustered
<1>2. /\ D \in Seq(SUBSET S) /\ Len(D) = Len(C) + 1 /\ Len(C) \in Nat
      /\ DOMAIN C = 1..Len(C) /\ DOMAIN D = 1..(Len(C) + 1)
      /\ \A i \in DOMAIN C : i \in DOMAIN D /\ D[i] = C[i]
      /\ Len(C) + 1 \in DOMAIN D /\ D[Len(C) + 1] = {s}
      /\ \A i \in DOMAIN D : i \in DOMAIN C \/ i = Len(C) + 1
  BY <1>1
<1> HIDE DEF D
<1>3. s \in Nat /\ s # 0 /\ S \in SUBSET Nat /\ \A t \in S : t \in Nat
  BY SourcesAreNumbers
<1>4. ASSUME NEW i \in DOMAIN D PROVE D[i] # {} /\ \A t \in D[i] : t <= s
  <2>1. CASE i \in DOMAIN C
    <3>1. D[i] # {} /\ D[i] \subseteq S /\ \A t \in D[i] : t <= s - 1
      BY <1>1, <1>2, <2>1 DEF Clustered
    <3>2. \A t \in D[i] : t \in Nat /\ t <= s - 1
      BY <1>3, <3>1
    <3>3. \A t \in D[i] : t <= s
      BY <1>3, <3>2
    <3> QED BY <3>1, <3>3
  <2>2. CASE i = Len(C) + 1
    BY <1>2, <1>3, <2>2
  <2> QED BY <1>2, <2>1, <2>2
<1>5. ASSUME NEW t \in S, t <= s PROVE \E i \in DOMAIN D : t \in D[i]
  <2>1. CASE t = s
    BY <1>2, <2>1
  <2>2. CASE t # s
    <3>1. t <= s - 1
      BY <1>3, <1>5, <2>2
    <3>2. PICK i \in DOMAIN C : t \in C[i]
      BY <3>1 DEF Clustered
    <3> QED BY <1>2, <3>2
  <2> QED BY <2>1, <2>2
<1>6. \E T \in SUBSET S : /\ Apart(T) /\ Cardinality(T) = Len(D)
                          /\ \A t \in T : \E i \in DOMAIN D : t \in D[i]
  <2>1. PICK T \in SUBSET S : /\ Apart(T) /\ Cardinality(T) = Len(C)
                              /\ \A t \in T : \E i \in DOMAIN C : t \in C[i]
    BY DEF Clustered
  <2>2. s \notin T
    <3> SUFFICES ASSUME s \in T PROVE FALSE
      OBVIOUS
    <3>1. s <= s - 1
      BY <2>1 DEF Clustered
    <3>2. ~(s <= s - 1)
      BY <1>3
    <3> QED BY <3>1, <3>2
  <2>3. Cardinality(T \cup {s}) = Len(D)
    <3>1. IsFiniteSet(T)
      BY SourcesAreNumbers
    <3> QED BY <1>2, <2>1, <2>2, <3>1, FS_AddElement
  <2>4. \A t \in T : ~Near(s, t) /\ ~Near(t, s)
    <3> SUFFICES ASSUME NEW t \in T PROVE ~Near(s, t) /\ ~Near(t, s)
      OBVIOUS
    <3>1. PICK i \in DOMAIN C : t \in C[i]
      BY <2>1
    <3>2. ~Near(s, t)
      BY <3>1 DEF Matches
    <3>3. s \in Sources /\ t \in Sources
      OBVIOUS
    <3> QED BY <3>2, <3>3, NearSymmetric
  <2>5. Apart(T \cup {s})
    BY <2>1, <2>4 DEF Apart
  <2>6. \A t \in T \cup {s} : \E i \in DOMAIN D : t \in D[i]
    BY <1>2, <2>1
  <2> QED BY <2>3, <2>5, <2>6
<1>7. ASSUME NEW V \in Unions(S), NEW i \in DOMAIN D
      PROVE  D[i] \subseteq V \/ D[i] \cap V = {}
  BY <1>2 DEF Clustered
<1> QED BY <1>2, <1>4, <1>5, <1>6, <1>7 DEF Clustered, D

\* A source that joins a cluster is near to a member of it.
LEMMA JoinedCluster ==
  ASSUME similar \in Similarities, NEW S \in SUBSET Sources, NEW s \in S, NEW C,
         Clustered(S, C, s - 1),
         NEW k \in DOMAIN C, Matches(C[k], s)
  PROVE  Clustered(S, [C EXCEPT ![k] = C[k] \cup {s}], s)
<1> DEFINE D == [C EXCEPT ![k] = C[k] \cup {s}]
<1>1. C \in Seq(SUBSET S)
  BY DEF Clustered
<1>2. /\ D \in Seq(SUBSET S) /\ Len(D) = Len(C) /\ DOMAIN D = DOMAIN C
      /\ \A i \in DOMAIN C : D[i] = IF i = k THEN C[i] \cup {s} ELSE C[i]
      /\ \A i \in DOMAIN C : C[i] \subseteq S
  <2>1. DOMAIN C = 1..Len(C) /\ Len(C) \in Nat /\ \A i \in DOMAIN C : C[i] \in SUBSET S
    BY <1>1
  <2>2. C[k] \cup {s} \in SUBSET S
    BY <2>1
  <2>3. D \in [1..Len(C) -> SUBSET S]
    BY <2>1, <2>2
  <2>4. D \in Seq(SUBSET S) /\ Len(D) = Len(C)
    BY <2>1, <2>3
  <2> QED BY <2>1, <2>4
<1> HIDE DEF D
<1>3. s \in Nat /\ s # 0 /\ S \in SUBSET Nat /\ \A t \in S : t \in Nat
  BY SourcesAreNumbers
<1>4. ASSUME NEW i \in DOMAIN D PROVE D[i] # {} /\ \A t \in D[i] : t <= s
  <2>1. C[i] # {} /\ \A t \in C[i] : t <= s - 1
    BY <1>2 DEF Clustered
  <2>2. C[i] \subseteq S
    BY <1>2
  <2>3. \A t \in C[i] : t \in Nat /\ t <= s - 1
    BY <1>3, <2>1, <2>2
  <2>4. \A t \in C[i] : t <= s
    BY <1>3, <2>3
  <2>5. s <= s
    BY <1>3
  <2> QED BY <1>2, <2>1, <2>4, <2>5
<1>5. ASSUME NEW t \in S, t <= s PROVE \E i \in DOMAIN D : t \in D[i]
  <2>1. CASE t = s
    BY <1>2, <2>1
  <2>2. CASE t # s
    <3>1. t <= s - 1
      BY <1>3, <1>5, <2>2
    <3>2. PICK i \in DOMAIN C : t \in C[i]
      BY <3>1 DEF Clustered
    <3> QED BY <1>2, <3>2
  <2> QED BY <2>1, <2>2
<1>6. \E T \in SUBSET S : /\ Apart(T) /\ Cardinality(T) = Len(D)
                          /\ \A t \in T : \E i \in DOMAIN D : t \in D[i]
  <2>1. PICK T \in SUBSET S : /\ Apart(T) /\ Cardinality(T) = Len(C)
                              /\ \A t \in T : \E i \in DOMAIN C : t \in C[i]
    BY DEF Clustered
  <2> QED BY <1>2, <2>1
<1>7. ASSUME NEW V \in Unions(S), NEW i \in DOMAIN D
      PROVE  D[i] \subseteq V \/ D[i] \cap V = {}
  <2>1. C[i] \subseteq V \/ C[i] \cap V = {}
    BY <1>2 DEF Clustered
  <2>2. CASE i # k
    BY <1>2, <2>1, <2>2
  <2>3. CASE i = k
    <3>1. PICK t \in C[k] : Near(s, t)
      BY DEF Matches
    <3>2. t \in S /\ t \in Sources /\ s \in Sources
      BY <1>2
    <3>3. Near(t, s)
      BY <3>1, <3>2, NearSymmetric
    <3>4. s \in V <=> t \in V
      BY <3>1, <3>2, <3>3 DEF Unions
    <3> QED BY <1>2, <2>1, <2>3, <3>1, <3>4
  <2> QED BY <2>2, <2>3
<1> QED BY <1>2, <1>4, <1>5, <1>6, <1>7 DEF Clustered, D

LEMMA JoinClusters ==
  ASSUME similar \in Similarities, NEW S \in SUBSET Sources, NEW s \in S, NEW C,
         Clustered(S, C, s - 1)
  PROVE  Clustered(S, Join(C, s), s)
<1> DEFINE matching == {i \in DOMAIN C : Matches(C[i], s)}
<1>1. CASE matching = {}
  <2>1. Join(C, s) = Append(C, {s}) /\ \A i \in DOMAIN C : ~Matches(C[i], s)
    BY <1>1 DEF Join
  <2> QED BY <2>1, NewCluster
<1>2. CASE matching # {}
  <2>1. matching \in SUBSET Nat
    <3>1. C \in Seq(SUBSET S)
      BY DEF Clustered
    <3>2. DOMAIN C = 1..Len(C) /\ Len(C) \in Nat
      BY <3>1
    <3> QED BY <3>2
  <2>2. PICK k : k = Min(matching) /\ k \in matching
    <3> HIDE DEF matching
    <3> QED BY <1>2, <2>1, MinIsLeast
  <2>3. Join(C, s) = [C EXCEPT ![k] = C[k] \cup {s}]
    BY <1>2, <2>2 DEF Join
  <2>4. k \in DOMAIN C /\ Matches(C[k], s)
    BY <2>2
  <2>5. Clustered(S, [C EXCEPT ![k] = C[k] \cup {s}], s)
    BY <2>4, JoinedCluster
  <2> QED BY <2>3, <2>5
<1> QED BY <1>1, <1>2

LEMMA NothingClustered == ASSUME NEW S \in SUBSET Sources PROVE Clustered(S, <<>>, 0)
<1>1. \A s \in S : ~(s <= 0)
  BY SourcesAreNumbers
<1>2. {} \in SUBSET S /\ Apart({}) /\ Cardinality({}) = Len(<<>>)
  BY FS_EmptySet DEF Apart
<1> QED BY <1>1, <1>2 DEF Clustered

LEMMA ClustersAreGood ==
  ASSUME similar \in Similarities, NEW S \in SUBSET Sources, S # {}
  PROVE  Clustered(S, ClustersUpTo(S)[Max(S)], Max(S))
<1> DEFINE F == ClustersUpTo(S)
           Bad == {n \in 0..Max(S) : ~Clustered(S, F[n], n)}
<1>1. Max(S) \in Nat /\ F = [n \in 0..Max(S) |-> Step(S, F, n)]
  BY SourcesAreNumbers, MaxIsGreatest, ClustersDefined
<1> HIDE DEF F
<1>2. \A n \in 0..Max(S) : F[n] = Step(S, F, n)
  BY <1>1
<1>3. ASSUME Bad # {} PROVE FALSE
  <2> DEFINE m == Min(Bad)
  <2>1. Bad \in SUBSET Nat
    BY <1>1
  <2>2. m \in Bad /\ \A k \in Bad : m <= k
    <3> HIDE DEF Bad
    <3> QED BY <1>3, <2>1, MinIsLeast
  <2>3. m \in 0..Max(S) /\ ~Clustered(S, F[m], m)
    BY <2>2
  <2> HIDE DEF m
  <2>4. CASE m = 0
    BY <1>2, <2>3, <2>4, NothingClustered DEF Step
  <2>5. CASE m # 0
    <3>1. m - 1 \in 0..Max(S) /\ ~(m <= m - 1) /\ m \in Nat
      BY <1>1, <2>3, <2>5
    <3>2. Clustered(S, F[m - 1], m - 1)
      BY <2>2, <3>1
    <3>3. CASE m \in S
      <4>1. Clustered(S, Join(F[m - 1], m), m)
        BY <3>2, <3>3, JoinClusters
      <4> QED BY <1>2, <2>3, <2>5, <3>3, <4>1 DEF Step
    <3>4. CASE m \notin S
      <4>1. F[m] = F[m - 1]
        BY <1>2, <2>3, <2>5, <3>4 DEF Step
      <4>2. \A t \in S : t \in Nat
        BY SourcesAreNumbers
      <4> DEFINE C == F[m - 1]
      <4>3. C \in Seq(SUBSET S)
        BY <3>2 DEF Clustered
      <4>4. \A i \in DOMAIN C : \A t \in C[i] : t <= m
        <5>1. \A i \in DOMAIN C : C[i] \subseteq S /\ \A t \in C[i] : t <= m - 1
          BY <3>2, <4>3 DEF Clustered
        <5> QED BY <3>1, <4>2, <5>1
      <4>5. \A s \in S : s <= m => s <= m - 1
        BY <3>1, <3>4, <4>2
      <4>6. Clustered(S, C, m)
        BY <3>2, <4>4, <4>5 DEF Clustered
      <4> QED BY <2>3, <4>1, <4>6
    <3> QED BY <3>3, <3>4
  <2> QED BY <2>4, <2>5
<1>4. Max(S) \in 0..Max(S)
  BY <1>1
<1> QED BY <1>3, <1>4 DEF F

-----------------------------------------------------------------------------
(* The count is bounded from both sides.                                   *)

\* The largest cardinality in a family of subsets of a finite set.
LEMMA MaxCardinality ==
  ASSUME NEW S, IsFiniteSet(S), NEW F \in SUBSET SUBSET S, F # {}
  PROVE  LET m == Max({Cardinality(U) : U \in F}) IN
           m \in Nat /\ (\A U \in F : Cardinality(U) <= m) /\ \E U \in F : Cardinality(U) = m
<1> DEFINE N == {Cardinality(U) : U \in F}
<1>1. \A U \in F : Cardinality(U) \in Nat /\ Cardinality(U) <= Cardinality(S)
  BY FS_Subset, FS_CardinalityType
<1>2. Cardinality(S) \in Nat
  BY FS_CardinalityType
<1>3. N \in SUBSET Nat /\ N # {} /\ \A n \in N : n <= Cardinality(S)
  BY <1>1
<1>4. IsFiniteSet(N)
  <2> HIDE DEF N
  <2> QED BY <1>2, <1>3, FS_BoundedSetOfNaturals
<1>5. Max(N) \in N /\ \A n \in N : n <= Max(N)
  <2> HIDE DEF N
  <2> QED BY <1>3, <1>4, MaxIsGreatest
<1> QED BY <1>3, <1>5

\* What counts as apart in S is no more than the most that are.
LEMMA MostApartIsMost ==
  ASSUME NEW S \in SUBSET Sources
  PROVE  /\ MostApart(S) \in Nat
         /\ \A T \in SUBSET S : Apart(T) => Cardinality(T) <= MostApart(S)
         /\ \E T \in SUBSET S : Apart(T) /\ Cardinality(T) = MostApart(S)
<1> DEFINE F == {U \in SUBSET S : Apart(U)}
<1>1. F \in SUBSET SUBSET S /\ {} \in F /\ \A T \in SUBSET S : Apart(T) <=> T \in F
  BY DEF Apart
<1>2. MostApart(S) = Max({Cardinality(U) : U \in F})
  BY DEF MostApart
<1> HIDE DEF F
<1>3. IsFiniteSet(S)
  BY SourcesAreNumbers
<1>4. LET m == Max({Cardinality(U) : U \in F}) IN
        m \in Nat /\ (\A U \in F : Cardinality(U) <= m) /\ \E U \in F : Cardinality(U) = m
  BY <1>1, <1>3, MaxCardinality
<1> QED BY <1>1, <1>2, <1>4

\* One source counts, and no more than are apart.
LEMMA CountAtMost ==
  ASSUME similar \in Similarities, NEW S \in SUBSET Sources, S # {}
  PROVE  /\ CountIndependentSources(S) \in Nat \ {0}
         /\ CountIndependentSources(S) <= MostApart(S)
<1>1. PICK C : C = ClustersUpTo(S)[Max(S)]
  OBVIOUS
<1>2. Clustered(S, C, Max(S)) /\ CountIndependentSources(S) = Len(C)
  BY <1>1, ClustersAreGood DEF CountIndependentSources
<1>3. Len(C) \in Nat /\ DOMAIN C = 1..Len(C)
  BY <1>2 DEF Clustered
<1>4. Len(C) # 0
  <2>1. Max(S) \in S /\ Max(S) \in Nat
    BY SourcesAreNumbers, MaxIsGreatest
  <2>2. Max(S) <= Max(S)
    BY <2>1
  <2>3. PICK i \in DOMAIN C : Max(S) \in C[i]
    BY <1>2, <2>1, <2>2 DEF Clustered
  <2> QED BY <1>3
<1>5. PICK T \in SUBSET S : Apart(T) /\ Cardinality(T) = Len(C)
  BY <1>2 DEF Clustered
<1>6. Len(C) <= MostApart(S)
  BY <1>5, MostApartIsMost
<1> QED BY <1>2, <1>3, <1>4, <1>6

\* Each group has a cluster of its own.
LEMMA CountAtLeast ==
  ASSUME similar \in Similarities, NEW S \in SUBSET Sources, S # {}
  PROVE  Cardinality(Groups(S)) <= CountIndependentSources(S)
<1>1. PICK C : C = ClustersUpTo(S)[Max(S)]
  OBVIOUS
<1>2. Clustered(S, C, Max(S)) /\ CountIndependentSources(S) = Len(C)
  BY <1>1, ClustersAreGood DEF CountIndependentSources
<1>3. Len(C) \in Nat /\ DOMAIN C = 1..Len(C)
  BY <1>2 DEF Clustered
<1>4. \A s \in S : s <= Max(S)
  BY SourcesAreNumbers, MaxIsGreatest
<1>5. \A G \in Groups(S) : G \in Unions(S) /\ \A V \in Unions(S) : V \subseteq G => G = V
  BY DEF Groups, Unions
<1>6. ASSUME NEW G \in Groups(S) PROVE \E i \in DOMAIN C : C[i] \subseteq G
  <2>1. PICK s \in G : s \in S
    BY <1>5 DEF Unions
  <2>2. PICK i \in DOMAIN C : s \in C[i]
    BY <1>2, <1>4, <2>1 DEF Clustered
  <2>3. C[i] \subseteq G \/ C[i] \cap G = {}
    BY <1>2, <1>5 DEF Clustered
  <2> QED BY <2>1, <2>2, <2>3
<1> DEFINE own == [G \in Groups(S) |-> CHOOSE i \in DOMAIN C : C[i] \subseteq G]
<1>7. \A G \in Groups(S) : own[G] \in DOMAIN C /\ C[own[G]] \subseteq G
  BY <1>6
<1> HIDE DEF own
<1>8. ASSUME NEW G \in Groups(S), NEW H \in Groups(S), own[G] = own[H] PROVE G = H
  <2>1. PICK s \in C[own[G]] : TRUE
    BY <1>2, <1>7 DEF Clustered
  <2>2. s \in G \cap H
    BY <1>7, <1>8, <2>1
  <2>3. G \cap H \in Unions(S)
    BY <1>5, <2>2 DEF Unions
  <2>4. G \cap H \subseteq G /\ G \cap H \subseteq H
    OBVIOUS
  <2>5. G = G \cap H /\ H = G \cap H
    BY <1>5, <2>3, <2>4
  <2> QED BY <2>5
<1>9. own \in Injection(Groups(S), 1..Len(C))
  <2>1. own \in [Groups(S) -> 1..Len(C)]
    <3>1. own = [G \in Groups(S) |-> own[G]]
      BY DEF own
    <3> QED BY <1>3, <1>7, <3>1
  <2> QED BY <1>8, <2>1 DEF Injection, IsInjective
<1>10. IsFiniteSet(1..Len(C)) /\ Cardinality(1..Len(C)) = Len(C)
  <2>1. Len(C) \in Int /\ 1 \in Int /\ (1 > Len(C) => Len(C) = 0) /\ Len(C) - 1 + 1 = Len(C)
    BY <1>3
  <2> QED BY <2>1, FS_Interval
<1>11. Cardinality(Groups(S)) <= Cardinality(1..Len(C))
  BY <1>9, <1>10, FS_Injection
<1> QED BY <1>2, <1>10, <1>11

-----------------------------------------------------------------------------
(* What the evidence carries.                                              *)

LEMMA LinksAreTyped ==
  ASSUME TypeOK, NEW l \in DOMAIN evidence
  PROVE  /\ l \in (DOMAIN confidence) \X Sources /\ l = <<l[1], l[2]>>
         /\ evidence[l] \in Thousandths
<1>1. DOMAIN evidence \subseteq (DOMAIN confidence) \X Sources /\ evidence[l] \in Weights \cup {500}
  BY DEF TypeOK
<1>2. l \in (DOMAIN confidence) \X Sources /\ l = <<l[1], l[2]>>
  BY <1>1
<1>3. \A c \in Weights \cup {500} : c \in Thousandths
  BY WeightsType DEF Thousandths
<1> QED BY <1>1, <1>2, <1>3

LEMMA SourcesOfAreSources == ASSUME NEW st PROVE SourcesOf(st) \in SUBSET Sources
BY DEF SourcesOf

\* Some of the evidence gives no more than all of it carries.
LEMMA ComputedIsCarried ==
  ASSUME TypeOK, NEW L \in SUBSET DOMAIN evidence, NEW st,
         \E s \in Sources : <<st, s>> \in L
  PROVE  Computed(st, L) \in Thousandths /\ Carried(st, Computed(st, L))
<1> DEFINE S == {s \in Sources : <<st, s>> \in L}
           W == {evidence[<<st, s>>] : s \in S}
           n == CountIndependentSources(S)
           m == MostApart(SourcesOf(st))
<1>1. S \in SUBSET Sources /\ S # {} /\ S \in SUBSET SourcesOf(st)
  BY DEF SourcesOf
<1>2. n \in Nat \ {0} /\ n <= m /\ m \in Nat
  <2> HIDE DEF S
  <2>1. similar \in Similarities
    BY DEF TypeOK
  <2>2. n \in Nat \ {0} /\ n <= MostApart(S)
    BY <1>1, <2>1, CountAtMost
  <2>3. PICK T \in SUBSET S : Apart(T) /\ Cardinality(T) = MostApart(S)
    BY <1>1, MostApartIsMost
  <2>4. T \in SUBSET SourcesOf(st)
    BY <1>1
  <2>5. Cardinality(T) <= m /\ m \in Nat
    BY <2>3, <2>4, SourcesOfAreSources, MostApartIsMost
  <2>6. MostApart(S) \in Nat
    BY <1>1, MostApartIsMost
  <2> HIDE DEF n, m
  <2> QED BY <2>2, <2>3, <2>5, <2>6
<1>3. /\ W \in SUBSET Nat /\ W # {} /\ IsFiniteSet(W)
      /\ \A c \in W : c <= 1000
  <2>1. \A s \in S : evidence[<<st, s>>] \in 0..1000
    BY LinksAreTyped DEF Thousandths
  <2>2. W \in SUBSET (0..1000) /\ W # {}
    <3>1. ASSUME NEW c \in W PROVE c \in 0..1000
      <4>1. PICK s \in S : c = evidence[<<st, s>>]
        BY <3>1
      <4> QED BY <2>1, <4>1
    <3>2. PICK s \in S : TRUE
      BY <1>1
    <3>3. evidence[<<st, s>>] \in W
      BY <3>2
    <3> HIDE DEF W
    <3> QED BY <3>1, <3>3
  <2> HIDE DEF W
  <2>3. W \in SUBSET Nat /\ \A c \in W : c <= 1000
    <3>1. ASSUME NEW c \in W PROVE c \in Nat /\ c <= 1000
      <4>1. c \in 0..1000
        BY <2>2
      <4> QED BY <4>1
    <3> QED BY <3>1
  <2>4. IsFiniteSet(W)
    BY <2>3, FS_BoundedSetOfNaturals
  <2> QED BY <2>2, <2>3, <2>4
<1>4. Max(W) \in W /\ Max(W) \in Nat /\ Max(W) <= 1000
  <2> HIDE DEF W
  <2>1. Max(W) \in W
    BY <1>3, MaxIsGreatest
  <2>2. \A c \in W : c \in Nat /\ c <= 1000
    BY <1>3
  <2> QED BY <2>1, <2>2
<1>5. PICK k : k = corroborationCeiling(n)
  OBVIOUS
<1>6. k \in Nat /\ k <= IF m = 1 THEN 500 ELSE IF m = 2 THEN 850 ELSE 950
  <2> HIDE DEF n, m
  <2> QED BY <1>2, <1>5 DEF corroborationCeiling
<1>7. PICK c : c = Min({Max(W), k})
  OBVIOUS
<1>8. c \in Nat /\ c <= Max(W) /\ c <= k
  <2>1. PICK w : w = Max(W)
    OBVIOUS
  <2>2. {w, k} \in SUBSET Nat /\ {w, k} # {}
    BY <1>4, <1>6, <2>1
  <2>3. Min({w, k}) \in {w, k} /\ \A y \in {w, k} : Min({w, k}) <= y
    BY <2>2, MinIsLeast
  <2> QED BY <1>4, <1>6, <1>7, <2>1, <2>3
<1>9. Computed(st, L) = c
  BY <1>5, <1>7 DEF Computed, ComputeConfidence
<1>10. PICK s \in S : evidence[<<st, s>>] = Max(W)
  BY <1>4
<1>11. s \in SourcesOf(st) /\ c <= evidence[<<st, s>>]
  BY <1>1, <1>8, <1>10
<1> HIDE DEF n, S, W
<1>12. c <= CASE m = 1 -> 500 [] m = 2 -> 850 [] m >= 3 -> 950
  <2> HIDE DEF m
  <2>1. c <= IF m = 1 THEN 500 ELSE IF m = 2 THEN 850 ELSE 950
    BY <1>6, <1>8
  <2>2. m = 1 \/ m = 2 \/ m >= 3
    BY <1>2
  <2> QED BY <1>2, <2>1, <2>2
<1>13. c \in Thousandths
  BY <1>4, <1>8 DEF Thousandths
<1> QED BY <1>9, <1>11, <1>12, <1>13 DEF Carried

\* Evidence only grows: what was carried stays so.
EvidenceGrows ==
  /\ UNCHANGED <<domain, similar>>
  /\ \A l \in DOMAIN evidence : l \in DOMAIN evidence' /\ evidence'[l] = evidence[l]

LEMMA CarriedStays ==
  ASSUME EvidenceGrows, NEW st, NEW c \in Nat, Carried(st, c)
  PROVE  Carried(st, c)'
<1> DEFINE m == MostApart(SourcesOf(st))
<1>1. SourcesOf(st) \in SUBSET SourcesOf(st)' /\ SourcesOf(st)' \in SUBSET Sources
  BY DEF SourcesOf, EvidenceGrows
<1>2. \A T : Apart(T)' <=> Apart(T)
  BY DEF Apart, Near, EvidenceGrows
<1>3. m \in Nat /\ \E T \in SUBSET SourcesOf(st) : Apart(T) /\ Cardinality(T) = m
  BY SourcesOfAreSources, MostApartIsMost
<1>4. m' \in Nat /\ m <= m'
  <2> DEFINE F == {U \in SUBSET SourcesOf(st)' : Apart(U)'}
  <2>1. m' = Max({Cardinality(U) : U \in F})
    BY DEF MostApart
  <2>2. PICK T \in F : Cardinality(T) = m
    BY <1>1, <1>2, <1>3
  <2>3. F \in SUBSET SUBSET Sources /\ F # {} /\ IsFiniteSet(Sources)
    BY <1>1, <2>2, IdsType
  <2> HIDE DEF F
  <2>4. LET k == Max({Cardinality(U) : U \in F}) IN
          k \in Nat /\ (\A U \in F : Cardinality(U) <= k) /\ \E U \in F : Cardinality(U) = k
    BY <2>3, MaxCardinality
  <2> QED BY <2>1, <2>2, <2>4
<1>5. m # 0
  <2>1. PICK s : s \in SourcesOf(st)
    BY DEF Carried
  <2>2. {s} \in SUBSET SourcesOf(st) /\ Apart({s}) /\ Cardinality({s}) = 1
    BY <2>1, FS_Singleton DEF Apart
  <2>3. 1 <= m
    BY <2>2, SourcesOfAreSources, MostApartIsMost
  <2> HIDE DEF m
  <2> QED BY <1>3, <2>3
<1>6. c <= CASE m = 1 -> 500 [] m = 2 -> 850 [] m >= 3 -> 950
  BY DEF Carried
<1>7. c <= CASE m' = 1 -> 500 [] m' = 2 -> 850 [] m' >= 3 -> 950
  <2>1. PICK a : a = m
    OBVIOUS
  <2>2. PICK b : b = m'
    OBVIOUS
  <2> HIDE DEF m
  <2>3. a \in Nat /\ b \in Nat /\ a # 0 /\ a <= b
    BY <1>3, <1>4, <1>5, <2>1, <2>2
  <2>4. c <= CASE a = 1 -> 500 [] a = 2 -> 850 [] a >= 3 -> 950
    BY <1>6, <2>1
  <2>5. c <= IF a = 1 THEN 500 ELSE IF a = 2 THEN 850 ELSE 950
    BY <2>3, <2>4
  <2>6. c <= IF b = 1 THEN 500 ELSE IF b = 2 THEN 850 ELSE 950
    BY <2>3, <2>5
  <2>7. c <= CASE b = 1 -> 500 [] b = 2 -> 850 [] b >= 3 -> 950
    BY <2>3, <2>6
  <2> QED BY <2>2, <2>7
<1>8. \E s \in SourcesOf(st)' : c <= evidence'[<<st, s>>]
  <2>1. PICK s \in SourcesOf(st) : c <= evidence[<<st, s>>]
    BY DEF Carried
  <2>2. <<st, s>> \in DOMAIN evidence
    BY DEF SourcesOf
  <2> QED BY <1>1, <2>1, <2>2 DEF EvidenceGrows
<1> QED BY <1>7, <1>8 DEF Carried

-----------------------------------------------------------------------------
(* The steps.                                                              *)

\* A run that keeps the invariant.
GoodRun(r) ==
  /\ DOMAIN r = DOMAIN Closed /\ (r.open \/ r = Closed)
  /\ r.order \in Seq(Statements)
  /\ ToSet(r.order) \subseteq DOMAIN r.computed
  /\ DOMAIN r.computed \subseteq DOMAIN confidence
  /\ \A st \in DOMAIN r.computed :
       r.computed[st] \in Thousandths /\ Carried(st, r.computed[st])

LEMMA RunIsGood ==
  ASSUME CorroborationInv, NEW w \in Corroborators
  PROVE  GoodRun(run[w])
<1>1. run[w].open \/ run[w] = Closed
  BY DEF CorroborationInv, TypeOK
<1>2. DOMAIN run[w] = DOMAIN Closed /\ run[w].order \in Seq(Statements)
  BY DEF CorroborationInv
<1>3. /\ ToSet(run[w].order) \subseteq DOMAIN run[w].computed
      /\ DOMAIN run[w].computed \subseteq DOMAIN confidence
  BY DEF CorroborationInv, TypeOK
<1>4. \A st \in DOMAIN run[w].computed : run[w].computed[st] \in Thousandths
  BY DEF CorroborationInv, TypeOK
<1>5. \A st \in DOMAIN run[w].computed : Carried(st, run[w].computed[st])
  BY DEF CorroborationInv
<1> QED BY <1>1, <1>2, <1>3, <1>4, <1>5 DEF GoodRun

LEMMA ClosedIsGood == GoodRun(Closed)
<1>1. /\ DOMAIN Closed.computed = {} /\ Closed.order = <<>>
  BY DEF Closed
<1>2. ToSet(<<>>) = {} /\ <<>> \in Seq(Statements)
  BY DEF ToSet
<1> QED BY <1>1, <1>2 DEF GoodRun

\* What is said of the tables and the bounds.
TablesOK ==
  /\ domain \in [Sources -> Domains] /\ similar \in Similarities
  /\ DOMAIN evidence \subseteq (DOMAIN confidence) \X Sources
  /\ \A l \in DOMAIN evidence : evidence[l] \in Weights \cup {500}
  /\ overridden \subseteq DOMAIN confidence /\ DOMAIN confidence \subseteq Statements
  /\ \A st \in DOMAIN confidence : confidence[st] \in Thousandths /\ SourcesOf(st) # {}
  /\ byHand \in 0..MaxByHand /\ failures \in 0..MaxFailures

LEMMA InvIsParts ==
  CorroborationInv <=> /\ TablesOK /\ Warranted /\ DOMAIN run = Corroborators
                       /\ \A w \in Corroborators : GoodRun(run[w])
BY DEF CorroborationInv, TypeOK, GoodRun, TablesOK

\* A step that writes to no table keeps what is known of the tables.
LEMMA TablesStay ==
  ASSUME TablesOK, UNCHANGED <<domain, similar, evidence, confidence, overridden>>,
         byHand' \in 0..MaxByHand, failures' \in 0..MaxFailures
  PROVE  TablesOK'
<1>1. \A st : SourcesOf(st)' = SourcesOf(st)
  BY DEF SourcesOf
<1>2. /\ domain' = domain /\ similar' = similar /\ evidence' = evidence
      /\ confidence' = confidence /\ overridden' = overridden
  OBVIOUS
<1>3. (\A l \in DOMAIN evidence : evidence[l] \in Weights \cup {500})'
  BY <1>2 DEF TablesOK
<1>4. (\A st \in DOMAIN confidence : confidence[st] \in Thousandths /\ SourcesOf(st) # {})'
  BY <1>1, <1>2 DEF TablesOK
<1>5. (domain \in [Sources -> Domains] /\ similar \in Similarities)'
  BY <1>2 DEF TablesOK
<1>6. (DOMAIN evidence \subseteq (DOMAIN confidence) \X Sources)'
  BY <1>2 DEF TablesOK
<1>7. (overridden \subseteq DOMAIN confidence /\ DOMAIN confidence \subseteq Statements)'
  BY <1>2 DEF TablesOK
<1> QED BY <1>3, <1>4, <1>5, <1>6, <1>7, Zenon DEF TablesOK

LEMMA GoodRunStays ==
  ASSUME EvidenceGrows, NEW r, GoodRun(r), DOMAIN confidence \subseteq DOMAIN confidence'
  PROVE  /\ DOMAIN r = DOMAIN Closed /\ (r.open \/ r = Closed)
         /\ r.order \in Seq(Statements)
         /\ ToSet(r.order) \subseteq DOMAIN r.computed
         /\ DOMAIN r.computed \subseteq DOMAIN confidence'
         /\ \A st \in DOMAIN r.computed :
              r.computed[st] \in Thousandths /\ Carried(st, r.computed[st])'
<1>1. ASSUME NEW st \in DOMAIN r.computed
      PROVE  r.computed[st] \in Thousandths /\ Carried(st, r.computed[st])'
  <2>1. PICK c : c = r.computed[st]
    OBVIOUS
  <2>2. c \in Thousandths /\ Carried(st, c)
    BY <2>1 DEF GoodRun
  <2>3. c \in Nat
    BY <2>2 DEF Thousandths
  <2>4. Carried(st, c)'
    BY <2>2, <2>3, CarriedStays
  <2> QED BY <2>1, <2>2, <2>4
<1> QED BY <1>1 DEF GoodRun

\* A step of the run of w that leaves the tables alone.
LEMMA RunStep ==
  ASSUME CorroborationInv, NEW w \in Corroborators, NEW r,
         run' = [run EXCEPT ![w] = r], GoodRun(r),
         UNCHANGED <<domain, similar, evidence, confidence, overridden>>,
         byHand' \in 0..MaxByHand, failures' \in 0..MaxFailures
  PROVE  CorroborationInv'
<1>1. EvidenceGrows
  BY DEF EvidenceGrows
<1>2. TablesOK /\ Warranted /\ DOMAIN run = Corroborators
  BY InvIsParts
<1>3. TablesOK'
  BY <1>2, TablesStay
<1>4. Warranted'
  <2> SUFFICES ASSUME NEW st \in DOMAIN confidence \ overridden
               PROVE  Carried(st, confidence[st])'
    BY DEF Warranted
  <2>1. PICK c : c = confidence[st]
    OBVIOUS
  <2>2. c \in Thousandths /\ Carried(st, c)
    BY <1>2, <2>1 DEF TablesOK, Warranted
  <2>3. c \in Nat
    BY <2>2 DEF Thousandths
  <2>4. Carried(st, c)'
    BY <1>1, <2>2, <2>3, CarriedStays
  <2> QED BY <2>1, <2>4
<1>5. \A v \in Corroborators : run'[v] = IF v = w THEN r ELSE run[v]
  BY <1>2
<1>6. ASSUME NEW v \in Corroborators PROVE GoodRun(run[v])'
  <2>1. PICK q : q = run'[v] /\ GoodRun(q)
    BY <1>5, RunIsGood
  <2>2. /\ DOMAIN q = DOMAIN Closed /\ (q.open \/ q = Closed)
        /\ q.order \in Seq(Statements)
        /\ ToSet(q.order) \subseteq DOMAIN q.computed
        /\ DOMAIN q.computed \subseteq DOMAIN confidence'
        /\ \A st \in DOMAIN q.computed :
             q.computed[st] \in Thousandths /\ Carried(st, q.computed[st])'
    <3>1. DOMAIN confidence \subseteq DOMAIN confidence'
      OBVIOUS
    <3> QED BY <1>1, <2>1, <3>1, GoodRunStays
  <2> QED BY <2>1, <2>2 DEF GoodRun
<1>7. DOMAIN run' = Corroborators
  BY <1>2
<1> QED BY <1>3, <1>4, <1>6, <1>7 DEF CorroborationInv, TypeOK, GoodRun, TablesOK

LEMMA InvGives ==
  ASSUME CorroborationInv
  PROVE  /\ TypeOK /\ TablesOK /\ Warranted /\ DOMAIN run = Corroborators
         /\ DOMAIN confidence \subseteq Statements /\ similar \in Similarities
         /\ byHand \in 0..MaxByHand /\ failures \in 0..MaxFailures
BY InvIsParts DEF CorroborationInv, TablesOK

\* A permutation of a finite set is a sequence with its members.
LEMMA PermutationIsSequence ==
  ASSUME NEW S, IsFiniteSet(S), NEW order \in SetToSeqs(S)
  PROVE  order \in Seq(S) /\ ToSet(order) \subseteq S
<1>1. PICK n : n = Cardinality(S)
  OBVIOUS
<1>2. n \in Nat
  BY <1>1, FS_CardinalityType
<1>3. order \in [1..n -> S]
  BY <1>1 DEF SetToSeqs
<1> QED BY <1>2, <1>3 DEF ToSet

LEMMA BeginKeeps ==
  ASSUME CorroborationInv, NEW w \in Corroborators, Begin(w) PROVE CorroborationInv'
<1> DEFINE byStatement == {l[1] : l \in Selected}
           computed == [st \in byStatement |-> Computed(st, Selected)]
<1>1. Selected \in SUBSET DOMAIN evidence
  BY DEF Selected
<1>2. \A l \in Selected : l[1] \in DOMAIN confidence /\ l[2] \in Sources /\ l = <<l[1], l[2]>>
  <2> SUFFICES ASSUME NEW l \in Selected
               PROVE  l[1] \in DOMAIN confidence /\ l[2] \in Sources /\ l = <<l[1], l[2]>>
    OBVIOUS
  <2>1. l \in DOMAIN evidence /\ TypeOK
    BY <1>1, InvGives
  <2>2. l \in (DOMAIN confidence) \X Sources /\ l = <<l[1], l[2]>>
    BY <2>1, LinksAreTyped
  <2> QED BY <2>2
<1>3. byStatement \subseteq DOMAIN confidence /\ byStatement \subseteq Statements
  BY <1>2, InvGives
<1>4. IsFiniteSet(byStatement)
  BY <1>3, IdsType, FS_Subset
<1>5. PICK order \in SetToSeqs(byStatement) :
        run' = [run EXCEPT ![w] = [open |-> TRUE, order |-> order, computed |-> computed]]
  BY DEF Begin
<1>6. order \in Seq(byStatement) /\ ToSet(order) \subseteq byStatement
  <2> HIDE DEF byStatement
  <2> QED BY <1>4, PermutationIsSequence
<1>7. order \in Seq(Statements)
  BY <1>3, <1>6
<1>8. ASSUME NEW st \in byStatement
      PROVE  computed[st] \in Thousandths /\ Carried(st, computed[st])
  <2>1. \E s \in Sources : <<st, s>> \in Selected
    BY <1>2
  <2>2. TypeOK
    BY InvGives
  <2>3. Computed(st, Selected) \in Thousandths /\ Carried(st, Computed(st, Selected))
    BY <1>1, <2>1, <2>2, ComputedIsCarried
  <2> QED BY <2>3
<1>9. DOMAIN computed = byStatement
  OBVIOUS
<1> DEFINE r == [open |-> TRUE, order |-> order, computed |-> computed]
<1>10. /\ DOMAIN r = DOMAIN Closed /\ r.open = TRUE
       /\ r.order = order /\ r.computed = computed
  BY DEF Closed
<1>11. GoodRun(r)
  <2> HIDE DEF r, computed, byStatement
  <2> QED BY <1>3, <1>6, <1>7, <1>8, <1>9, <1>10 DEF GoodRun
<1>12. run' = [run EXCEPT ![w] = r]
  BY <1>5
<1>13. byHand' \in 0..MaxByHand
  <2>1. byHand \in 0..MaxByHand /\ MaxByHand \in Nat
    BY InvGives, BoundsType
  <2>2. byHand' = byHand \/ (byHand < MaxByHand /\ byHand' = byHand + 1)
    BY DEF Begin, ByHand
  <2> QED BY <2>1, <2>2
<1>14. /\ UNCHANGED <<domain, similar, evidence, confidence, overridden>>
       /\ failures' \in 0..MaxFailures
  BY InvGives DEF Begin
<1> HIDE DEF r
<1> QED BY <1>11, <1>12, <1>13, <1>14, RunStep

LEMMA UpdateKeeps ==
  ASSUME CorroborationInv, NEW w \in Corroborators, Update(w) PROVE CorroborationInv'
<1>1. PICK q : q = run[w] /\ GoodRun(q)
  BY RunIsGood
<1> DEFINE r == [q EXCEPT !.order = Tail(q.order)]
<1>2. run' = [run EXCEPT ![w] = r]
  BY <1>1 DEF Update
<1>3. DOMAIN q = DOMAIN Closed
  BY <1>1 DEF GoodRun
<1>4. /\ DOMAIN r = DOMAIN Closed /\ r.open = q.open
      /\ r.order = Tail(q.order) /\ r.computed = q.computed
  BY <1>3 DEF Closed
<1>5. q.order \in Seq(Statements) /\ q.order # <<>>
  BY <1>1 DEF GoodRun, Update
<1>6. q.open
  <2>1. Closed.order = <<>>
    BY DEF Closed
  <2> QED BY <1>1, <1>5, <2>1 DEF GoodRun
<1>7. Tail(q.order) \in Seq(Statements) /\ ToSet(Tail(q.order)) \subseteq ToSet(q.order)
  BY <1>5 DEF ToSet
<1> HIDE DEF r
<1>8. GoodRun(r)
  BY <1>1, <1>4, <1>6, <1>7 DEF GoodRun
<1>9. /\ UNCHANGED <<domain, similar, evidence, confidence, overridden>>
      /\ byHand' \in 0..MaxByHand /\ failures' \in 0..MaxFailures
  BY InvGives DEF Update
<1> QED BY <1>2, <1>8, <1>9, RunStep

LEMMA AbortKeeps ==
  ASSUME CorroborationInv, NEW w \in Corroborators, Abort(w),
         UNCHANGED <<domain, similar, evidence, confidence, overridden>>,
         byHand' \in 0..MaxByHand, failures' \in 0..MaxFailures
  PROVE  CorroborationInv'
<1>1. run' = [run EXCEPT ![w] = Closed]
  BY DEF Abort
<1> QED BY <1>1, ClosedIsGood, RunStep

LEMMA FailKeeps ==
  ASSUME CorroborationInv, NEW w \in Corroborators, Fail(w) PROVE CorroborationInv'
<1>1. failures' \in 0..MaxFailures /\ byHand' \in 0..MaxByHand
  <2>1. failures \in 0..MaxFailures /\ MaxFailures \in Nat /\ byHand \in 0..MaxByHand
    BY InvGives, BoundsType
  <2>2. failures < MaxFailures /\ failures' = failures + 1 /\ byHand' = byHand
    BY DEF Fail
  <2> QED BY <2>1, <2>2
<1> QED BY <1>1, AbortKeeps DEF Fail

LEMMA DeadlockVictimKeeps ==
  ASSUME CorroborationInv, NEW w \in Corroborators, DeadlockVictim(w)
  PROVE  CorroborationInv'
<1>1. failures' \in 0..MaxFailures /\ byHand' \in 0..MaxByHand
  BY InvGives DEF DeadlockVictim
<1> QED BY <1>1, AbortKeeps DEF DeadlockVictim

\* A step of the tables, under which at most runs end.
LEMMA TableStep ==
  ASSUME CorroborationInv, EvidenceGrows, DOMAIN confidence \subseteq DOMAIN confidence',
         TablesOK', Warranted', DOMAIN run' = Corroborators,
         \A w \in Corroborators : run'[w] = run[w] \/ run'[w] = Closed
  PROVE  CorroborationInv'
<1>1. ASSUME NEW w \in Corroborators PROVE GoodRun(run[w])'
  <2>1. PICK q : q = run'[w] /\ GoodRun(q)
    BY RunIsGood, ClosedIsGood
  <2>2. /\ DOMAIN q = DOMAIN Closed /\ (q.open \/ q = Closed)
        /\ q.order \in Seq(Statements)
        /\ ToSet(q.order) \subseteq DOMAIN q.computed
        /\ DOMAIN q.computed \subseteq DOMAIN confidence'
        /\ \A st \in DOMAIN q.computed :
             q.computed[st] \in Thousandths /\ Carried(st, q.computed[st])'
    BY <2>1, GoodRunStays
  <2> QED BY <2>1, <2>2 DEF GoodRun
<1> QED BY <1>1 DEF CorroborationInv, TypeOK, GoodRun, TablesOK

LEMMA CommitKeeps ==
  ASSUME CorroborationInv, NEW w \in Corroborators, Commit(w) PROVE CorroborationInv'
<1>1. PICK q : q = run[w] /\ GoodRun(q)
  BY RunIsGood
<1>2. /\ DOMAIN q.computed \subseteq DOMAIN confidence
      /\ \A st \in DOMAIN q.computed :
           q.computed[st] \in Thousandths /\ Carried(st, q.computed[st])
  BY <1>1 DEF GoodRun
<1>3. /\ DOMAIN confidence' = DOMAIN confidence
      /\ \A st \in DOMAIN confidence :
           confidence'[st] = IF st \in DOMAIN q.computed THEN q.computed[st] ELSE confidence[st]
      /\ overridden' = overridden \ DOMAIN q.computed
      /\ UNCHANGED <<domain, similar, evidence, byHand, failures>>
  BY <1>1, <1>2 DEF Commit
<1>4. EvidenceGrows
  BY <1>3 DEF EvidenceGrows
<1>5. TablesOK'
  <2>1. TablesOK
    BY InvGives
  <2>2. \A st \in DOMAIN confidence : confidence'[st] \in Thousandths
    BY <1>2, <1>3, <2>1 DEF TablesOK
  <2>3. \A st : SourcesOf(st)' = SourcesOf(st)
    BY <1>3 DEF SourcesOf
  <2>4. overridden' \subseteq DOMAIN confidence'
    BY <1>3, <2>1 DEF TablesOK
  <2> QED BY <1>3, <2>1, <2>2, <2>3, <2>4 DEF TablesOK
<1>6. Warranted'
  <2> SUFFICES ASSUME NEW st \in DOMAIN confidence' \ overridden'
               PROVE  Carried(st, confidence[st])'
    BY DEF Warranted
  <2>1. PICK c : c = confidence'[st]
    OBVIOUS
  <2>2. c \in Thousandths /\ Carried(st, c)
    <3>1. TablesOK /\ Warranted
      BY InvGives
    <3>2. CASE st \in DOMAIN q.computed
      BY <1>2, <1>3, <2>1, <3>2
    <3>3. CASE st \notin DOMAIN q.computed
      <4>1. st \in DOMAIN confidence \ overridden /\ c = confidence[st]
        BY <1>3, <2>1, <3>3
      <4> QED BY <3>1, <4>1 DEF TablesOK, Warranted
    <3> QED BY <3>2, <3>3
  <2>3. c \in Nat
    BY <2>2 DEF Thousandths
  <2>4. Carried(st, c)'
    BY <1>4, <2>2, <2>3, CarriedStays
  <2> QED BY <2>1, <2>4
<1>7. /\ DOMAIN run' = Corroborators
      /\ \A v \in Corroborators : run'[v] = run[v] \/ run'[v] = Closed
  BY InvGives DEF Commit
<1>8. DOMAIN confidence \subseteq DOMAIN confidence'
  BY <1>3
<1> QED BY <1>4, <1>5, <1>6, <1>7, <1>8, TableStep

-----------------------------------------------------------------------------
(* What goes on around the runs.                                           *)

\* One source is apart, whatever it is near to.
OneCounts ==
  \A S \in SUBSET Sources : S # {} => MostApart(S) \in Nat /\ MostApart(S) >= 1

LEMMA OneSourceCounts == OneCounts
<1> SUFFICES ASSUME NEW S \in SUBSET Sources, S # {}
             PROVE  MostApart(S) \in Nat /\ MostApart(S) >= 1
  BY DEF OneCounts
<1>1. PICK s \in S : TRUE
  OBVIOUS
<1>2. {s} \in SUBSET S /\ Apart({s}) /\ Cardinality({s}) = 1
  BY FS_Singleton DEF Apart
<1>3. MostApart(S) \in Nat /\ 1 <= MostApart(S)
  BY <1>2, MostApartIsMost
<1> QED BY <1>3

LEMMA OneSourceCountsNext == OneCounts'
BY OneSourceCounts, PTL

\* A link with 0.5 carries the confidence 0.5.
LEMMA HalfIsCarried ==
  ASSUME NEW st, NEW s \in SourcesOf(st)', evidence'[<<st, s>>] = 500
  PROVE  Carried(st, 500)'
<1>1. PICK n : n = MostApart(SourcesOf(st))'
  OBVIOUS
<1>2. n \in Nat /\ n >= 1
  <2>1. SourcesOf(st)' \in SUBSET Sources /\ SourcesOf(st)' # {}
    BY DEF SourcesOf
  <2> QED BY <1>1, <2>1, OneSourceCountsNext DEF OneCounts
<1>3. 500 <= CASE n = 1 -> 500 [] n = 2 -> 850 [] n >= 3 -> 950
  <2>1. n = 1 \/ n = 2 \/ n >= 3
    BY <1>2
  <2> QED BY <1>2, <2>1
<1>4. \E x \in SourcesOf(st)' : 500 <= evidence'[<<st, x>>]
  <2>1. 500 <= evidence'[<<st, s>>]
    OBVIOUS
  <2> QED BY <2>1
<1> QED BY <1>1, <1>3, <1>4 DEF Carried

LEMMA ExtractKeeps ==
  ASSUME CorroborationInv, NEW st \in Statements, NEW s \in Sources, Extract(st, s)
  PROVE  CorroborationInv'
<1>1. TablesOK /\ Warranted /\ DOMAIN run = Corroborators
  BY InvGives
<1>2. /\ st \notin DOMAIN confidence
      /\ DOMAIN confidence' = DOMAIN confidence \cup {st}
      /\ \A x \in DOMAIN confidence' : confidence'[x] = IF x = st THEN 500 ELSE confidence[x]
      /\ DOMAIN evidence' = DOMAIN evidence \cup {<<st, s>>}
      /\ \A l \in DOMAIN evidence' : evidence'[l] = IF l = <<st, s>> THEN 500 ELSE evidence[l]
      /\ UNCHANGED <<domain, similar, overridden, run, byHand, failures>>
  BY DEF Extract, WithRow
<1>3. <<st, s>> \notin DOMAIN evidence
  BY <1>1, <1>2 DEF TablesOK
<1>4. EvidenceGrows
  BY <1>2, <1>3 DEF EvidenceGrows
<1>5. \A x : SourcesOf(x) \subseteq SourcesOf(x)'
  BY <1>2 DEF SourcesOf
<1>6. s \in SourcesOf(st)' /\ evidence'[<<st, s>>] = 500
  BY <1>2 DEF SourcesOf
<1>7. TablesOK'
  <2>1. \A x \in DOMAIN confidence' : confidence'[x] \in Thousandths /\ SourcesOf(x)' # {}
    <3> SUFFICES ASSUME NEW x \in DOMAIN confidence'
                 PROVE  confidence'[x] \in Thousandths /\ SourcesOf(x)' # {}
      OBVIOUS
    <3>1. 500 \in Thousandths
      BY DEF Thousandths
    <3>2. CASE x = st
      BY <1>2, <1>6, <3>1, <3>2
    <3>3. CASE x # st
      BY <1>1, <1>2, <1>5, <3>3 DEF TablesOK
    <3> QED BY <3>2, <3>3
  <2>2. \A l \in DOMAIN evidence' : evidence'[l] \in Weights \cup {500}
    BY <1>1, <1>2 DEF TablesOK
  <2>3. DOMAIN evidence' \subseteq (DOMAIN confidence') \X Sources
    BY <1>1, <1>2 DEF TablesOK
  <2> QED BY <1>1, <1>2, <2>1, <2>2, <2>3 DEF TablesOK
<1>8. Warranted'
  <2> SUFFICES ASSUME NEW x \in DOMAIN confidence' \ overridden'
               PROVE  Carried(x, confidence[x])'
    BY DEF Warranted
  <2>1. CASE x = st
    <3>1. Carried(st, 500)'
      BY <1>6, HalfIsCarried
    <3> QED BY <1>2, <2>1, <3>1
  <2>2. CASE x # st
    <3>1. PICK c : c = confidence'[x]
      OBVIOUS
    <3>2. c \in Thousandths /\ Carried(x, c)
      BY <1>1, <1>2, <2>2, <3>1 DEF TablesOK, Warranted
    <3>3. c \in Nat
      BY <3>2 DEF Thousandths
    <3>4. Carried(x, c)'
      BY <1>4, <3>2, <3>3, CarriedStays
    <3> QED BY <3>1, <3>4
  <2> QED BY <2>1, <2>2
<1>9. DOMAIN confidence \subseteq DOMAIN confidence'
  BY <1>2
<1> QED BY <1>1, <1>2, <1>4, <1>7, <1>8, <1>9, TableStep

LEMMA AddEvidenceKeeps ==
  ASSUME CorroborationInv, NEW st \in Statements, NEW s \in Sources, AddEvidence(st, s)
  PROVE  CorroborationInv'
<1>1. TablesOK /\ Warranted /\ DOMAIN run = Corroborators
  BY InvGives
<1>2. PICK c \in Weights \cup {500} :
        /\ st \in DOMAIN confidence /\ <<st, s>> \notin DOMAIN evidence
        /\ DOMAIN evidence' = DOMAIN evidence \cup {<<st, s>>}
        /\ \A l \in DOMAIN evidence' : evidence'[l] = IF l = <<st, s>> THEN c ELSE evidence[l]
        /\ UNCHANGED <<domain, similar, confidence, overridden, run, byHand, failures>>
  BY DEF AddEvidence, WithRow
<1>3. EvidenceGrows
  BY <1>2 DEF EvidenceGrows
<1>4. \A x : SourcesOf(x) \subseteq SourcesOf(x)'
  BY <1>2 DEF SourcesOf
<1>5. TablesOK'
  <2>1. \A l \in DOMAIN evidence' : evidence'[l] \in Weights \cup {500}
    BY <1>1, <1>2 DEF TablesOK
  <2>2. DOMAIN evidence' \subseteq (DOMAIN confidence') \X Sources
    BY <1>1, <1>2 DEF TablesOK
  <2>3. \A x \in DOMAIN confidence' : confidence'[x] \in Thousandths /\ SourcesOf(x)' # {}
    BY <1>1, <1>2, <1>4 DEF TablesOK
  <2> QED BY <1>1, <1>2, <2>1, <2>2, <2>3 DEF TablesOK
<1>6. Warranted'
  <2> SUFFICES ASSUME NEW x \in DOMAIN confidence' \ overridden'
               PROVE  Carried(x, confidence[x])'
    BY DEF Warranted
  <2>1. PICK k : k = confidence'[x]
    OBVIOUS
  <2>2. k \in Thousandths /\ Carried(x, k)
    BY <1>1, <1>2, <2>1 DEF TablesOK, Warranted
  <2>3. k \in Nat
    BY <2>2 DEF Thousandths
  <2>4. Carried(x, k)'
    BY <1>3, <2>2, <2>3, CarriedStays
  <2> QED BY <2>1, <2>4
<1>7. DOMAIN confidence \subseteq DOMAIN confidence'
  BY <1>2
<1> QED BY <1>1, <1>2, <1>3, <1>5, <1>6, <1>7, TableStep

\* What the editor sets is the editor's.
LEMMA OverrideByHandKeeps ==
  ASSUME CorroborationInv, NEW st \in Statements, OverrideByHand(st)
  PROVE  CorroborationInv'
<1>1. TablesOK /\ Warranted /\ DOMAIN run = Corroborators
  BY InvGives
<1>2. /\ st \in DOMAIN confidence
      /\ DOMAIN confidence' = DOMAIN confidence
      /\ \A x \in DOMAIN confidence : confidence'[x] = IF x = st THEN Override ELSE confidence[x]
      /\ overridden' = overridden \cup {st}
      /\ UNCHANGED <<domain, similar, evidence, run, failures>>
  BY DEF OverrideByHand
<1>3. EvidenceGrows
  BY <1>2 DEF EvidenceGrows
<1>4. TablesOK'
  <2>1. \A x : SourcesOf(x)' = SourcesOf(x)
    BY <1>2 DEF SourcesOf
  <2>2. \A x \in DOMAIN confidence : confidence'[x] \in Thousandths
    BY <1>1, <1>2, BoundsType DEF TablesOK
  <2>3. byHand' \in 0..MaxByHand
    <3>1. byHand \in 0..MaxByHand /\ MaxByHand \in Nat
      BY InvGives, BoundsType
    <3>2. byHand < MaxByHand /\ byHand' = byHand + 1
      BY DEF OverrideByHand
    <3> QED BY <3>1, <3>2
  <2>4. overridden' \subseteq DOMAIN confidence'
    BY <1>1, <1>2 DEF TablesOK
  <2>5. /\ DOMAIN evidence' \subseteq (DOMAIN confidence') \X Sources
        /\ \A l \in DOMAIN evidence' : evidence'[l] \in Weights \cup {500}
        /\ DOMAIN confidence' \subseteq Statements
        /\ domain' \in [Sources -> Domains] /\ similar' \in Similarities
        /\ failures' \in 0..MaxFailures
    BY <1>1, <1>2 DEF TablesOK
  <2>6. \A x \in DOMAIN confidence' : confidence'[x] \in Thousandths /\ SourcesOf(x)' # {}
    <3>1. \A x \in DOMAIN confidence : SourcesOf(x) # {}
      BY <1>1 DEF TablesOK
    <3> QED BY <1>2, <2>1, <2>2, <3>1
  <2> QED BY <2>3, <2>4, <2>5, <2>6 DEF TablesOK
<1>5. Warranted'
  <2> SUFFICES ASSUME NEW x \in DOMAIN confidence' \ overridden'
               PROVE  Carried(x, confidence[x])'
    BY DEF Warranted
  <2>1. PICK k : k = confidence'[x]
    OBVIOUS
  <2>2. k \in Thousandths /\ Carried(x, k)
    <3>1. x \in DOMAIN confidence \ overridden /\ k = confidence[x]
      BY <1>2, <2>1
    <3> QED BY <1>1, <3>1 DEF TablesOK, Warranted
  <2>3. k \in Nat
    BY <2>2 DEF Thousandths
  <2>4. Carried(x, k)'
    BY <1>3, <2>2, <2>3, CarriedStays
  <2> QED BY <2>1, <2>4
<1>6. DOMAIN confidence \subseteq DOMAIN confidence'
  BY <1>2
<1> QED BY <1>1, <1>2, <1>3, <1>4, <1>5, <1>6, TableStep

-----------------------------------------------------------------------------
(* The theorems.                                                           *)

LEMMA InitHolds == Init => CorroborationInv
<1> SUFFICES ASSUME Init PROVE CorroborationInv
  OBVIOUS
<1>1. TablesOK
  <2>1. byHand \in 0..MaxByHand /\ failures \in 0..MaxFailures
    BY BoundsType DEF Init
  <2> QED BY <2>1 DEF Init, TablesOK
<1>2. Warranted
  BY DEF Init, Warranted
<1>3. DOMAIN run = Corroborators /\ \A w \in Corroborators : GoodRun(run[w])
  BY ClosedIsGood DEF Init
<1> QED BY <1>1, <1>2, <1>3, InvIsParts

LEMMA StutterHolds == CorroborationInv /\ UNCHANGED vars => CorroborationInv'
<1> SUFFICES ASSUME CorroborationInv, UNCHANGED vars PROVE CorroborationInv'
  OBVIOUS
<1>1. TablesOK /\ Warranted /\ DOMAIN run = Corroborators
  BY InvGives
<1>2. /\ EvidenceGrows
      /\ UNCHANGED <<domain, similar, evidence, confidence, overridden, run, byHand, failures>>
  BY DEF EvidenceGrows, vars
<1>3. TablesOK'
  <2>1. byHand' \in 0..MaxByHand /\ failures' \in 0..MaxFailures
    BY <1>2, InvGives
  <2> QED BY <1>1, <1>2, <2>1, TablesStay
<1>4. Warranted'
  <2> SUFFICES ASSUME NEW x \in DOMAIN confidence \ overridden
               PROVE  Carried(x, confidence[x])'
    BY <1>2 DEF Warranted
  <2>1. PICK k : k = confidence[x]
    OBVIOUS
  <2>2. k \in Thousandths /\ Carried(x, k)
    BY <1>1, <2>1 DEF TablesOK, Warranted
  <2>3. k \in Nat
    BY <2>2 DEF Thousandths
  <2>4. Carried(x, k)'
    BY <1>2, <2>2, <2>3, CarriedStays
  <2> QED BY <1>2, <2>1, <2>4
<1>5. DOMAIN confidence \subseteq DOMAIN confidence'
  BY <1>2
<1> QED BY <1>1, <1>2, <1>3, <1>4, <1>5, TableStep

LEMMA NextHolds == CorroborationInv /\ [Next]_vars => CorroborationInv'
<1> SUFFICES ASSUME CorroborationInv, [Next]_vars PROVE CorroborationInv'
  OBVIOUS
<1>1. ASSUME NEW w \in Corroborators, Corroborate(w) PROVE CorroborationInv'
  BY <1>1, BeginKeeps, UpdateKeeps, CommitKeeps DEF Corroborate
<1>2. ASSUME NEW st \in Statements, NEW s \in Sources, Extract(st, s) \/ AddEvidence(st, s)
      PROVE  CorroborationInv'
  BY <1>2, ExtractKeeps, AddEvidenceKeeps
<1>3. CASE UNCHANGED vars
  BY <1>3, StutterHolds
<1> QED BY <1>1, <1>2, <1>3, FailKeeps, DeadlockVictimKeeps, OverrideByHandKeeps DEF Next

\* The inductive invariant: runs only hold what the evidence carries.
THEOREM CorroborationInvariance == Spec => []CorroborationInv
<1> QED BY InitHolds, NextHolds, PTL DEF Spec

\* No run leaves a confidence above the ceiling of the independent sources or
\* above the best link (confidence.go:10, README.md:27).
THEOREM AlwaysWarranted == Spec => []Warranted
<1>1. CorroborationInv => Warranted
  BY InvGives
<1> QED BY <1>1, CorroborationInvariance, PTL

\* The tables and the runs have their types; every statement has a link.
THEOREM TypesHold == Spec => []TypeOK
<1>1. CorroborationInv => TypeOK
  BY InvGives
<1> QED BY <1>1, CorroborationInvariance, PTL

\* The count is at least the groups of near sources and at most the sources
\* that are pairwise apart (CountIndependentSources, corroborate.go:98).
THEOREM CountsStayBounded == Spec => []CountBounded
<1>1. CorroborationInv => CountBounded
  <2> SUFFICES ASSUME CorroborationInv, NEW st \in DOMAIN confidence
               PROVE  LET S == SourcesOf(st)
                      IN  /\ Cardinality(Groups(S)) <= CountIndependentSources(S)
                          /\ CountIndependentSources(S) <= MostApart(S)
    BY DEF CountBounded
  <2>1. similar \in Similarities /\ SourcesOf(st) # {}
    BY InvGives DEF TablesOK
  <2>2. SourcesOf(st) \in SUBSET Sources
    BY SourcesOfAreSources
  <2> QED BY <2>1, <2>2, CountAtMost, CountAtLeast
<1> QED BY <1>1, CorroborationInvariance, PTL
=============================================================================
