------------------------------- MODULE Briefs -------------------------------
(***************************************************************************)
(* BriefGenerator.Generate (briefs.go): the brief of a bundle.  Everything *)
(* that Go leaves open, the order in which a map is visited, is a          *)
(* parameter `order` of detectConflicts.                                   *)
(***************************************************************************)
EXTENDS Assembler

CONSTANTS
  SlugOf,   \* SlugOf[st]: the property of st, numbered in the order of the slugs
  ValueOf   \* ValueOf[st]: its value, numbered in the order of the strings

ASSUME SlugType  == SlugOf \in [Statements -> Nat]
ASSUME ValueType == ValueOf \in [Statements -> Nat]

Sorted(S) == SetToSortSeq(S, <)

\* Statements of confidence 0.7 or more, by id.
extractKeyClaims(b) == Sorted({st \in DOMAIN b.statements : b.statements[st] = "high"})

\* The sources with their status, by id; buildSourceHealth lists the same.
extractCitations(b) == [i \in 1..Cardinality(DOMAIN b.sources) |->
                          LET s == Sorted(DOMAIN b.sources)[i] IN <<s, b.sources[s].status>>]

\* The statements that cite no source.
findEvidenceGaps(b) ==
  Sorted({st \in DOMAIN b.statements : \A s \in Sources : <<st, s>> \notin b.sourceIds})

KeyOf(st) == <<SubjectOf[st], SlugOf[st]>>

\* The pairs of statements under one key with different values, in the order of their ids.
Disagreements(b) ==
  {p \in (DOMAIN b.statements) \X (DOMAIN b.statements) :
     p[1] < p[2] /\ KeyOf(p[1]) = KeyOf(p[2]) /\ ValueOf[p[1]] # ValueOf[p[2]]}

Conflict(p) == [entity |-> SubjectOf[p[1]], slug |-> SlugOf[p[1]],
                a |-> ValueOf[p[1]], b |-> ValueOf[p[2]]]

\* sort.Slice sorts up to 12 elements by insertion, so equal ones keep their order.
InsertionMax == 12

\* The nested loops over the statements of one key.
First(p, q) == p[1] < q[1] \/ (p[1] = q[1] /\ p[2] < q[2])

\* The orders in which equal conflicts may leave the sort: up to InsertionMax the
\* one in which they came, key by key as Go happens to visit the map, and any
\* order beyond it.
Orders(b) ==
  LET D == Disagreements(b) IN
    {order \in Injection(D, 1..Cardinality(D)) :
       Cardinality(D) <= InsertionMax => \A p, q \in D :
         KeyOf(p[1]) = KeyOf(q[1]) =>
           /\ First(p, q) => order[p] < order[q]
           /\ \A r \in D : order[p] < order[r] /\ order[r] < order[q] => KeyOf(r[1]) = KeyOf(p[1])}

\* Mutant of Less: the entity is left out of the comparison.
LessBySlugAndValue(c, d) == c.slug < d.slug \/ (c.slug = d.slug /\ c.a < d.a)

\* The comparison of conflicts; the second value is not compared.
Less(c, d) ==
  \/ c.entity < d.entity
  \/ c.entity = d.entity /\ (c.slug < d.slug \/ (c.slug = d.slug /\ c.a < d.a))

\* The order of the sorted conflicts.
Before(b, order) ==
  {pq \in Disagreements(b) \X Disagreements(b) :
     LET c == Conflict(pq[1])
         d == Conflict(pq[2])
     IN  Less(c, d) \/ (~Less(d, c) /\ order[pq[1]] < order[pq[2]])}

\* The elements of S in the order of the relation R.
InOrder(S, R) == SetToSortSeq(S, LAMBDA x, y : <<x, y>> \in R)

detectConflicts(b, order) ==
  LET seq == InOrder(Disagreements(b), Before(b, order))
  IN  [i \in DOMAIN seq |-> Conflict(seq[i])]

FirstOf(seq) == IF seq = <<>> THEN <<>> ELSE <<Head(seq)>>

\* The first conflict and the first gap, if any, each give a prompt.
deriveWriterPrompts(b, order) ==
  LET conflicts == detectConflicts(b, order)
      gaps      == findEvidenceGaps(b)
  IN  [entity   |-> b.entity,
       conflict |-> FirstOf(conflicts),
       gap      |-> FirstOf(gaps)]

Generate(b, order, again) ==
  [key_claims     |-> extractKeyClaims(b),
   citations      |-> extractCitations(b),
   conflicts      |-> detectConflicts(b, order),
   evidence_gaps  |-> findEvidenceGaps(b),
   writer_prompts |-> deriveWriterPrompts(b, again)]

\* What Generate may return: it calls detectConflicts twice, and Go visits the
\* map anew each time.
Generated(b) == {Generate(b, order, again) : order \in Orders(b), again \in Orders(b)}
=============================================================================
