------------------------ MODULE FactExtractionProofs ------------------------
(***************************************************************************)
(* FactInv is an inductive invariant of FactExtraction for any sources,    *)
(* readings, vocabularies, extractors of either mode, limits and bounds:   *)
(* however their statements interleave, with each other and with the       *)
(* approvals of an operator, no row is written twice, no reference         *)
(* dangles, nothing is dropped, and a reader sees a source extracted in    *)
(* one step.                                                               *)
(***************************************************************************)
EXTENDS FactExtraction, FiniteSetTheorems, TLAPS

-----------------------------------------------------------------------------
(* Rows and keys.                                                          *)

LEMMA KeysGrow ==
  ASSUME NEW S, NEW T
  PROVE  KeysOf(S \cup T) = KeysOf(S) \cup KeysOf(T)
BY DEF KeysOf

LEMMA KeyIsIn ==
  ASSUME NEW S, NEW r \in S
  PROVE  Key(r) \in KeysOf(S)
BY DEF KeysOf

\* The forms that a row may have.
LEMMA RowForms ==
  ASSUME NEW r \in Rows
  PROVE  \/ \E e \in Entities : r = <<"entity", e>>
         \/ \E slug \in Slugs, type \in ValueTypes :
              \/ r = <<"property", slug, type>>
              \/ r = <<"pending", slug, type>>
              \/ r = <<"approved", slug, type>>
         \/ \E f \in Facts : r = <<"statement", f>>
         \/ \E f \in Facts, s \in Sources : r = <<"link", f, s>>
BY DEF Rows

\* The keys of the rows of each form, and the rows of these keys.
LEMMA KeyedRows ==
  ASSUME NEW S \in SUBSET Rows
  PROVE  /\ \A f \in Facts : <<"statement", f>> \in KeysOf(S) <=> <<"statement", f>> \in S
         /\ \A f \in Facts : <<"link", f>> \in KeysOf(S) <=>
              \E s \in Sources : <<"link", f, s>> \in S
         /\ \A slug \in Slugs : <<"property", slug>> \in KeysOf(S) <=>
              \E type \in ValueTypes : <<"property", slug, type>> \in S
         /\ \A slug \in Slugs : <<"approved", slug>> \in KeysOf(S) <=>
              \E type \in ValueTypes : <<"approved", slug, type>> \in S
<1>1. \A k \in KeysOf(S) : \E r \in S : k = Key(r)
  BY DEF KeysOf
<1>2. \A r \in S : Key(r) \in KeysOf(S)
  BY KeyIsIn
<1>3. \A r \in S :
        \/ \E e \in Entities : r = <<"entity", e>>
        \/ \E slug \in Slugs, type \in ValueTypes :
             \/ r = <<"property", slug, type>>
             \/ r = <<"pending", slug, type>>
             \/ r = <<"approved", slug, type>>
        \/ \E f \in Facts : r = <<"statement", f>>
        \/ \E f \in Facts, s \in Sources : r = <<"link", f, s>>
  BY RowForms
<1>4. ASSUME NEW f \in Facts PROVE <<"statement", f>> \in KeysOf(S) <=> <<"statement", f>> \in S
  <2>1. Key(<<"statement", f>>) = <<"statement", f>>
    BY DEF Key
  <2>2. \A r \in S : Key(r) = <<"statement", f>> => r = <<"statement", f>>
    BY <1>3 DEF Key
  <2> QED BY <1>1, <1>2, <2>1, <2>2
<1>5. ASSUME NEW f \in Facts
      PROVE  <<"link", f>> \in KeysOf(S) <=> \E s \in Sources : <<"link", f, s>> \in S
  <2>1. \A s \in Sources : Key(<<"link", f, s>>) = <<"link", f>>
    BY DEF Key
  <2>2. \A r \in S : Key(r) = <<"link", f>> => \E s \in Sources : r = <<"link", f, s>>
    BY <1>3 DEF Key
  <2> QED BY <1>1, <1>2, <2>1, <2>2
<1>6. ASSUME NEW slug \in Slugs, NEW kind \in {"property", "approved"}
      PROVE  <<kind, slug>> \in KeysOf(S) <=> \E type \in ValueTypes : <<kind, slug, type>> \in S
  <2>1. \A type \in ValueTypes : Key(<<kind, slug, type>>) = <<kind, slug>>
    BY DEF Key
  <2>2. \A r \in S : Key(r) = <<kind, slug>> => \E type \in ValueTypes : r = <<kind, slug, type>>
    BY <1>3 DEF Key
  <2> QED BY <1>1, <1>2, <2>1, <2>2
<1> QED
  BY <1>4, <1>5, <1>6

-----------------------------------------------------------------------------
(* The invariant of the tables, and that of one extractor.                 *)

KeepsMentions(w) ==
  \A i \in 1..Len(run[w].facts) :
    i < run[w].at /\ run[w].facts[i].ok => Outcome(w, run[w].facts[i].fact) # {}

RowsInv == NoDuplicates /\ RowsPaired /\ ReferencesHold

WorkInv(w) == LinksCurrent(w) /\ RefersToVisible(w) /\ Progress(w) /\ KeepsMentions(w)

LEMMA InvParts ==
  FactInv <=> RowsInv /\ ExtractedIffLinked /\ \A w \in Extractors : WorkInv(w)
BY DEF FactInv, RowsInv, WorkInv, NothingDropped, KeepsMentions

LEMMA InvPartsAfter ==
  FactInv' <=> RowsInv' /\ ExtractedIffLinked' /\ \A w \in Extractors : WorkInv(w)'
BY DEF FactInv, RowsInv, WorkInv, NothingDropped, KeepsMentions

\* What an extractor has read names facts, entities and slugs.
LEMMA MentionsTyped ==
  ASSUME TypeOK, NEW v \in Extractors
  PROVE  /\ run[v].facts \in Seq(Mention) /\ run[v].batch \in Seq(Sources) /\ run[v].at \in Nat
         /\ \A i \in DOMAIN run[v].facts : LET f == run[v].facts[i].fact IN
              f \in Facts /\ SubjectOf[f] \in Entities /\ SlugOf[f] \in Slugs
<1>1. /\ run[v].facts \in Seq(Mention) /\ run[v].batch \in Seq(Sources) /\ run[v].at \in Nat
  BY DEF TypeOK, Run
<1>2. \A i \in DOMAIN run[v].facts : run[v].facts[i] \in Mention
  BY <1>1
<1> QED
  BY <1>1, <1>2, FactsType DEF Mention

\* Committed keys stay, but that a pending slug may become an approved one.
KeysKept ==
  \A k \in KeysOf(rows) :
    \/ k \in KeysOf(rows')
    \/ \E slug \in Slugs : k = <<"pending", slug>> /\ <<"approved", slug>> \in KeysOf(rows')

\* The steps of others do not concern an extractor, as long as keys are kept.
LEMMA OthersKeep ==
  ASSUME TypeOK, NEW v \in Extractors, WorkInv(v),
         run'[v] = run[v], mine'[v] = mine[v], KeysKept
  PROVE  WorkInv(v)'
<1>1. /\ KeysOf(Visible(v)) = KeysOf(rows) \cup KeysOf(mine[v])
      /\ KeysOf(Visible(v))' = KeysOf(rows') \cup KeysOf(mine[v])
  BY KeysGrow DEF Visible, KeysOf
<1>2. \A k \in KeysOf(Visible(v)) :
        \/ k \in KeysOf(Visible(v))'
        \/ \E slug \in Slugs : k = <<"pending", slug>> /\ <<"approved", slug>> \in KeysOf(Visible(v))'
  BY <1>1 DEF KeysKept
<1>3. \A e \in Entities : <<"entity", e>> \in KeysOf(Visible(v)) => <<"entity", e>> \in KeysOf(Visible(v))'
  BY <1>2
<1>4. \A slug \in Slugs : <<"property", slug>> \in KeysOf(Visible(v)) => <<"property", slug>> \in KeysOf(Visible(v))'
  BY <1>2
<1>5. \A i \in DOMAIN run[v].facts : LET f == run[v].facts[i].fact IN
        f \in Facts /\ SubjectOf[f] \in Entities /\ SlugOf[f] \in Slugs
  BY MentionsTyped
<1>6. LinksCurrent(v)'
  BY DEF WorkInv, LinksCurrent, Current, GroundedIn
<1>7. RefersToVisible(v)'
  BY <1>3, <1>4, FactsType DEF WorkInv, RefersToVisible, Known, KeysOf
<1>8. Progress(v)'
  BY <1>5, <1>3, <1>4 DEF WorkInv, Progress, At, Current, Fact, Known
<1>9. KeepsMentions(v)'
  <2>1. ASSUME NEW f \in Facts, Outcome(v, f) # {} PROVE Outcome(v, f)' # {}
    BY <1>2, <2>1 DEF Outcome
  <2>2. \A i \in 1..Len(run[v].facts) : run[v].facts[i].fact \in Facts
    BY <1>5, MentionsTyped
  <2>3. KeepsMentions(v)
    BY DEF WorkInv
  <2> QED BY <2>1, <2>2, <2>3 DEF KeepsMentions
<1> QED
  BY <1>6, <1>7, <1>8, <1>9 DEF WorkInv

-----------------------------------------------------------------------------
(* What the kinds of steps do to the tables.                               *)

\* Two rows with one key, one of them of a kind that has no pair, are of one kind.
LEMMA InsertKeeps ==
  ASSUME FactInv, NEW w \in Extractors, NEW row \in Rows,
         row[1] \in {"entity", "property", "pending"},
         Insert(w, row), UNCHANGED rows
  PROVE  /\ mine' \in [Extractors -> SUBSET Rows]
         /\ NoDuplicates' /\ RowsPaired'
         /\ \A v \in Extractors : v # w => mine'[v] = mine[v]
         /\ mine[w] \subseteq mine'[w] /\ mine'[w] \subseteq mine[w] \cup {row}
         /\ KeysOf(Visible(w))' = KeysOf(Visible(w)) \cup {Key(row)}
<1> USE DEF FactInv
<1>1. mine \in [Extractors -> SUBSET Rows] /\ rows \in SUBSET Rows
  BY DEF ReferencesHold, TypeOK
<1>2. PICK new \in SUBSET {row} :
        /\ mine' = [mine EXCEPT ![w] = @ \cup new]
        /\ new = {} => Key(row) \in KeysOf(Visible(w))
        /\ new # {} => new = {row} /\ Key(row) \notin KeysOf(Visible(w))
  <2>1. CASE Key(row) \in KeysOf(Visible(w))
    BY <2>1, {} \in SUBSET {row} DEF Insert
  <2>2. CASE Key(row) \notin KeysOf(Visible(w))
    BY <2>2, {row} \in SUBSET {row} DEF Insert
  <2> QED BY <2>1, <2>2
<1>3. /\ mine' \in [Extractors -> SUBSET Rows]
      /\ mine'[w] = mine[w] \cup new
      /\ \A v \in Extractors : v # w => mine'[v] = mine[v]
  BY <1>1, <1>2
<1>4. \A r \in new : /\ r = row
                     /\ \A q \in rows : Key(q) # Key(r)
                     /\ \A v \in Extractors : \A q \in mine[v] : Key(q) # Key(r)
  BY <1>1, <1>2, KeyIsIn DEF Insert, Unheld, Visible
<1>5. \A f \in Facts : /\ <<"statement", f>> \notin new
                       /\ \A s \in Sources : <<"link", f, s>> \notin new
  BY <1>4
<1>6. \A slug \in Slugs, type \in ValueTypes : <<"approved", slug, type>> \notin new
  BY <1>4
<1>7. KeysOf(Visible(w))' = KeysOf(Visible(w)) \cup KeysOf(new)
  BY <1>3, KeysGrow DEF Visible, KeysOf
<1>8. KeysOf(Visible(w))' = KeysOf(Visible(w)) \cup {Key(row)}
  BY <1>2, <1>7 DEF KeysOf
<1>9. RowsPaired'
  BY <1>3, <1>5, <1>6 DEF RowsPaired
<1>10. NoDuplicates'
  <2>1. \A r, q \in rows' : Key(r) = Key(q) => r = q
    BY DEF NoDuplicates
  <2>2. ASSUME NEW v \in Extractors, NEW r \in mine'[v]
        PROVE  /\ Key(r) \notin KeysOf(rows')
               /\ \A u \in Extractors : \A q \in mine'[u] : Key(q) = Key(r) => u = v /\ q = r
    <3>1. CASE r \in mine[v]
      <4>1. Key(r) \notin KeysOf(rows)
        BY <3>1 DEF NoDuplicates
      <4>2. ASSUME NEW u \in Extractors, NEW q \in mine'[u], Key(q) = Key(r) PROVE u = v /\ q = r
        <5>1. q \in mine[u]
          BY <1>3, <1>4, <3>1, <4>2
        <5> QED BY <3>1, <4>2, <5>1 DEF NoDuplicates
      <4> QED BY <4>1, <4>2
    <3>2. CASE r \notin mine[v]
      <4>1. v = w /\ r \in new
        BY <1>3, <3>2
      <4>2. Key(r) \notin KeysOf(rows)
        BY <1>4, <4>1 DEF KeysOf
      <4>3. ASSUME NEW u \in Extractors, NEW q \in mine'[u], Key(q) = Key(r) PROVE u = v /\ q = r
        <5>1. q \notin mine[u]
          BY <1>4, <4>1, <4>3
        <5> QED BY <1>3, <1>4, <4>1, <5>1
      <4> QED BY <4>2, <4>3
    <3> QED BY <3>1, <3>2
  <2>3. \A v \in Extractors, f \in Facts :
          <<"statement", f>> \in Visible(v)' => \E s \in Sources : <<"link", f, s>> \in Visible(v)'
    BY <1>9 DEF RowsPaired, Visible
  <2> QED BY <2>1, <2>2, <2>3 DEF NoDuplicates
<1> QED
  BY <1>2, <1>3, <1>8, <1>9, <1>10

LEMMA IdleIsRun == Idle \in Run
BY DEF Idle, Run, Steps

\* Between the sources of its batch an extractor has nothing under way.
LEMMA NoTransaction ==
  ASSUME NEW w \in Extractors, mine'[w] = {}, run'[w].facts = <<>>,
         run'[w].step \in {"idle", "source"}, ~run'[w].accepted
  PROVE  WorkInv(w)'
<1>1. LinksCurrent(w)'
  BY DEF LinksCurrent
<1>2. RefersToVisible(w)'
  BY DEF RefersToVisible, KeysOf
<1>3. Progress(w)'
  BY DEF Progress, At
<1>4. KeepsMentions(w)'
  BY DEF KeepsMentions
<1> QED
  BY <1>1, <1>2, <1>3, <1>4 DEF WorkInv

\* A new statement and its link.
LEMMA StatementKeeps ==
  ASSUME FactInv, NEW w \in Extractors, NEW f \in Facts, NEW s \in Sources,
         Unheld(w, <<"statement", f>>), <<"statement", f>> \notin Visible(w),
         mine' = [mine EXCEPT ![w] = @ \cup {<<"statement", f>>, <<"link", f, s>>}],
         UNCHANGED rows
  PROVE  /\ mine' \in [Extractors -> SUBSET Rows]
         /\ NoDuplicates' /\ RowsPaired'
         /\ \A v \in Extractors : v # w => mine'[v] = mine[v]
         /\ mine'[w] = mine[w] \cup {<<"statement", f>>, <<"link", f, s>>}
         /\ KeysOf(Visible(w))' = KeysOf(Visible(w)) \cup {<<"statement", f>>, <<"link", f>>}
<1> DEFINE new == {<<"statement", f>>, <<"link", f, s>>}
<1> USE DEF FactInv
<1>1. mine \in [Extractors -> SUBSET Rows] /\ rows \in SUBSET Rows
  BY DEF ReferencesHold, TypeOK
<1>2. new \in SUBSET Rows
  BY DEF Rows
<1>3. /\ mine' \in [Extractors -> SUBSET Rows]
      /\ mine'[w] = mine[w] \cup new
      /\ \A v \in Extractors : v # w => mine'[v] = mine[v]
  BY <1>1, <1>2
<1>4. KeysOf(new) = {<<"statement", f>>, <<"link", f>>}
  BY DEF KeysOf, Key
<1>5. KeysOf(Visible(w))' = KeysOf(Visible(w)) \cup {<<"statement", f>>, <<"link", f>>}
  BY <1>3, <1>4, KeysGrow DEF Visible, KeysOf
<1>6. /\ <<"statement", f>> \notin rows
      /\ \A v \in Extractors : <<"statement", f>> \notin mine[v]
  BY <1>1, KeyedRows DEF Unheld, Visible
<1>7. /\ <<"link", f>> \notin KeysOf(rows)
      /\ \A v \in Extractors : <<"link", f>> \notin KeysOf(mine[v])
  BY <1>1, <1>6, KeyedRows DEF RowsPaired
<1>8. /\ <<"statement", f>> \notin KeysOf(rows)
      /\ \A v \in Extractors : <<"statement", f>> \notin KeysOf(mine[v])
  BY <1>1, <1>6, KeyedRows
<1>9. \A r \in new : /\ Key(r) \notin KeysOf(rows)
                     /\ \A v \in Extractors : \A q \in mine[v] : Key(q) # Key(r)
                     /\ \A q \in new : Key(q) = Key(r) => q = r
  <2>1. /\ Key(<<"statement", f>>) = <<"statement", f>>
        /\ Key(<<"link", f, s>>) = <<"link", f>>
    BY DEF Key
  <2>2. \A v \in Extractors : \A q \in mine[v] : Key(q) \in KeysOf(mine[v])
    BY KeyIsIn
  <2>3. <<"statement", f>> # <<"link", f>>
    OBVIOUS
  <2> QED BY <1>7, <1>8, <2>1, <2>2, <2>3
<1>10. RowsPaired'
  <2>1. ASSUME NEW g \in Facts, NEW v \in Extractors
        PROVE  <<"statement", g>> \in mine'[v] <=> \E t \in Sources : <<"link", g, t>> \in mine'[v]
    <3>1. CASE v # w
      BY <1>3, <3>1 DEF RowsPaired
    <3>2. CASE v = w /\ g = f
      BY <1>3, <3>2
    <3>3. CASE v = w /\ g # f
      <4>1. <<"statement", g>> \in mine'[w] <=> <<"statement", g>> \in mine[w]
        BY <1>3, <3>3
      <4>2. \A t \in Sources : <<"link", g, t>> \in mine'[w] <=> <<"link", g, t>> \in mine[w]
        BY <1>3, <3>3
      <4> QED BY <3>3, <4>1, <4>2 DEF RowsPaired
    <3> QED BY <3>1, <3>2, <3>3
  <2>2. \A slug \in Slugs, type \in ValueTypes, v \in Extractors : <<"approved", slug, type>> \notin mine'[v]
    BY <1>3 DEF RowsPaired
  <2> QED BY <2>1, <2>2 DEF RowsPaired
<1>11. NoDuplicates'
  <2>1. \A r, q \in rows' : Key(r) = Key(q) => r = q
    BY DEF NoDuplicates
  <2>2. ASSUME NEW v \in Extractors, NEW r \in mine'[v]
        PROVE  /\ Key(r) \notin KeysOf(rows')
               /\ \A u \in Extractors : \A q \in mine'[u] : Key(q) = Key(r) => u = v /\ q = r
    <3> HIDE DEF new
    <3>1. CASE r \in mine[v]
      BY <1>3, <1>9, <3>1 DEF NoDuplicates
    <3>2. CASE r \notin mine[v]
      BY <1>3, <1>9, <3>2
    <3> QED BY <3>1, <3>2
  <2>3. \A v \in Extractors, g \in Facts :
          <<"statement", g>> \in Visible(v)' => \E t \in Sources : <<"link", g, t>> \in Visible(v)'
    BY <1>10 DEF RowsPaired, Visible
  <2> QED BY <2>1, <2>2, <2>3 DEF NoDuplicates
<1> QED
  BY <1>3, <1>5, <1>10, <1>11

\* A rollback.
LEMMA AbortKeeps ==
  ASSUME FactInv, NEW w \in Extractors, Abort(w), UNCHANGED <<rows, status>>,
         failures' \in Nat
  PROVE  FactInv'
<1> USE DEF FactInv
<1>1. /\ mine' = [mine EXCEPT ![w] = {}]
      /\ run' = [run EXCEPT ![w] = Idle]
      /\ TypeOK
  BY DEF Abort, ReferencesHold
<1>2. /\ mine'[w] = {} /\ run'[w] = Idle
      /\ \A v \in Extractors : v # w => mine'[v] = mine[v] /\ run'[v] = run[v]
  BY <1>1 DEF TypeOK
<1>3. ReferencesHold'
  <2>1. TypeOK'
    BY <1>1, IdleIsRun DEF TypeOK
  <2> QED BY <2>1 DEF ReferencesHold
<1>4. RowsPaired'
  BY <1>2 DEF RowsPaired
<1>5. NoDuplicates'
  <2>1. \A v \in Extractors : mine'[v] \subseteq mine[v]
    BY <1>2
  <2>2. \A v \in Extractors, f \in Facts :
          <<"statement", f>> \in Visible(v)' => \E s \in Sources : <<"link", f, s>> \in Visible(v)'
    BY <1>4 DEF RowsPaired, Visible
  <2> QED BY <2>1, <2>2 DEF NoDuplicates
<1>6. ExtractedIffLinked'
  BY DEF ExtractedIffLinked
<1>7. ASSUME NEW v \in Extractors PROVE WorkInv(v)'
  <2>1. CASE v = w
    BY <1>2, <2>1, NoTransaction DEF Idle
  <2>2. CASE v # w
    BY <1>1, <1>2, <2>2, InvParts, OthersKeep DEF KeysKept
  <2> QED BY <2>1, <2>2
<1> QED
  BY <1>3, <1>4, <1>5, <1>6, <1>7, InvPartsAfter DEF RowsInv

\* The commit of a source.
LEMMA CommitKeeps ==
  ASSUME FactInv, NEW w \in Extractors, WriteSource(w)
  PROVE  FactInv'
<1> DEFINE s == Current(w)
<1> USE DEF FactInv
<1>1. /\ rows' = rows \cup mine[w]
      /\ mine' = [mine EXCEPT ![w] = {}]
      /\ status' = IF run[w].accepted THEN [status EXCEPT ![s] = "extracted"] ELSE status
      /\ run' = [run EXCEPT ![w] = [Idle EXCEPT !.step = "source", !.batch = Tail(run[w].batch)]]
      /\ UNCHANGED failures
      /\ TypeOK
  BY DEF WriteSource, ReferencesHold
<1>2. run[w].batch \in Seq(Sources) /\ run[w].batch # <<>>
  BY <1>1, MentionsTyped DEF WriteSource, Progress, At
<1>3. s \in Sources /\ Tail(run[w].batch) \in Seq(Sources)
  BY <1>2 DEF Current
<1> HIDE DEF s
<1>4. [Idle EXCEPT !.step = "source", !.batch = Tail(run[w].batch)] \in Run
  BY <1>3, IdleIsRun DEF Run, Steps
<1>5. /\ mine'[w] = {} /\ run'[w] = [Idle EXCEPT !.step = "source", !.batch = Tail(run[w].batch)]
      /\ \A v \in Extractors : v # w => mine'[v] = mine[v] /\ run'[v] = run[v]
  BY <1>1 DEF TypeOK
<1>6. rows \in SUBSET Rows /\ mine[w] \in SUBSET Rows /\ rows' = Visible(w)
  BY <1>1 DEF TypeOK, Visible
<1>7. ReferencesHold'
  <2>1. status' \in [Sources -> {"archived", "extracted"}]
    BY <1>1 DEF TypeOK
  <2>2. TypeOK'
    BY <1>1, <1>4, <1>6, <2>1 DEF TypeOK
  <2>3. KeysOf(rows) \subseteq KeysOf(rows')
    BY <1>1, KeysGrow
  <2>4. ASSUME NEW f \in Facts, <<"statement", f>> \in rows'
        PROVE  {<<"entity", SubjectOf[f]>>, <<"property", SlugOf[f]>>} \subseteq KeysOf(rows')
    <3>1. CASE <<"statement", f>> \in rows
      BY <2>3, <3>1 DEF ReferencesHold
    <3>2. CASE <<"statement", f>> \in mine[w]
      BY <1>6, <3>2 DEF RefersToVisible
    <3> QED BY <1>1, <2>4, <3>1, <3>2
  <2> QED BY <2>2, <2>4 DEF ReferencesHold
<1>8. RowsPaired'
  <2>1. ASSUME NEW f \in Facts
        PROVE  <<"statement", f>> \in rows' <=> \E t \in Sources : <<"link", f, t>> \in rows'
    BY <1>1 DEF RowsPaired
  <2>2. ASSUME NEW f \in Facts, NEW v \in Extractors
        PROVE  <<"statement", f>> \in mine'[v] <=> \E t \in Sources : <<"link", f, t>> \in mine'[v]
    BY <1>5 DEF RowsPaired
  <2>3. KeysOf(rows) \subseteq KeysOf(rows')
    BY <1>1, KeysGrow
  <2>4. \A slug \in Slugs, type \in ValueTypes :
          <<"approved", slug, type>> \in rows' => <<"property", slug>> \in KeysOf(rows')
    BY <1>1, <2>3 DEF RowsPaired
  <2>5. \A slug \in Slugs, type \in ValueTypes, v \in Extractors : <<"approved", slug, type>> \notin mine'[v]
    BY <1>5 DEF RowsPaired
  <2> QED BY <2>1, <2>2, <2>4, <2>5 DEF RowsPaired
<1>9. NoDuplicates'
  <2>1. ASSUME NEW r \in rows', NEW q \in rows', Key(r) = Key(q) PROVE r = q
    <3>1. CASE r \in rows /\ q \in rows
      BY <2>1, <3>1 DEF NoDuplicates
    <3>2. CASE r \in mine[w] /\ q \in mine[w]
      BY <2>1, <3>2 DEF NoDuplicates
    <3>3. CASE (r \in mine[w] /\ q \in rows) \/ (r \in rows /\ q \in mine[w])
      BY <2>1, <3>3, KeyIsIn DEF NoDuplicates
    <3> QED BY <1>1, <3>1, <3>2, <3>3
  <2>2. ASSUME NEW v \in Extractors, NEW r \in mine'[v]
        PROVE  /\ Key(r) \notin KeysOf(rows')
               /\ \A u \in Extractors : \A q \in mine'[u] : Key(q) = Key(r) => u = v /\ q = r
    <3>1. v # w /\ r \in mine[v]
      BY <1>5
    <3>2. Key(r) \notin KeysOf(rows) /\ Key(r) \notin KeysOf(mine[w])
      BY <3>1 DEF NoDuplicates, KeysOf
    <3>3. Key(r) \notin KeysOf(rows')
      BY <1>1, <3>2, KeysGrow
    <3>4. \A u \in Extractors : mine'[u] \subseteq mine[u]
      BY <1>5
    <3> QED BY <3>1, <3>3, <3>4 DEF NoDuplicates
  <2>3. \A v \in Extractors, f \in Facts :
          <<"statement", f>> \in Visible(v)' => \E t \in Sources : <<"link", f, t>> \in Visible(v)'
    BY <1>8 DEF RowsPaired, Visible
  <2> QED BY <2>1, <2>2, <2>3 DEF NoDuplicates
<1>10. ExtractedIffLinked'
  <2>1. \A f \in Facts, t \in Sources : <<"link", f, t>> \in mine[w] => t = s
    BY DEF LinksCurrent, s
  <2>2. run[w].accepted <=> \E f \in Facts : <<"link", f, s>> \in mine[w]
    BY <1>3, <2>1 DEF LinksCurrent
  <2>3. status \in [Sources -> {"archived", "extracted"}]
    BY <1>1 DEF TypeOK
  <2>4. ASSUME NEW t \in Sources
        PROVE  status'[t] = "extracted" <=> \E f \in Facts : <<"link", f, t>> \in rows'
    <3>1. (\E f \in Facts : <<"link", f, t>> \in rows') <=>
            status[t] = "extracted" \/ (t = s /\ run[w].accepted)
      BY <1>1, <2>1, <2>2 DEF ExtractedIffLinked
    <3>2. CASE run[w].accepted
      BY <1>1, <2>3, <3>1, <3>2
    <3>3. CASE ~run[w].accepted
      BY <1>1, <3>1, <3>3
    <3> QED BY <3>2, <3>3
  <2> QED BY <2>4 DEF ExtractedIffLinked
<1>11. ASSUME NEW v \in Extractors PROVE WorkInv(v)'
  <2>1. CASE v = w
    BY <1>5, <2>1, NoTransaction DEF Idle
  <2>2. CASE v # w
    BY <1>1, <1>5, <2>2, InvParts, OthersKeep, KeysGrow DEF KeysKept
  <2> QED BY <2>1, <2>2
<1> QED
  BY <1>7, <1>8, <1>9, <1>10, <1>11, InvPartsAfter DEF RowsInv

\* The operator approves a slug.
LEMMA ApproveKeeps ==
  ASSUME FactInv, Approve
  PROVE  FactInv'
<1> USE DEF FactInv
<1>1. PICK slug \in Slugs, type \in ValueTypes :
        /\ <<"pending", slug, type>> \in rows
        /\ <<"property", slug>> \notin KeysOf(rows)
        /\ \A v \in Extractors : <<"property", slug>> \notin KeysOf(mine[v])
        /\ rows' = (rows \ {<<"pending", slug, type>>})
                     \cup {<<"approved", slug, type>>, <<"property", slug, type>>}
        /\ UNCHANGED <<status, run, mine, failures>>
  BY DEF Approve
<1> DEFINE new == {<<"approved", slug, type>>, <<"property", slug, type>>}
<1>2. new \in SUBSET Rows
  BY DEF Rows
<1>3. /\ rows \in SUBSET Rows /\ rows' \in SUBSET Rows
      /\ \A v \in Extractors : mine[v] \in SUBSET Rows
  BY <1>1, <1>2 DEF ReferencesHold, TypeOK
<1>4. /\ <<"approved", slug>> \notin KeysOf(rows)
      /\ \A v \in Extractors : <<"approved", slug>> \notin KeysOf(mine[v])
  BY <1>1, <1>3, KeyedRows DEF RowsPaired
<1>5. /\ Key(<<"pending", slug, type>>) = <<"pending", slug>>
      /\ Key(<<"approved", slug, type>>) = <<"approved", slug>>
      /\ Key(<<"property", slug, type>>) = <<"property", slug>>
      /\ <<"approved", slug>> # <<"property", slug>>
  BY DEF Key
<1>6. /\ rows' \subseteq rows \cup new
      /\ \A r \in rows : r \in rows' \/ r = <<"pending", slug, type>>
      /\ new \subseteq rows'
  BY <1>1
<1>7. \A r \in new : /\ Key(r) \notin KeysOf(rows)
                     /\ \A v \in Extractors : Key(r) \notin KeysOf(mine[v])
                     /\ \A q \in new : Key(q) = Key(r) => q = r
  BY <1>1, <1>4, <1>5
<1>8. KeysKept
  <2>1. <<"approved", slug>> \in KeysOf(rows')
    BY <1>5, <1>6, KeyIsIn
  <2>2. ASSUME NEW k \in KeysOf(rows), k \notin KeysOf(rows') PROVE k = <<"pending", slug>>
    <3>1. PICK r \in rows : k = Key(r)
      BY DEF KeysOf
    <3>2. r \notin rows'
      BY <2>2, <3>1, KeyIsIn
    <3> QED BY <1>5, <1>6, <3>1, <3>2
  <2> QED BY <2>1, <2>2 DEF KeysKept
<1>9. /\ \A f \in Facts : <<"statement", f>> \in rows' <=> <<"statement", f>> \in rows
      /\ \A f \in Facts, s \in Sources : <<"link", f, s>> \in rows' <=> <<"link", f, s>> \in rows
      /\ \A l \in Slugs, t \in ValueTypes :
           <<"approved", l, t>> \in rows' => <<"approved", l, t>> \in rows \/ l = slug
  BY <1>1
<1>10. \A e \in Entities : <<"entity", e>> \in KeysOf(rows) => <<"entity", e>> \in KeysOf(rows')
  BY <1>8 DEF KeysKept
<1>11. /\ \A l \in Slugs : <<"property", l>> \in KeysOf(rows) => <<"property", l>> \in KeysOf(rows')
       /\ <<"property", slug>> \in KeysOf(rows')
  BY <1>5, <1>6, <1>8, KeyIsIn DEF KeysKept
<1> HIDE DEF new
<1>12. ReferencesHold'
  <2>1. TypeOK'
    BY <1>1, <1>3 DEF ReferencesHold, TypeOK
  <2>2. \A f \in Facts : SubjectOf[f] \in Entities /\ SlugOf[f] \in Slugs
    BY FactsType
  <2> QED BY <1>9, <1>10, <1>11, <2>1, <2>2 DEF ReferencesHold
<1>13. RowsPaired'
  BY <1>1, <1>9, <1>11 DEF RowsPaired
<1>14. NoDuplicates'
  <2>1. ASSUME NEW r \in rows', NEW q \in rows', Key(r) = Key(q) PROVE r = q
    <3>1. CASE r \in rows /\ q \in rows
      BY <2>1, <3>1 DEF NoDuplicates
    <3>2. CASE r \in new /\ q \in new
      BY <1>7, <2>1, <3>2
    <3>3. CASE (r \in new /\ q \in rows) \/ (r \in rows /\ q \in new)
      BY <1>7, <2>1, <3>3, KeyIsIn
    <3> QED BY <1>6, <3>1, <3>2, <3>3
  <2>2. ASSUME NEW v \in Extractors, NEW r \in mine[v]
        PROVE  Key(r) \notin KeysOf(rows')
    <3>1. SUFFICES ASSUME NEW q \in rows', Key(q) = Key(r) PROVE FALSE
      BY DEF KeysOf
    <3>2. CASE q \in rows
      BY <3>1, <3>2, KeyIsIn DEF NoDuplicates
    <3>3. CASE q \in new
      BY <1>7, <3>1, <3>3, KeyIsIn
    <3> QED BY <1>6, <3>2, <3>3
  <2>3. \A v \in Extractors, f \in Facts :
          <<"statement", f>> \in Visible(v)' => \E t \in Sources : <<"link", f, t>> \in Visible(v)'
    BY <1>13 DEF RowsPaired, Visible
  <2> QED BY <1>1, <2>1, <2>2, <2>3 DEF NoDuplicates
<1>15. ExtractedIffLinked'
  BY <1>1, <1>9 DEF ExtractedIffLinked
<1>16. ASSUME NEW v \in Extractors PROVE WorkInv(v)'
  BY <1>1, <1>8, InvParts, OthersKeep DEF ReferencesHold
<1> QED
  BY <1>12, <1>13, <1>14, <1>15, <1>16, InvPartsAfter DEF RowsInv

-----------------------------------------------------------------------------
(* The steps of one extractor.                                             *)

\* A step of w that commits nothing.
LEMMA OwnStep ==
  ASSUME FactInv, NEW w \in Extractors,
         UNCHANGED <<rows, status, failures>>,
         mine' \in [Extractors -> SUBSET Rows], run' \in [Extractors -> Run],
         \A v \in Extractors : v # w => mine'[v] = mine[v] /\ run'[v] = run[v],
         NoDuplicates', RowsPaired', WorkInv(w)'
  PROVE  FactInv'
<1>1. TypeOK'
  BY DEF FactInv, ReferencesHold, TypeOK
<1>2. ReferencesHold'
  BY <1>1 DEF FactInv, ReferencesHold
<1>3. ExtractedIffLinked'
  BY DEF FactInv, ExtractedIffLinked
<1>4. ASSUME NEW v \in Extractors PROVE WorkInv(v)'
  <2>1. CASE v # w
    BY <2>1, InvParts, OthersKeep DEF KeysKept, FactInv, ReferencesHold
  <2> QED BY <2>1
<1> QED
  BY <1>2, <1>3, <1>4, InvPartsAfter DEF RowsInv

\* How a run changes when it goes to another step, or to the next mention.
LEMMA RunChanges ==
  ASSUME TypeOK, NEW w \in Extractors, NEW step \in Steps, NEW at \in Nat,
         NEW accepted \in BOOLEAN,
         run' = [run EXCEPT ![w].step = step, ![w].at = at, ![w].accepted = accepted]
  PROVE  /\ run' \in [Extractors -> Run]
         /\ \A v \in Extractors : v # w => run'[v] = run[v]
         /\ run'[w].step = step /\ run'[w].at = at /\ run'[w].accepted = accepted
         /\ run'[w].batch = run[w].batch /\ run'[w].facts = run[w].facts
BY DEF TypeOK, Run

LEMMA StepChanges ==
  ASSUME TypeOK, NEW w \in Extractors, NEW step \in Steps, Go(w, step)
  PROVE  /\ run' \in [Extractors -> Run]
         /\ \A v \in Extractors : v # w => run'[v] = run[v]
         /\ run'[w].step = step /\ run'[w].at = run[w].at
         /\ run'[w].accepted = run[w].accepted
         /\ run'[w].batch = run[w].batch /\ run'[w].facts = run[w].facts
BY DEF TypeOK, Run, Go

LEMMA MentionChanges ==
  ASSUME TypeOK, NEW w \in Extractors, NextMention(w)
  PROVE  /\ run' \in [Extractors -> Run]
         /\ \A v \in Extractors : v # w => run'[v] = run[v]
         /\ run'[w].step = "mention" /\ run'[w].at = run[w].at + 1
         /\ run'[w].accepted = run[w].accepted
         /\ run'[w].batch = run[w].batch /\ run'[w].facts = run[w].facts
<1>1. run[w].at \in Nat /\ run[w].at + 1 \in Nat /\ "mention" \in Steps
  BY DEF TypeOK, Run, Steps
<1> DEFINE n == run[w].at + 1
<1>2. run' = [run EXCEPT ![w].step = "mention", ![w].at = n]
  BY DEF NextMention
<1> HIDE DEF n
<1>3. n \in Nat
  BY <1>1 DEF n
<1>4. /\ run' \in [Extractors -> Run]
      /\ \A v \in Extractors : v # w => run'[v] = run[v]
      /\ run'[w].step = "mention" /\ run'[w].at = n
      /\ run'[w].accepted = run[w].accepted
      /\ run'[w].batch = run[w].batch /\ run'[w].facts = run[w].facts
  BY <1>1, <1>2, <1>3 DEF TypeOK, Run
<1> QED
  BY <1>4 DEF n

\* What w has put behind it, it has found in the tables or written there.
LEMMA MentionsKept ==
  ASSUME FactInv, NEW w \in Extractors, NEW f, f = Fact(w),
         run'[w].facts = run[w].facts,
         KeysOf(Visible(w)) \subseteq KeysOf(Visible(w))',
         \/ run'[w].at = run[w].at
         \/ run'[w].at = run[w].at + 1 /\ (~run[w].facts[run[w].at].ok \/ Outcome(w, f)' # {})
  PROVE  KeepsMentions(w)'
<1>1. KeepsMentions(w) /\ run[w].at \in Nat
  BY InvParts, MentionsTyped DEF WorkInv, FactInv, ReferencesHold
<1>2. \A g : Outcome(w, g) # {} => Outcome(w, g)' # {}
  BY DEF Outcome
<1>3. ASSUME NEW i \in 1..Len(run[w].facts), i < run'[w].at, run[w].facts[i].ok
      PROVE  Outcome(w, run[w].facts[i].fact)' # {}
  <2>1. CASE i < run[w].at
    BY <1>1, <1>2, <1>3, <2>1 DEF KeepsMentions
  <2>2. CASE i = run[w].at
    BY <1>3, <2>2 DEF Fact
  <2> QED BY <1>1, <1>3, <2>1, <2>2
<1> QED
  BY <1>3 DEF KeepsMentions

\* A step that inserts an entity, a property or a proposal.
LEMMA InsertStep ==
  ASSUME FactInv, NEW w \in Extractors, NEW row \in Rows,
         row[1] \in {"entity", "property", "pending"}, Insert(w, row),
         row[1] = "property" => Known(w, row[2]),
         UNCHANGED <<rows, status, failures>>,
         run' \in [Extractors -> Run],
         \A v \in Extractors : v # w => run'[v] = run[v],
         run'[w].accepted = run[w].accepted, run'[w].batch = run[w].batch,
         Progress(w)', KeepsMentions(w)'
  PROVE  FactInv'
<1>1. /\ mine' \in [Extractors -> SUBSET Rows]
      /\ NoDuplicates' /\ RowsPaired'
      /\ \A v \in Extractors : v # w => mine'[v] = mine[v]
      /\ mine[w] \subseteq mine'[w] /\ mine'[w] \subseteq mine[w] \cup {row}
      /\ KeysOf(Visible(w))' = KeysOf(Visible(w)) \cup {Key(row)}
  BY InsertKeeps
<1>2. LinksCurrent(w) /\ RefersToVisible(w)
  BY DEF FactInv
<1>3. LinksCurrent(w)'
  <2>1. \A f \in Facts, s \in Sources : <<"link", f, s>> \in mine'[w] <=> <<"link", f, s>> \in mine[w]
    BY <1>1
  <2> QED BY <1>2, <2>1 DEF LinksCurrent, Current, GroundedIn
<1>4. RefersToVisible(w)'
  <2>1. \A f \in Facts : <<"statement", f>> \in mine'[w] => <<"statement", f>> \in mine[w]
    BY <1>1
  <2>2. ASSUME NEW slug \in Slugs, <<"property", slug>> \in KeysOf(mine'[w]) PROVE Known(w, slug)
    <3>1. mine[w] \in SUBSET Rows /\ mine'[w] \in SUBSET Rows
      BY <1>1 DEF FactInv, ReferencesHold, TypeOK
    <3>2. PICK type \in ValueTypes : <<"property", slug, type>> \in mine'[w]
      BY <2>2, <3>1, KeyedRows
    <3>3. CASE <<"property", slug, type>> \in mine[w]
      BY <1>2, <3>1, <3>3, KeyedRows DEF RefersToVisible
    <3>4. CASE <<"property", slug, type>> = row
      BY <3>4
    <3> QED BY <1>1, <3>2, <3>3, <3>4
  <2> QED BY <1>1, <1>2, <2>1, <2>2 DEF RefersToVisible, Known
<1> QED
  BY <1>1, <1>3, <1>4, OwnStep DEF WorkInv

\* A step that leaves the tables alone and goes on in its source.
LEMMA MoveStep ==
  ASSUME FactInv, NEW w \in Extractors,
         UNCHANGED <<rows, status, mine, failures>>,
         run' \in [Extractors -> Run],
         \A v \in Extractors : v # w => run'[v] = run[v],
         run'[w].accepted = run[w].accepted, run'[w].batch = run[w].batch,
         Progress(w)', KeepsMentions(w)'
  PROVE  FactInv'
<1>1. mine \in [Extractors -> SUBSET Rows]
  BY DEF FactInv, ReferencesHold, TypeOK
<1>2. NoDuplicates' /\ RowsPaired'
  BY DEF FactInv, NoDuplicates, RowsPaired, Visible
<1>3. LinksCurrent(w)' /\ RefersToVisible(w)'
  <2>1. LinksCurrent(w) /\ RefersToVisible(w)
    BY DEF FactInv
  <2>2. KeysOf(Visible(w))' = KeysOf(Visible(w)) /\ mine'[w] = mine[w]
    BY DEF KeysOf, Visible
  <2>3. LinksCurrent(w)'
    BY <2>1, <2>2 DEF LinksCurrent, Current, GroundedIn
  <2> QED BY <2>1, <2>2, <2>3 DEF RefersToVisible, Known, KeysOf
<1> QED
  BY <1>1, <1>2, <1>3, OwnStep DEF WorkInv

\* A step between sources.
LEMMA BatchStep ==
  ASSUME FactInv, NEW w \in Extractors, At(w, "idle") \/ At(w, "source"),
         UNCHANGED <<rows, status, mine, failures>>,
         NEW r \in Run, run' = [run EXCEPT ![w] = r],
         r.step \in {"idle", "source"}, r.facts = <<>>, ~r.accepted
  PROVE  FactInv'
<1>1. /\ mine \in [Extractors -> SUBSET Rows] /\ run' \in [Extractors -> Run]
      /\ \A v \in Extractors : v # w => run'[v] = run[v]
      /\ run'[w] = r
  BY DEF FactInv, ReferencesHold, TypeOK
<1>2. NoDuplicates' /\ RowsPaired'
  BY DEF FactInv, NoDuplicates, RowsPaired, Visible
<1>3. mine'[w] = {}
  BY DEF FactInv, Progress
<1>4. WorkInv(w)'
  BY <1>1, <1>3, NoTransaction
<1> QED
  BY <1>1, <1>2, <1>4, OwnStep

-----------------------------------------------------------------------------
(* The actions.                                                            *)

LEMMA BeginKeeps ==
  ASSUME FactInv, NEW w \in Extractors, Begin(w)
  PROVE  FactInv'
<1> DEFINE archived == {s \in Sources : status[s] = "archived"}
           n == IF Cardinality(archived) < Limit THEN Cardinality(archived) ELSE Limit
<1>1. n \in Nat
  BY AgeType, ExtractorsType, FS_Subset, FS_CardinalityType
<1>2. PICK q \in [1..n -> archived] :
        run' = [run EXCEPT ![w] = [Idle EXCEPT !.step = "source", !.batch = q]]
  BY DEF Begin
<1>3. \A i \in 1..n : q[i] \in Sources
  BY <1>2
<1> HIDE DEF n, archived
<1>4. q \in Seq(Sources)
  BY <1>1, <1>2, <1>3
<1>5. [Idle EXCEPT !.step = "source", !.batch = q] \in Run
  BY <1>4, IdleIsRun DEF Run, Steps
<1> QED
  BY <1>2, <1>5, BatchStep DEF Begin, Idle

LEMMA ReadKeeps ==
  ASSUME FactInv, NEW w \in Extractors, Read(w)
  PROVE  FactInv'
<1>1. TypeOK /\ run[w] \in Run /\ run[w].facts = <<>> /\ mine[w] = {}
  BY DEF FactInv, ReferencesHold, TypeOK, Progress, Read
<1>2. run[w].batch \in Seq(Sources) /\ run[w].batch # <<>>
  BY <1>1, MentionsTyped DEF Read
<1>3. Current(w) \in Sources /\ Tail(run[w].batch) \in Seq(Sources)
  BY <1>2 DEF Current
<1>4. ~run[w].accepted
  BY <1>1 DEF FactInv, LinksCurrent
<1>5. PICK reading \in Readings[Current(w)] :
        IF reading = <<>>
          THEN run' = [run EXCEPT ![w].batch = Tail(@)]
          ELSE run' = [run EXCEPT ![w] = [step |-> "mention", batch |-> run[w].batch,
                                          facts |-> reading, at |-> 1, accepted |-> FALSE]]
  BY DEF Read
<1>6. CASE reading = <<>>
  <2> DEFINE r == [run[w] EXCEPT !.batch = Tail(run[w].batch)]
  <2>1. run' = [run EXCEPT ![w] = r]
    BY <1>5, <1>6
  <2>2. r \in Run /\ r.step = "source" /\ r.facts = <<>> /\ r.accepted = run[w].accepted
    BY <1>1, <1>3 DEF Run, Read, At
  <2> HIDE DEF r
  <2> QED BY <1>4, <2>1, <2>2, BatchStep DEF Read
<1>7. CASE reading # <<>>
  <2> DEFINE r == [step |-> "mention", batch |-> run[w].batch,
                   facts |-> reading, at |-> 1, accepted |-> FALSE]
  <2>1. run' = [run EXCEPT ![w] = r]
    BY <1>5, <1>7
  <2>2. reading \in Seq(Mention)
    BY <1>3, ReadingsType
  <2>3. r \in Run
    BY <1>2, <2>2 DEF Run, Steps
  <2>4. /\ run' \in [Extractors -> Run] /\ run'[w] = r
        /\ \A v \in Extractors : v # w => run'[v] = run[v]
    BY <1>1, <2>1, <2>3 DEF TypeOK
  <2>5. Progress(w)'
    BY <1>2, <2>4 DEF Progress, At, Current
  <2>6. KeepsMentions(w)'
    BY <2>4 DEF KeepsMentions
  <2>7. run'[w].accepted = run[w].accepted /\ run'[w].batch = run[w].batch
    <3>1. run[w].accepted \in BOOLEAN
      BY <1>1 DEF Run
    <3>2. run[w].accepted = FALSE
      BY <1>4, <3>1, Zenon
    <3>3. run'[w].accepted = FALSE /\ run'[w].batch = run[w].batch
      BY <2>4 DEF r
    <3> QED BY <3>2, <3>3
  <2> QED BY <2>4, <2>5, <2>6, <2>7, MoveStep DEF Read
<1> QED BY <1>6, <1>7

LEMMA EndKeeps ==
  ASSUME FactInv, NEW w \in Extractors, End(w)
  PROVE  FactInv'
BY IdleIsRun, BatchStep DEF End, Idle

\* The mention that an extractor is at, and what surrounds it.
LEMMA AtMention ==
  ASSUME FactInv, NEW w \in Extractors,
         HasMention(w) \/ run[w].step \in {"property", "register", "propose", "statement"}
  PROVE  /\ TypeOK
         /\ ~At(w, "idle") /\ ~At(w, "source")
         /\ run[w].at \in Nat /\ run[w].at > 0
         /\ run[w].batch # <<>> /\ run[w].facts \in Readings[Current(w)]
         /\ Current(w) \in Sources
         /\ run[w].at \in DOMAIN run[w].facts
         /\ Fact(w) \in Facts
         /\ SubjectOf[Fact(w)] \in Entities /\ SlugOf[Fact(w)] \in Slugs
         /\ ValueType(Fact(w)) \in ValueTypes
<1>1. TypeOK /\ Progress(w)
  BY DEF FactInv, ReferencesHold
<1>2. ~At(w, "idle") /\ ~At(w, "source")
  BY DEF HasMention, At
<1>3. /\ run[w].facts \in Seq(Mention) /\ run[w].batch \in Seq(Sources) /\ run[w].at \in Nat
      /\ \A i \in DOMAIN run[w].facts : LET f == run[w].facts[i].fact IN
           f \in Facts /\ SubjectOf[f] \in Entities /\ SlugOf[f] \in Slugs
  BY <1>1, MentionsTyped
<1>4. run[w].at > 0 /\ run[w].batch # <<>> /\ run[w].facts \in Readings[Current(w)]
  BY <1>1, <1>2 DEF Progress
<1>5. Current(w) \in Sources
  BY <1>3, <1>4 DEF Current
<1>6. run[w].at \in DOMAIN run[w].facts
  BY <1>1, <1>3, <1>4 DEF HasMention, Progress
<1>7. \A f \in Facts : ValueType(f) \in ValueTypes
  BY FactsType DEF ValueType
<1> QED
  BY <1>1, <1>2, <1>3, <1>4, <1>5, <1>6, <1>7 DEF Fact

LEMMA RejectExcerptKeeps ==
  ASSUME FactInv, NEW w \in Extractors, RejectExcerpt(w)
  PROVE  FactInv'
<1>1. /\ TypeOK /\ run[w].at \in Nat /\ run[w].at > 0
      /\ run[w].batch # <<>> /\ run[w].facts \in Readings[Current(w)]
  BY AtMention DEF RejectExcerpt
<1>2. /\ run' \in [Extractors -> Run]
      /\ \A v \in Extractors : v # w => run'[v] = run[v]
      /\ run'[w].step = "mention" /\ run'[w].at = run[w].at + 1
      /\ run'[w].accepted = run[w].accepted
      /\ run'[w].batch = run[w].batch /\ run'[w].facts = run[w].facts
  BY <1>1, MentionChanges DEF RejectExcerpt
<1>3. KeepsMentions(w)'
  BY <1>2, MentionsKept DEF RejectExcerpt, KeysOf, Visible
<1>4. Progress(w)'
  BY <1>1, <1>2 DEF Progress, At, Current
<1> QED
  BY <1>2, <1>3, <1>4, MoveStep DEF RejectExcerpt

LEMMA EnsureEntityKeeps ==
  ASSUME FactInv, NEW w \in Extractors, EnsureEntity(w)
  PROVE  FactInv'
<1> DEFINE row == <<"entity", SubjectOf[Fact(w)]>>
<1>1. /\ TypeOK /\ run[w].at \in Nat /\ run[w].at > 0
      /\ run[w].batch # <<>> /\ run[w].facts \in Readings[Current(w)]
      /\ run[w].at \in DOMAIN run[w].facts
      /\ SubjectOf[Fact(w)] \in Entities
  BY AtMention DEF EnsureEntity
<1>2. /\ run' \in [Extractors -> Run]
      /\ \A v \in Extractors : v # w => run'[v] = run[v]
      /\ run'[w].step = "property" /\ run'[w].at = run[w].at
      /\ run'[w].accepted = run[w].accepted
      /\ run'[w].batch = run[w].batch /\ run'[w].facts = run[w].facts
  BY <1>1, StepChanges DEF EnsureEntity, Steps
<1>3. row \in Rows /\ row[1] = "entity" /\ Key(row) = row
  BY <1>1 DEF Rows, Key
<1>4. KeysOf(Visible(w))' = KeysOf(Visible(w)) \cup {row}
  BY <1>3, InsertKeeps DEF EnsureEntity
<1>5. KeepsMentions(w)'
  BY <1>2, <1>4, MentionsKept
<1>6. Progress(w)'
  <2>1. Fact(w)' = Fact(w) /\ Current(w)' = Current(w)
    BY <1>2 DEF Fact, Current
  <2>2. run[w].facts[run[w].at].ok
    BY DEF EnsureEntity
  <2> QED BY <1>1, <1>2, <1>4, <2>1, <2>2 DEF Progress, At
<1> QED
  BY <1>2, <1>3, <1>5, <1>6, InsertStep DEF EnsureEntity

LEMMA LookUpPropertyKeeps ==
  ASSUME FactInv, NEW w \in Extractors, LookUpProperty(w)
  PROVE  FactInv'
<1> DEFINE slug == SlugOf[Fact(w)]
           found == <<"property", slug>> \in KeysOf(Visible(w))
           step == IF found THEN "statement" ELSE IF Known(w, slug) THEN "register" ELSE "propose"
<1>1. /\ TypeOK /\ run[w].at \in Nat /\ run[w].at > 0
      /\ run[w].batch # <<>> /\ run[w].facts \in Readings[Current(w)]
      /\ run[w].at \in DOMAIN run[w].facts
  BY AtMention DEF LookUpProperty, At
<1>2. Go(w, step) /\ UNCHANGED <<rows, status, mine, failures>>
  BY DEF LookUpProperty
<1>3. step \in Steps
  BY DEF Steps
<1>4. /\ step \in {"statement", "register", "propose"}
      /\ step = "statement" => found
      /\ step = "register" => Known(w, slug)
  OBVIOUS
<1> HIDE DEF step
<1>5. /\ run' \in [Extractors -> Run]
      /\ \A v \in Extractors : v # w => run'[v] = run[v]
      /\ run'[w].step = step /\ run'[w].at = run[w].at
      /\ run'[w].accepted = run[w].accepted
      /\ run'[w].batch = run[w].batch /\ run'[w].facts = run[w].facts
  BY <1>1, <1>2, <1>3, StepChanges
<1>6. KeysOf(Visible(w))' = KeysOf(Visible(w))
  BY <1>2 DEF KeysOf, Visible
<1>7. KeepsMentions(w)'
  BY <1>5, <1>6, MentionsKept
<1>8. Progress(w)'
  <2>1. Fact(w)' = Fact(w) /\ Current(w)' = Current(w)
    BY <1>5 DEF Fact, Current
  <2>2. /\ run[w].facts[run[w].at].ok
        /\ <<"entity", SubjectOf[Fact(w)]>> \in KeysOf(Visible(w))
    BY DEF FactInv, Progress, LookUpProperty, At
  <2> QED BY <1>1, <1>4, <1>5, <1>6, <2>1, <2>2 DEF Progress, At, Known
<1> QED
  BY <1>2, <1>5, <1>7, <1>8, MoveStep

LEMMA RegisterPropertyKeeps ==
  ASSUME FactInv, NEW w \in Extractors, RegisterProperty(w)
  PROVE  FactInv'
<1> DEFINE slug == SlugOf[Fact(w)]
           row == <<"property", slug, ValueType(Fact(w))>>
<1>1. /\ TypeOK /\ run[w].at \in Nat /\ run[w].at > 0
      /\ run[w].batch # <<>> /\ run[w].facts \in Readings[Current(w)]
      /\ run[w].at \in DOMAIN run[w].facts
      /\ slug \in Slugs /\ ValueType(Fact(w)) \in ValueTypes
  BY AtMention DEF RegisterProperty, At
<1>2. /\ run' \in [Extractors -> Run]
      /\ \A v \in Extractors : v # w => run'[v] = run[v]
      /\ run'[w].step = "statement" /\ run'[w].at = run[w].at
      /\ run'[w].accepted = run[w].accepted
      /\ run'[w].batch = run[w].batch /\ run'[w].facts = run[w].facts
  BY <1>1, StepChanges DEF RegisterProperty, Steps
<1>3. row \in Rows /\ row[1] = "property" /\ row[2] = slug /\ Key(row) = <<"property", slug>>
  BY <1>1 DEF Rows, Key
<1> HIDE DEF row
<1>4. Insert(w, row) /\ UNCHANGED <<rows, status, failures>>
  BY DEF RegisterProperty, row
<1>5. KeysOf(Visible(w))' = KeysOf(Visible(w)) \cup {<<"property", slug>>}
  BY <1>3, <1>4, InsertKeeps
<1>6. KeepsMentions(w)'
  BY <1>2, <1>5, MentionsKept
<1>7. /\ run[w].facts[run[w].at].ok
      /\ <<"entity", SubjectOf[Fact(w)]>> \in KeysOf(Visible(w))
      /\ Known(w, slug)
  BY DEF FactInv, Progress, RegisterProperty, At
<1>8. Progress(w)'
  <2>1. Fact(w)' = Fact(w) /\ Current(w)' = Current(w)
    BY <1>2 DEF Fact, Current
  <2> QED BY <1>1, <1>2, <1>5, <1>7, <2>1 DEF Progress, At
<1> QED
  BY <1>2, <1>3, <1>4, <1>6, <1>7, <1>8, InsertStep

LEMMA ProposePropertyKeeps ==
  ASSUME FactInv, NEW w \in Extractors, ProposeProperty(w)
  PROVE  FactInv'
<1> DEFINE slug == SlugOf[Fact(w)]
           row == <<"pending", slug, ValueType(Fact(w))>>
<1>1. /\ TypeOK /\ run[w].at \in Nat /\ run[w].at > 0
      /\ run[w].batch # <<>> /\ run[w].facts \in Readings[Current(w)]
      /\ slug \in Slugs /\ ValueType(Fact(w)) \in ValueTypes
  BY AtMention DEF ProposeProperty, At
<1>2. /\ run' \in [Extractors -> Run]
      /\ \A v \in Extractors : v # w => run'[v] = run[v]
      /\ run'[w].step = "mention" /\ run'[w].at = run[w].at + 1
      /\ run'[w].accepted = run[w].accepted
      /\ run'[w].batch = run[w].batch /\ run'[w].facts = run[w].facts
  BY <1>1, MentionChanges DEF ProposeProperty
<1>3. row \in Rows /\ row[1] = "pending" /\ Key(row) = <<"pending", slug>>
  BY <1>1 DEF Rows, Key
<1> HIDE DEF row
<1>4. Insert(w, row) /\ UNCHANGED <<rows, status, failures>>
  BY DEF ProposeProperty, row
<1>5. KeysOf(Visible(w))' = KeysOf(Visible(w)) \cup {<<"pending", slug>>}
  BY <1>3, <1>4, InsertKeeps
<1>6. KeepsMentions(w)'
  <2>1. \A f : f = Fact(w) => Outcome(w, f)' # {}
    BY <1>5 DEF Outcome
  <2> QED BY <1>2, <1>5, <2>1, MentionsKept
<1>7. Progress(w)'
  BY <1>1, <1>2 DEF Progress, At, Current
<1> QED
  BY <1>2, <1>3, <1>4, <1>6, <1>7, InsertStep

\* The mention that an extractor works on is in the text of its current source.
LEMMA MentionIsGrounded ==
  ASSUME FactInv, NEW w \in Extractors, At(w, "statement")
  PROVE  Fact(w) \in GroundedIn[Current(w)]
<1>1. /\ TypeOK /\ run[w].facts \in Readings[Current(w)] /\ Current(w) \in Sources
      /\ run[w].at \in DOMAIN run[w].facts /\ Fact(w) \in Facts
  BY AtMention DEF At
<1>2. run[w].facts[run[w].at].ok
  BY DEF FactInv, Progress, At
<1>3. run[w].facts[run[w].at] \in Mention
  BY <1>1, MentionsTyped
<1>4. run[w].facts[run[w].at].ok = TRUE
  <2>1. run[w].facts[run[w].at].ok \in BOOLEAN
    BY <1>3 DEF Mention
  <2> QED BY <1>2, <2>1, Zenon
<1>5. run[w].facts[run[w].at] = [fact |-> Fact(w), ok |-> TRUE]
  BY <1>3, <1>4 DEF Mention, Fact
<1> QED
  BY <1>1, <1>5 DEF GroundedIn

LEMMA InsertStatementKeeps ==
  ASSUME FactInv, NEW w \in Extractors, InsertStatement(w)
  PROVE  FactInv'
<1> DEFINE f == Fact(w)
           s == Current(w)
<1>1. /\ TypeOK /\ run[w].at \in Nat /\ run[w].at > 0
      /\ run[w].batch # <<>> /\ run[w].facts \in Readings[s]
      /\ s \in Sources /\ f \in Facts /\ SlugOf[f] \in Slugs
  BY AtMention DEF InsertStatement, At
<1>2. f \in GroundedIn[s]
  BY MentionIsGrounded DEF InsertStatement
<1>3. {<<"entity", SubjectOf[f]>>, <<"property", SlugOf[f]>>} \subseteq KeysOf(Visible(w))
  BY DEF FactInv, Progress, InsertStatement, At
<1>4. CASE <<"statement", f>> \in Visible(w)
  <2>1. NextMention(w) /\ UNCHANGED <<rows, status, mine, failures>>
    BY <1>4 DEF InsertStatement
  <2>2. /\ run' \in [Extractors -> Run]
        /\ \A v \in Extractors : v # w => run'[v] = run[v]
        /\ run'[w].step = "mention" /\ run'[w].at = run[w].at + 1
        /\ run'[w].accepted = run[w].accepted
        /\ run'[w].batch = run[w].batch /\ run'[w].facts = run[w].facts
    BY <1>1, <2>1, MentionChanges
  <2>3. KeepsMentions(w)'
    <3>1. KeysOf(Visible(w))' = KeysOf(Visible(w))
      BY <2>1 DEF KeysOf, Visible
    <3>2. <<"statement", f>> \in KeysOf(Visible(w))
      <4>1. Visible(w) \in SUBSET Rows
        BY <1>1 DEF TypeOK, Visible
      <4> QED BY <1>1, <1>4, <4>1, KeyedRows
    <3>3. \A g : g = f => Outcome(w, g)' # {}
      BY <3>1, <3>2 DEF Outcome
    <3> QED BY <2>2, <3>1, <3>3, MentionsKept
  <2>4. Progress(w)'
    BY <1>1, <2>2 DEF Progress, At, Current
  <2> QED BY <2>1, <2>2, <2>3, <2>4, MoveStep
<1>5. CASE <<"statement", f>> \notin Visible(w)
  <2>1. /\ mine' = [mine EXCEPT ![w] = @ \cup {<<"statement", f>>, <<"link", f, s>>}]
        /\ run' = [run EXCEPT ![w].step = "mention", ![w].at = @ + 1, ![w].accepted = TRUE]
        /\ Unheld(w, <<"statement", f>>)
        /\ UNCHANGED <<rows, status, failures>>
    BY <1>5 DEF InsertStatement
  <2>2. /\ run' \in [Extractors -> Run]
        /\ \A v \in Extractors : v # w => run'[v] = run[v]
        /\ run'[w].step = "mention" /\ run'[w].at = run[w].at + 1
        /\ run'[w].accepted = TRUE
        /\ run'[w].batch = run[w].batch /\ run'[w].facts = run[w].facts
    <3> DEFINE n == run[w].at + 1
               t == TRUE
    <3>1. run' = [run EXCEPT ![w].step = "mention", ![w].at = n, ![w].accepted = t]
      BY <2>1
    <3>2. n \in Nat /\ t \in BOOLEAN /\ "mention" \in Steps
      BY <1>1 DEF Steps
    <3>3. n = run[w].at + 1 /\ t = TRUE
      OBVIOUS
    <3> HIDE DEF n, t
    <3> QED BY <1>1, <3>1, <3>2, <3>3, RunChanges
  <2> HIDE DEF f, s
  <2>3. /\ mine' \in [Extractors -> SUBSET Rows]
        /\ NoDuplicates' /\ RowsPaired'
        /\ \A v \in Extractors : v # w => mine'[v] = mine[v]
        /\ mine'[w] = mine[w] \cup {<<"statement", f>>, <<"link", f, s>>}
        /\ KeysOf(Visible(w))' = KeysOf(Visible(w)) \cup {<<"statement", f>>, <<"link", f>>}
    BY <1>1, <1>5, <2>1, StatementKeeps
  <2>4. LinksCurrent(w) /\ RefersToVisible(w)
    BY DEF FactInv
  <2>5. LinksCurrent(w)'
    <3>1. Current(w)' = s
      BY <2>2 DEF Current, s
    <3>2. run'[w].accepted /\ \E g \in Facts, t \in Sources : <<"link", g, t>> \in mine'[w]
      BY <1>1, <2>2, <2>3
    <3>3. ASSUME NEW g \in Facts, NEW t \in Sources, <<"link", g, t>> \in mine'[w]
          PROVE  t = s /\ g \in GroundedIn[t]
      <4>1. CASE <<"link", g, t>> \in mine[w]
        BY <2>4, <4>1 DEF LinksCurrent, s
      <4>2. CASE <<"link", g, t>> = <<"link", f, s>>
        BY <1>2, <4>2
      <4> QED BY <2>3, <3>3, <4>1, <4>2
    <3> QED BY <3>1, <3>2, <3>3 DEF LinksCurrent, GroundedIn
  <2>6. RefersToVisible(w)'
    <3>1. \A g \in Facts : <<"statement", g>> \in mine'[w] => <<"statement", g>> \in mine[w] \/ g = f
      BY <2>3
    <3>2. ASSUME NEW slug \in Slugs, <<"property", slug>> \in KeysOf(mine'[w]) PROVE Known(w, slug)
      <4>1. mine[w] \in SUBSET Rows /\ mine'[w] \in SUBSET Rows
        BY <1>1, <2>3 DEF TypeOK
      <4>2. PICK type \in ValueTypes : <<"property", slug, type>> \in mine'[w]
        BY <3>2, <4>1, KeyedRows
      <4>3. <<"property", slug, type>> \in mine[w]
        BY <2>3, <4>2
      <4> QED BY <2>4, <4>1, <4>3, KeyedRows DEF RefersToVisible
    <3> QED BY <1>3, <2>3, <2>4, <3>1, <3>2 DEF RefersToVisible, Known
  <2>7. Progress(w)'
    BY <1>1, <2>2 DEF Progress, At, Current, s
  <2>8. KeepsMentions(w)'
    <3>1. \A g : g = f => Outcome(w, g)' # {}
      BY <2>3 DEF Outcome
    <3> QED BY <2>2, <2>3, <3>1, MentionsKept DEF f
  <2> QED BY <2>1, <2>2, <2>3, <2>5, <2>6, <2>7, <2>8, OwnStep DEF WorkInv
<1> QED
  BY <1>4, <1>5

-----------------------------------------------------------------------------
(* The invariant.                                                          *)

LEMMA InitInv == Init => FactInv
<1> SUFFICES ASSUME Init PROVE FactInv
  OBVIOUS
<1> USE DEF Init
<1>1. PICK D \in SUBSET Slugs : Vocabulary \in [D -> ValueTypes]
  BY FactsType
<1>2. DOMAIN Vocabulary = D
  BY <1>1
<1>3. \A r \in rows : \E slug \in D : r = <<"property", slug, Vocabulary[slug]>>
  BY <1>2
<1>4. \A r \in rows : \E slug \in Slugs, type \in ValueTypes : r = <<"property", slug, type>>
  BY <1>1, <1>3
<1>5. TypeOK
  BY <1>4, IdleIsRun DEF TypeOK, Rows
<1>6. ReferencesHold
  BY <1>4, <1>5 DEF ReferencesHold
<1>7. RowsPaired
  BY <1>4 DEF RowsPaired
<1>8. NoDuplicates
  <2>1. ASSUME NEW r \in rows, NEW q \in rows, Key(r) = Key(q) PROVE r = q
    <3>1. PICK l \in D : r = <<"property", l, Vocabulary[l]>>
      BY <1>3
    <3>2. PICK m \in D : q = <<"property", m, Vocabulary[m]>>
      BY <1>3
    <3>3. Key(r) = <<"property", l>> /\ Key(q) = <<"property", m>>
      BY <3>1, <3>2 DEF Key
    <3> QED BY <2>1, <3>1, <3>2, <3>3
  <2>2. \A w \in Extractors, f \in Facts :
          <<"statement", f>> \in Visible(w) => \E s \in Sources : <<"link", f, s>> \in Visible(w)
    BY <1>4 DEF Visible
  <2> QED BY <2>1, <2>2 DEF NoDuplicates
<1>9. ExtractedIffLinked
  BY <1>4 DEF ExtractedIffLinked
<1>10. ASSUME NEW w \in Extractors PROVE WorkInv(w)
  <2>1. LinksCurrent(w)
    BY DEF LinksCurrent, Idle
  <2>2. RefersToVisible(w)
    BY DEF RefersToVisible, KeysOf
  <2>3. Progress(w)
    BY DEF Progress, At, Idle
  <2>4. KeepsMentions(w)
    BY DEF KeepsMentions, Idle
  <2> QED BY <2>1, <2>2, <2>3, <2>4 DEF WorkInv
<1> QED
  BY <1>6, <1>7, <1>8, <1>9, <1>10, InvParts DEF RowsInv

LEMMA NextInv == FactInv /\ [Next]_vars => FactInv'
<1> SUFFICES ASSUME FactInv, [Next]_vars PROVE FactInv'
  OBVIOUS
<1>1. failures \in Nat
  BY DEF FactInv, ReferencesHold, TypeOK
<1>2. ASSUME NEW w \in Extractors, Extract(w) PROVE FactInv'
  <2>1. CASE Begin(w)           BY <2>1, BeginKeeps
  <2>2. CASE Read(w)            BY <2>2, ReadKeeps
  <2>3. CASE End(w)             BY <2>3, EndKeeps
  <2>4. CASE RejectExcerpt(w)   BY <2>4, RejectExcerptKeeps
  <2>5. CASE EnsureEntity(w)    BY <2>5, EnsureEntityKeeps
  <2>6. CASE LookUpProperty(w)  BY <2>6, LookUpPropertyKeeps
  <2>7. CASE RegisterProperty(w)  BY <2>7, RegisterPropertyKeeps
  <2>8. CASE ProposeProperty(w) BY <2>8, ProposePropertyKeeps
  <2>9. CASE InsertStatement(w) BY <2>9, InsertStatementKeeps
  <2>10. CASE StatementError(w) BY <1>1, <2>10, AbortKeeps DEF StatementError
  <2>11. CASE WriteSource(w)    BY <2>11, CommitKeeps
  <2> QED BY <1>2, <2>1, <2>2, <2>3, <2>4, <2>5, <2>6, <2>7, <2>8, <2>9, <2>10, <2>11 DEF Extract
<1>3. ASSUME NEW w \in Extractors, Fail(w) PROVE FactInv'
  BY <1>1, <1>3, AbortKeeps DEF Fail
<1>4. ASSUME NEW w \in Extractors, DeadlockVictim(w) PROVE FactInv'
  BY <1>1, <1>4, AbortKeeps DEF DeadlockVictim
<1>5. CASE Approve
  BY <1>5, ApproveKeeps
<1>6. CASE UNCHANGED vars
  <2>1. NoDuplicates' /\ RowsPaired' /\ ReferencesHold' /\ ExtractedIffLinked'
    BY <1>6 DEF FactInv, vars, NoDuplicates, RowsPaired, ReferencesHold, TypeOK,
                ExtractedIffLinked, Visible, KeysOf
  <2>2. ASSUME NEW v \in Extractors PROVE WorkInv(v)'
    BY <1>6, InvParts, OthersKeep DEF vars, KeysKept, FactInv, ReferencesHold
  <2> QED BY <2>1, <2>2, InvPartsAfter DEF RowsInv
<1> QED
  BY <1>2, <1>3, <1>4, <1>5, <1>6 DEF Next

\* FactInv holds always (ExtractOnce and its transactions, extract.go:88-265,
\* with the approval of the guide in between).
THEOREM Invariance == Spec => []FactInv
BY InitInv, NextInv, PTL DEF Spec

-----------------------------------------------------------------------------
(* What it says of extraction.                                             *)

\* Whatever the interleaving, no row is written twice, and a statement comes
\* with a link: the three ON CONFLICT clauses do what the unique keys ask for
\* (extract.go:271, 342, 368).
THEOREM NeverTwice == Spec => []NoDuplicates
BY Invariance, PTL DEF FactInv

\* No foreign key of a statement dangles (extract.go:246).
THEOREM NeverDangling == Spec => []ReferencesHold
BY Invariance, PTL DEF FactInv

\* The status of a source and the links to it always agree (extract.go:188).
THEOREM StatusIsLinks == Spec => []ExtractedIffLinked
BY Invariance, PTL DEF FactInv

\* What was read with a good excerpt is a statement or waits for review
\* (extract.go:250, 326).
THEOREM NeverDropped == Spec => []NothingDropped
BY Invariance, PTL DEF FactInv

\* Only a commit and an approval change the committed rows and statuses.
LEMMA WhoCommits ==
  ASSUME Next
  PROVE  \/ UNCHANGED <<rows, status>>
         \/ \E w \in Extractors : WriteSource(w)
         \/ Approve
<1>1. ASSUME NEW w \in Extractors, Extract(w), ~WriteSource(w) PROVE UNCHANGED <<rows, status>>
  BY <1>1 DEF Extract, Begin, Read, End, RejectExcerpt, EnsureEntity, LookUpProperty,
       RegisterProperty, ProposeProperty, InsertStatement, StatementError
<1>2. ASSUME NEW w \in Extractors, Fail(w) \/ DeadlockVictim(w) PROVE UNCHANGED <<rows, status>>
  BY <1>2 DEF Fail, DeadlockVictim
<1> QED
  BY <1>1, <1>2 DEF Next

LEMMA VocabularyStep ==
  ASSUME FactInv, [Next]_vars, NEW slug \in Slugs,
         <<"property", slug>> \in KeysOf(rows') \ KeysOf(rows)
  PROVE  \/ slug \in DOMAIN Catalog
         \/ <<"approved", slug>> \in KeysOf(rows')
         \/ \E w \in Permissive : <<"property", slug>> \in KeysOf(mine[w])
<1>1. rows' # rows
  OBVIOUS
<1>2. ASSUME NEW w \in Extractors, WriteSource(w)
      PROVE  \/ slug \in DOMAIN Catalog
             \/ \E v \in Permissive : <<"property", slug>> \in KeysOf(mine[v])
  <2>1. <<"property", slug>> \in KeysOf(mine[w])
    BY <1>2, KeysGrow DEF WriteSource
  <2> QED BY <2>1 DEF FactInv, RefersToVisible, Known
<1>3. CASE Approve
  <2>1. PICK l \in Slugs, type \in ValueTypes :
          rows' = (rows \ {<<"pending", l, type>>})
                    \cup {<<"approved", l, type>>, <<"property", l, type>>}
    BY <1>3 DEF Approve
  <2>2. Key(<<"approved", l, type>>) = <<"approved", l>> /\ Key(<<"property", l, type>>) = <<"property", l>>
    BY DEF Key
  <2>3. <<"approved", l>> \in KeysOf(rows')
    BY <2>1, <2>2, KeyIsIn
  <2>4. PICK r \in rows' : <<"property", slug>> = Key(r)
    BY DEF KeysOf
  <2>5. r \notin rows
    BY <2>4, KeyIsIn
  <2>6. slug = l
    BY <2>1, <2>2, <2>4, <2>5
  <2> QED BY <2>3, <2>6
<1> QED
  BY <1>1, <1>2, <1>3, WhoCommits DEF vars

\* Strict extraction never widens the vocabulary, whoever else is at the same
\* slug (extract.go:326).
THEOREM NeverWidened == Spec => VocabularyGuarded
<1>1. FactInv /\ [Next]_vars =>
        [\A slug \in Slugs :
           <<"property", slug>> \in KeysOf(rows') \ KeysOf(rows) =>
             \/ slug \in DOMAIN Catalog
             \/ <<"approved", slug>> \in KeysOf(rows')
             \/ \E w \in Permissive : <<"property", slug>> \in KeysOf(mine[w])]_vars
  BY VocabularyStep
<1> QED
  BY <1>1, Invariance, PTL DEF Spec, VocabularyGuarded

\* A commit shows a reader one source with its new status and its links.
LEMMA CommitExtracts ==
  ASSUME FactInv, NEW w \in Extractors, WriteSource(w)
  PROVE  [Ledger!Extract]_(Ledger!ledger)
<1>1. /\ rows' = rows \cup mine[w]
      /\ status' = IF run[w].accepted THEN [status EXCEPT ![Current(w)] = "extracted"] ELSE status
      /\ TypeOK /\ LinksCurrent(w) /\ NoDuplicates
  BY DEF WriteSource, FactInv, ReferencesHold
<1>2. PICK s \in Sources : s = Current(w)
  <2>1. run[w].batch \in Seq(Sources) /\ run[w].batch # <<>>
    BY <1>1, MentionsTyped DEF FactInv, WriteSource, Progress, At
  <2> QED BY <2>1 DEF Current
<1> DEFINE facts == {f \in Facts : <<"link", f, s>> \in mine[w]}
           Row(t) == [Table!Collected(0) EXCEPT !.raw_text = "text", !.archive_url = "empty",
                                                !.status = status[t]]
           sources == [t \in Sources |-> Row(t)]
           evidence == {e \in Facts \X Sources : <<"link", e[1], e[2]>> \in rows}
<1>3. \A f \in Facts, t \in Sources : <<"link", f, t>> \in mine[w] => t = s /\ f \in GroundedIn[s]
  BY <1>1, <1>2 DEF LinksCurrent
<1>4. evidence' = evidence \cup {<<f, s>> : f \in facts}
  <2>1. ASSUME NEW f \in Facts, NEW t \in Sources
        PROVE  <<"link", f, t>> \in rows' <=> <<"link", f, t>> \in rows \/ (t = s /\ f \in facts)
    BY <1>1, <1>3
  <2>2. \A f \in Facts, t \in Sources : <<f, t>> \in {<<g, s>> : g \in facts} <=> t = s /\ f \in facts
    OBVIOUS
  <2>3. \A f \in Facts, t \in Sources :
          <<f, t>> \in evidence' <=> <<f, t>> \in evidence \/ <<f, t>> \in {<<g, s>> : g \in facts}
    BY <2>1, <2>2
  <2>4. \A f \in facts : <<f, s>> \in Facts \X Sources
    BY <1>2
  <2>5. evidence \subseteq Facts \X Sources /\ evidence' \subseteq Facts \X Sources
    OBVIOUS
  <2> HIDE DEF evidence, facts
  <2> QED BY <2>3, <2>4, <2>5
<1>5. CASE ~run[w].accepted
  <2>1. facts = {}
    BY <1>1, <1>2, <1>5 DEF LinksCurrent
  <2>2. evidence' = evidence
    BY <1>4, <2>1
  <2>3. status' = status
    BY <1>1, <1>5
  <2> QED BY <2>2, <2>3 DEF Ledger!ledger
<1>6. CASE run[w].accepted
  <2>1. facts # {} /\ facts \in SUBSET Facts /\ facts \subseteq GroundedIn[s]
    BY <1>1, <1>2, <1>3, <1>6 DEF LinksCurrent
  <2>2. ASSUME NEW f \in facts, NEW t \in Sources PROVE <<f, t>> \notin evidence
    <3>1. Key(<<"link", f, s>>) = Key(<<"link", f, t>>)
      BY DEF Key
    <3> QED BY <1>1, <3>1, KeyIsIn DEF NoDuplicates
  <2>3. Row(s).raw_text = "text"
    BY DEF Table!Collected, Table!NoRow
  <2>4. sources' = [sources EXCEPT ![s] = Ledger!WithFacts(@)]
    <3>1. status' = [status EXCEPT ![s] = "extracted"]
      BY <1>1, <1>2, <1>6
    <3>2. status \in [Sources -> {"archived", "extracted"}]
      BY <1>1 DEF TypeOK
    <3>3. ASSUME NEW t \in Sources, t # s PROVE status'[t] = status[t]
      BY <3>1, <3>2, <3>3
    <3>4. status'[s] = "extracted"
      BY <1>2, <3>1, <3>2
    <3>5. Row(s)' = Ledger!WithFacts(Row(s))
      BY <3>4 DEF Ledger!WithFacts, Table!Collected, Table!NoRow
    <3>6. \A t \in Sources : t # s => Row(t)' = Row(t)
      BY <3>3
    <3> HIDE DEF Row
    <3> QED BY <1>2, <3>5, <3>6
  <2>5. sources[s].raw_text = "text"
    BY <1>2, <2>3
  <2> HIDE DEF facts
  <2> QED BY <1>2, <1>4, <2>1, <2>2, <2>4, <2>5 DEF Ledger!Extract
<1> QED
  BY <1>5, <1>6

LEMMA LedgerStep ==
  ASSUME FactInv, [Next]_vars
  PROVE  [Ledger!Extract]_(Ledger!ledger)
<1>1. CASE UNCHANGED <<rows, status>>
  BY <1>1 DEF Ledger!ledger
<1>2. CASE Approve
  <2>1. UNCHANGED status /\ \A f \in Facts, s \in Sources : <<"link", f, s>> \in rows' <=> <<"link", f, s>> \in rows
    BY <1>2 DEF Approve
  <2>2. \A e \in Facts \X Sources : <<"link", e[1], e[2]>> \in rows' <=> <<"link", e[1], e[2]>> \in rows
    BY <2>1
  <2> QED BY <2>1, <2>2 DEF Ledger!ledger
<1> QED
  BY <1>1, <1>2, WhoCommits, CommitExtracts DEF vars

\* To a reader of sources and statement_sources, an extraction is one step,
\* Extract of SourceLedger, in which the status and links to facts of the text
\* that nothing was linked to before appear together (extract.go:164).
THEOREM ExtractionRefinement == Spec => ExtractsAtOnce
<1>1. FactInv /\ [Next]_vars => [Ledger!Extract]_(Ledger!ledger)
  BY LedgerStep
<1> QED
  BY <1>1, Invariance, PTL DEF Spec, ExtractsAtOnce
=============================================================================
