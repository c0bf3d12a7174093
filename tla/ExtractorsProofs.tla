-------------------------- MODULE ExtractorsProofs --------------------------
(***************************************************************************)
(* The facts of the extractors stand where they say: ExtractionInv is an   *)
(* inductive invariant of Extractors for any texts, patterns and answers,  *)
(* and any gazetteer of which the assumption holds.  The lemmas about      *)
(* strings come first; the recursion of ToLower is met with the function   *)
(* that LowerBytes spells out.                                             *)
(***************************************************************************)
EXTENDS Extractors, SequenceTheorems, FiniteSetTheorems, WellFoundedInduction, TLAPS

-----------------------------------------------------------------------------
(* Parts of valid strings.                                                 *)

LEMMA ByteType ==
  ASSUME NEW b \in Byte
  PROVE  /\ b = <<b[1], b[2]>> /\ b[1] \in DOMAIN Width
         /\ b[2] \in 1..4 /\ b[2] <= Width[b[1]] /\ Width[b[1]] \in 1..4
BY RunesAssumption DEF Byte

LEMMA BytePair ==
  ASSUME NEW r \in DOMAIN Width, NEW k \in 1..Width[r]
  PROVE  <<r, k>> \in Byte
<1>1. Width[r] \in 1..4
  BY RunesAssumption
<1>2. k \in 1..4 /\ k <= Width[r]
  BY <1>1
<1> QED BY <1>2 DEF Byte

LEMMA SliceProperties ==
  ASSUME NEW s \in Seq(Byte), NEW from \in Nat, NEW to \in Nat,
         from <= to, to <= Len(s)
  PROVE  /\ Slice(s, from, to) \in Seq(Byte)
         /\ Len(Slice(s, from, to)) = to - from
         /\ DOMAIN Slice(s, from, to) = 1..(to - from)
         /\ \A i \in 1..(to - from) : Slice(s, from, to)[i] = s[from + i]
<1>1. \A i \in (from + 1)..to : s[i] \in Byte
  OBVIOUS
<1>2. from + 1 \in Int /\ to \in Int /\ Len(s) \in Nat
  OBVIOUS
<1>3. /\ SubSeq(s, from + 1, to) \in Seq(Byte)
      /\ Len(SubSeq(s, from + 1, to)) = IF from + 1 <= to THEN to - (from + 1) + 1 ELSE 0
      /\ \A i \in 1..(to - (from + 1) + 1) : SubSeq(s, from + 1, to)[i] = s[(from + 1) + i - 1]
  BY <1>1, <1>2, SubSeqProperties
<1> QED BY <1>2, <1>3 DEF Slice

\* A rune that begins before a rune start ends before it, and one after it begins after.
LEMMA RunesDoNotCross ==
  ASSUME NEW s \in ValidStrings, NEW at, RuneStart(s, at), NEW i \in DOMAIN s
  PROVE  /\ i <= at => i - s[i][2] + Width[s[i][1]] <= at
         /\ i > at => i - s[i][2] >= at
<1> DEFINE k == s[i][2]
           w == Width[s[i][1]]
<1>1. /\ s \in Seq(Byte) /\ DOMAIN s = 1..Len(s) /\ Len(s) \in Nat
      /\ at \in 0..Len(s) /\ (at < Len(s) => s[at + 1][2] = 1)
  BY DEF RuneStart, ValidStrings
<1>2. s[i] \in Byte
  BY <1>1
<1>3. k \in 1..4 /\ w \in 1..4 /\ k <= w
  BY <1>2, ByteType
<1>4. i - k >= 0 /\ i - k + w <= Len(s)
  BY DEF ValidStrings, Valid, Whole
<1>5. \A j \in 1..w : s[i - k + j] = <<s[i][1], j>>
  BY DEF ValidStrings, Valid
<1> HIDE DEF k, w
<1>6. ASSUME NEW j \in 2..w, i - k + j = at + 1 PROVE FALSE
  <2>1. s[at + 1] = <<s[i][1], j>>
    BY <1>5, <1>6, <1>3
  <2>2. at < Len(s)
    BY <1>1, <1>3, <1>4, <1>6
  <2> QED BY <1>1, <1>3, <2>1, <2>2
<1>7. i \in Nat
  BY <1>1
<1>8. i <= at => i - k + w <= at
  <2> SUFFICES ASSUME i <= at, ~(i - k + w <= at) PROVE FALSE
    BY <1>1, <1>3, <1>7
  <2>1. at + 1 - (i - k) \in 2..w
    BY <1>1, <1>3, <1>7
  <2>2. i - k + (at + 1 - (i - k)) = at + 1
    BY <1>1, <1>3, <1>7
  <2> QED BY <1>6, <2>1, <2>2
<1>9. i > at => i - k >= at
  <2> SUFFICES ASSUME i > at, ~(i - k >= at) PROVE FALSE
    BY <1>1, <1>3, <1>7
  <2>1. at + 1 - (i - k) \in 2..w
    BY <1>1, <1>3, <1>7
  <2>2. i - k + (at + 1 - (i - k)) = at + 1
    BY <1>1, <1>3, <1>7
  <2> QED BY <1>6, <2>1, <2>2
<1> QED BY <1>8, <1>9 DEF k, w

\* What is cut where runes start is a valid string.
LEMMA SlicesAreValid ==
  ASSUME NEW s \in ValidStrings, NEW from, NEW to,
         RuneStart(s, from), RuneStart(s, to), from <= to
  PROVE  Slice(s, from, to) \in ValidStrings
<1> DEFINE t == Slice(s, from, to)
<1>1. /\ s \in Seq(Byte) /\ DOMAIN s = 1..Len(s) /\ Len(s) \in Nat
      /\ from \in Nat /\ to \in Nat /\ to <= Len(s)
  BY DEF RuneStart, ValidStrings
<1>2. /\ t \in Seq(Byte) /\ Len(t) = to - from /\ DOMAIN t = 1..(to - from)
      /\ \A i \in 1..(to - from) : t[i] = s[from + i]
  BY <1>1, SliceProperties
<1> HIDE DEF t
<1>3. ASSUME NEW i \in DOMAIN t
      PROVE  Whole(t, i) /\ \A j \in 1..Width[t[i][1]] : t[i - t[i][2] + j] = <<t[i][1], j>>
  <2> DEFINE n == from + i
             k == s[n][2]
             w == Width[s[n][1]]
  <2>1. i \in Nat /\ i >= 1 /\ i <= to - from /\ n \in DOMAIN s /\ n <= to /\ n > from
    BY <1>1, <1>2
  <2>2. s[n] \in Byte
    BY <1>1, <2>1
  <2>3. k \in 1..4 /\ w \in 1..4 /\ k <= w
    BY <2>2, ByteType
  <2>4. n - k + w <= to /\ n - k >= from
    BY <2>1, RunesDoNotCross
  <2>5. t[i] = s[n]
    BY <1>2, <2>1
  <2>6. n = from + i
    OBVIOUS
  <2> HIDE DEF n, k, w
  <2>7. Whole(t, i)
    <3>1. i - k >= 0 /\ i - k + w <= to - from
      <4>1. i \in Nat /\ from \in Nat /\ to \in Nat /\ k \in 1..4 /\ w \in 1..4
        BY <1>1, <2>1, <2>3
      <4> QED BY <2>4, <2>6, <4>1
    <3>2. t[i][2] = k /\ Width[t[i][1]] = w
      BY <2>5 DEF k, w
    <3>3. Len(t) = to - from
      BY <1>2
    <3> QED BY <3>1, <3>2, <3>3 DEF Whole
  <2>8. ASSUME NEW j \in 1..w PROVE t[i - k + j] = <<s[n][1], j>>
    <3>1. from \in Nat /\ to \in Nat /\ i \in Nat /\ k \in Nat /\ w \in Nat /\ j \in Nat /\ j >= 1 /\ j <= w
      BY <1>1, <2>1, <2>3
    <3>2. from + (i - k + j) = n - k + j /\ n - k + j <= to /\ n - k + j > from
      BY <2>6, <2>4, <3>1
    <3>3. i - k + j \in 1..(to - from) /\ from + (i - k + j) = n - k + j
      BY <3>1, <3>2
    <3>4. s[n - k + j] = <<s[n][1], j>>
      BY <2>1 DEF ValidStrings, Valid, k, w
    <3> QED BY <1>2, <3>3, <3>4
  <2> QED BY <2>5, <2>7, <2>8 DEF k, w
<1> QED BY <1>2, <1>3 DEF t, ValidStrings, Valid

\* Where a valid string stands in another one, runes of that one begin and end.
LEMMA OccurrencesAtRunes ==
  ASSUME NEW s \in ValidStrings, NEW t \in ValidStrings, t # <<>>,
         NEW i \in Nat, Occurs(s, t, i)
  PROVE  RuneStart(s, i) /\ RuneStart(s, i + Len(t))
<1> DEFINE n == Len(t)
<1>1. /\ s \in Seq(Byte) /\ t \in Seq(Byte) /\ DOMAIN s = 1..Len(s) /\ Len(s) \in Nat
      /\ DOMAIN t = 1..n /\ n \in Nat /\ n # 0
  BY DEF ValidStrings
<1>2. i + n <= Len(s) /\ \A j \in 1..n : s[i + j] = t[j]
  <2>1. i + n <= Len(s) /\ Slice(s, i, i + n) = t
    BY DEF Occurs
  <2>2. \A j \in 1..((i + n) - i) : Slice(s, i, i + n)[j] = s[i + j]
    <3>1. i + n \in Nat /\ i <= i + n
      BY <1>1
    <3> HIDE DEF n
    <3> QED BY <1>1, <2>1, <3>1, SliceProperties
  <2> QED BY <1>1, <2>1, <2>2
<1>3. \A j \in 1..n : /\ t[j] \in Byte
                      /\ j - t[j][2] >= 0 /\ j - t[j][2] + Width[t[j][1]] <= n
                      /\ t[j][2] \in 1..4 /\ t[j][2] <= Width[t[j][1]]
                      /\ Width[t[j][1]] \in 1..4
  <2> TAKE j \in 1..n
  <2>1. t[j] \in Byte
    BY <1>1
  <2>2. Whole(t, j)
    BY <1>1 DEF ValidStrings, Valid
  <2> QED BY <2>1, <2>2, ByteType DEF Whole
<1> HIDE DEF n
<1>4. RuneStart(s, i)
  <2>1. t[1][2] = 1
    BY <1>1, <1>3
  <2>2. s[i + 1] = t[1]
    BY <1>1, <1>2
  <2> QED BY <1>1, <1>2, <2>1, <2>2 DEF RuneStart
<1>5. RuneStart(s, i + n)
  <2> SUFFICES ASSUME i + n < Len(s) PROVE s[i + n + 1][2] = 1
    BY <1>1, <1>2 DEF RuneStart
  <2> DEFINE m == i + n + 1
             k == s[m][2]
             w == Width[s[m][1]]
  <2>1. m \in DOMAIN s /\ m \in Nat
    BY <1>1
  <2>2. s[m] \in Byte
    BY <1>1, <2>1
  <2>3. k \in 1..4 /\ w \in 1..4 /\ k <= w
    BY <2>2, ByteType
  <2>4. m - k >= 0 /\ \A j \in 1..w : s[m - k + j] = <<s[m][1], j>>
    BY <2>1 DEF ValidStrings, Valid, Whole
  <2> SUFFICES ASSUME k # 1 PROVE FALSE
    OBVIOUS
  <2>5. k - 1 \in 1..w /\ m - k + (k - 1) = i + n
    BY <1>1, <2>1, <2>3
  <2>6. s[i + n] = <<s[m][1], k - 1>>
    BY <2>4, <2>5
  <2>7. s[i + n] = t[n]
    BY <1>1, <1>2
  <2>8. n - (k - 1) + w <= n
    BY <1>1, <1>3, <2>6, <2>7
  <2> QED BY <1>1, <2>3, <2>8
<1> QED BY <1>4, <1>5 DEF n

-----------------------------------------------------------------------------
(* Offsets in bytes and in runes.                                          *)

\* The runes that begin in the first `at` bytes.
RunesBefore(s, at) == {j \in 1..at : s[j][2] = 1}

LEMMA CharOffset ==
  ASSUME NEW s \in ValidStrings, NEW at, RuneStart(s, at)
  PROVE  /\ byteOffsetToCharOffset(s, at) = Cardinality(RunesBefore(s, at))
         /\ byteOffsetToCharOffset(s, at) \in Nat
<1>1. /\ s \in Seq(Byte) /\ Len(s) \in Nat /\ at \in Nat /\ at <= Len(s) /\ 0 <= at
  BY DEF RuneStart, ValidStrings
<1> DEFINE t == Slice(s, 0, at)
<1>2. byteOffsetToCharOffset(s, at) = RuneCount(t)
  <2>1. CASE at >= Len(s)
    BY <1>1, <2>1 DEF byteOffsetToCharOffset
  <2>2. CASE ~(at >= Len(s))
    BY <2>2 DEF byteOffsetToCharOffset
  <2> QED BY <2>1, <2>2
<1>3. RuneStart(s, 0)
  <2>1. 0 < Len(s) => s[0 + 1][2] = 1
    <3> SUFFICES ASSUME 0 < Len(s) PROVE s[1][2] = 1
      OBVIOUS
    <3>1. 1 \in DOMAIN s /\ s[1] \in Byte
      BY <1>1
    <3>2. s[1][2] \in 1..4 /\ 1 - s[1][2] >= 0
      BY <3>1, ByteType DEF ValidStrings, Valid, Whole
    <3> QED BY <3>2
  <2> QED BY <1>1, <2>1 DEF RuneStart
<1>4. t \in ValidStrings
  BY <1>1, <1>3, SlicesAreValid
<1>5. DOMAIN t = 1..at /\ \A i \in 1..at : t[i] = s[i]
  <2>1. /\ DOMAIN Slice(s, 0, at) = 1..(at - 0)
        /\ \A i \in 1..(at - 0) : Slice(s, 0, at)[i] = s[0 + i]
    BY <1>1, SliceProperties
  <2>2. at - 0 = at /\ \A i \in 1..at : 0 + i = i
    BY <1>1
  <2> QED BY <2>1, <2>2
<1> HIDE DEF t
<1>6. \A i \in DOMAIN t : Whole(t, i)
  BY <1>4 DEF ValidStrings, Valid
<1>7. {i \in DOMAIN t : Whole(t, i) => t[i][2] = 1} = RunesBefore(s, at)
  BY <1>5, <1>6 DEF RunesBefore
<1>8. Cardinality(RunesBefore(s, at)) \in Nat
  <2>1. IsFiniteSet(1..at)
    BY <1>1, FS_Interval
  <2>2. RunesBefore(s, at) \subseteq 1..at
    BY DEF RunesBefore
  <2> QED BY <2>1, <2>2, FS_Subset, FS_CardinalityType
<1> QED BY <1>2, <1>7, <1>8 DEF RuneCount

\* Between two places where runes start there is a rune.
LEMMA RunesBeforeGrow ==
  ASSUME NEW s \in ValidStrings, NEW a, NEW b, RuneStart(s, a), RuneStart(s, b), a < b
  PROVE  Cardinality(RunesBefore(s, a)) < Cardinality(RunesBefore(s, b))
<1>1. a \in Nat /\ b \in Nat /\ b <= Len(s) /\ Len(s) \in Nat
  BY DEF RuneStart, ValidStrings
<1>2. IsFiniteSet(RunesBefore(s, b))
  <2>1. IsFiniteSet(1..b)
    BY <1>1, FS_Interval
  <2> QED BY <2>1, FS_Subset DEF RunesBefore
<1>3. RunesBefore(s, a) \subseteq RunesBefore(s, b)
  BY <1>1 DEF RunesBefore
<1>4. a + 1 \in RunesBefore(s, b) /\ a + 1 \notin RunesBefore(s, a)
  <2>1. s[a + 1][2] = 1
    BY <1>1 DEF RuneStart
  <2> QED BY <1>1, <2>1 DEF RunesBefore
<1>5. RunesBefore(s, a) # RunesBefore(s, b)
  BY <1>4
<1>6. IsFiniteSet(RunesBefore(s, a))
  BY <1>2, <1>3, FS_Subset
<1>7. /\ Cardinality(RunesBefore(s, a)) <= Cardinality(RunesBefore(s, b))
      /\ Cardinality(RunesBefore(s, a)) = Cardinality(RunesBefore(s, b))
           => RunesBefore(s, a) = RunesBefore(s, b)
  BY <1>2, <1>3, FS_Subset
<1>8. Cardinality(RunesBefore(s, a)) \in Nat /\ Cardinality(RunesBefore(s, b)) \in Nat
  BY <1>2, <1>6, FS_CardinalityType
<1> QED BY <1>5, <1>7, <1>8

\* The way back from runes to bytes.
LEMMA CharOffsetInverse ==
  ASSUME NEW s \in ValidStrings, NEW at, RuneStart(s, at)
  PROVE  runeOffsetToByteOffset(s, byteOffsetToCharOffset(s, at)) = at
<1> DEFINE c == byteOffsetToCharOffset(s, at)
           offsets == {i \in 0..Len(s) : RuneStart(s, i) /\ Cardinality(RunesBefore(s, i)) = c}
<1>1. at \in 0..Len(s) /\ Len(s) \in Nat
  BY DEF RuneStart, ValidStrings
<1>2. offsets = {at}
  <2>1. at \in offsets
    BY <1>1, CharOffset
  <2>2. ASSUME NEW i \in offsets PROVE i = at
    <3>1. RuneStart(s, i) /\ Cardinality(RunesBefore(s, i)) = Cardinality(RunesBefore(s, at))
      BY <2>1, <2>2
    <3>2. i \in Nat /\ at \in Nat
      BY <1>1, <2>2
    <3>3. Cardinality(RunesBefore(s, i)) \in Nat
      BY <3>1, CharOffset
    <3>4. ~(i < at)
      BY <3>1, <3>3, RunesBeforeGrow
    <3>5. ~(at < i)
      BY <3>1, <3>3, RunesBeforeGrow
    <3> QED BY <3>2, <3>4, <3>5
  <2> HIDE DEF offsets
  <2> QED BY <2>1, <2>2
<1>3. Min({at}) = at
  BY <1>1 DEF Min
<1>4. runeOffsetToByteOffset(s, c) = IF offsets = {} THEN None ELSE Min(offsets)
  BY DEF runeOffsetToByteOffset, RunesBefore
<1> HIDE DEF offsets
<1> QED BY <1>2, <1>3, <1>4

\* The excerpt between two byte offsets where runes start is verified at the rune
\* offsets of both: what the extractors write and what llm.go checks agree.
THEOREM ExcerptsVerified ==
  ASSUME NEW s \in ValidStrings, NEW start, NEW end,
         RuneStart(s, start), RuneStart(s, end), start <= end
  PROVE  VerifyExcerptOffset(s, Slice(s, start, end),
                             byteOffsetToCharOffset(s, start), byteOffsetToCharOffset(s, end))
<1> DEFINE from == byteOffsetToCharOffset(s, start)
           to   == byteOffsetToCharOffset(s, end)
<1>1. start \in Nat /\ end \in Nat
  BY DEF RuneStart, ValidStrings
<1>2. from \in Nat /\ to \in Nat
  BY CharOffset
<1>3. from <= to
  <2>1. CASE start = end
    BY <1>2, <2>1
  <2>2. CASE start < end
    <3>1. Cardinality(RunesBefore(s, start)) < Cardinality(RunesBefore(s, end))
      BY <2>2, RunesBeforeGrow
    <3>2. from < to
      BY <3>1, CharOffset
    <3> QED BY <1>2, <3>2
  <2> QED BY <1>1, <2>1, <2>2
<1>4. runeOffsetToByteOffset(s, from) = start /\ runeOffsetToByteOffset(s, to) = end
  BY CharOffsetInverse
<1> HIDE DEF from, to
<1>5. start # None /\ end # None
  BY <1>1 DEF None
<1>6. from >= 0 /\ to >= from
  BY <1>2, <1>3
<1>7. VerifyExcerptOffset(s, Slice(s, start, end), from, to)
  BY <1>4, <1>5, <1>6 DEF VerifyExcerptOffset
<1> QED BY <1>7 DEF from, to

-----------------------------------------------------------------------------
(* Lower case.                                                             *)

\* Every byte on its own, where lower case keeps the width.
LowerBytes(s) == [i \in 1..Len(s) |-> <<LowerCase[s[i][1]], s[i][2]>>]

LEMMA LowerBytesType ==
  ASSUME NEW s \in ValidStrings, KeepsWidth(s)
  PROVE  /\ LowerBytes(s) \in ValidStrings
         /\ Len(LowerBytes(s)) = Len(s) /\ DOMAIN LowerBytes(s) = DOMAIN s
         /\ \A i \in DOMAIN s : LowerBytes(s)[i][2] = s[i][2]
         /\ \A i : RuneStart(LowerBytes(s), i) <=> RuneStart(s, i)
<1> DEFINE t == LowerBytes(s)
<1>1. s \in Seq(Byte) /\ DOMAIN s = 1..Len(s) /\ Len(s) \in Nat
  BY DEF ValidStrings
<1>2. DOMAIN t = 1..Len(s) /\ \A i \in 1..Len(s) : t[i] = <<LowerCase[s[i][1]], s[i][2]>>
  BY DEF LowerBytes
<1>3. \A i \in 1..Len(s) : /\ s[i][1] \in DOMAIN Width /\ s[i][2] \in 1..4
                           /\ s[i][2] <= Width[s[i][1]]
                           /\ LowerCase[s[i][1]] \in DOMAIN Width
                           /\ Width[LowerCase[s[i][1]]] = Width[s[i][1]]
  <2> TAKE i \in 1..Len(s)
  <2>1. s[i] \in Byte
    BY <1>1
  <2> QED BY <1>1, <2>1, ByteType, RunesAssumption DEF KeepsWidth
<1>4. \A i \in 1..Len(s) : t[i] \in Byte
  <2> TAKE i \in 1..Len(s)
  <2>1. Width[s[i][1]] \in 1..4 /\ s[i][2] \in 1..Width[LowerCase[s[i][1]]]
    BY <1>3, RunesAssumption
  <2>2. <<LowerCase[s[i][1]], s[i][2]>> \in Byte
    BY <1>3, <2>1, BytePair
  <2> QED BY <1>2, <2>2
<1>5. t \in Seq(Byte) /\ Len(t) = Len(s)
  BY <1>1, <1>4 DEF LowerBytes
<1> HIDE DEF t
<1>6. ASSUME NEW i \in DOMAIN t
      PROVE  Whole(t, i) /\ \A j \in 1..Width[t[i][1]] : t[i - t[i][2] + j] = <<t[i][1], j>>
  <2>1. i \in 1..Len(s) /\ Whole(s, i)
        /\ \A j \in 1..Width[s[i][1]] : s[i - s[i][2] + j] = <<s[i][1], j>>
    BY <1>1, <1>2 DEF ValidStrings, Valid
  <2>2. /\ t[i][2] = s[i][2] /\ t[i][1] = LowerCase[s[i][1]]
        /\ Width[t[i][1]] = Width[s[i][1]]
    BY <1>2, <1>3, <2>1
  <2>3. Whole(t, i)
    BY <1>5, <2>1, <2>2 DEF Whole
  <2>4. ASSUME NEW j \in 1..Width[s[i][1]]
        PROVE  t[i - s[i][2] + j] = <<LowerCase[s[i][1]], j>>
    <3> DEFINE n == i - s[i][2] + j
    <3>1. s[n] = <<s[i][1], j>>
      BY <2>1
    <3>2. n \in 1..Len(s)
      <4>1. Width[s[i][1]] \in Nat /\ s[i][2] \in Nat /\ i \in Nat /\ j \in Nat /\ j >= 1
            /\ j <= Width[s[i][1]]
        BY <1>1, <1>3, <2>1, ByteType
      <4>2. i - s[i][2] >= 0 /\ i - s[i][2] + Width[s[i][1]] <= Len(s)
        BY <2>1 DEF Whole
      <4> QED BY <1>1, <4>1, <4>2
    <3> HIDE DEF n
    <3>3. t[n] = <<LowerCase[s[i][1]], j>>
      BY <1>2, <3>1, <3>2
    <3> QED BY <3>3 DEF n
  <2> QED BY <2>2, <2>3, <2>4
<1>7. t \in ValidStrings
  BY <1>5, <1>6 DEF ValidStrings, Valid
<1>8. \A i \in DOMAIN s : t[i][2] = s[i][2]
  BY <1>1, <1>2
<1>9. ASSUME NEW i PROVE RuneStart(t, i) <=> RuneStart(s, i)
  <2>1. i \in 0..Len(s) /\ i < Len(s) => i + 1 \in DOMAIN s
    BY <1>1
  <2> QED BY <1>1, <1>5, <1>8, <2>1 DEF RuneStart
<1> QED BY <1>1, <1>2, <1>5, <1>7, <1>8, <1>9 DEF t

\* One number in a set of numbers is the least.
LEMMA LeastExists ==
  ASSUME NEW S \in SUBSET Nat, S # {}
  PROVE  \E x \in S : \A y \in S : x <= y
<1> DEFINE R == {p \in Nat \X Nat : p[1] < p[2]}
<1>1. IsWellFoundedOn(R, Nat)
  BY NatLessThanWellFounded DEF OpToRel
<1> HIDE DEF R
<1>2. PICK x \in S : \A y \in S : <<y, x>> \notin R
  BY <1>1, WFMin
<1>3. ASSUME NEW y \in S PROVE x <= y
  <2>1. <<y, x>> \in Nat \X Nat /\ x \in Nat /\ y \in Nat
    OBVIOUS
  <2>2. ~(y < x)
    BY <1>2, <2>1 DEF R
  <2> QED BY <2>1, <2>2
<1> QED BY <1>3

\* Where lower case keeps its width, strings.ToLower changes every rune where it
\* stands, so positions in its result are positions in the text (gazetteer.go:74).
\* It writes a rune when it reads its first byte: after i bytes there is the lower
\* case of all runes that have begun.
THEOREM ToLowerIsBytewise ==
  ASSUME NEW s \in ValidStrings, KeepsWidth(s)
  PROVE  ToLower(s) = LowerBytes(s)
<1> DEFINE l == LowerBytes(s)
           End(i) == i - s[i][2] + Width[s[i][1]]
           f == [i \in 0..Len(s) |-> IF i = 0 THEN <<>> ELSE SubSeq(l, 1, End(i))]
           Is(g) == g = [i \in 0..Len(s) |-> IF i = 0 THEN <<>> ELSE g[i - 1] \o Lowered(s, i)]
<1>1. s \in Seq(Byte) /\ DOMAIN s = 1..Len(s) /\ Len(s) \in Nat
  BY DEF ValidStrings
<1>2. /\ l \in ValidStrings /\ l \in Seq(Byte) /\ Len(l) = Len(s) /\ DOMAIN l = 1..Len(s)
      /\ \A i \in 1..Len(s) : l[i] = <<LowerCase[s[i][1]], s[i][2]>>
  BY <1>1, LowerBytesType DEF LowerBytes, ValidStrings
<1>3. \A i \in 1..Len(s) : /\ s[i][1] \in DOMAIN Width /\ s[i][2] \in 1..4
                           /\ s[i][2] <= Width[s[i][1]] /\ Width[s[i][1]] \in 1..4
                           /\ Width[LowerCase[s[i][1]]] = Width[s[i][1]]
                           /\ i - s[i][2] >= 0 /\ End(i) <= Len(s)
                           /\ \A j \in 1..Width[s[i][1]] : s[i - s[i][2] + j] = <<s[i][1], j>>
                           /\ Lowered(s, i) = IF s[i][2] > 1 THEN <<>>
                                              ELSE Encoded(LowerCase[s[i][1]])
  <2> TAKE i \in 1..Len(s)
  <2>1. s[i] \in Byte
    BY <1>1
  <2>2. Whole(s, i) /\ \A j \in 1..Width[s[i][1]] : s[i - s[i][2] + j] = <<s[i][1], j>>
    BY <1>1 DEF ValidStrings, Valid
  <2>3. Lowered(s, i) = IF s[i][2] > 1 THEN <<>> ELSE Encoded(LowerCase[s[i][1]])
    BY <2>2 DEF Lowered, RuneAt
  <2> QED BY <1>1, <2>1, <2>2, <2>3, ByteType DEF KeepsWidth, Whole
<1> HIDE DEF l
<1>4. ASSUME NEW i \in 1..Len(s) PROVE f[i] = f[i - 1] \o Lowered(s, i)
  <2>1. i \in 0..Len(s) /\ i - 1 \in 0..Len(s) /\ i \in Nat /\ i # 0
    BY <1>1
  <2> DEFINE r == s[i][1]
             k == s[i][2]
  <2>width. /\ k \in 1..4 /\ Width[r] \in 1..4 /\ k <= Width[r] /\ i - k >= 0
        /\ i - k + Width[r] <= Len(s) /\ End(i) = i - k + Width[r]
    BY <1>3
  <2>bytes. \A j \in 1..Width[r] : s[i - k + j] = <<r, j>>
    BY <1>3
  <2>2. f[i] = SubSeq(l, 1, End(i))
    BY <2>1
  <2>3. ASSUME s[i][2] > 1 PROVE f[i] = f[i - 1] \o Lowered(s, i)
    <3>1. k - 1 \in 1..Width[r] /\ i - k + (k - 1) = i - 1
      <4>1. k > 1
        BY <2>3
      <4> HIDE DEF k, r
      <4> QED BY <2>1, <2>width, <4>1
    <3>2. s[i - 1] = <<s[i][1], s[i][2] - 1>>
      BY <1>3, <3>1
    <3>3. i - 1 # 0
      BY <1>3, <2>1, <2>3
    <3>4. End(i - 1) = End(i)
      <4>1. s[i - 1][1] = r /\ s[i - 1][2] = k - 1
        BY <3>2
      <4>2. End(i - 1) = i - 1 - (k - 1) + Width[r]
        BY <4>1
      <4> QED BY <2>width, <2>1, <4>2
    <3>5. f[i - 1] = SubSeq(l, 1, End(i))
      BY <2>1, <3>3, <3>4
    <3>6. SubSeq(l, 1, End(i)) \in Seq(Byte)
      <4>1. End(i) \in Nat /\ 0 <= End(i) /\ End(i) <= Len(l)
        <5>1. Len(l) = Len(s)
          BY <1>2
        <5>2. i \in Nat /\ End(i) <= Len(l)
          BY <2>width, <2>1, <5>1
        <5> HIDE DEF End, k, r
        <5> QED BY <2>width, <5>2
      <4> HIDE DEF End
      <4>2. Slice(l, 0, End(i)) \in Seq(Byte)
        BY <1>2, <4>1, SliceProperties
      <4> QED BY <4>2 DEF Slice
    <3>7. Lowered(s, i) = <<>>
      BY <1>3, <2>3
    <3> HIDE DEF f, End
    <3> QED BY <2>2, <3>5, <3>6, <3>7
  <2>4. ASSUME s[i][2] = 1 PROVE f[i] = f[i - 1] \o Lowered(s, i)
    <3> DEFINE w == Width[s[i][1]]
    <3>1. Lowered(s, i) = [j \in 1..w |-> <<LowerCase[s[i][1]], j>>]
      BY <1>3, <2>4 DEF Encoded
    <3>2. \A j \in 1..w : l[i - 1 + j] = <<LowerCase[s[i][1]], j>>
      <4> TAKE j \in 1..w
      <4>1. i - 1 + j \in 1..Len(s) /\ s[i - 1 + j] = <<s[i][1], j>>
        <5>1. i - 1 + j \in 1..Len(s) /\ i - k + j = i - 1 + j
          BY <1>1, <2>width, <2>1, <2>4
        <5> QED BY <2>bytes, <5>1
      <4> QED BY <1>2, <4>1
    <3>3. f[i - 1] = SubSeq(l, 1, i - 1)
      <4>1. CASE i = 1
        <5>1. SubSeq(l, 1, 0) = <<>>
          BY <1>2, SubSeqEmpty
        <5> QED BY <2>1, <4>1, <5>1
      <4>2. CASE i # 1
        <5>1. i - 1 \in 1..Len(s)
          BY <2>1, <4>2
        <5>2. RuneStart(s, i - 1)
          BY <1>1, <2>1, <2>4 DEF RuneStart
        <5>3. End(i - 1) <= i - 1
          <6>1. i - 1 \in DOMAIN s /\ i - 1 <= i - 1
            BY <1>1, <5>1
          <6> QED BY <5>2, <6>1, RunesDoNotCross
        <5>4. End(i - 1) = i - 1
          <6>1. PICK x \in 1..4, y \in 1..4 :
                  x = s[i - 1][2] /\ y = Width[s[i - 1][1]] /\ x <= y
            BY <1>3, <5>1
          <6>2. End(i - 1) = i - 1 - x + y /\ i - 1 \in Nat
            BY <5>1, <6>1
          <6> HIDE DEF End
          <6> QED BY <5>3, <6>1, <6>2
        <5> QED BY <2>1, <5>1, <5>4
      <4> QED BY <4>1, <4>2
    <3>4. End(i) = i - 1 + w /\ w \in 1..4 /\ i - 1 + w <= Len(s)
      BY <1>3, <2>1, <2>4
    <3>5. SubSeq(l, 1, i - 1 + w) = SubSeq(l, 1, i - 1) \o [j \in 1..w |-> <<LowerCase[s[i][1]], j>>]
      <4> HIDE DEF w, f, End
      <4> DEFINE u == [j \in 1..w |-> <<LowerCase[s[i][1]], j>>]
                 a == SubSeq(l, 1, i - 1 + w)
                 b == SubSeq(l, 1, i - 1)
      <4>1. u \in Seq(Byte) /\ Len(u) = w
        <5>1. \A j \in 1..w : u[j] \in Byte
          <6> TAKE j \in 1..w
          <6>1. i - 1 + j \in 1..Len(l)
            BY <1>1, <1>2, <2>1, <3>4
          <6>2. l[i - 1 + j] \in Byte
            BY <1>2, <6>1
          <6> QED BY <3>2, <6>2
        <5> QED BY <3>4, <5>1
      <4>2. /\ a \in Seq(Byte) /\ Len(a) = i - 1 + w
            /\ \A j \in 1..(i - 1 + w) : a[j] = l[j]
        BY <1>1, <1>2, <2>1, <3>4
      <4>3. /\ b \in Seq(Byte) /\ Len(b) = i - 1
            /\ \A j \in 1..(i - 1) : b[j] = l[j]
        BY <1>1, <1>2, <2>1, <3>4
      <4> HIDE DEF a, b
      <4>4. /\ Len(b \o u) = i - 1 + w
            /\ \A j \in 1..(i - 1 + w) : (b \o u)[j] = a[j]
        <5>1. \A j \in 1..w : u[j] = l[i - 1 + j]
          BY <3>2
        <5> HIDE DEF u
        <5>2. \A j \in 1..(i - 1 + w) : (b \o u)[j] = IF j <= i - 1 THEN b[j] ELSE u[j - (i - 1)]
          BY <2>1, <3>4, <4>1, <4>3
        <5>3. Len(b \o u) = i - 1 + w
          BY <2>1, <3>4, <4>1, <4>3
        <5>4. ASSUME NEW j \in 1..(i - 1 + w), ~(j <= i - 1)
              PROVE  u[j - (i - 1)] = l[j]
          <6>1. j - (i - 1) \in 1..w /\ i - 1 + (j - (i - 1)) = j
            BY <2>1, <3>4, <5>4
          <6> QED BY <5>1, <6>1
        <5>5. \A j \in 1..(i - 1 + w) : j <= i - 1 => b[j] = l[j]
          BY <2>1, <3>4, <4>3
        <5> QED BY <4>2, <5>2, <5>3, <5>4, <5>5
      <4>5. b \o u \in Seq(Byte)
        BY <4>1, <4>3
      <4>6. a = b \o u
        <5> HIDE DEF u
        <5> QED BY <2>1, <3>4, <4>2, <4>4, <4>5, SeqEqual
      <4> QED BY <4>6 DEF a, b
    <3> QED BY <2>2, <3>1, <3>3, <3>4, <3>5
  <2>5. s[i][2] > 1 \/ s[i][2] = 1
    BY <2>width
  <2> QED BY <2>3, <2>4, <2>5
<1>5. Is(f)
  <2> DEFINE h == [i \in 0..Len(s) |-> IF i = 0 THEN <<>> ELSE f[i - 1] \o Lowered(s, i)]
  <2>1. ASSUME NEW i \in 0..Len(s) PROVE f[i] = h[i]
    <3>1. CASE i = 0
      BY <2>1, <3>1
    <3>2. CASE i # 0
      <4>1. i \in 1..Len(s)
        BY <1>1, <2>1, <3>2
      <4>2. f[i] = f[i - 1] \o Lowered(s, i)
        BY <1>4, <4>1
      <4> HIDE DEF f
      <4> QED BY <2>1, <3>2, <4>2
    <3> QED BY <3>1, <3>2
  <2>2. f = [i \in 0..Len(s) |-> f[i]] /\ h = [i \in 0..Len(s) |-> h[i]]
    OBVIOUS
  <2>3. f = h
    <3> HIDE DEF f, h
    <3> QED BY <2>1, <2>2
  <2> QED BY <2>3
<1> HIDE DEF f
<1>6. ASSUME NEW g, Is(g) PROVE \A i \in 0..Len(s) : g[i] = f[i]
  <2> DEFINE Bad == {i \in 0..Len(s) : g[i] # f[i]}
  <2> SUFFICES ASSUME Bad # {} PROVE FALSE
    OBVIOUS
  <2>1. Bad \in SUBSET Nat
    BY <1>1
  <2>2. PICK i \in Bad : \A j \in Bad : i <= j
    <3> HIDE DEF Bad
    <3> QED BY <2>1, LeastExists
  <2>3. i \in 0..Len(s) /\ g[i] # f[i] /\ i \in Nat
    BY <1>1, <2>2
  <2>4. g[i] = (IF i = 0 THEN <<>> ELSE g[i - 1] \o Lowered(s, i))
    BY <1>6, <2>3
  <2>5. f[i] = (IF i = 0 THEN <<>> ELSE f[i - 1] \o Lowered(s, i))
    BY <1>5, <2>3
  <2>6. i # 0 => i - 1 \notin Bad /\ i - 1 \in 0..Len(s)
    BY <1>1, <2>2, <2>3
  <2>7. i # 0 => g[i - 1] = f[i - 1]
    BY <2>6
  <2> QED BY <2>3, <2>4, <2>5, <2>7
<1>7. ToLower(s) = (CHOOSE g : Is(g))[Len(s)]
  BY DEF ToLower
<1>8. ToLower(s) = f[Len(s)]
  <2>1. Is(CHOOSE g : Is(g))
    BY <1>5
  <2>2. Len(s) \in 0..Len(s)
    BY <1>1
  <2> HIDE DEF Is
  <2> QED BY <1>6, <1>7, <2>1, <2>2
<1>9. f[Len(s)] = l
  <2>1. CASE Len(s) = 0
    BY <1>1, <1>2, <2>1 DEF f
  <2>2. CASE Len(s) # 0
    <3>1. Len(s) \in 1..Len(s) /\ Len(s) \in 0..Len(s)
      BY <1>1, <2>2
    <3>2. End(Len(s)) = Len(s)
      <4> DEFINE n == Len(s)
      <4>1. s[n][2] \in 1..4 /\ Width[s[n][1]] \in 1..4 /\ s[n][2] <= Width[s[n][1]]
            /\ End(n) <= n
        BY <1>3, <3>1
      <4> QED BY <1>1, <4>1
    <3>3. f[Len(s)] = SubSeq(l, 1, Len(s))
      BY <2>2, <3>1, <3>2 DEF f
    <3>4. SubSeq(l, 1, Len(l)) = l
      BY <1>2, SubSeqFull
    <3> QED BY <1>2, <3>3, <3>4
  <2> QED BY <2>1, <2>2
<1> QED BY <1>8, <1>9 DEF l

-----------------------------------------------------------------------------
(* Mentions of a phrase.                                                   *)

\* What stands in the lower case stands in the text, byte by byte.
LEMMA OccursBytewise ==
  ASSUME NEW s \in Seq(Byte), NEW t \in Seq(Byte), NEW i \in Nat
  PROVE  Occurs(s, t, i) <=> i + Len(t) <= Len(s) /\ \A j \in 1..Len(t) : s[i + j] = t[j]
<1> SUFFICES ASSUME i + Len(t) <= Len(s)
             PROVE  Slice(s, i, i + Len(t)) = t <=> \A j \in 1..Len(t) : s[i + j] = t[j]
  BY DEF Occurs
<1> DEFINE n == Len(t)
           to == i + n
           u == Slice(s, i, to)
<1>1. n \in Nat /\ to \in Nat /\ i <= to /\ to - i = n /\ to <= Len(s)
  OBVIOUS
<1> HIDE DEF to, n
<1>2. u \in Seq(Byte) /\ Len(u) = n /\ \A j \in 1..n : u[j] = s[i + j]
  BY <1>1, SliceProperties
<1> HIDE DEF u
<1>3. u = t <=> \A j \in 1..n : u[j] = t[j]
  BY <1>2, SeqEqual DEF n
<1>4. u = t <=> \A j \in 1..n : s[i + j] = t[j]
  BY <1>2, <1>3
<1> QED BY <1>4 DEF u, to, n

LEMMA RuneStartEnds ==
  ASSUME NEW s \in ValidStrings
  PROVE  RuneStart(s, 0) /\ RuneStart(s, Len(s))
<1>1. s \in Seq(Byte) /\ DOMAIN s = 1..Len(s) /\ Len(s) \in Nat
  BY DEF ValidStrings
<1>2. ASSUME 0 < Len(s) PROVE s[0 + 1][2] = 1
  <2>1. 1 \in DOMAIN s /\ s[1] \in Byte
    BY <1>1, <1>2
  <2>2. s[1][2] \in 1..4 /\ 1 - s[1][2] >= 0
    BY <2>1, ByteType DEF ValidStrings, Valid, Whole
  <2> QED BY <2>2
<1> QED BY <1>1, <1>2 DEF RuneStart

LEMMA RestKeepsWidth ==
  ASSUME NEW s \in ValidStrings, KeepsWidth(s), NEW from, RuneStart(s, from)
  PROVE  KeepsWidth(Slice(s, from, Len(s)))
<1> DEFINE u == Slice(s, from, Len(s))
<1>1. /\ s \in Seq(Byte) /\ DOMAIN s = 1..Len(s) /\ Len(s) \in Nat
      /\ from \in Nat /\ from <= Len(s) /\ Len(s) <= Len(s)
  BY DEF ValidStrings, RuneStart
<1>2. DOMAIN u = 1..(Len(s) - from) /\ \A i \in 1..(Len(s) - from) : u[i] = s[from + i]
  BY <1>1, SliceProperties
<1> HIDE DEF u
<1>3. ASSUME NEW i \in DOMAIN u PROVE Width[LowerCase[u[i][1]]] = Width[u[i][1]]
  <2>1. from + i \in DOMAIN s /\ u[i] = s[from + i]
    BY <1>1, <1>2
  <2> QED BY <2>1 DEF KeepsWidth
<1>4. KeepsWidth(u)
  BY <1>3 DEF KeepsWidth
<1> QED BY <1>4 DEF u

\* What is left of a text, in lower case, is what is left of its lower case.
LEMMA LowerOfRest ==
  ASSUME NEW s \in ValidStrings, KeepsWidth(s), NEW t \in Seq(Byte),
         NEW from, RuneStart(s, from), NEW idx \in Nat
  PROVE  Occurs(ToLower(Slice(s, from, Len(s))), t, idx) <=> Occurs(ToLower(s), t, from + idx)
<1> DEFINE u == Slice(s, from, Len(s))
           m == Len(s) - from
<1>1. /\ s \in Seq(Byte) /\ DOMAIN s = 1..Len(s) /\ Len(s) \in Nat
      /\ from \in Nat /\ from <= Len(s)
  BY DEF ValidStrings, RuneStart
<1>2. u \in ValidStrings
  BY <1>1, RuneStartEnds, SlicesAreValid
<1>3. Len(u) = m /\ DOMAIN u = 1..m /\ m \in Nat /\ \A i \in 1..m : u[i] = s[from + i]
  <2>1. Len(s) <= Len(s)
    BY <1>1
  <2>2. /\ Len(u) = Len(s) - from /\ DOMAIN u = 1..(Len(s) - from)
        /\ \A i \in 1..(Len(s) - from) : u[i] = s[from + i]
    BY <1>1, <2>1, SliceProperties
  <2>3. Len(s) - from \in Nat
    BY <1>1
  <2> QED BY <2>2, <2>3
<1> HIDE DEF u
<1>4. KeepsWidth(u)
  BY RestKeepsWidth DEF u
<1>5. ToLower(u) = LowerBytes(u) /\ ToLower(s) = LowerBytes(s)
  BY <1>2, <1>4, ToLowerIsBytewise
<1>6. /\ LowerBytes(u) \in Seq(Byte) /\ Len(LowerBytes(u)) = m
      /\ LowerBytes(s) \in Seq(Byte) /\ Len(LowerBytes(s)) = Len(s)
  BY <1>2, <1>3, <1>4, LowerBytesType DEF ValidStrings
<1>7. \A i \in 1..m : LowerBytes(u)[i] = LowerBytes(s)[from + i]
  <2> TAKE i \in 1..m
  <2>1. from + i \in 1..Len(s)
    BY <1>1, <1>3
  <2> QED BY <1>3, <2>1 DEF LowerBytes
<1> DEFINE l == LowerBytes(s)
           v == LowerBytes(u)
           n == Len(t)
<1>8. l \in Seq(Byte) /\ v \in Seq(Byte) /\ Len(l) = Len(s) /\ Len(v) = m /\ n \in Nat
  BY <1>6
<1> HIDE DEF l, v, n
<1>9. Occurs(v, t, idx) <=> idx + n <= m /\ \A j \in 1..n : v[idx + j] = t[j]
  BY <1>8, OccursBytewise DEF n
<1>10. Occurs(l, t, from + idx)
         <=> from + idx + n <= Len(s) /\ \A j \in 1..n : l[from + idx + j] = t[j]
  <2>1. from + idx \in Nat
    BY <1>1
  <2> QED BY <1>8, <2>1, OccursBytewise DEF n
<1>11. idx + n <= m <=> from + idx + n <= Len(s)
  BY <1>1, <1>3, <1>8
<1>12. ASSUME idx + n <= m, NEW j \in 1..n PROVE v[idx + j] = l[from + idx + j]
  <2>1. idx + j \in 1..m /\ from + (idx + j) = from + idx + j
    BY <1>1, <1>3, <1>8, <1>12
  <2> QED BY <1>7, <2>1 DEF l, v
<1>13. Occurs(v, t, idx) <=> Occurs(l, t, from + idx)
  BY <1>9, <1>10, <1>11, <1>12
<1> QED BY <1>5, <1>13 DEF l, v, u

LEMMA PhraseType ==
  ASSUME NEW p \in DOMAIN Gazetteer
  PROVE  /\ Gazetteer[p].phrase \in ValidStrings /\ Gazetteer[p].phrase # <<>>
         /\ KeepsWidth(Gazetteer[p].phrase)
         /\ Len(Gazetteer[p].phrase) \in Nat \ {0}
         /\ Gazetteer[p].entry \in Nat
         /\ ToLower(Gazetteer[p].phrase) = LowerBytes(Gazetteer[p].phrase)
         /\ LowerBytes(Gazetteer[p].phrase) \in ValidStrings
         /\ LowerBytes(Gazetteer[p].phrase) \in Seq(Byte)
         /\ Len(LowerBytes(Gazetteer[p].phrase)) = Len(Gazetteer[p].phrase)
<1> DEFINE phrase == Gazetteer[p].phrase
<1>1. phrase \in ValidStrings /\ phrase # <<>> /\ KeepsWidth(phrase)
  BY GazetteerAssumption DEF KeepsWidth
<1>2. Gazetteer[p] \in [entry : Nat, phrase : Seq(Byte)]
  <2> DEFINE Entries == [entry : Nat, phrase : Seq(Byte)]
  <2>1. Gazetteer \in Seq(Entries)
    BY ExtractorsAssumption
  <2> HIDE DEF Entries
  <2>2. Gazetteer[p] \in Entries
    BY <2>1
  <2> QED BY <2>2 DEF Entries
<1>3. phrase \in Seq(Byte) /\ Gazetteer[p].entry \in Nat
  BY <1>2
<1>4. Len(phrase) \in Nat \ {0}
  BY <1>1, <1>3
<1> HIDE DEF phrase
<1>5. ToLower(phrase) = LowerBytes(phrase)
  BY <1>1, ToLowerIsBytewise
<1>6. LowerBytes(phrase) \in ValidStrings /\ Len(LowerBytes(phrase)) = Len(phrase)
  BY <1>1, LowerBytesType
<1>7. LowerBytes(phrase) \in Seq(Byte)
  BY <1>6 DEF ValidStrings
<1> QED BY <1>1, <1>3, <1>4, <1>5, <1>6, <1>7 DEF phrase

\* A mention begins and ends between two runes of the text.
LEMMA MentionSpans ==
  ASSUME NEW s \in ValidStrings, KeepsWidth(s), NEW p \in DOMAIN Gazetteer, NEW start \in Nat,
         Occurs(ToLower(s), ToLower(Gazetteer[p].phrase), start)
  PROVE  /\ RuneStart(s, start) /\ RuneStart(s, start + Len(Gazetteer[p].phrase))
         /\ start + Len(Gazetteer[p].phrase) <= Len(s)
         /\ \A j \in 1..Len(Gazetteer[p].phrase) :
              /\ LowerCase[s[start + j][1]] = LowerCase[Gazetteer[p].phrase[j][1]]
              /\ s[start + j][2] = Gazetteer[p].phrase[j][2]
<1> DEFINE phrase == Gazetteer[p].phrase
           t == LowerBytes(phrase)
           l == LowerBytes(s)
<1>1. phrase \in ValidStrings /\ t \in ValidStrings /\ t \in Seq(Byte)
      /\ Len(t) = Len(phrase) /\ Len(phrase) \in Nat \ {0}
  BY PhraseType
<1>2. Occurs(l, t, start)
  BY PhraseType, ToLowerIsBytewise
<1>3. /\ l \in ValidStrings /\ Len(l) = Len(s)
      /\ \A i : RuneStart(l, i) <=> RuneStart(s, i)
  BY LowerBytesType
<1>4. s \in Seq(Byte) /\ Len(s) \in Nat /\ l \in Seq(Byte)
  BY <1>3 DEF ValidStrings
<1>5. /\ \A j \in 1..Len(phrase) : t[j] = <<LowerCase[phrase[j][1]], phrase[j][2]>>
      /\ \A j \in 1..Len(s) : l[j] = <<LowerCase[s[j][1]], s[j][2]>>
  BY DEF LowerBytes
<1> HIDE DEF t, l, phrase
<1>6. t # <<>>
  BY <1>1
<1>7. RuneStart(s, start) /\ RuneStart(s, start + Len(phrase))
  BY <1>1, <1>2, <1>3, <1>6, OccurrencesAtRunes
<1>8. start + Len(phrase) <= Len(s) /\ \A j \in 1..Len(phrase) : l[start + j] = t[j]
  BY <1>1, <1>2, <1>3, <1>4, OccursBytewise
<1>9. ASSUME NEW j \in 1..Len(phrase)
      PROVE  /\ LowerCase[s[start + j][1]] = LowerCase[phrase[j][1]]
             /\ s[start + j][2] = phrase[j][2]
  <2>1. start + j \in 1..Len(s)
    BY <1>1, <1>4, <1>8
  <2>2. <<LowerCase[s[start + j][1]], s[start + j][2]>> = <<LowerCase[phrase[j][1]], phrase[j][2]>>
    BY <1>5, <1>8, <2>1
  <2> QED BY <2>2
<1> QED BY <1>7, <1>8, <1>9 DEF phrase

\* What begins inside a mention begins inside a word.
LEMMA NoMentionInside ==
  ASSUME NEW s \in ValidStrings, KeepsWidth(s), NEW p \in DOMAIN Gazetteer,
         NEW a \in Nat, NEW b \in Nat, a < b, b < a + Len(Gazetteer[p].phrase),
         Occurs(ToLower(s), ToLower(Gazetteer[p].phrase), a),
         Occurs(ToLower(s), ToLower(Gazetteer[p].phrase), b), NEW end
  PROVE  ~hasWordBoundaries(s, b, end)
<1> DEFINE phrase == Gazetteer[p].phrase
           n == Len(phrase)
           d == b - a
<1>1. /\ s \in Seq(Byte) /\ DOMAIN s = 1..Len(s) /\ Len(s) \in Nat
      /\ phrase \in Seq(Byte) /\ DOMAIN phrase = 1..n /\ n \in Nat \ {0}
  BY PhraseType DEF ValidStrings
<1>2. /\ a + n <= Len(s)
      /\ \A j \in 1..n : /\ LowerCase[s[a + j][1]] = LowerCase[phrase[j][1]]
                         /\ s[a + j][2] = phrase[j][2]
  BY MentionSpans
<1>3. /\ RuneStart(s, b)
      /\ \A j \in 1..n : /\ LowerCase[s[b + j][1]] = LowerCase[phrase[j][1]]
                         /\ s[b + j][2] = phrase[j][2]
  BY MentionSpans
<1>4. \A e \in 1..(Len(phrase) - 1) :
        (\A i \in 1..(Len(phrase) - e) : /\ LowerCase[phrase[e + i][1]] = LowerCase[phrase[i][1]]
                                         /\ phrase[e + i][2] = phrase[i][2])
          => phrase[e][1] \in Letters
  BY GazetteerAssumption
<1> HIDE DEF phrase
<1>5. d \in 1..(n - 1) /\ a + d = b /\ b \in 1..Len(s) /\ d \in 1..n
  BY <1>1, <1>2 DEF phrase
<1> HIDE DEF d
<1>6. ASSUME NEW i \in 1..(n - d)
      PROVE  LowerCase[phrase[d + i][1]] = LowerCase[phrase[i][1]] /\ phrase[d + i][2] = phrase[i][2]
  <2>1. d + i \in 1..n /\ i \in 1..n /\ a + (d + i) = b + i
    BY <1>1, <1>5
  <2> HIDE DEF n
  <2>2. /\ LowerCase[s[b + i][1]] = LowerCase[phrase[d + i][1]]
        /\ s[b + i][2] = phrase[d + i][2]
    BY <1>2, <2>1
  <2>3. /\ LowerCase[s[b + i][1]] = LowerCase[phrase[i][1]]
        /\ s[b + i][2] = phrase[i][2]
    BY <1>3, <2>1
  <2> QED BY <2>2, <2>3
<1>7. phrase[d][1] \in Letters
  BY <1>4, <1>5, <1>6
<1>8. s[b][1] \in Letters
  <2>1. LowerCase[s[b][1]] = LowerCase[phrase[d][1]]
    BY <1>2, <1>5
  <2>2. s[b] \in Byte /\ phrase[d] \in Byte
    BY <1>1, <1>5
  <2>3. s[b][1] \in DOMAIN Width /\ phrase[d][1] \in DOMAIN Width
    BY <2>2, ByteType
  <2> QED BY <1>7, <2>1, <2>3, RunesAssumption
<1>9. RuneAt(Slice(s, 0, b), b) = s[b][1]
  <2> DEFINE t == Slice(s, 0, b)
  <2>1. t \in ValidStrings
    BY <1>3, RuneStartEnds, SlicesAreValid
  <2>2. DOMAIN t = 1..(b - 0) /\ \A i \in 1..(b - 0) : t[i] = s[0 + i]
    <3>1. 0 \in Nat /\ b \in Nat /\ 0 <= b /\ b <= Len(s)
      BY <1>1, <1>5
    <3> QED BY <1>1, <3>1, SliceProperties
  <2>3. b \in DOMAIN t /\ t[b] = s[b]
    <3>1. b - 0 = b /\ 0 + b = b /\ b \in 1..b
      BY <1>1, <1>5
    <3> QED BY <2>2, <3>1
  <2> HIDE DEF t
  <2>4. Whole(t, b)
    BY <2>1, <2>3 DEF ValidStrings, Valid
  <2>5. RuneAt(t, b) = s[b][1]
    BY <2>3, <2>4 DEF RuneAt
  <2> QED BY <2>5 DEF t
<1>10. b > 0
  BY <1>5
<1> QED BY <1>8, <1>9, <1>10 DEF hasWordBoundaries

-----------------------------------------------------------------------------
(* The invariant.                                                          *)

Authors == {"identifier", "money", "date", "gazetteer", "llm"}

FactType == [by : Authors, about : Nat, excerpt : Seq(Byte), from : Int, to : Int]

ProposalType == [about : Nat, excerpt : Seq(Byte), from : Int, to : Int]

AfterExtractors == {"request", "wait", "filter", "done"}

TypeOK ==
  /\ text \in Texts
  /\ pc \in {"configure", "extract", "keep", "failed"} \cup AfterExtractors
  /\ stage \in 1..4 /\ pass \in Nat \ {0}
  /\ found \in Seq(FactType) /\ facts \in Seq(FactType)
  /\ answer \in Seq(ProposalType)

\* Where the search is: always between two runes, and past every phrase when all
\* extractors are done.
PlaceOK ==
  /\ RuneStart(text, searchFrom)
  /\ pc = "configure" => stage = 1 /\ pass = 1 /\ found = <<>> /\ facts = <<>>
  /\ pc = "extract" => pass <= Len(IF extractor = "gazetteer" THEN Gazetteer ELSE Patterns[extractor])
  /\ pc = "keep" => searchFrom = 0 /\ (stage = 4 => pass = Len(Gazetteer) + 1)
  /\ pc \in AfterExtractors => stage = 4 /\ pass = Len(Gazetteer) + 1 /\ found = <<>>

\* Which extractor a fact is from.
OriginsOK ==
  /\ \A f \in Range(found) : f.by = extractor
  /\ \A f \in Range(facts) :
       \/ f.by = "llm"
       \/ \E n \in 1..stage : f.by = Pipeline[n] /\ (pc = "extract" => n < stage)

Kept == Range(facts) \cup Range(found)

Verified(among) == \A f \in among : VerifyExcerptOffset(text, f.excerpt, f.from, f.to)

Once == \A i, j \in DOMAIN facts : facts[i] = facts[j] => i = j \/ facts[i].by = "llm"

Apart(among) ==
  \A f, g \in among : f.by = g.by /\ f.by \in {"date", "gazetteer"} =>
    f = g \/ f.to <= g.from \/ g.to <= f.from

Names(among) == {f \in among : f.by = "gazetteer"}

\* The search has gone past the offset with phrase p.
Searched(p, start) == stage = 4 /\ (p < pass \/ (p = pass /\ start < searchFrom))

Covered ==
  \A p \in DOMAIN Gazetteer, start \in 0..Len(text) :
    Mentioned(text, Gazetteer[p].phrase, start) /\ Searched(p, start) =>
      Overlaps(text, Names(Kept), start, start + Len(Gazetteer[p].phrase))

FactsInv == TypeOK /\ PlaceOK /\ OriginsOK /\ Verified(Kept) /\ Once /\ Apart(Kept) /\ Covered

ExtractionInv == text \in Texts /\ (KeepsWidth(text) => FactsInv)

-----------------------------------------------------------------------------
(* The steps.                                                              *)

LEMMA TextIsValid ==
  ASSUME text \in Texts
  PROVE  /\ text \in ValidStrings /\ text \in Seq(Byte) /\ Len(text) \in Nat
         /\ DOMAIN text = 1..Len(text)
<1>1. text \in ValidStrings
  BY ExtractorsAssumption
<1> QED BY <1>1 DEF ValidStrings

LEMMA RangeOfAppend ==
  ASSUME NEW s \in Seq(FactType), NEW x \in FactType
  PROVE  Range(Append(s, x)) = Range(s) \cup {x} /\ Append(s, x) \in Seq(FactType)
<1> HIDE DEF FactType
<1>1. /\ Append(s, x) \in Seq(FactType) /\ Len(Append(s, x)) = Len(s) + 1 /\ Len(s) \in Nat
      /\ \A i \in 1..(Len(s) + 1) : Append(s, x)[i] = IF i <= Len(s) THEN s[i] ELSE x
  OBVIOUS
<1> DEFINE t == Append(s, x)
<1>2. DOMAIN t = 1..(Len(s) + 1) /\ DOMAIN s = 1..Len(s)
  BY <1>1
<1>3. t[Len(s) + 1] = x /\ Len(s) + 1 \in DOMAIN t
  BY <1>1, <1>2
<1>4. \A i \in DOMAIN s : i \in DOMAIN t /\ t[i] = s[i]
  BY <1>1, <1>2
<1>5. \A i \in DOMAIN t : i \in DOMAIN s \/ t[i] = x
  BY <1>1, <1>2
<1> HIDE DEF t
<1>6. Range(t) = Range(s) \cup {x}
  BY <1>3, <1>4, <1>5 DEF Range
<1> QED BY <1>1, <1>6 DEF t

LEMMA PipelineNames ==
  ASSUME NEW n \in 1..4
  PROVE  /\ Pipeline[n] \in Authors /\ Pipeline[n] # "llm"
         /\ Pipeline[n] = "gazetteer" <=> n = 4
         /\ n # 4 => Pipeline[n] \in {"identifier", "money", "date"}
         /\ \A m \in 1..4 : Pipeline[m] = Pipeline[n] => m = n
         /\ Len(Pipeline) = 4
<1>1. /\ Pipeline[1] = "identifier" /\ Pipeline[2] = "money"
      /\ Pipeline[3] = "date" /\ Pipeline[4] = "gazetteer" /\ Len(Pipeline) = 4
  BY DEF Pipeline
<1>2. \A m \in 1..4 : m = 1 \/ m = 2 \/ m = 3 \/ m = 4
  OBVIOUS
<1> HIDE DEF Pipeline
<1>3. n = 1 \/ n = 2 \/ n = 3 \/ n = 4
  BY <1>2
<1>4. \A m \in 1..4 : Pipeline[m] = Pipeline[n] => m = n
  BY <1>1, <1>2, <1>3
<1>5. "gazetteer" \notin {"identifier", "money", "date", "llm"} /\ "llm" \notin {"identifier", "money", "date"}
  OBVIOUS
<1>6. Pipeline[n] \in Authors
  BY <1>1, <1>3 DEF Authors
<1>7. CASE n = 4
  BY <1>1, <1>4, <1>5, <1>6, <1>7
<1>8. CASE n # 4
  <2>1. n = 1 \/ n = 2 \/ n = 3
    BY <1>3, <1>8
  <2>2. Pipeline[n] \in {"identifier", "money", "date"}
    BY <1>1, <2>1
  <2> QED BY <1>1, <1>4, <1>5, <1>6, <1>8, <2>2
<1> QED BY <1>7, <1>8

LEMMA PatternsType ==
  ASSUME NEW n \in 1..4, n # 4
  PROVE  /\ Len(Patterns[Pipeline[n]]) \in Nat \ {0}
         /\ \A p \in 1..Len(Patterns[Pipeline[n]]) :
              Patterns[Pipeline[n]][p] \subseteq ValidStrings \ {<<>>}
<1> DEFINE e == Pipeline[n]
<1>1. e \in DOMAIN Patterns
  BY PipelineNames, ExtractorsAssumption
<1> HIDE DEF e
<1>2. /\ Patterns[e] \in Seq(SUBSET Seq(Byte)) /\ Patterns[e] # <<>>
      /\ \A p \in DOMAIN Patterns[e] : Patterns[e][p] \subseteq ValidStrings \ {<<>>}
  BY <1>1, ExtractorsAssumption
<1> DEFINE P == Patterns[e]
<1> HIDE DEF P
<1>3. Len(P) \in Nat \ {0} /\ DOMAIN P = 1..Len(P)
  <2>1. P \in Seq(SUBSET Seq(Byte)) /\ P # <<>>
    BY <1>2 DEF P
  <2> QED BY <2>1
<1> QED BY <1>2, <1>3 DEF P, e

LEMMA GazetteerType == Len(Gazetteer) \in Nat \ {0} /\ DOMAIN Gazetteer = 1..Len(Gazetteer)
<1> DEFINE Entries == [entry : Nat, phrase : Seq(Byte)]
<1>1. Gazetteer \in Seq(Entries) /\ Gazetteer # <<>>
  BY ExtractorsAssumption
<1> HIDE DEF Entries
<1> QED BY <1>1

\* The mentions in what is left of the text are those of the text that are left.
LEMMA MentionsOfRest ==
  ASSUME text \in Texts, KeepsWidth(text), RuneStart(text, searchFrom), pass \in DOMAIN Gazetteer
  PROVE  \A i \in Nat :
           i \in Mentions <=> Occurs(ToLower(text), ToLower(Gazetteer[pass].phrase), searchFrom + i)
<1> DEFINE phrase == Gazetteer[pass].phrase
           lower == ToLower(Slice(text, searchFrom, Len(text)))
<1>1. text \in ValidStrings /\ text \in Seq(Byte) /\ Len(text) \in Nat /\ searchFrom \in Nat
  BY TextIsValid DEF RuneStart
<1>2. ToLower(phrase) \in Seq(Byte)
  BY PhraseType
<1>3. lower \in Seq(Byte)
  <2>1. Slice(text, searchFrom, Len(text)) \in ValidStrings
    BY <1>1, RuneStartEnds, SlicesAreValid DEF RuneStart
  <2>2. KeepsWidth(Slice(text, searchFrom, Len(text)))
    BY <1>1, RestKeepsWidth
  <2> QED BY <2>1, <2>2, ToLowerIsBytewise, LowerBytesType DEF ValidStrings
<1>4. ASSUME NEW i \in Nat
      PROVE  i \in Mentions <=> Occurs(ToLower(text), ToLower(phrase), searchFrom + i)
  <2>1. Occurs(lower, ToLower(phrase), i) <=> Occurs(ToLower(text), ToLower(phrase), searchFrom + i)
    BY <1>1, <1>2, LowerOfRest
  <2>2. Occurs(lower, ToLower(phrase), i) => i \in 0..Len(lower)
    <3> HIDE DEF lower, phrase
    <3>1. Len(lower) \in Nat /\ Len(ToLower(phrase)) \in Nat
      BY <1>2, <1>3
    <3> QED BY <3>1 DEF Occurs
  <2>3. i \in Mentions <=> i \in 0..Len(lower) /\ Occurs(lower, ToLower(phrase), i)
    BY DEF Mentions, Occurrences
  <2> QED BY <2>1, <2>2, <2>3
<1> QED BY <1>4

LEMMA NewFact ==
  ASSUME text \in Texts, stage \in 1..4, NEW about \in Nat, NEW start, NEW end,
         RuneStart(text, start), RuneStart(text, end), start < end
  PROVE  LET x == FactAt(about, start, end) IN
           /\ x \in FactType /\ x.by = extractor
           /\ x.from = byteOffsetToCharOffset(text, start)
           /\ x.to = byteOffsetToCharOffset(text, end)
           /\ VerifyExcerptOffset(text, x.excerpt, x.from, x.to)
           /\ x.from < x.to
<1> DEFINE from == byteOffsetToCharOffset(text, start)
           to == byteOffsetToCharOffset(text, end)
           excerpt == Slice(text, start, end)
<1>1. text \in ValidStrings /\ text \in Seq(Byte) /\ Len(text) \in Nat
  BY TextIsValid
<1>2. start \in Nat /\ end \in Nat /\ start <= end /\ end <= Len(text)
  BY <1>1 DEF RuneStart
<1>3. from \in Nat /\ to \in Nat /\ from < to
  <2>1. Cardinality(RunesBefore(text, start)) < Cardinality(RunesBefore(text, end))
    BY <1>1, RunesBeforeGrow
  <2> QED BY <1>1, <2>1, CharOffset
<1>4. excerpt \in Seq(Byte)
  BY <1>1, <1>2, SliceProperties
<1>5. VerifyExcerptOffset(text, excerpt, from, to)
  BY <1>1, <1>2, ExcerptsVerified
<1>6. extractor \in Authors
  BY PipelineNames DEF extractor
<1>7. FactAt(about, start, end)
        = [by |-> extractor, about |-> about, excerpt |-> excerpt, from |-> from, to |-> to]
  BY DEF FactAt, Fact
<1> HIDE DEF from, to, excerpt
<1>8. FactAt(about, start, end) \in FactType
  BY <1>3, <1>4, <1>6, <1>7 DEF FactType
<1> QED BY <1>3, <1>5, <1>7, <1>8 DEF from, to, excerpt

\* An extractor adds a fact: it is from this extractor, the kept ones are from others.
LEMMA FactAdded ==
  ASSUME FactsInv, pc = "extract", pc' = pc, UNCHANGED <<text, stage, facts>>,
         NEW x \in FactType, x.by = extractor,
         VerifyExcerptOffset(text, x.excerpt, x.from, x.to),
         extractor \in {"date", "gazetteer"} =>
           \A g \in Range(found) : x.to <= g.from \/ g.to <= x.from,
         found' = Append(found, x)
  PROVE  /\ found' \in Seq(FactType) /\ Kept' = Kept \cup {x}
         /\ OriginsOK' /\ Verified(Kept)' /\ Apart(Kept)'
<1>1. found' \in Seq(FactType) /\ Range(found)' = Range(found) \cup {x}
  <2>1. found \in Seq(FactType)
    BY DEF FactsInv, TypeOK
  <2>2. Range(Append(found, x)) = Range(found) \cup {x} /\ Append(found, x) \in Seq(FactType)
    BY <2>1, RangeOfAppend
  <2>3. Range(found)' = Range(found')
    BY DEF Range
  <2> QED BY <2>2, <2>3
<1>2. Range(facts)' = Range(facts)
  BY DEF Range
<1>3. Kept' = Kept \cup {x}
  BY <1>1, <1>2 DEF Kept
<1>4. extractor' = extractor
  BY DEF extractor, Pipeline
<1>5. OriginsOK'
  <2>1. \A f \in Range(found)' : f.by = extractor'
    BY <1>1, <1>4 DEF FactsInv, OriginsOK
  <2>2. \A f \in Range(facts)' : \/ f.by = "llm"
                                 \/ \E n \in 1..stage' : f.by = Pipeline[n] /\ (pc' = "extract" => n < stage')
    BY <1>2 DEF FactsInv, OriginsOK, Pipeline
  <2> QED BY <2>1, <2>2 DEF OriginsOK
<1>6. Verified(Kept)'
  BY <1>3 DEF FactsInv, Verified
<1>7. ASSUME NEW g \in Kept, g.by = x.by, x.by \in {"date", "gazetteer"}
      PROVE  x.to <= g.from \/ g.to <= x.from
  <2>1. CASE g \in Range(found)
    BY <1>7, <2>1
  <2>2. CASE g \in Range(facts)
    <3>1. stage \in 1..4
      BY DEF FactsInv, TypeOK
    <3>2. g.by # "llm"
      BY <1>7
    <3>3. PICK n \in 1..stage : g.by = Pipeline[n] /\ n < stage
      BY <2>2, <3>2 DEF FactsInv, OriginsOK
    <3>4. n \in 1..4 /\ n # stage
      BY <3>1, <3>3
    <3>5. Pipeline[n] # Pipeline[stage]
      BY <3>1, <3>4, PipelineNames
    <3> QED BY <1>7, <3>3, <3>5 DEF extractor
  <2> QED BY <2>1, <2>2 DEF Kept
<1>8. Apart(Kept)'
  <2> SUFFICES ASSUME NEW f \in Kept \cup {x}, NEW g \in Kept \cup {x},
                      f.by = g.by, f.by \in {"date", "gazetteer"}
               PROVE  f = g \/ f.to <= g.from \/ g.to <= f.from
    BY <1>3 DEF Apart
  <2>1. CASE f \in Kept /\ g \in Kept
    BY <2>1 DEF FactsInv, Apart
  <2>2. CASE f = x /\ g \in Kept
    BY <1>7, <2>2
  <2>3. CASE f \in Kept /\ g = x
    BY <1>7, <2>3
  <2> QED BY <2>1, <2>2, <2>3
<1> QED BY <1>1, <1>3, <1>5, <1>6, <1>8

LEMMA MatchKeepsInv ==
  ASSUME FactsInv, Match
  PROVE  FactsInv'
<1>1. /\ text \in Texts /\ stage \in 1..4 /\ pass \in Nat \ {0}
      /\ found \in Seq(FactType) /\ facts \in Seq(FactType) /\ answer \in Seq(ProposalType)
      /\ RuneStart(text, searchFrom)
  BY DEF FactsInv, TypeOK, PlaceOK
<1>2. /\ pc = "extract" /\ pc' = pc /\ extractor # "gazetteer"
      /\ UNCHANGED <<text, stage, pass, facts, answer>>
  BY DEF Match, request
<1>3. text \in ValidStrings /\ text \in Seq(Byte) /\ Len(text) \in Nat
  BY <1>1, TextIsValid
<1>4. stage # 4 /\ extractor' = extractor
  BY <1>1, <1>2, PipelineNames DEF extractor
<1>5. pass \in 1..Len(Patterns[extractor])
  BY <1>1, <1>2 DEF FactsInv, PlaceOK
<1>6. PICK m \in Matches :
        LET end == m[1] + Len(m[2]) IN
          /\ found' = IF extractor = "date" /\ \/ m[2] \in Unreal
                                               \/ Overlaps(text, Range(found), m[1], end)
                      THEN found
                      ELSE Append(found, FactAt(IF extractor = "identifier" THEN pass ELSE 1,
                                                m[1], end))
          /\ searchFrom' = end
  BY DEF Match
<1> DEFINE start == m[1]
           end == m[1] + Len(m[2])
           about == IF extractor = "identifier" THEN pass ELSE 1
           x == FactAt(about, start, end)
           skip == extractor = "date" /\ (m[2] \in Unreal \/ Overlaps(text, Range(found), start, end))
<1>7. /\ RuneStart(text, start) /\ RuneStart(text, end) /\ start < end
  <2>1. start \in searchFrom..Len(text) /\ m[2] \in Patterns[extractor][pass]
        /\ Occurs(text, m[2], start)
    BY DEF Matches
  <2>2. m[2] \in ValidStrings /\ m[2] # <<>>
    BY <1>1, <1>4, <1>5, <2>1, PatternsType DEF extractor
  <2>3. start \in Nat
    BY <1>1, <2>1 DEF RuneStart
  <2>4. Len(m[2]) \in Nat \ {0}
    BY <2>2 DEF ValidStrings
  <2>5. RuneStart(text, start) /\ RuneStart(text, start + Len(m[2]))
    BY <1>3, <2>1, <2>2, <2>3, OccurrencesAtRunes
  <2> QED BY <2>3, <2>4, <2>5
<1>8. about \in Nat
  BY <1>1
<1>9. found' = (IF skip THEN found ELSE Append(found, x)) /\ searchFrom' = end
  BY <1>6
<1> HIDE DEF start, end, about
<1>10. /\ x \in FactType /\ x.by = extractor /\ x.from < x.to
       /\ x.from = byteOffsetToCharOffset(text, start)
       /\ x.to = byteOffsetToCharOffset(text, end)
       /\ VerifyExcerptOffset(text, x.excerpt, x.from, x.to)
  BY <1>1, <1>7, <1>8, NewFact
<1> HIDE DEF x
<1>11. /\ found' \in Seq(FactType) /\ OriginsOK' /\ Verified(Kept)' /\ Apart(Kept)'
  <2>1. CASE skip
    <3>1. found' = found
      BY <1>9, <2>1
    <3>2. Kept' = Kept /\ Range(found)' = Range(found) /\ Range(facts)' = Range(facts)
      BY <1>2, <3>1 DEF Kept, Range
    <3>3. OriginsOK'
      BY <1>2, <1>4, <3>2 DEF FactsInv, OriginsOK
    <3>4. Verified(Kept)' /\ Apart(Kept)'
      BY <1>2, <3>2 DEF FactsInv, Verified, Apart
    <3> QED BY <1>1, <3>1, <3>3, <3>4
  <2>2. CASE ~skip
    <3>1. found' = Append(found, x)
      BY <1>9, <2>2
    <3>2. extractor = "date" => \A g \in Range(found) : x.to <= g.from \/ g.to <= x.from
      <4> SUFFICES ASSUME extractor = "date", NEW g \in Range(found)
                   PROVE  x.to <= g.from \/ g.to <= x.from
        OBVIOUS
      <4>1. ~(x.from < g.to /\ x.to > g.from)
        BY <1>10, <2>2 DEF Overlaps
      <4>2. g \in FactType
        BY <1>1 DEF Range
      <4>3. x.from \in Int /\ x.to \in Int /\ g.from \in Int /\ g.to \in Int
        BY <1>10, <4>2 DEF FactType
      <4> QED BY <4>1, <4>3
    <3> QED BY <1>2, <1>10, <3>1, <3>2, FactAdded
  <2> QED BY <2>1, <2>2
<1>12. TypeOK'
  BY <1>1, <1>2, <1>11 DEF TypeOK, FactsInv
<1>13. PlaceOK'
  <2>1. RuneStart(text, searchFrom)'
    BY <1>2, <1>7, <1>9 DEF RuneStart
  <2> QED BY <1>2, <1>4, <2>1 DEF PlaceOK, FactsInv, AfterExtractors
<1>14. Once'
  BY <1>2 DEF Once, FactsInv
<1>15. Covered'
  BY <1>2, <1>4 DEF Covered, Searched
<1> QED BY <1>11, <1>12, <1>13, <1>14, <1>15 DEF FactsInv

LEMMA MentionKeepsInv ==
  ASSUME FactsInv, KeepsWidth(text), Mention
  PROVE  FactsInv'
<1>1. /\ text \in Texts /\ stage \in 1..4 /\ pass \in Nat \ {0}
      /\ found \in Seq(FactType) /\ facts \in Seq(FactType) /\ answer \in Seq(ProposalType)
      /\ RuneStart(text, searchFrom)
  BY DEF FactsInv, TypeOK, PlaceOK
<1>2. /\ pc = "extract" /\ extractor = "gazetteer"
      /\ UNCHANGED <<text, stage, pass, facts, answer>>
  BY DEF Mention, request
<1>3. text \in ValidStrings /\ text \in Seq(Byte) /\ Len(text) \in Nat /\ searchFrom \in Nat
  BY <1>1, TextIsValid DEF RuneStart
<1>4. stage = 4 /\ extractor' = extractor
  BY <1>1, <1>2, PipelineNames DEF extractor
<1>5. pass \in DOMAIN Gazetteer
  BY <1>1, <1>2, GazetteerType DEF FactsInv, PlaceOK
<1> DEFINE phrase == Gazetteer[pass].phrase
           n == Len(phrase)
           At(i) == Occurs(ToLower(text), ToLower(phrase), i)
<1>6. n \in Nat \ {0} /\ Gazetteer[pass].entry \in Nat /\ ToLower(phrase) \in Seq(Byte)
  BY <1>5, PhraseType
<1>7. PICK idx \in Mentions :
        /\ First(Mentions, idx)
        /\ IF searchFrom + idx + n > Len(text)
             THEN pc' = "crashed" /\ UNCHANGED <<found, searchFrom>>
             ELSE /\ found' = IF /\ hasWordBoundaries(text, searchFrom + idx, searchFrom + idx + n)
                                 /\ ~Overlaps(text, Range(found), searchFrom + idx, searchFrom + idx + n)
                              THEN Append(found, FactAt(Gazetteer[pass].entry, searchFrom + idx, searchFrom + idx + n))
                              ELSE found
                  /\ searchFrom' = searchFrom + idx + n
                  /\ UNCHANGED pc
  BY DEF Mention
<1>8. \A i \in Nat : i \in Mentions <=> At(searchFrom + i)
  BY <1>1, <1>5, MentionsOfRest
<1> DEFINE start == searchFrom + idx
           end == start + n
<1>9. idx \in Nat /\ At(start) /\ start \in Nat /\ end \in Nat
  <2>1. idx \in Nat
    BY DEF Mentions, Occurrences
  <2>2. At(searchFrom + idx)
    <3> HIDE DEF At
    <3> QED BY <1>7, <1>8, <2>1
  <2> HIDE DEF At, n
  <2> QED BY <1>3, <1>6, <2>1, <2>2
<1>10. ASSUME NEW i \in searchFrom..(start - 1) PROVE ~At(i)
  <2>1. i - searchFrom \in Nat /\ searchFrom + (i - searchFrom) = i /\ ~(idx <= i - searchFrom)
    BY <1>3, <1>9
  <2>2. i - searchFrom \notin Mentions
    BY <1>7, <2>1 DEF First
  <2> HIDE DEF At
  <2> QED BY <1>8, <2>1, <2>2
<1>11. RuneStart(text, start) /\ RuneStart(text, end) /\ start < end /\ end <= Len(text)
  <2>1. RuneStart(text, start) /\ RuneStart(text, start + n) /\ start + n <= Len(text)
    BY <1>3, <1>5, <1>9, MentionSpans
  <2> QED BY <1>6, <1>9, <2>1
<1> DEFINE x == FactAt(Gazetteer[pass].entry, start, end)
           new == hasWordBoundaries(text, start, end) /\ ~Overlaps(text, Range(found), start, end)
<1>12. found' = (IF new THEN Append(found, x) ELSE found) /\ searchFrom' = end /\ pc' = pc
  <2>1. ~(end > Len(text))
    <3> HIDE DEF end
    <3> QED BY <1>3, <1>9, <1>11
  <2> QED BY <1>7, <2>1
<1> HIDE DEF end, start, n
<1>13. /\ x \in FactType /\ x.by = extractor /\ x.from < x.to
       /\ x.from = byteOffsetToCharOffset(text, start)
       /\ x.to = byteOffsetToCharOffset(text, end)
       /\ VerifyExcerptOffset(text, x.excerpt, x.from, x.to)
  BY <1>1, <1>6, <1>11, NewFact
<1> HIDE DEF x
<1>14. /\ found' \in Seq(FactType) /\ OriginsOK' /\ Verified(Kept)' /\ Apart(Kept)'
       /\ Kept' = IF new THEN Kept \cup {x} ELSE Kept
  <2>1. CASE ~new
    <3>1. found' = found
      BY <1>12, <2>1
    <3>2. Kept' = Kept /\ Range(found)' = Range(found) /\ Range(facts)' = Range(facts)
      BY <1>2, <3>1 DEF Kept, Range
    <3>3. OriginsOK'
      BY <1>2, <1>4, <1>12, <3>2 DEF FactsInv, OriginsOK
    <3>4. Verified(Kept)' /\ Apart(Kept)'
      BY <1>2, <3>2 DEF FactsInv, Verified, Apart
    <3> QED BY <1>1, <2>1, <3>1, <3>2, <3>3, <3>4
  <2>2. CASE new
    <3>1. found' = Append(found, x)
      BY <1>12, <2>2
    <3>2. \A g \in Range(found) : x.to <= g.from \/ g.to <= x.from
      <4> SUFFICES ASSUME NEW g \in Range(found)
                   PROVE  x.to <= g.from \/ g.to <= x.from
        OBVIOUS
      <4>1. ~(x.from < g.to /\ x.to > g.from)
        BY <1>13, <2>2 DEF Overlaps
      <4>2. g \in FactType
        BY <1>1 DEF Range
      <4>3. x.from \in Int /\ x.to \in Int /\ g.from \in Int /\ g.to \in Int
        BY <1>13, <4>2 DEF FactType
      <4> QED BY <4>1, <4>3
    <3>3. /\ found' \in Seq(FactType) /\ Kept' = Kept \cup {x}
          /\ OriginsOK' /\ Verified(Kept)' /\ Apart(Kept)'
      BY <1>2, <1>12, <1>13, <3>1, <3>2, FactAdded
    <3> QED BY <2>2, <3>3
  <2> QED BY <2>1, <2>2
<1>15. TypeOK'
  BY <1>1, <1>2, <1>12, <1>14 DEF TypeOK, FactsInv
<1>16. PlaceOK'
  <2>1. RuneStart(text, searchFrom)'
    BY <1>2, <1>11, <1>12 DEF RuneStart
  <2> QED BY <1>2, <1>4, <1>12, <2>1 DEF PlaceOK, FactsInv, AfterExtractors
<1>17. Once'
  BY <1>2 DEF Once, FactsInv
<1>18. ASSUME NEW p \in DOMAIN Gazetteer, NEW from \in 0..Len(text),
              Mentioned(text, Gazetteer[p].phrase, from), Searched(p, from)'
       PROVE  Overlaps(text, Names(Kept'), from, from + Len(Gazetteer[p].phrase))
  <2>1. CASE Searched(p, from)
    <3>1. Overlaps(text, Names(Kept), from, from + Len(Gazetteer[p].phrase))
      BY <1>18, <2>1 DEF FactsInv, Covered
    <3>2. Names(Kept) \subseteq Names(Kept')
      BY <1>14 DEF Names
    <3> QED BY <3>1, <3>2 DEF Overlaps
  <2>2. CASE ~Searched(p, from)
    <3>1. p \in Nat /\ from \in Nat
      BY <1>3, <1>18, GazetteerType
    <3>2. p = pass /\ from >= searchFrom /\ from < end
      BY <1>1, <1>2, <1>3, <1>4, <1>12, <1>18, <2>2, <3>1 DEF Searched
    <3>3. At(from) /\ hasWordBoundaries(text, from, from + n)
      BY <1>18, <3>2 DEF Mentioned, n
    <3>4. ~(from < start)
      <4> HIDE DEF At
      <4> QED BY <1>3, <1>9, <1>10, <3>1, <3>2, <3>3
    <3>5. ~(from > start)
      <4> SUFFICES ASSUME start < from PROVE FALSE
        BY <1>9, <3>1
      <4>1. from < start + Len(phrase)
        BY <3>2 DEF end, n
      <4> QED BY <1>3, <1>5, <1>9, <3>1, <3>3, <4>1, NoMentionInside
    <3>6. from = start /\ from + n = end
      BY <1>9, <3>1, <3>4, <3>5 DEF end
    <3>7. CASE new
      <4>1. x \in Names(Kept')
        BY <1>2, <1>13, <1>14, <3>7 DEF Names
      <4>2. x.from \in Int /\ x.to \in Int
        BY <1>13 DEF FactType
      <4>3. byteOffsetToCharOffset(text, start) < x.to /\ byteOffsetToCharOffset(text, end) > x.from
        BY <1>13, <4>2
      <4>4. Overlaps(text, Names(Kept'), start, end)
        BY <4>1, <4>3 DEF Overlaps
      <4> QED BY <3>2, <3>6, <4>4 DEF n
    <3>8. CASE ~new
      <4>1. Overlaps(text, Range(found), start, end)
        BY <3>3, <3>6, <3>8
      <4>2. \A f \in Range(found) : f \in Names(Kept')
        BY <1>2, <1>14, <3>8 DEF Names, Kept, FactsInv, OriginsOK
      <4>3. Overlaps(text, Names(Kept'), start, end)
        BY <4>1, <4>2 DEF Overlaps
      <4> QED BY <3>2, <3>6, <4>3 DEF n
    <3> QED BY <3>7, <3>8
  <2> QED BY <2>1, <2>2
<1>19. Covered'
  BY <1>2, <1>18 DEF Covered, Names
<1> QED BY <1>14, <1>15, <1>16, <1>17, <1>19 DEF FactsInv


LEMMA NextPassKeepsInv ==
  ASSUME FactsInv, KeepsWidth(text), NextPass
  PROVE  FactsInv'
<1> DEFINE passes == Len(IF extractor = "gazetteer" THEN Gazetteer ELSE Patterns[extractor])
<1>1. /\ text \in Texts /\ stage \in 1..4 /\ pass \in Nat \ {0} /\ RuneStart(text, searchFrom)
  BY DEF FactsInv, TypeOK, PlaceOK
<1>2. /\ pc = "extract" /\ pass' = pass + 1 /\ searchFrom' = 0
      /\ pc' = IF pass = passes THEN "keep" ELSE pc
      /\ UNCHANGED <<text, stage, found, facts, answer>>
  BY DEF NextPass, request
<1>3. text \in ValidStrings /\ text \in Seq(Byte) /\ Len(text) \in Nat /\ searchFrom \in Nat
  BY <1>1, TextIsValid DEF RuneStart
<1>4. extractor' = extractor /\ (extractor = "gazetteer" <=> stage = 4)
  BY <1>1, <1>2, PipelineNames DEF extractor
<1>5. passes \in Nat /\ pass <= passes
  <2>1. pass <= passes
    BY <1>2 DEF FactsInv, PlaceOK
  <2>2. CASE stage = 4
    BY <1>4, <2>1, <2>2, GazetteerType
  <2>3. CASE stage # 4
    BY <1>1, <1>4, <2>1, <2>3, PatternsType DEF extractor
  <2> QED BY <2>2, <2>3
<1>6. TypeOK'
  BY <1>1, <1>2 DEF TypeOK, FactsInv
<1>7. PlaceOK'
  <2>1. RuneStart(text, searchFrom)'
    BY <1>2, <1>3, RuneStartEnds DEF RuneStart
  <2>2. pc' = "extract" => pass' <= passes
    BY <1>1, <1>2, <1>5
  <2>3. pc' = "keep" => searchFrom' = 0 /\ (stage' = 4 => pass' = Len(Gazetteer) + 1)
    BY <1>2, <1>4
  <2> QED BY <1>2, <1>4, <2>1, <2>2, <2>3 DEF PlaceOK, AfterExtractors
<1>8. Kept' = Kept /\ Range(found)' = Range(found) /\ Range(facts)' = Range(facts)
  BY <1>2 DEF Kept, Range
<1>9. OriginsOK'
  BY <1>2, <1>4, <1>8 DEF FactsInv, OriginsOK
<1>10. Verified(Kept)' /\ Apart(Kept)' /\ Once'
  BY <1>2, <1>8 DEF FactsInv, Verified, Apart, Once
<1>11. ASSUME NEW p \in DOMAIN Gazetteer, NEW from \in 0..Len(text),
              Mentioned(text, Gazetteer[p].phrase, from), Searched(p, from)'
       PROVE  Searched(p, from)
  <2>1. p \in Nat /\ from \in Nat /\ ~(from < 0)
    BY <1>3, GazetteerType
  <2>2. stage = 4 /\ (p < pass \/ p = pass)
    BY <1>1, <1>2, <1>11, <2>1 DEF Searched
  <2>3. CASE p = pass
    <3>1. Mentions = {}
      BY <1>4, <2>2 DEF NextPass
    <3>2. CASE from >= searchFrom
      <4> DEFINE i == from - searchFrom
      <4>1. i \in Nat /\ searchFrom + i = from
        BY <1>3, <2>1, <3>2
      <4> HIDE DEF i
      <4>2. Occurs(ToLower(text), ToLower(Gazetteer[pass].phrase), searchFrom + i)
        BY <1>11, <2>3, <4>1 DEF Mentioned
      <4> QED BY <1>1, <2>3, <3>1, <4>1, <4>2, MentionsOfRest
    <3>3. CASE from < searchFrom
      BY <2>2, <2>3, <3>3 DEF Searched
    <3> QED BY <1>3, <2>1, <3>2, <3>3
  <2> QED BY <2>2, <2>3 DEF Searched
<1>12. Covered'
  BY <1>2, <1>8, <1>11 DEF FactsInv, Covered
<1> QED BY <1>6, <1>7, <1>9, <1>10, <1>12 DEF FactsInv

LEMMA HeadAndTail ==
  ASSUME NEW S, NEW s \in Seq(S), s # <<>>
  PROVE  Head(s) \in S /\ Tail(s) \in Seq(S) /\ Range(s) = {Head(s)} \cup Range(Tail(s))
<1>1. /\ Len(s) \in Nat \ {0} /\ DOMAIN s = 1..Len(s) /\ Head(s) = s[1]
      /\ Tail(s) \in Seq(S) /\ DOMAIN Tail(s) = 1..(Len(s) - 1)
      /\ \A i \in 1..(Len(s) - 1) : Tail(s)[i] = s[i + 1]
      /\ \A i \in 1..Len(s) : s[i] \in S
  OBVIOUS
<1>2. \A i \in DOMAIN s : i = 1 \/ (i - 1 \in 1..(Len(s) - 1) /\ (i - 1) + 1 = i)
  BY <1>1
<1>3. \A i \in 1..(Len(s) - 1) : i + 1 \in 1..Len(s)
  BY <1>1
<1>4. 1 \in DOMAIN s
  BY <1>1
<1> DEFINE t == Tail(s)
           h == Head(s)
<1>5. \A i \in DOMAIN s : s[i] = h \/ \E j \in DOMAIN t : t[j] = s[i]
  BY <1>1, <1>2
<1>6. \A j \in DOMAIN t : \E i \in DOMAIN s : s[i] = t[j]
  BY <1>1, <1>3
<1>7. h \in S /\ t \in Seq(S) /\ \E i \in DOMAIN s : s[i] = h
  BY <1>1, <1>4
<1> HIDE DEF t, h
<1>8. Range(s) = {h} \cup Range(t)
  BY <1>5, <1>6, <1>7 DEF Range
<1> QED BY <1>7, <1>8 DEF t, h

\* A fact is appended that was not there, or is from the model.
LEMMA StillOnce ==
  ASSUME facts \in Seq(FactType), Once, NEW x \in FactType,
         facts' = Append(facts, x), x \notin Range(facts) \/ x.by = "llm"
  PROVE  Once'
<1> HIDE DEF FactType
<1>1. /\ Len(facts) \in Nat /\ DOMAIN facts = 1..Len(facts)
      /\ DOMAIN facts' = 1..(Len(facts) + 1)
      /\ \A i \in 1..Len(facts) : facts'[i] = facts[i]
      /\ facts'[Len(facts) + 1] = x
  OBVIOUS
<1>2. ASSUME NEW i \in DOMAIN facts', NEW j \in DOMAIN facts', facts'[i] = facts'[j]
      PROVE  i = j \/ facts'[i].by = "llm"
  <2>1. (i \in DOMAIN facts \/ i = Len(facts) + 1) /\ (j \in DOMAIN facts \/ j = Len(facts) + 1)
    BY <1>1
  <2>2. CASE i \in DOMAIN facts /\ j \in DOMAIN facts
    BY <1>1, <1>2, <2>2 DEF Once
  <2>3. CASE i \in DOMAIN facts /\ j = Len(facts) + 1
    BY <1>1, <1>2, <2>3 DEF Range
  <2>4. CASE i = Len(facts) + 1 /\ j \in DOMAIN facts
    BY <1>1, <1>2, <2>4 DEF Range
  <2> QED BY <2>1, <2>2, <2>3, <2>4
<1> QED BY <1>2 DEF Once

LEMMA KeepKeepsInv ==
  ASSUME FactsInv, Keep
  PROVE  FactsInv'
<1> DEFINE x == Head(found)
<1>1. /\ stage \in 1..4 /\ found \in Seq(FactType) /\ facts \in Seq(FactType) /\ found # <<>>
  BY DEF FactsInv, TypeOK, Keep
<1>2. /\ pc = "keep" /\ found' = Tail(found)
      /\ facts' = IF x \in Range(facts) THEN facts ELSE Append(facts, x)
      /\ UNCHANGED <<text, pc, stage, pass, searchFrom, answer>>
  BY DEF Keep, request
<1>3. x \in FactType /\ found' \in Seq(FactType) /\ Range(found) = {x} \cup Range(found')
  <2> HIDE DEF FactType
  <2> QED BY <1>1, <1>2, HeadAndTail
<1>4. facts' \in Seq(FactType) /\ Range(facts') = Range(facts) \cup {x}
  BY <1>1, <1>2, <1>3, RangeOfAppend
<1>5. Range(found)' = Range(found') /\ Range(facts)' = Range(facts')
  BY DEF Range
<1>6. Kept' = Kept
  BY <1>3, <1>4, <1>5 DEF Kept
<1>7. extractor' = extractor
  BY <1>2 DEF extractor, Pipeline
<1> HIDE DEF x
<1>8. TypeOK' /\ PlaceOK'
  BY <1>2, <1>3, <1>4, <1>7 DEF FactsInv, TypeOK, PlaceOK, AfterExtractors
<1>9. OriginsOK'
  <2>1. x.by = extractor /\ \A f \in Range(found') : f.by = extractor
    BY <1>3 DEF FactsInv, OriginsOK
  <2>2. \E n \in 1..stage : x.by = Pipeline[n]
    BY <1>1, <2>1 DEF extractor
  <2>3. \A f \in Range(facts) : f.by = "llm" \/ \E n \in 1..stage : f.by = Pipeline[n]
    BY DEF FactsInv, OriginsOK
  <2>4. \A f \in Range(facts') : f.by = "llm" \/ \E n \in 1..stage : f.by = Pipeline[n]
    BY <1>4, <2>2, <2>3
  <2>5. \A f \in Range(facts)' : f.by = "llm" \/ \E n \in 1..stage' : f.by = Pipeline[n] /\ (pc' = "extract" => n < stage')
    BY <1>2, <1>5, <2>4
  <2> QED BY <1>5, <1>7, <2>1, <2>5 DEF OriginsOK, Pipeline
<1>10. Verified(Kept)' /\ Apart(Kept)'
  BY <1>2, <1>6 DEF FactsInv, Verified, Apart
<1>11. Once'
  <2>1. CASE x \in Range(facts)
    BY <1>2, <2>1 DEF FactsInv, Once
  <2>2. CASE x \notin Range(facts)
    BY <1>1, <1>2, <1>3, <2>2, StillOnce DEF FactsInv
  <2> QED BY <2>1, <2>2
<1>12. Covered'
  BY <1>2, <1>6 DEF FactsInv, Covered, Searched
<1> QED BY <1>8, <1>9, <1>10, <1>11, <1>12 DEF FactsInv

LEMMA NextExtractorKeepsInv ==
  ASSUME FactsInv, NextExtractor
  PROVE  FactsInv'
<1>1. /\ text \in Texts /\ stage \in 1..3 /\ stage' = stage + 1 /\ stage' \in 1..4 /\ pass' = 1
      /\ pc = "keep" /\ pc' = "extract" /\ found = <<>> /\ searchFrom = 0
      /\ UNCHANGED <<text, searchFrom, found, facts, answer>>
  <2>1. stage \in 1..4 /\ stage < 4
    BY PipelineNames DEF FactsInv, TypeOK, NextExtractor
  <2> QED BY <2>1 DEF FactsInv, TypeOK, PlaceOK, NextExtractor, request
<1>2. Range(found) = {} /\ Range(found)' = Range(found) /\ Range(facts)' = Range(facts) /\ Kept' = Kept
  BY <1>1 DEF Kept, Range
<1>3. extractor' = Pipeline[stage']
  BY DEF extractor, Pipeline
<1>4. TypeOK'
  BY <1>1 DEF TypeOK, FactsInv
<1>5. PlaceOK'
  <2>1. pass' <= Len(IF extractor' = "gazetteer" THEN Gazetteer ELSE Patterns[extractor'])
    <3>1. CASE stage' = 4
      BY <1>1, <1>3, <3>1, PipelineNames, GazetteerType
    <3>2. CASE stage' # 4
      BY <1>1, <1>3, <3>2, PipelineNames, PatternsType
    <3> QED BY <3>1, <3>2
  <2> QED BY <1>1, <2>1 DEF FactsInv, PlaceOK, AfterExtractors
<1>6. OriginsOK'
  <2>1. \A f \in Range(facts) : f.by = "llm" \/ \E n \in 1..stage : f.by = Pipeline[n]
    BY DEF FactsInv, OriginsOK
  <2>2. \A n \in 1..stage : n \in 1..stage' /\ n < stage'
    BY <1>1
  <2>3. \A f \in Range(facts)' : f.by = "llm" \/ \E n \in 1..stage' : f.by = Pipeline[n] /\ (pc' = "extract" => n < stage')
    BY <1>2, <2>1, <2>2
  <2> QED BY <1>2, <2>3 DEF OriginsOK, Pipeline
<1>7. Verified(Kept)' /\ Apart(Kept)' /\ Once'
  BY <1>1, <1>2 DEF FactsInv, Verified, Apart, Once
<1>8. Covered'
  <2>1. \A p \in DOMAIN Gazetteer, from \in 0..Len(text) : ~Searched(p, from)'
    <3>1. \A p \in DOMAIN Gazetteer : p \in Nat \ {0}
      BY GazetteerType
    <3>2. \A from \in 0..Len(text) : ~(from < 0)
      BY <1>1, TextIsValid
    <3> QED BY <1>1, <3>1, <3>2 DEF Searched
  <2> QED BY <1>1, <2>1 DEF Covered
<1> QED BY <1>4, <1>5, <1>6, <1>7, <1>8 DEF FactsInv

LEMMA ConfigureKeepsInv ==
  ASSUME FactsInv, Configure
  PROVE  FactsInv'
<1>1. /\ pc = "configure" /\ pc' \in {"extract", "failed"} /\ stage = 1 /\ pass = 1
      /\ found = <<>> /\ facts = <<>>
      /\ UNCHANGED <<text, stage, pass, searchFrom, found, facts, answer>>
  BY DEF Configure, FactsInv, PlaceOK, request
<1>2. Range(found)' = {} /\ Range(facts)' = {} /\ Kept' = Kept
  BY <1>1 DEF Kept, Range
<1>3. pass <= Len(IF extractor = "gazetteer" THEN Gazetteer ELSE Patterns[extractor])
  BY <1>1, PipelineNames, PatternsType DEF extractor
<1>4. TypeOK' /\ PlaceOK'
  <2>1. extractor' = extractor
    BY <1>1 DEF extractor, Pipeline
  <2> QED BY <1>1, <1>3, <2>1 DEF FactsInv, TypeOK, PlaceOK, AfterExtractors
<1>5. OriginsOK'
  BY <1>2 DEF OriginsOK
<1>6. Verified(Kept)' /\ Apart(Kept)' /\ Once' /\ Covered'
  BY <1>1, <1>2 DEF FactsInv, Verified, Apart, Once, Covered, Searched
<1> QED BY <1>4, <1>5, <1>6 DEF FactsInv

\* The extractors are done, or nothing is done any more.
LEMMA ModelKeepsInv ==
  ASSUME FactsInv, UNCHANGED <<text, stage, pass, searchFrom, found, facts>>,
         answer' \in Seq(ProposalType),
         \/ pc' = pc \/ pc' = "failed"
         \/ pc \in AfterExtractors /\ pc' \in AfterExtractors
         \/ pc = "keep" /\ found = <<>> /\ stage = 4 /\ pc' \in AfterExtractors
  PROVE  FactsInv'
<1>1. Range(found)' = Range(found) /\ Range(facts)' = Range(facts) /\ Kept' = Kept
  BY DEF Kept, Range
<1>2. extractor' = extractor
  BY DEF extractor, Pipeline
<1>3. pc' = "extract" => pc = "extract"
  BY DEF AfterExtractors
<1>4. TypeOK'
  BY DEF FactsInv, TypeOK
<1>5. PlaceOK'
  BY <1>2 DEF FactsInv, PlaceOK, AfterExtractors
<1>6. OriginsOK'
  BY <1>1, <1>2, <1>3 DEF FactsInv, OriginsOK
<1>7. Verified(Kept)' /\ Apart(Kept)' /\ Once' /\ Covered'
  BY <1>1 DEF FactsInv, Verified, Apart, Once, Covered, Searched
<1> QED BY <1>4, <1>5, <1>6, <1>7 DEF FactsInv

LEMMA FilterKeepsInv ==
  ASSUME FactsInv, Filter
  PROVE  FactsInv'
<1> DEFINE p == Head(answer)
           x == Fact("llm", p.about, p.excerpt, p.from, p.to)
           exact == VerifyExcerptOffset(text, p.excerpt, p.from, p.to)
<1>1. /\ facts \in Seq(FactType) /\ answer \in Seq(ProposalType) /\ answer # <<>>
      /\ pc = "filter" /\ pc' = pc /\ answer' = Tail(answer)
      /\ facts' = IF exact THEN Append(facts, x) ELSE facts
      /\ UNCHANGED <<text, stage, pass, searchFrom, found>>
  BY DEF FactsInv, TypeOK, Filter, deterministic
<1>2. p \in ProposalType /\ answer' \in Seq(ProposalType)
  <2> HIDE DEF ProposalType
  <2> QED BY <1>1, HeadAndTail
<1>3. CASE ~exact
  <2>1. facts' = facts
    BY <1>1, <1>3
  <2> QED BY <1>1, <1>2, <2>1, ModelKeepsInv
<1>4. CASE exact
  <2>1. facts' = Append(facts, x)
    BY <1>1, <1>4
  <2>2. x \in FactType /\ x.by = "llm" /\ VerifyExcerptOffset(text, x.excerpt, x.from, x.to)
    BY <1>2, <1>4 DEF Fact, FactType, ProposalType, Authors
  <2> HIDE DEF x
  <2>3. facts' \in Seq(FactType) /\ Range(facts') = Range(facts) \cup {x}
    BY <1>1, <2>1, <2>2, RangeOfAppend
  <2>4. Range(found)' = Range(found) /\ Range(facts)' = Range(facts')
    BY <1>1 DEF Range
  <2>5. Kept' = Kept \cup {x}
    BY <2>3, <2>4 DEF Kept
  <2>6. extractor' = extractor
    BY <1>1 DEF extractor, Pipeline
  <2>7. TypeOK' /\ PlaceOK'
    BY <1>1, <1>2, <2>3, <2>6 DEF FactsInv, TypeOK, PlaceOK, AfterExtractors
  <2>8. OriginsOK'
    BY <1>1, <2>2, <2>3, <2>4, <2>6 DEF FactsInv, OriginsOK, Pipeline
  <2>9. Verified(Kept)' /\ Apart(Kept)'
    BY <1>1, <2>2, <2>5 DEF FactsInv, Verified, Apart
  <2>10. Once'
    BY <1>1, <2>1, <2>2, StillOnce DEF FactsInv
  <2>11. Covered'
    <3>1. Names(Kept) \subseteq Names(Kept')
      BY <2>5 DEF Names
    <3>2. ASSUME NEW n \in DOMAIN Gazetteer, NEW from \in 0..Len(text),
                 Mentioned(text, Gazetteer[n].phrase, from), Searched(n, from)'
          PROVE  Overlaps(text, Names(Kept'), from, from + Len(Gazetteer[n].phrase))
      <4>1. Searched(n, from)
        BY <1>1, <3>2 DEF Searched
      <4>2. Overlaps(text, Names(Kept), from, from + Len(Gazetteer[n].phrase))
        BY <3>2, <4>1 DEF FactsInv, Covered
      <4> QED BY <3>1, <4>2 DEF Overlaps
    <3> QED BY <1>1, <3>2 DEF Covered, Names
  <2> QED BY <2>7, <2>8, <2>9, <2>10, <2>11 DEF FactsInv
<1> QED BY <1>3, <1>4

LEMMA StepKeepsInv ==
  ASSUME FactsInv, KeepsWidth(text), [Next]_vars
  PROVE  FactsInv'
<1>1. CASE Configure
  BY <1>1, ConfigureKeepsInv
<1>2. CASE Match
  BY <1>2, MatchKeepsInv
<1>3. CASE Mention
  BY <1>3, MentionKeepsInv
<1>4. CASE NextPass
  BY <1>4, NextPassKeepsInv
<1>5. CASE Keep
  BY <1>5, KeepKeepsInv
<1>6. CASE NextExtractor
  BY <1>6, NextExtractorKeepsInv
<1>7. CASE Filter
  BY <1>7, FilterKeepsInv
<1>8. answer \in Seq(ProposalType)
  BY DEF FactsInv, TypeOK
<1>9. CASE Extracted
  <2>1. Len(Pipeline) = 4
    BY PipelineNames
  <2> QED BY <1>8, <1>9, <2>1, ModelKeepsInv DEF Extracted, AfterExtractors
<1>10. CASE Filtered \/ Transient \/ Resend \/ ModelFails \/ Tick
  <2>1. /\ UNCHANGED <<text, stage, pass, searchFrom, found, facts, answer>>
        /\ pc' = pc \/ pc' = "failed" \/ (pc \in AfterExtractors /\ pc' \in AfterExtractors)
    BY <1>10 DEF Filtered, Transient, Resend, ModelFails, Tick, deterministic, request, AfterExtractors
  <2> QED BY <1>8, <2>1, ModelKeepsInv
<1>11. CASE Complete
  <2>1. answer' \in Seq(ProposalType)
    BY <1>11, ExtractorsAssumption DEF Complete, ProposalType
  <2> QED BY <1>11, <2>1, ModelKeepsInv DEF Complete, deterministic, AfterExtractors
<1>12. CASE UNCHANGED vars
  BY <1>8, <1>12, ModelKeepsInv DEF vars, request
<1> QED
  BY <1>1, <1>2, <1>3, <1>4, <1>5, <1>6, <1>7, <1>9, <1>10, <1>11, <1>12 DEF Next, Work

LEMMA TextStays == [Next]_vars => text' = text
BY DEF Next, Work, vars, request, deterministic, Configure, Match, Mention, NextPass, Keep,
       NextExtractor, Extracted, Transient, Resend, ModelFails, Complete, Filter, Filtered, Tick

LEMMA InitialFacts == Init => ExtractionInv
<1> SUFFICES ASSUME Init PROVE ExtractionInv
  OBVIOUS
<1>1. /\ text \in Texts /\ pc = "configure" /\ stage = 1 /\ pass = 1 /\ searchFrom = 0
      /\ found = <<>> /\ facts = <<>> /\ answer = <<>>
  BY DEF Init
<1>2. TypeOK
  BY <1>1 DEF TypeOK
<1>3. PlaceOK
  BY <1>1, TextIsValid, RuneStartEnds DEF PlaceOK, AfterExtractors
<1>4. Range(found) = {} /\ Range(facts) = {} /\ Kept = {}
  BY <1>1 DEF Kept, Range
<1>5. OriginsOK /\ Verified(Kept) /\ Once /\ Apart(Kept)
  BY <1>1, <1>4 DEF OriginsOK, Verified, Once, Apart
<1>6. Covered
  BY <1>1 DEF Covered, Searched
<1> QED BY <1>1, <1>2, <1>3, <1>5, <1>6 DEF ExtractionInv, FactsInv

LEMMA FactsInvSuffices == ExtractionInv => FactsExact
<1> SUFFICES ASSUME FactsInv PROVE FactsExact
  BY DEF ExtractionInv, FactsExact
<1>1. pc # "crashed"
  BY DEF FactsInv, TypeOK, AfterExtractors
<1>2. Range(facts) \subseteq Kept
  BY DEF Kept
<1>3. ASSUME pc \in AfterExtractors, NEW p \in DOMAIN Gazetteer, NEW start \in 0..Len(text),
             Mentioned(text, Gazetteer[p].phrase, start)
      PROVE  Overlaps(text, {f \in Range(facts) : f.by = "gazetteer"},
                      start, start + Len(Gazetteer[p].phrase))
  <2>1. stage = 4 /\ pass = Len(Gazetteer) + 1 /\ found = <<>>
    BY <1>3 DEF FactsInv, PlaceOK
  <2>2. p < pass
    BY <2>1, GazetteerType
  <2>3. Overlaps(text, Names(Kept), start, start + Len(Gazetteer[p].phrase))
    BY <1>3, <2>1, <2>2 DEF FactsInv, Covered, Searched
  <2>4. Names(Kept) = {f \in Range(facts) : f.by = "gazetteer"}
    BY <2>1 DEF Names, Kept, Range
  <2> QED BY <2>3, <2>4
<1>4. \A f, g \in Range(facts) : f.by = g.by /\ f.by \in {"date", "gazetteer"} =>
         f = g \/ f.to <= g.from \/ g.to <= f.from
  BY <1>2 DEF FactsInv, Apart
<1>5. \A f \in Range(facts) : VerifyExcerptOffset(text, f.excerpt, f.from, f.to)
  BY <1>2 DEF FactsInv, Verified
<1> QED BY <1>1, <1>3, <1>4, <1>5 DEF FactsExact, FactsInv, Once, AfterExtractors

\* For texts of any length and any scripts, for any patterns, any answers of the
\* model and any gazetteer of ASCII names: as long as lower case keeps the width of
\* the text, no fact is misplaced, doubled or passed over, and nothing panics.
THEOREM FactsStandWhereTheySay == Spec => []FactsExact
<1>1. ExtractionInv /\ [Next]_vars => ExtractionInv'
  <2> SUFFICES ASSUME ExtractionInv, [Next]_vars PROVE ExtractionInv'
    OBVIOUS
  <2>1. text' = text
    BY TextStays
  <2>2. KeepsWidth(text)' => KeepsWidth(text)
    BY <2>1 DEF KeepsWidth
  <2>3. KeepsWidth(text) => FactsInv'
    BY StepKeepsInv DEF ExtractionInv
  <2> QED BY <2>1, <2>2, <2>3 DEF ExtractionInv
<1> QED BY <1>1, InitialFacts, FactsInvSuffices, PTL DEF Spec

-----------------------------------------------------------------------------
(* The model's time and price.                                             *)

Confirmed == config.provider = "openai" => config.confirm \/ Limit <= Threshold

BudgetInv ==
  /\ attempt \in 0..3 /\ delay \in Nat /\ spent \in 0..RequestTimeout /\ elapsed \in Nat
  /\ pc \in {"configure", "extract", "keep"} => attempt = 0
  /\ pc \in {"request", "wait"} => attempt # 0
  /\ attempt = 0 => elapsed = 0 /\ spent = 0 /\ delay = 0
  /\ attempt = 1 => elapsed + delay <= spent
  /\ attempt = 2 => elapsed + delay <= RequestTimeout + 1 + spent
  /\ attempt = 3 => elapsed + delay <= 2 * RequestTimeout + 3 + spent
  /\ Confirmed

LEMMA StepKeepsBudget == BudgetInv /\ [Next]_vars => BudgetInv'
<1> SUFFICES ASSUME BudgetInv, [Next]_vars PROVE BudgetInv'
  OBVIOUS
<1>0. RequestTimeout \in Nat
  BY ExtractorsAssumption
<1>a. Limit > Threshold \/ Limit <= Threshold
  <2>1. Limit \in Nat /\ Threshold \in Nat
    BY ExtractorsAssumption
  <2> QED BY <2>1
<1>1. CASE Configure
  <2>1. pc' # "request" /\ pc' # "wait" /\ pc = "configure" /\ UNCHANGED request
    BY <1>1 DEF Configure
  <2>2. Confirmed'
    <3>1. CASE UNCHANGED config
      BY <3>1 DEF BudgetInv, Confirmed
    <3>2. CASE ~UNCHANGED config
      <4>1. PICK provider \in {"", "local", "openai", "anthropic"},
                 hasModel \in BOOLEAN, hasURL \in BOOLEAN, hasKey \in BOOLEAN, confirm \in BOOLEAN :
              LET built == BuildLLMExtractor(provider, hasModel, hasURL, hasKey) IN
                IF built = "failed" \/ ~costGuardrail(built, confirm)
                  THEN pc' = "failed" /\ UNCHANGED config
                  ELSE pc' = "extract" /\ config' = [provider |-> built, confirm |-> confirm]
        BY <1>1 DEF Configure
      <4> DEFINE built == BuildLLMExtractor(provider, hasModel, hasURL, hasKey)
      <4> HIDE DEF built
      <4>2. costGuardrail(built, confirm) /\ config' = [provider |-> built, confirm |-> confirm]
        BY <3>2, <4>1, Zenon DEF built
      <4>3. config'.provider = built /\ config'.confirm = confirm
        BY <4>2
      <4>4. built = "openai" => confirm \/ Limit <= Threshold
        BY <4>2, <1>a, Zenon DEF costGuardrail
      <4> QED BY <4>3, <4>4, Zenon DEF Confirmed
    <3> QED BY <3>1, <3>2
  <2> QED BY <2>1, <2>2 DEF BudgetInv, request
<1>2. CASE Match \/ Mention \/ NextPass \/ Keep \/ NextExtractor
  <2>1. /\ pc \in {"extract", "keep"} /\ pc' \in {"extract", "keep", "crashed"}
        /\ UNCHANGED <<config, attempt, delay, spent, elapsed>>
    BY <1>2 DEF Match, Mention, NextPass, Keep, NextExtractor, request
  <2> QED BY <2>1 DEF BudgetInv, Confirmed
<1>3. CASE Extracted
  BY <1>0, <1>3 DEF Extracted, BudgetInv, Confirmed
<1>4. CASE Transient
  <2>1. /\ pc = "request" /\ UNCHANGED <<config, elapsed>>
        /\ IF attempt < 3
             THEN pc' = "wait" /\ attempt' = attempt + 1 /\ delay' = attempt /\ spent' = 0
             ELSE pc' = "failed" /\ UNCHANGED <<attempt, delay, spent>>
    BY <1>4 DEF Transient, deterministic
  <2>2. attempt = 1 \/ attempt = 2 \/ attempt = 3
    BY <2>1 DEF BudgetInv
  <2>3. Confirmed'
    BY <2>1 DEF BudgetInv, Confirmed
  <2>4. CASE attempt = 1
    BY <1>0, <2>1, <2>3, <2>4 DEF BudgetInv
  <2>5. CASE attempt = 2
    BY <1>0, <2>1, <2>3, <2>5 DEF BudgetInv
  <2>6. CASE attempt = 3
    BY <1>0, <2>1, <2>3, <2>6 DEF BudgetInv
  <2> QED BY <2>2, <2>4, <2>5, <2>6
<1>5. CASE Resend \/ ModelFails \/ Complete \/ Filter \/ Filtered
  <2>1. /\ UNCHANGED <<config, attempt, delay, spent, elapsed>>
        /\ pc' = pc \/ pc' \in {"done", "failed", "filter"} \/ (pc = "wait" /\ pc' = "request")
    BY <1>5 DEF Resend, ModelFails, Complete, Filter, Filtered, deterministic, request
  <2> QED BY <2>1 DEF BudgetInv, Confirmed
<1>6. CASE Tick
  <2>1. /\ pc' = pc /\ UNCHANGED <<config, attempt>> /\ elapsed' = elapsed + 1
        /\ \/ pc = "request" /\ spent < RequestTimeout /\ spent' = spent + 1 /\ UNCHANGED delay
           \/ pc = "wait" /\ delay > 0 /\ delay' = delay - 1 /\ UNCHANGED spent
    BY <1>6 DEF Tick, deterministic
  <2>2. Confirmed'
    BY <2>1 DEF BudgetInv, Confirmed
  <2>3. attempt = 1 \/ attempt = 2 \/ attempt = 3
    BY <2>1 DEF BudgetInv
  <2> QED BY <1>0, <2>1, <2>2, <2>3 DEF BudgetInv
<1>7. CASE UNCHANGED vars
  BY <1>7 DEF vars, request, BudgetInv, Confirmed
<1> QED BY <1>1, <1>2, <1>3, <1>4, <1>5, <1>6, <1>7 DEF Next, Work

\* Whatever the model answers and however often it is overloaded, for every request
\* timeout: at most three requests and the time of three and the pauses between them,
\* and a paid model only within the guardrail or confirmed.
THEOREM ModelStaysWithinBudget == Spec => []WithinBudget
<1>1. Init => BudgetInv
  BY ExtractorsAssumption DEF Init, NoModel, BudgetInv, Confirmed
<1>2. BudgetInv => WithinBudget
  <2> SUFFICES ASSUME BudgetInv PROVE WithinBudget
    OBVIOUS
  <2>1. RequestTimeout \in Nat
    BY ExtractorsAssumption
  <2>2. attempt = 0 \/ attempt = 1 \/ attempt = 2 \/ attempt = 3
    BY DEF BudgetInv
  <2>3. elapsed <= 3 * RequestTimeout + 3
    BY <2>1, <2>2 DEF BudgetInv
  <2> QED BY <2>3 DEF BudgetInv, Confirmed, WithinBudget
<1> QED BY <1>1, <1>2, StepKeepsBudget, PTL DEF Spec
=============================================================================
