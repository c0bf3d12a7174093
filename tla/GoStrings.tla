------------------------------ MODULE GoStrings ------------------------------
(***************************************************************************)
(* Strings as Go has them: sequences of bytes, mostly of whole runes.  The *)
(* k-th byte of rune r is <<r, k>>.  What the extractors take from the     *)
(* packages strings, unicode and utf8 is here, and how they go from        *)
(* positions in bytes to positions in runes and back.                      *)
(***************************************************************************)
EXTENDS Integers, FiniteSets, SequencesExt

CONSTANTS
  Width,      \* per rune: its bytes in UTF-8
  LowerCase,  \* per rune: unicode.ToLower
  RuneError,  \* what an invalid byte decodes to
  Letters,    \* unicode letters and digits
  WordRunes   \* what \b takes for a letter: ASCII only

ASSUME RunesAssumption ==
  /\ \A r \in DOMAIN Width : Width[r] \in 1..4
  /\ RuneError \in DOMAIN Width \ Letters
  /\ LowerCase \in [DOMAIN Width -> DOMAIN Width]
  /\ \A r \in DOMAIN Width : LowerCase[r] \in Letters <=> r \in Letters

Byte == {b \in (DOMAIN Width) \X (1..4) : b[2] <= Width[b[1]]}

Encoded(r) == [k \in 1..Width[r] |-> <<r, k>>]

\* The string of a sequence of runes.
Bytes(runes) == FlattenSeq([i \in DOMAIN runes |-> Encoded(runes[i])])

\* s[from:to].
Slice(s, from, to) == SubSeq(s, from + 1, to)

\* Byte i of s lies in a rune that is all in s.
Whole(s, i) == i - s[i][2] >= 0 /\ i - s[i][2] + Width[s[i][1]] <= Len(s)

\* utf8.ValidString.
Valid(s) ==
  \A i \in DOMAIN s :
    Whole(s, i) /\ \A k \in 1..Width[s[i][1]] : s[i - s[i][2] + k] = <<s[i][1], k>>

ValidStrings == {s \in Seq(Byte) : Valid(s)}

\* The rune that is read at byte i.
RuneAt(s, i) == IF Whole(s, i) THEN s[i][1] ELSE RuneError

\* Every byte of a rune that is cut off counts as a rune.
RuneCount(s) == Cardinality({i \in DOMAIN s : Whole(s, i) => s[i][2] = 1})

Lowered(s, i) ==
  IF Whole(s, i) /\ s[i][2] > 1 THEN <<>> ELSE Encoded(LowerCase[RuneAt(s, i)])

ToLower(s) ==
  LET upTo[i \in 0..Len(s)] == IF i = 0 THEN <<>> ELSE upTo[i - 1] \o Lowered(s, i)
  IN  upTo[Len(s)]

\* t stands in s at byte offset i.
Occurs(s, t, i) == i + Len(t) <= Len(s) /\ Slice(s, i, i + Len(t)) = t

\* Where strings.Index may find t.
Occurrences(s, t) == {i \in 0..Len(s) : Occurs(s, t, i)}

First(offsets, i) == i \in offsets /\ \A j \in offsets : i <= j

WordAt(s, i) == i \in DOMAIN s /\ s[i][1] \in WordRunes

\* \b
WordBoundary(s, i) == WordAt(s, i) # WordAt(s, i + 1)

\* Mutant of byteOffsetToCharOffset: the offset in bytes.
OffsetInBytes(s, offset) == IF offset >= Len(s) THEN Len(s) ELSE offset

byteOffsetToCharOffset(s, offset) ==
  RuneCount(Slice(s, 0, IF offset >= Len(s) THEN Len(s) ELSE offset))

\* A rune of s starts after offset bytes, or s ends there.
RuneStart(s, offset) == offset \in 0..Len(s) /\ (offset < Len(s) => s[offset + 1][2] = 1)

\* In a valid string; -1 if there is no such rune.
None == -1
runeOffsetToByteOffset(s, offset) ==
  LET at == {i \in 0..Len(s) : /\ RuneStart(s, i)
                               /\ Cardinality({j \in 1..i : s[j][2] = 1}) = offset}
  IN  IF at = {} THEN None ELSE Min(at)

\* The check of llm.go, which lets an empty excerpt pass.
VerifyExcerptOffset(s, excerpt, from, to) ==
  LET start == runeOffsetToByteOffset(s, from)
      end   == runeOffsetToByteOffset(s, to)
  IN  /\ from >= 0 /\ to >= from
      /\ start # None /\ end # None
      /\ Slice(s, start, end) = excerpt

hasWordBoundaries(s, start, end) ==
  /\ start > 0 => RuneAt(Slice(s, 0, start), start) \notin Letters
  /\ end < Len(s) => RuneAt(Slice(s, end, Len(s)), 1) \notin Letters
=============================================================================
