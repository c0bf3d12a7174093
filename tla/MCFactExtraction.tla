------------------------- MODULE MCFactExtraction --------------------------
(* Instances of FactExtraction for TLC.                                    *)
EXTENDS FactExtraction, TLC

CONSTANTS s1, s2, s3,           \* sources
          f1, f2, f3, f4, f5,   \* facts
          acme, globex,         \* entities
          known, date, founded  \* slugs

\* s1 and s2 come from one collector run.
Order == [s \in Sources |-> IF s \in {s1, s2} THEN 1 ELSE 2]

Good(f) == [fact |-> f, ok |-> TRUE]
Bad(f)  == [fact |-> f, ok |-> FALSE]

\* Two subjects, a catalog slug, a slug that only the table knows, and one
\* that nobody knows yet.
Subjects == f1 :> acme @@ f2 :> globex @@ f3 :> acme @@ f4 :> acme @@ f5 :> globex
SlugsOf  == f1 :> known @@ f2 :> date @@ f3 :> founded @@ f4 :> known @@ f5 :> known
StringTypes == [f \in Facts |-> "string"]

KnownString == known :> "string"
DateString  == date :> "string"

\* s1 and s2 share f1 and f3, have a fact of their own each and name the two
\* subjects in opposite order; s2 is also read with an excerpt that is not
\* there.  s3 brings nothing, or a value that its column does not accept.
Crossed == s1 :> {<<Good(f1), Good(f5)>>, <<Good(f3), Good(f5), Good(f5)>>}
        @@ s2 :> {<<Good(f2), Good(f1)>>, <<Bad(f5), Good(f3), Good(f2)>>}
        @@ s3 :> {<<Good(f4)>>, <<>>}

\* One source with a known and an unknown slug.
Mixed == s1 :> {<<Good(f1), Good(f3)>>}
=============================================================================
