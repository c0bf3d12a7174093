--------------------------- MODULE MCAcquisition ----------------------------
(* Instances of Acquisition for TLC.                                       *)
EXTENDS Acquisition

CONSTANTS u1, u2, u3, none, never

\* The second feed has no tenant of its own; the other two share their urls
\* with each other and with the search results, in another order.
FeedsMC    == 1..3
EntriesMC  == <<<<u1, u2>>, <<u1>>, <<u3, u2>>>>
IntervalMC == <<1, 1, 7>>

LowerMC == [w \in {"Rome", "rome", "The", "forum"} |->
              CASE w = "Rome" -> "rome" [] w = "The" -> "the" [] OTHER -> w]

q1 == <<"The", "Rome">>
q2 == <<"rome">>
q3 == <<"rome", "forum">>

AnswersMC == {<<>>, <<<<1, q1>>, <<1, q2>>, <<1, q3>>>>, <<<<1, q1>>, <<2, q3>>, <<2, q2>>>>}

ResultsMC == [q \in {q1, q2, q3} |-> IF q = q3 THEN <<u1, u3>> ELSE <<none, u2, u1, u3>>]
=============================================================================
