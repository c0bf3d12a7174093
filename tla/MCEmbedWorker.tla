---------------------------- MODULE MCEmbedWorker ----------------------------
(* Instances of EmbedWorker for TLC.                                       *)
EXTENDS EmbedWorker

CONSTANTS e1, e2, e3, s1, t1, w1, w2

\* Two transactions of extractions, and one of a collector that may commit
\* before or after them.
CreatedAt == [r \in Rows |-> IF r \in {e1, e2, t1} THEN 1 ELSE IF r = s1 THEN 2 ELSE 3]
=============================================================================
