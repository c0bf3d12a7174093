----------------------------- MODULE MCDossiers -----------------------------
(* Instances of Dossiers for TLC.                                          *)
EXTENDS Dossiers

CONSTANTS d1, d2, b1

\* Conflicting statements about each of two entities, one about the third.
About  == <<1, 1, 2, 2, 3>>
Slugs  == <<1, 1, 1, 1, 1>>
Values == <<1, 2, 1, 3, 1>>
Links  == {<<1, 1>>, <<1, 2>>, <<2, 1>>, <<3, 1>>, <<5, 2>>}
Added  == {<<4, 1>>, <<2, 2>>}

\* A chain whose second edge points backwards; a weak or a strong third edge
\* makes a shortcut or a cycle.
Chain    == {[from |-> 1, to |-> 2, strong |-> TRUE], [from |-> 3, to |-> 2, strong |-> TRUE]}
Shortcut == {[from |-> 3, to |-> 1, strong |-> b] : b \in BOOLEAN}

\* The first two entities come from one extraction.
CreatedAt == <<1, 1, 2, 3>>
=============================================================================
