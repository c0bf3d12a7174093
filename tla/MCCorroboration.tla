--------------------------- MODULE MCCorroboration ---------------------------
(* Instances of Corroboration for TLC.                                     *)
EXTENDS Corroboration

CONSTANTS c1, c2, reuters, ap

Symmetric == Permutations({reuters, ap})
=============================================================================
