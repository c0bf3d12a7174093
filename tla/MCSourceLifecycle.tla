------------------------- MODULE MCSourceLifecycle -------------------------
(* Instances of SourceLifecycle for TLC.                                   *)
EXTENDS SourceLifecycle, TLC

CONSTANTS s1, s2, f1, f2

\* Workers of one kind are interchangeable (used by runs without liveness).
SameKind == Permutations(Archivers) \cup Permutations(Verifiers) \cup Permutations(Extractors)

\* Two documents that share fact f1; s2 asserts f2 as well.
SharedFacts == s1 :> {f1} @@ s2 :> {f1, f2}

\* Two documents that assert the same fact, and nothing else tells them apart.
SameFact == s1 :> {f1} @@ s2 :> {f1}
SameKindAndSource == SameKind \cup Permutations(Sources)

\* Only s1 asserts something; the other page is empty once stripped.
OneFact == s1 :> {f1} @@ s2 :> {}
=============================================================================
