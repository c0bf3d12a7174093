---------------------------- MODULE SourceLedger ----------------------------
(***************************************************************************)
(* What the source pipeline promises to those who read the database: the   *)
(* committed rows change only by whole captures, archivals, checks and     *)
(* extractions, each of them of a set of sources at once.  Nothing is said *)
(* of transactions, locks, batches or workers: SourceLifecycle implements  *)
(* this module with them.                                                  *)
(***************************************************************************)
EXTENDS SourceRows

VARIABLES sources, evidence

ledger == <<sources, evidence>>

Linked(s) == \E f \in Facts : <<f, s>> \in evidence

-----------------------------------------------------------------------------
Init ==
  /\ sources  = [s \in Sources |-> NoRow]
  /\ evidence = {}

Batch == sources' \in [Sources -> Row] /\ UNCHANGED evidence

Kept(s) == sources'[s] = sources[s]

Capture == Batch /\ \A s \in Sources : Captured(sources[s], sources'[s]) \/ Kept(s)
Archive == Batch /\ \A s \in Sources : Archived(s, sources[s], sources'[s]) \/ Kept(s)
Check   == Batch /\ \A s \in Sources : Checked(Linked(s), sources[s], sources'[s]) \/ Kept(s)

\* One source is linked to facts that its text supports and that no source is
\* linked to yet, together with its status.
Extract ==
  \E s \in Sources, facts \in SUBSET Facts :
    /\ facts # {}
    /\ facts \subseteq Grounded[s]
    /\ sources[s].raw_text = "text"
    /\ \A f \in facts, t \in Sources : <<f, t>> \notin evidence
    /\ evidence' = evidence \cup {<<f, s>> : f \in facts}
    /\ sources'  = [sources EXCEPT ![s] = WithFacts(@)]

Next == Capture \/ Archive \/ Check \/ Extract

Spec == Init /\ [][Next]_ledger
=============================================================================
