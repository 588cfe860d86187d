------------------------ MODULE MCProposalProjection ------------------------
(***************************************************************************)
(* Instances of ProposalProjection for TLC.                                *)
(***************************************************************************)
EXTENDS ProposalProjection, TLC

Symmetry == Permutations(Voters)

\* The consumer alone with a restart, or with callbacks beside it.
MCRaces ==
  {[receipts |-> 4, callbacks |-> FALSE, faults |-> 0, crashes |-> 1],
   [receipts |-> 3, callbacks |-> TRUE, faults |-> 0, crashes |-> 0]}

\* One await fails.
MCOneFault ==
  {[receipts |-> 3, callbacks |-> FALSE, faults |-> 1, crashes |-> 0]}
=============================================================================
