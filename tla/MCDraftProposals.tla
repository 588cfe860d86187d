-------------------------- MODULE MCDraftProposals --------------------------
(***************************************************************************)
(* Instances of DraftProposals for TLC.                                    *)
(***************************************************************************)
EXTENDS DraftProposals, TLC

CONSTANTS a1, a2, p1, p2

Symmetry == Permutations(Proposals) \cup Permutations(Requests)

\* Accounts that wait for each answer, and one that does not, with the event.
MCDrafts ==
  {[asked |-> {"update", "delete", "close", "save", "removeSave"},
    by |-> {a1, a2}, oneEach |-> TRUE, events |-> FALSE, faults |-> 1],
   [asked |-> {"update", "delete", "close"},
    by |-> {a1}, oneEach |-> FALSE, events |-> TRUE, faults |-> 0]}

MCOneByOne ==
  {[asked |-> {"update", "delete", "close", "view"},
    by |-> {a1}, oneEach |-> TRUE, events |-> FALSE, faults |-> 0]}
=============================================================================
