SPECIFICATION Spec
CONSTANTS
  MaxProposals = 1
  Voters = {v1, v2}
  PolicyChanges = {1}
  Consumer = consumer
  Retriers = {}
  Wallets = {u1}
  Pollers = {}
  None = None
  ProposalDynamo = FALSE
  DaoDynamo = TRUE
  Scenarios <- MCRaces
CHECK_DEADLOCK FALSE
SYMMETRY Symmetry
INVARIANTS
  OnlyChainStates
PROPERTIES
  BlocksExact
