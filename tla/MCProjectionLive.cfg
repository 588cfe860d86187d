SPECIFICATION FairSpec
CONSTANTS
  MaxProposals = 1
  Voters = {v1}
  PolicyChanges = {1}
  Consumer = consumer
  Retriers = {t1}
  Wallets = {}
  Pollers = {a1}
  None = None
  ProposalDynamo = TRUE
  DaoDynamo = FALSE
  Scenarios <- MCOneFault
CHECK_DEADLOCK FALSE
INVARIANTS
  SoloRepairs
  CountsShown
PROPERTIES
  ExpiryShown
