SPECIFICATION RecordsSpec
CONSTANTS
  m1 = m1
  m2 = m2
  Users = {u1, u2}
  Delegates = {d1, d2}
  Members = {m1, m2}
  Groups <- MCGroups
  MaxPolicies = 1
  Consumer = consumer
  Timers = {t1}
  Requests = {q1}
  Pollers = {p1}
  None = None
  Scenarios <- MCScenarios
  Claimers = {u1, u2}
  MaxProposals = 3
  Times = 2
  Nothing = Nothing
  BountyScenarios <- MCBountyScenarios
  Treasuries = {dao1, dao2}
  Outsider = outsider
  Tokens = {ft1, ft2}
  Nfts = {n1, n2}
  Absent = Absent
  TransferScenarios <- MCTransferScenarios
CHECK_DEADLOCK FALSE
INVARIANTS
  PolicyRepairs
  RequestsAgree
  StoresAgreeOnBounty
  ClaimsExact
  HoldingsShown
  DailyBalanceTrue
PROPERTIES
  BlocksShown
  DelegationsExact
  VersionShown
