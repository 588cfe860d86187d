SPECIFICATION Spec
CONSTANTS
  Emails = {e1, e2}
  Phones = {p1}
  AccountThreads = {t1, t2}
  Null = Null
  ResendAfter = 1
  CodeLife = 2
  AccountScenarios <- MCAccountScenarios
  Notes = {n1, n2}
  NoteThreads = {w1, w2}
  Sockets = {s1}
  Absent = Absent
  NoteScenarios <- MCNoteScenarios
  MaxNumber = 3
  ChunkSize = 2
  Runs = {r1, r2}
  Visitors = {v1}
  Missing = Missing
  AggregationScenarios <- MCAggregationScenarios
  Records = {q1, q2, q3, q4, q5}
  Dao = Dao
  Nothing = Nothing
  MigrationChunk = 2
  CheckChunk = 2
  FirstTable <- MCFirstTable
  Beginnings <- MCBeginnings
  DataScenarios <- MCDataScenarios
  Documents = {x1, x2}
  NoIndex = NoIndex
  IndexScenarios <- MCIndexScenarios
  Voters = {u1, u2}
  Nobody = Nobody
  PolicyDaos = {k1, k2}
  PolicyLabels = {"config", "call"}
  Listings <- MCListings
  Policies <- MCPolicies
  StakeAmounts = {0, 1}
  PermissionScenarios <- MCPermissionScenarios
CHECK_DEADLOCK FALSE
INVARIANTS
  AddressConfirmed
  AccountsAgree
  InboxAgrees
  AggregationRepairs
  JobsExclusive
  ResponsesFresh
  MigrationComplete
  CheckExact
  DocumentsKept
  FeedPermitted
  AnswersTimely
