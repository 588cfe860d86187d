SPECIFICATION Spec
CONSTANTS
  a1 = a1
  a2 = a2
  p1 = p1
  p2 = p2
  Accounts = {a1, a2}
  Editors = {a1}
  Adders = {a1}
  Proposals = {p1}
  Requests = {q1, q2}
  Events = {e1}
  None = None
  MaxUpdates = 2
  Scenarios <- MCDrafts
SYMMETRY Symmetry
INVARIANTS
  StoresAgree
  HistoryComplete
  HistorySerial
PROPERTIES
  RelationKept
