SPECIFICATION Spec
CONSTANTS
  a1 = a1
  a2 = a2
  p1 = p1
  p2 = p2
  Accounts = {a1, a2}
  Editors = {a1}
  Adders = {a1}
  Proposals = {p1}
  Requests = {q1}
  Events = {}
  None = None
  MaxUpdates = 1
  Scenarios <- MCOneByOne
SYMMETRY Symmetry
PROPERTY
  ClosedIsFinal
