SPECIFICATION Spec
CONSTANTS
  Processes = {p1, p2, p3}
  Domains = {d1, d2}
  Tokens = {t1, t2}
  d1 = d1
  d2 = d2
  t1 = t1
  t2 = t2
  None = None
  Garbled = Garbled
  Accepted <- MCAccepted
  Orders <- MCOrders
SYMMETRY Symmetry
CHECK_DEADLOCK FALSE
INVARIANTS
  TokensFitDomains
  PointerHasToken
  DoneMeansDone
