CONSTANTS
  u1 = u1
  u2 = u2
  c1 = c1
  g1 = g1
  p1 = p1
  p2 = p2
  People = {u1, u2}
  Chats = {c1}
  Games = {g1}
  Procs = {p1, p2}
  Owner = u1
  Weeks = {1}
  MaxCards = 3
  MaxMerges = 1
  SelfMerge = FALSE
  Horizon = 1
SPECIFICATION MCSpec
INVARIANTS TypeOK LiftsEarlier
PROPERTIES MergeKeepsRecords RevokeFrees
SYMMETRY Symmetry
CHECK_DEADLOCK FALSE
