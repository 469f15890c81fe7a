CONSTANTS
  p1 = p1
  p2 = p2
  h1 = h1
  h2 = h2
  Procs = {p1, p2}
  Readers = {r1}
  Boards = {"chat", "channel"}
  Used = {"bot", "api", "tool", "status", "publish", "release", "late", "repair"}
  TTL = 1
  Faults = TRUE
  MaxChanges = 2
  Horizon = 2
  Hands = {h1, h2}
  MaxPosts = 4
  Overlap = FALSE
SPECIFICATION MCSpec
INVARIANTS AnswersFresh NamesOwnMessages
PROPERTIES EachChangeTold
CHECK_DEADLOCK FALSE
