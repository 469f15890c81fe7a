CONSTANTS
  p1 = p1
  p2 = p2
  u1 = u1
  u2 = u2
  u3 = u3
  g1 = g1
  NoProc = NoProc
  NoOne = NoOne
  Procs = {p1, p2}
  Ops <- ToolOps
  Players = {u1, u2}
  Guests = {}
  Capacities = {1}
  SignupLimit = 1
  Carded = {}
  Milestones = {"kickoff"}
SPECIFICATION FairSpec
INVARIANTS WithinCapacity
PROPERTIES Answered
