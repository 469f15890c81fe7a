CONSTANTS
  p1 = p1
  p2 = p2
  u1 = u1
  u2 = u2
  u3 = u3
  g1 = g1
  NoProc = NoProc
  NoOne = NoOne
  Procs = {p1, p2}
  Ops = {"api_join", "finish"}
  Players = {u1}
  Guests = {}
  Capacities = {1}
  SignupLimit = 0
  Carded = {}
  Milestones = {}
SPECIFICATION Spec
PROPERTIES JoinsOpenGame
