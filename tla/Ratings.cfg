CONSTANTS
  p1 = p1
  p2 = p2
  u1 = u1
  u2 = u2
  g1 = g1
  g2 = g2
  Players = {u1, u2}
  Games = {g1, g2}
  Procs = {p1}
  Start = 50
  Points <- WinAndLoss
  Bonus = 10
  OutsiderVotes = FALSE
SPECIFICATION Spec
INVARIANTS RatingLedger CounterLedger SingleRows BonusRecorded
SYMMETRY Symmetry
