CONSTANTS
  u1 = u1
  u2 = u2
  u3 = u3
  w1 = w1
  p1 = p1
  p2 = p2
  Players = {u1, u2, u3}
  Guests = {w1}
  Requests = {p1, p2}
  MaxMoves = 1
SPECIFICATION MCSpec
INVARIANTS OneBallotPerTeam FiledUnderTeam CountsAgree ElectedByOthers
SYMMETRY Symmetry
