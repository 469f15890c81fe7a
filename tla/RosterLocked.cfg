CONSTANTS
  p1 = p1
  p2 = p2
  u1 = u1
  u2 = u2
  u3 = u3
  g1 = g1
  NoProc = NoProc
  NoOne = NoOne
  Procs = {p1, p2}
  Ops <- LockedOps
  Players = {u1, u2, u3}
  Guests = {g1}
  Capacities = {1, 2}
  SignupLimit = 3
  Carded = {}
  Milestones = {}
SPECIFICATION Spec
INVARIANTS TypeOK
PROPERTIES KeepsSlotsFilled ImplementsWaitlist PromotesOldest ReleaseIsAtomic FixSettles RespectsSignupLimit JoinsOpenGame
SYMMETRY Symmetry
