CONSTANTS
  i1 = i1
  i2 = i2
  p1 = p1
  p2 = p2
  Items = {i1, i2}
  Procs = {p1, p2}
  Payloads <- Updates
  Ages = {1}
  NoLife = 0
  Lives = {0, 3, 10}
  Lead = 1
  Cooldown = 2
  MaxEdits = 2
  Horizon = 2
SPECIFICATION MCSpec
INVARIANTS AlertsSpaced QuietIsTold
PROPERTIES AnnouncedFirst SweepKeepsEdits
SYMMETRY Symmetry
CHECK_DEADLOCK FALSE
