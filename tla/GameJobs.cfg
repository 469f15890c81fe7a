CONSTANTS
  Procs = {p1, p2}
  Dates = {2, 4}
  Durations = {1, 3}
  Lead = 2
  GkHours = 0
  Day = 3
  Window = 3
  Horizon = 10
  Announced = {0}
  MaxRequests = 4
  TriggerTimes = {5}
  Overlap = FALSE
  MovesBack = FALSE
  Reopens = FALSE
SPECIFICATION FairSpec
INVARIANTS OneOpenVoting ElectionFollows
PROPERTIES FullWindow VotingCloses
CHECK_DEADLOCK FALSE
