CONSTANTS
  N = 5
  Profiles <- AllProfiles
  TeamCounts = {2, 3}
SPECIFICATION Spec
INVARIANTS KeeperEach SizesEven RatingsClose
CHECK_DEADLOCK FALSE
