SPECIFICATION Spec
CONSTANTS
  Infos <- SomeInfos
  Prices = {0, 120}
  CreatedAt <- SomeSignups
  Organizers = {o1, o2}
  Outcomes = {"delivered", "blocked"}
  Payloads <- SomePayloads
INVARIANT CopiesAgree
CHECK_DEADLOCK FALSE
