SPECIFICATION Spec
CONSTANTS
  Infos <- SomeInfos
  Prices = {0, 120}
  CreatedAt <- SomeSignups
  Organizers = {o1, o2}
  Outcomes = {"delivered", "blocked"}
  Payloads <- SomePayloads
INVARIANTS OrdersExact DebtorsTold BlocksCorrectable ReadsBack
CHECK_DEADLOCK FALSE
