SPECIFICATION SafeSpec
CONSTANTS
  p1 = p1
  p2 = p2
  d1 = d1
  d2 = d2
  Endpoints = {p1}
  Deliveries = {d1, d2}
  EndpointOf <- SameEndpoint
  Schedulers = {s1, s2}
  Limit = 2
  MaxAttempts = 2
  MaxCrashes = 1
  NoRow = NoRow
CHECK_DEADLOCK FALSE
SYMMETRY SchedulerSymmetry
INVARIANTS TypeOK DeadLetterEarned DeliveredAccepted
