SPECIFICATION Spec
CONSTANTS
  Clients = {"10.0.0.1", "10.0.0.2"}
  Listed = {"10.0.0.1"}
  UseList = TRUE
  HmacEnabled = TRUE
  HmacRequired = TRUE
  Capacity = 5
  Refill = 1
  Cost = 2
  MaxTime = 5
  MaxRequests = 6
INVARIANTS
  NoWindowExceedsTheRate
PROPERTY ImplementsRateLimit
CHECK_DEADLOCK FALSE
