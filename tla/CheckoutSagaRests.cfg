SPECIFICATION FairSpec
CONSTANTS
  Runs = {r1}
  Attempts = {1, 2}
  Orders = {1, 2}
  PayRequests = {p1, p2}
  Scenarios = {"success", "insufficient_funds"}
  UpstreamFaults = TRUE
  MaxLate = 1
  MaxAbandoned = 8
  EarlyIntake = FALSE
  Workers = {w1}
  BatchSize = 2
  MaxLen = 8
  Faults = {}
INVARIANTS
  BusyRunHasWork
PROPERTIES
  EveryCheckoutRests
  EveryPaymentRests
  EveryCommandSettles
CHECK_DEADLOCK FALSE
