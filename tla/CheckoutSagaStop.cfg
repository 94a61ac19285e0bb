SPECIFICATION FairSpec
CONSTANTS
  Runs = {r1}
  Attempts = {1}
  Orders = {1, 2}
  PayRequests = {p1}
  Scenarios = {"success", "suspected_fraud"}
  UpstreamFaults = FALSE
  MaxLate = 0
  MaxAbandoned = 8
  EarlyIntake = FALSE
  Workers = {w1}
  BatchSize = 2
  MaxLen = 6
  Faults = {"stop"}
PROPERTIES
  EveryCheckoutRests
CHECK_DEADLOCK FALSE
