SPECIFICATION DashboardSpec
CONSTANTS
  Runs = {r1}
  Attempts = {1}
  Orders = {1, 2}
  PayRequests = {p1, p2}
  Scenarios = {"success"}
  UpstreamFaults = FALSE
  MaxLate = 0
  MaxAbandoned = 8
  EarlyIntake = FALSE
  Workers = {w1}
  BatchSize = 2
  MaxLen = 8
  Faults = {}
INVARIANTS
  ChargedAtMostOnce
CHECK_DEADLOCK FALSE
