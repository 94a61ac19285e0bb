SPECIFICATION SmokeSpec
CONSTANTS
  First = r1
  Second = r2
  Runs = {r1, r2}
  Attempts = {1}
  Orders = {1, 2, 3}
  PayRequests = {3, 7, 9}
  Scenarios = {"success", "insufficient_funds"}
  UpstreamFaults = TRUE
  MaxLate = 1
  MaxAbandoned = 1
  EarlyIntake = FALSE
  Workers = {w1, w2}
  BatchSize = 2
  MaxLen = 14
  Faults = {"crash", "stop"}
INVARIANTS
  ChargedAtMostOnce
  AwaitingMeansUnpaid
  SmokeExpectations
PROPERTIES
  TerminalIsFinal
CHECK_DEADLOCK FALSE
SYMMETRY WorkerSymmetry
