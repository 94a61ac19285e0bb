SPECIFICATION Spec
CONSTANTS
  Runs = {r1}
  Attempts = {1, 2}
  Orders = {1, 2}
  PayRequests = {p1}
  Scenarios = {"success", "suspected_fraud"}
  UpstreamFaults = TRUE
  MaxLate = 1
  MaxAbandoned = 2
  EarlyIntake = TRUE
  Workers = {w1}
  BatchSize = 2
  MaxLen = 6
  Faults = {"stop", "crash", "redis", "reply", "db"}
INVARIANTS
  TypeOK
  OneOrderPerRun
  ChargesWereAsked
  CompletedMeansDelivered
  ReceiptMeansPaid
  WorkerErrorIsDeadLettered
CHECK_DEADLOCK FALSE
