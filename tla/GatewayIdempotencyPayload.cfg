SPECIFICATION Spec
CONSTANTS
  Requests = {q1, q2}
  OrderKeys = {ko}
  PaymentKeys = {kp}
  Payloads = {a, b}
  None = None
INVARIANTS
  RunHasRequestedPayload
CHECK_DEADLOCK FALSE
