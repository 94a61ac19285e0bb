SPECIFICATION Spec
CONSTANTS
  Requests = {q1, q2, q3}
  OrderKeys = {ko}
  PaymentKeys = {kp}
  Payloads = {a, b}
  None = None
INVARIANTS
  TypeOK
  AcceptedAgree
  AnswersAreReal
PROPERTIES
  SettledForGood
CHECK_DEADLOCK FALSE
