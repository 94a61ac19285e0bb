SPECIFICATION Spec
CONSTANTS
  Registrations = {q1, q2, q3}
  Sessions = {s1}
  Names = {n1, n2}
  Emails = {e1, e2}
INVARIANTS
  TypeOK
  AuthAnswersTrue
  RegisteredCanLogIn
PROPERTIES
  EveryRegistrationAnswered
CHECK_DEADLOCK FALSE
