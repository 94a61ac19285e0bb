SPECIFICATION Spec
CONSTANTS
  Documents = {d1}
  Payments = {p1}
  Notifications = {n1}
INVARIANTS
  TypeOK
  RowsAreBacked
PROPERTIES
  Promise
CHECK_DEADLOCK FALSE
