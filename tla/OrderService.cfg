SPECIFICATION FairSpec
CONSTANTS
  Orders = {o1}
  Unknown = none
  Txs = {t1, t2}
  NoTx = free
  MaxClock = 5
INVARIANTS
  TypeOK
  RowAgreesWithHistory
  ForwardOnly
  AnswersAreTrue
PROPERTIES
  Lifecycle
  EveryRequestAnswered
CHECK_DEADLOCK FALSE
