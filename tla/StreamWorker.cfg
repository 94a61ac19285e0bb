SPECIFICATION Spec
CONSTANTS
  Workers = {w1, w2}
  NStreams = 2
  BatchSize = 2
  MaxLen = 2
  Faults = {"redis", "reply", "db", "stop", "crash"}
INVARIANTS
  TypeOK
  AckedIsRecorded
  BatchesAreExclusive
  NoEntryHandledTwice
  DeadLetterIsFailure
PROPERTY AbandonedForGood
CHECK_DEADLOCK FALSE
SYMMETRY WorkerSymmetry
