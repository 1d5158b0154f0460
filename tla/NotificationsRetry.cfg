SPECIFICATION Spec
CONSTANTS
  Jobs = {j1}
  Workers = {w1, w2}
  Kind <- MCKind
  Attempts = 3
  MaxStalled = 1
INVARIANTS FailedMeansOver
PROPERTIES KeepsPromise NoMailAfterSent JobsEnd
CHECK_DEADLOCK FALSE
