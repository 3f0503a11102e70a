CONSTANTS
  None = None
  Ids = {a, b}
  Values = {v}
  Definitions = {d}
  Settles = {a, b}
  Scoped = {b}
  MaxAttempts = 2
  Faults = {"transient"}
  Aborts = {"cancel"}
  Strict = TRUE
  MaxExecutions = 2
  MaxSaveFails = 1
SPECIFICATION Spec
INVARIANTS RecordedBeforeUse EndsWhole
PROPERTIES StartsAreAllowed AbstractSpec
CHECK_DEADLOCK FALSE
