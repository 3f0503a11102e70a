CONSTANTS
  None = None
  Ids = {a, b}
  Values = {v}
  Definitions = {d, e}
  Settles = {}
  Scoped = {a}
  MaxAttempts = 1
  Faults = {"filtered", "storage"}
  Aborts = {}
  Strict = FALSE
  MaxExecutions = 2
  MaxSaveFails = 1
SPECIFICATION FairSpec
INVARIANT RecordedBeforeUse
PROPERTY EveryExecutionEnds
CHECK_DEADLOCK FALSE
