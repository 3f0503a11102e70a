CONSTANTS
  Fields = {status, step}
  Status = status
  Readers = {r1}
  None = None
  Threshold = 2
  MaxChanges = 3
  MaxSessions = 1
  MaxCrashes = 0
  MaxFailures = 1
  Errors = {"temporary", "fatal"}
  FailAt <- FailInitially
SPECIFICATION Spec
INVARIANTS ReadsAreConsistent
CHECK_DEADLOCK FALSE
