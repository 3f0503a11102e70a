CONSTANTS
  Fields = {status, step}
  Status = status
  Readers = {r1}
  None = None
  Threshold = 2
  MaxChanges = 3
  MaxSessions = 2
  MaxCrashes = 1
  MaxFailures = 1
  Errors = {"temporary", "fatal"}
  FailAt <- FailAnywhere
SPECIFICATION Spec
INVARIANTS AcknowledgedSurvives ReadsAreConsistent
CHECK_DEADLOCK FALSE
