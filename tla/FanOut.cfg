CONSTANTS
  None = None
  N = 3
  Concurrency = 2
  Effectful = {1}
  Options <- MCOptions
  Edits = {"items", "mapper"}
  MaxExecutions = 2
  MaxSaveFails = 1
SPECIFICATION Spec
INVARIANTS ReturnedIsRecorded CancellationHasCause NothingOutlivesItsItem FailureStaysDecisive
PROPERTY CommittedIsFinal
CHECK_DEADLOCK FALSE
