CONSTANTS
  None = None
  Writers = {w1, w2}
  MaxGenerations = 2
  MaxFaults = 1
  Layouts = {"flat", "directory"}
  Polled = {1}
SPECIFICATION FairSpec
INVARIANTS AnswersAreAddressed QueuedIsKept RemovedLeavesNothing
PROPERTIES OneOutcome WaitsEnd
CHECK_DEADLOCK FALSE
