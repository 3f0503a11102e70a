CONSTANTS
  None = None
  p1 = p1
  p2 = p2
  Pipes = {stdout, stderr}
  Requests <- Calls
  MaxChunks = 1
  Runs = {x, y}
  Attempts = 3
  MaxTheirs = 3
  MaxRunAttempt = 4
  Ghost = Ghost
  Recoverer = Recoverer
SPECIFICATION FairSpec
INVARIANTS OwnershipIsKept WritesOnce NothingIsLost OutcomesAreTrue
PROPERTIES ResultsStand EverySaveCommits SomebodyOwns CallSettles
CHECK_DEADLOCK FALSE
