CONSTANTS
  Ghost = Ghost
  Recoverer = Recoverer
  None = None
  Procs = {p1, p2, p3, p4}
  Corpses = {Ghost, Recoverer}
  MaxSessions = 2
  MaxAttempts = 3
  Commands = {"acquire"}
  MayCrashAt <- CrashOwned
  InitialLocks <- OnlyStale
SPECIFICATION Spec
SYMMETRY Symm
CONSTRAINT Staged
INVARIANT OneOwner
CHECK_DEADLOCK FALSE
