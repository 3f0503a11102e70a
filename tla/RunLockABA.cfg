CONSTANTS
  Ghost = Ghost
  Recoverer = Recoverer
  None = None
  Procs = {p1, p2, p3}
  Corpses = {Ghost, Recoverer}
  MaxSessions = 1
  MaxAttempts = 3
  Commands = {"acquire"}
  MayCrashAt <- CrashNever
  InitialLocks <- OnlyClaimed
SPECIFICATION Spec
SYMMETRY Symm
INVARIANT OneOwner
CHECK_DEADLOCK FALSE
