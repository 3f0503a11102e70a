CONSTANTS
  Ghost = Ghost
  Recoverer = Recoverer
  None = None
  Procs = {p1, p2, p3}
  Corpses = {Ghost, Recoverer}
  MaxSessions = 1
  MaxAttempts = 3
  Commands = {"acquire", "cancel", "unlock"}
  MayCrashAt <- CrashHolding
  InitialLocks <- FreeOrLeft
SPECIFICATION Spec
SYMMETRY Symm
INVARIANTS LockSafety QuietRecoverable
PROPERTIES AbstractSpec DeletesOnlyAbandoned
CHECK_DEADLOCK FALSE
