SPECIFICATION FairSpec
CONSTANTS
    Runners = {r1}
    Ticks = {t1}
    Cancels = {c1}
    None = None
    Cap = 2
    Attempts = 2
    MaxSteps = 1
    MaxWakes = 1
    MaxFaults = 1
INVARIANTS RequestsAreBound CrashLoopsStop KilledCancelSticks
PROPERTIES EndedStaysEnded EverythingSettles
CHECK_DEADLOCK FALSE
