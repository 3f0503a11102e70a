----------------------------- MODULE MCSettling -----------------------------
(* What breaks in the middle and must be recoverable, or end, all the same: a  *)
(* run lock whose processes are killed, the saves of a journal, a native       *)
(* process, and a GitHub write. They share no state: `part` picks the one that *)
(* a behaviour is about, and the others stay where they begin. ProcessRun and  *)
(* GithubWrites are extended, RunLock and Journal are instances.               *)
EXTENDS ProcessRun, GithubWrites

CONSTANTS None, p1, p2, Ghost, Recoverer

VARIABLES
    part,
    lock, tomb, aside, kids, dead, pc, my, astray,
    live, clock, pending, flight, closed, writer, prev, bytes, snap, snapLag, log, logLag,
    written, kept, flushed, rd, sessions, crashes, failures

Stale == [owner |-> <<Ghost, 0>>, released |-> FALSE, marker |-> None]
LockSteps == {"publish", "read", "reread", "observe", "precheck", "markOpen", "markLink",
              "readMarker", "take", "readAside", "putAside", "verify", "recover", "confirm",
              "rename", "check", "putBack", "relMarkOpen", "relMarkCheck", "relMarkRename",
              "sweep", "owned", "relRead", "relKids"}

L == INSTANCE RunLock WITH
    Procs <- {p1, p2}, Corpses <- {Ghost, Recoverer}, MaxSessions <- 2, MaxAttempts <- 3,
    Commands <- {"acquire"}, MayCrashAt <- LockSteps, InitialLocks <- {None, Stale}
J == INSTANCE Journal WITH
    Fields <- {"status", "step"}, Status <- "status", Readers <- {}, Threshold <- 2,
    MaxChanges <- 3, MaxSessions <- 1, MaxCrashes <- 0, MaxFailures <- 2, pc <- writer,
    Errors <- {"temporary"}, FailAt <- {"prepare", "repairSync", "dirSync", "append", "write",
                                        "sync", "rename", "snapSync", "truncate", "truncSync"}
Calls == {[stream |-> TRUE, idle |-> TRUE, track |-> TRUE],
          [stream |-> FALSE, idle |-> TRUE, track |-> FALSE]}

lockVars == <<lock, tomb, aside, kids, dead, pc, my, astray>>
saveVars == <<live, clock, pending, flight, closed, writer, prev, bytes, snap, snapLag, log,
              logLag, written, kept, flushed, rd, sessions, crashes, failures>>
settlingVars == <<part, lockVars, saveVars, processVars, vars>>

\* One initial state of each part that a behaviour is not about.
SettlingInit ==
    /\ part \in {"lock", "save", "process", "write"}
    /\ L!Init /\ J!Init /\ ProcessInit /\ Init
    /\ part # "lock" => lock = None
    /\ part # "process" => os.leader = "none" /\ ~req.track
    /\ part # "write" => op = [kind |-> "comment"]

Lock(A) == part = "lock" /\ A /\ UNCHANGED <<part, saveVars, processVars, vars>>
Save(A) == part = "save" /\ A /\ UNCHANGED <<part, lockVars, processVars, vars>>
Process(A) == part = "process" /\ A /\ UNCHANGED <<part, lockVars, saveVars, vars>>
Write(A) == part = "write" /\ A /\ UNCHANGED <<part, lockVars, saveVars, processVars>>

SettlingNext == Lock(L!Next) \/ Save(J!Next) \/ Process(ProcessNext) \/ Write(Next)

\* The fairness that RunLock, Journal and ProcessRun state, each for its own part.
FairSpec ==
    /\ SettlingInit /\ [][SettlingNext]_settlingVars
    /\ \A p \in {p1, p2} : /\ WF_lockVars(part = "lock" /\ L!Begin(p))
                           /\ WF_lockVars(part = "lock" /\ L!Step(p))
    /\ WF_saveVars(part = "save" /\ J!Write)
    /\ WF_processVars(part = "process" /\ Deadline)
    /\ WF_processVars(part = "process" /\ Escalate)
    /\ WF_processVars(part = "process" /\ Backstop)
    /\ WF_processVars(part = "process" /\ Drain)
    /\ WF_processVars(part = "process" /\ Delivery)
    /\ WF_processVars(part = "process" /\ Poll)
    /\ WF_processVars(part = "process" /\ SpawnError)
    /\ WF_processVars(part = "process" /\ (Registered \/ RegistrationFails))
    /\ WF_processVars(part = "process" /\ Deliver)
    /\ WF_processVars(part = "process" /\ Lease)

\* RunLock: contenders that nobody kills do not refuse each other for ever.
SomebodyOwns == part = "lock" => L!SomebodyOwns
\* Journal: two temporary errors of the file system keep no save from committing.
EverySaveCommits == J!EverySaveCommits
\* ProcessRun: whatever processes, pipes and consumer do, the call is over some time.
CallSettles == part = "process" => InvocationSettles
=============================================================================
