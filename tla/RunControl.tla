---------------------------- MODULE RunControl ----------------------------
(* Who may go on with an unfinished run, and who may end it: executions      *)
(* started by a command or by workflow tick (tick.ts, recovery-decision.ts), *)
(* workflow cancel (cancel.ts, cancel-request.ts, run-cancellation.ts) and   *)
(* the signals between them (signals.ts, cancel-signal.ts).                  *)
(* The run lock is what RunLock shows of it: one owner, whose token is fresh *)
(* and stays in the lock when the owner dies; only an acquisition removes a  *)
(* dead owner's lock, before and apart from its own publish.                 *)
EXTENDS Naturals, FiniteSets

CONSTANTS
    Runners,      \* commands that execute or resume the run, each once
    Ticks,        \* tick processes; one that ended is launched again
    Cancels,      \* workflow cancel commands, each once
    None,         \* a model value: nobody
    Cap,          \* STALE_RECOVERY_CAP
    Attempts,     \* unownedAttempts
    MaxSteps,     \* bound: steps that the body can complete
    MaxWakes,     \* bound: times a parked run becomes due
    MaxFaults     \* bound: crashes, saves that fail, signals and deadlines from outside

ASSUME RunControlAssumption ==
    /\ {Cap, Attempts} \subseteq Nat \ {0} /\ {MaxSteps, MaxWakes, MaxFaults} \subseteq Nat
    /\ Runners \cap Ticks = {} /\ Cancels \cap (Runners \cup Ticks) = {}
    /\ None \notin Runners \cup Ticks \cup Cancels

VARIABLES
    rec,       \* the run's durable record
    lock,      \* the run lock: its token, who published it, whether that process lives
    request,   \* cancel.json: the token it is bound to and its writer
    drawn,     \* lock tokens drawn so far
    proc,      \* each runner and tick
    can,       \* each cancel
    streak,    \* stale recoveries since a step completed or the run parked
    wakes, faults

vars == <<rec, lock, request, drawn, proc, can, streak, wakes, faults>>

Owners == Runners \cup Ticks
Ended == {"completed", "failed", "cancelled"}
Unfinished == rec.status \notin Ended
NoLock == [tok |-> 0, by |-> None, live |-> FALSE]
NoRequest == [tok |-> 0, by |-> None]
Free == lock.tok = 0
Dead == lock.tok # 0 /\ ~lock.live

\* A process before it looks at the run
Fresh == [pc |-> "idle", reclaimed |-> 0, halted |-> FALSE, heard |-> None,
          sig |-> "none", hit |-> FALSE, outcome |-> "none"]

Init ==
    /\ streak \in 0..Cap
    /\ rec \in [status: {"running", "suspended"}, steps: {0}, due: {TRUE},
                stale: {[count |-> streak, steps |-> 0]}, by: {0}]
    /\ lock = NoLock /\ request = NoRequest /\ drawn = 0
    /\ proc = [p \in Owners |-> Fresh]
    /\ can = [c \in Cancels |-> [pc |-> "idle", tries |-> 1, forced |-> FALSE, promised |-> FALSE,
                                 target |-> 0]]
    /\ wakes = 0 /\ faults = 0

-----------------------------------------------------------------------------
\* The lock, the processes and their signals

Publishes(p) ==
    /\ Free
    /\ drawn' = drawn + 1
    /\ lock' = [tok |-> drawn + 1, by |-> p, live |-> TRUE]

Goes(p, pc) == proc' = [proc EXCEPT ![p].pc = pc]

\* A command is over; a tick process that ended is followed by another one
Gone(p) == IF p \in Ticks THEN Fresh ELSE [Fresh EXCEPT !.pc = "over"]
Dies(p) ==
    /\ proc' = [proc EXCEPT ![p] = Gone(p)]
    /\ lock' = IF lock.by = p THEN [lock EXCEPT !.live = FALSE] ELSE lock
\* A pass of a tick, or a command, is over
Rests(p) == proc' = [proc EXCEPT ![p] = Gone(p)]

\* Mutant of Matches: the request is for whatever this process owns now.
MatchesAnyone(p) == request.tok # 0

\* matchingCancelRequestSync: bound to the token in owner.json, which names this process
Matches(p) == request.tok # 0 /\ request.tok = lock.tok /\ lock.by = p

\* cancellableRunSignal: what an interruption of an execution turns into
Reason(p) == IF Matches(p) THEN "cancel" ELSE "interrupt"
Executing(p) == proc[p].pc \in {"body", "ending"}
Aborted(p) == IF proc[p].sig # "none" THEN proc[p].sig
              ELSE IF Executing(p) THEN Reason(p) ELSE "raw"

\* executionSignals: the first signal drains, any second one kills the process
Signals(p) ==
    IF proc[p].hit THEN Dies(p)
    ELSE /\ proc' = [proc EXCEPT ![p].hit = TRUE, ![p].sig = Aborted(p)]
         /\ UNCHANGED lock

Fault == faults < MaxFaults /\ faults' = faults + 1

Holding == {"owned", "honour", "tidy", "recheck", "execute", "body", "ending", "leave"}
Busy(p) == proc[p].pc \in {"open"} \cup Holding
\* From here on nothing asks the signal any more
Deaf(p) == proc[p].pc = "leave"

\* A process is killed: its lock stays
Crash(p) ==
    /\ Fault /\ Busy(p) /\ Dies(p)
    /\ UNCHANGED <<rec, request, drawn, can, streak, wakes>>

\* Ctrl-C, at a command
Interrupt(r) ==
    /\ Fault /\ Busy(r) /\ ~Deaf(r) /\ Signals(r)
    /\ UNCHANGED <<rec, request, drawn, can, streak, wakes>>

\* The timeout of a tick is an interruption too, but no signal
Deadline(t) ==
    /\ Fault /\ Busy(t) /\ ~Deaf(t)
    /\ proc[t].sig = "none"
    /\ proc' = [proc EXCEPT ![t].sig = Aborted(t)]
    /\ UNCHANGED <<rec, lock, request, drawn, can, streak, wakes>>

\* A parked run's deadline passes, or its answer arrives
BecomesDue ==
    /\ rec.status = "suspended" /\ ~rec.due /\ wakes < MaxWakes
    /\ wakes' = wakes + 1
    /\ rec' = [rec EXCEPT !.due = TRUE]
    /\ UNCHANGED <<lock, request, drawn, proc, can, streak, faults>>

-----------------------------------------------------------------------------
\* Tick before it owns the run

\* decideStaleRecovery
NextStale(r) ==
    [count |-> IF r.stale.steps = r.steps THEN r.stale.count + 1 ELSE 1, steps |-> r.steps]
CrashLooping(r) ==
    r.status = "running" /\ r.stale.count >= Cap /\ r.stale.steps = r.steps

\* classify: ended runs are observed, parked ones not due are skipped
NotNow(r) == r.status \in Ended \/ (r.status = "suspended" /\ ~r.due)

Look(t) ==
    /\ proc[t].pc = "idle" /\ ~NotNow(rec)
    /\ proc' = [proc EXCEPT ![t].pc = "inspect", ![t].halted = CrashLooping(rec)]
    /\ UNCHANGED <<rec, lock, request, drawn, can, streak, wakes, faults>>

\* Mutant of Held: a dead owner's lock holds the run too.
HeldByTheDead == ~Free

\* classifyRecovery: only an owner that lives holds the run
Held == lock.live

\* A request bound to the dead owner's lock overrides the crash-loop check
Inspect(t) ==
    /\ proc[t].pc = "inspect"
    /\ IF \/ Held
          \/ proc[t].halted /\ ~(Dead /\ request.tok = lock.tok)
       THEN Rests(t) ELSE proc' = [proc EXCEPT ![t].pc = "open", ![t].halted = FALSE]
    /\ UNCHANGED <<rec, lock, request, drawn, can, streak, wakes, faults>>

-----------------------------------------------------------------------------
\* Acquisition, by a tick or a command

Starts(r) ==
    /\ proc[r].pc = "idle" /\ rec.status # "completed"
    /\ Goes(r, "open")
    /\ UNCHANGED <<rec, lock, request, drawn, can, streak, wakes, faults>>

Retire(p) ==
    /\ proc[p].pc = "open" /\ Dead /\ proc[p].sig = "none"
    /\ lock' = NoLock
    /\ proc' = [proc EXCEPT ![p].reclaimed = lock.tok]
    /\ UNCHANGED <<rec, request, drawn, can, streak, wakes, faults>>

Open(p) ==
    /\ proc[p].pc = "open" /\ proc[p].sig = "none"
    /\ Publishes(p)
    /\ Goes(p, IF p \in Ticks THEN "owned" ELSE "execute")
    /\ UNCHANGED <<rec, request, can, streak, wakes, faults>>

Refused(p) ==
    /\ proc[p].pc = "open" /\ (lock.live \/ proc[p].sig # "none")
    /\ Rests(p)
    /\ UNCHANGED <<rec, lock, request, drawn, can, streak, wakes, faults>>

-----------------------------------------------------------------------------
\* Tick under the lock

\* Mutant of ForcedCancel: the request is not looked at.
NoForcedCancel(t) == FALSE

\* honourForcedCancel: the request names exactly the lock that this tick retired
ForcedCancel(t) ==
    Unfinished /\ proc[t].reclaimed # 0 /\ request.tok = proc[t].reclaimed

ReadRequest(t) ==
    /\ proc[t].pc = "owned"
    /\ proc' = [proc EXCEPT ![t].pc = IF ForcedCancel(t) THEN "honour" ELSE "recheck",
                            ![t].heard = IF ForcedCancel(t) THEN request.by ELSE None]
    /\ UNCHANGED <<rec, lock, request, drawn, can, streak, wakes, faults>>

\* saveCancelledUnderLock; a save that fails leaves the record as it was
Honour(t) ==
    /\ proc[t].pc = "honour"
    /\ \/ /\ rec' = [rec EXCEPT !.status = "cancelled", !.by = proc[t].reclaimed]
          /\ Goes(t, "tidy") /\ UNCHANGED faults
       \/ Fault /\ Goes(t, "leave") /\ UNCHANGED rec
    /\ UNCHANGED <<lock, request, drawn, can, streak, wakes>>

Tidy(t) ==
    /\ proc[t].pc = "tidy"
    /\ request' = IF request.by = proc[t].heard THEN NoRequest ELSE request
    /\ proc' = [proc EXCEPT ![t].pc = "leave", ![t].heard = None]
    /\ UNCHANGED <<rec, lock, drawn, can, streak, wakes, faults>>

\* Mutant of Stays: what the tick read before it took the lock still holds.
StaysAsSeen(r) == CrashLooping(r)

\* What the record, read again under the lock, still leaves to others
Stays(r) == NotNow(r) \/ CrashLooping(r)

\* Mutant of CountsRecovery: the count is not saved before the run is resumed.
CountsNothing(t) == UNCHANGED rec

\* The count of stale recoveries is durable before the run is resumed
CountsRecovery(t) == rec' = [rec EXCEPT !.stale = NextStale(rec)]

Recheck(t) ==
    /\ proc[t].pc = "recheck"
    /\ IF Stays(rec)
       THEN Goes(t, "leave") /\ UNCHANGED <<rec, streak, faults>>
       ELSE IF rec.status = "running"
       THEN \/ /\ CountsRecovery(t) /\ streak' = streak + 1
               /\ Goes(t, "execute") /\ UNCHANGED faults
            \/ Fault /\ Goes(t, "leave") /\ UNCHANGED <<rec, streak>>
       ELSE Goes(t, "execute") /\ UNCHANGED <<rec, streak, faults>>
    /\ UNCHANGED <<lock, request, drawn, can, wakes>>

-----------------------------------------------------------------------------
\* Execution

\* stopIfAborted: an interruption stops before the runtime reopens the run; a
\* cancellation goes on, so that the runtime saves it before the body starts
Execute(p) ==
    /\ proc[p].pc = "execute"
    /\ LET why == IF proc[p].sig = "raw" THEN Reason(p) ELSE proc[p].sig IN
       \/ /\ why # "interrupt"
          /\ rec' = [rec EXCEPT !.status = "running"]
          /\ proc' = [proc EXCEPT ![p].pc = "body", ![p].sig = why]
          /\ UNCHANGED faults
       \/ why = "interrupt" /\ Goes(p, "leave") /\ UNCHANGED <<rec, faults>>
       \/ why # "interrupt" /\ Fault /\ Goes(p, "leave") /\ UNCHANGED rec
    /\ UNCHANGED <<lock, request, drawn, can, streak, wakes>>

CompletesStep(p) ==
    /\ proc[p].pc = "body" /\ rec.steps < MaxSteps
    /\ rec' = [rec EXCEPT !.steps = @ + 1]
    /\ streak' = 0
    /\ UNCHANGED <<lock, request, drawn, proc, can, wakes, faults>>

\* The body ends by itself: nothing but a failure does so once the signal aborted
Concludes(p) ==
    /\ proc[p].pc = "body"
    /\ \E o \in {"completed", "failed", "suspended"}:
         /\ proc[p].sig = "none" \/ o = "failed"
         /\ proc' = [proc EXCEPT ![p].pc = "ending", ![p].outcome = o]
    /\ UNCHANGED <<rec, lock, request, drawn, can, streak, wakes, faults>>

\* The body was interrupted
Drains(p) ==
    /\ proc[p].pc = "body" /\ proc[p].sig # "none"
    /\ proc' = [proc EXCEPT ![p].pc = "ending",
           ![p].outcome = IF proc[p].sig = "cancel" THEN "cancelled" ELSE "interrupted"]
    /\ UNCHANGED <<rec, lock, request, drawn, can, streak, wakes, faults>>

\* recordHonoredAbort and the last saves: an interruption is due at once and keeps
\* the count; completion and a clean suspension forget it
Forgets(o) == o \in {"completed", "suspended"}
Concluded(o) ==
    [rec EXCEPT !.status = IF o = "interrupted" THEN "suspended" ELSE o,
                !.due = o # "suspended",
                !.by = IF o = "suspended" THEN 0 ELSE lock.tok,
                !.stale = IF Forgets(o) THEN [count |-> 0, steps |-> 0] ELSE @]

\* A completion or suspension that cannot be saved is a failure of the run
SavesEnd(p) ==
    /\ proc[p].pc = "ending"
    /\ \/ /\ rec' = Concluded(proc[p].outcome)
          /\ streak' = IF Forgets(proc[p].outcome) THEN 0 ELSE streak
          /\ Goes(p, "leave") /\ UNCHANGED faults
       \/ /\ Fault /\ UNCHANGED <<rec, streak>>
          /\ IF Forgets(proc[p].outcome)
             THEN proc' = [proc EXCEPT ![p].outcome = "failed"]
             ELSE Goes(p, "leave")
    /\ UNCHANGED <<lock, request, drawn, can, wakes>>

Release(p) ==
    /\ proc[p].pc = "leave"
    /\ lock' = NoLock
    /\ Rests(p)
    /\ UNCHANGED <<rec, request, drawn, can, streak, wakes, faults>>

-----------------------------------------------------------------------------
\* cancelRun

To(c, pc) == can' = [can EXCEPT ![c].pc = pc]
CancelOver == {"ok", "refused", "timeout", "unfinished"}
Targeted(c) == lock.live /\ lock.tok = can[c].target

CancelReads(c) ==
    /\ can[c].pc \in {"idle", "again"}
    /\ To(c, IF Unfinished THEN "observe" ELSE "ok")
    /\ UNCHANGED <<rec, lock, request, drawn, proc, streak, wakes, faults>>

CancelObserves(c) ==
    /\ can[c].pc = "observe"
    /\ IF Free THEN To(c, "unowned")
       ELSE IF Dead THEN To(c, "refused")
       ELSE can' = [can EXCEPT ![c].pc = "write", ![c].target = lock.tok]
    /\ UNCHANGED <<rec, lock, request, drawn, proc, streak, wakes, faults>>

\* cancelUnownedRun never takes the lock of another, dead or alive
CancelTakes(c) ==
    /\ can[c].pc = "unowned"
    /\ \/ Publishes(c) /\ To(c, "saving")
       \/ /\ ~Free
          /\ can' = [can EXCEPT ![c].tries = @ + 1,
                       ![c].pc = IF can[c].tries >= Attempts THEN "refused" ELSE "again"]
          /\ UNCHANGED <<lock, drawn>>
    /\ UNCHANGED <<rec, request, proc, streak, wakes, faults>>

CancelSaves(c) ==
    /\ can[c].pc = "saving"
    /\ \/ /\ rec' = IF Unfinished THEN [rec EXCEPT !.status = "cancelled", !.by = 0] ELSE rec
          /\ To(c, "free") /\ UNCHANGED faults
       \/ Fault /\ To(c, "failed") /\ UNCHANGED rec
    /\ UNCHANGED <<lock, request, drawn, proc, streak, wakes>>

CancelReleases(c) ==
    /\ can[c].pc \in {"free", "failed"}
    /\ lock' = NoLock
    /\ To(c, IF can[c].pc = "free" THEN "ok" ELSE "refused")
    /\ UNCHANGED <<rec, request, drawn, proc, streak, wakes, faults>>

\* The command is killed with the lock it took; elsewhere it only stops
CancelDies(c) ==
    /\ Fault /\ lock.by = c /\ lock.live
    /\ To(c, "refused")
    /\ lock' = [lock EXCEPT !.live = FALSE]
    /\ UNCHANGED <<rec, request, drawn, proc, streak, wakes>>

CancelWrites(c) ==
    /\ can[c].pc = "write"
    /\ request' = [tok |-> can[c].target, by |-> c]
    /\ To(c, "signal")
    /\ UNCHANGED <<rec, lock, drawn, proc, streak, wakes, faults>>

\* signalOwner: it verifies the owner once more, immediately before the signal.  A cancel that
\* owns the lock no longer asks for its signal (a second one kills it, see CancelDies)
CancelSignals(c) ==
    /\ can[c].pc = "signal"
    /\ IF Targeted(c) /\ lock.by \in Owners THEN Signals(lock.by) ELSE UNCHANGED <<proc, lock>>
    /\ To(c, "settle")
    /\ UNCHANGED <<rec, request, drawn, streak, wakes, faults>>

CancelPolls(c) ==
    /\ can[c].pc = "settle"
    /\ To(c, IF Unfinished THEN "present" ELSE "tidy")
    /\ UNCHANGED <<rec, lock, request, drawn, proc, streak, wakes, faults>>

\* The owner is there still: poll again, or the time is up, and once more with --force.
\* It saved its last status before it let the lock go: look at the record again.
CancelWaits(c) ==
    /\ can[c].pc = "present"
    /\ \/ Targeted(c) /\ (To(c, "settle") \/ To(c, "timeout"))
       \/ /\ Targeted(c) /\ ~can[c].forced
          /\ can' = [can EXCEPT ![c].forced = TRUE, ![c].pc = "signal"]
       \/ /\ ~Targeted(c) /\ Unfinished
          /\ can' = [can EXCEPT ![c].pc = "unfinished",
                       ![c].promised = (lock.tok = can[c].target)]
       \/ ~Targeted(c) /\ ~Unfinished /\ To(c, "tidy")
    /\ UNCHANGED <<rec, lock, request, drawn, proc, streak, wakes, faults>>

CancelTidies(c) ==
    /\ can[c].pc = "tidy"
    /\ request' = IF request.by = c THEN NoRequest ELSE request
    /\ To(c, "ok")
    /\ UNCHANGED <<rec, lock, drawn, proc, streak, wakes, faults>>

-----------------------------------------------------------------------------
TickSteps(t) == Look(t) \/ Inspect(t) \/ ReadRequest(t) \/ Honour(t) \/ Tidy(t) \/ Recheck(t)
OwnerSteps(p) ==
    \/ Retire(p) \/ Open(p) \/ Refused(p) \/ Execute(p) \/ CompletesStep(p)
    \/ Concludes(p) \/ Drains(p) \/ SavesEnd(p) \/ Release(p)
CancelSteps(c) ==
    \/ can[c].pc = "again" /\ CancelReads(c)
    \/ CancelObserves(c) \/ CancelTakes(c) \/ CancelSaves(c) \/ CancelReleases(c)
    \/ CancelWrites(c) \/ CancelSignals(c) \/ CancelPolls(c)
    \/ CancelWaits(c) \/ CancelTidies(c)
\* What nobody has to do, and what may go wrong
Environment ==
    \/ \E p \in Owners: Crash(p)
    \/ \E t \in Ticks: Deadline(t)
    \/ \E r \in Runners: Starts(r) \/ Interrupt(r)
    \/ \E c \in Cancels: CancelReads(c) \/ CancelDies(c)
    \/ BecomesDue

Next ==
    \/ \E t \in Ticks: TickSteps(t)
    \/ \E p \in Owners: OwnerSteps(p)
    \/ \E c \in Cancels: CancelSteps(c)
    \/ Environment

Spec == Init /\ [][Next]_vars

\* A tick is launched again and again, a process that runs goes on, and a body ends
FairSpec ==
    /\ Spec
    /\ \A t \in Ticks: WF_vars(TickSteps(t))
    /\ \A p \in Owners: WF_vars(OwnerSteps(p))
    /\ \A c \in Cancels: WF_vars(CancelSteps(c))

-----------------------------------------------------------------------------
\* Types, and a lock that lives is held by one process that knows it.
TypeOK ==
    /\ rec \in [status: {"running", "suspended"} \cup Ended, steps: 0..MaxSteps, due: BOOLEAN,
                stale: [count: 0..Cap, steps: 0..MaxSteps], by: 0..drawn]
    /\ lock \in [tok: 0..drawn, by: Owners \cup Cancels \cup {None}, live: BOOLEAN]
    /\ request \in [tok: 0..drawn, by: Cancels \cup {None}]
    /\ lock.live => \/ lock.by \in Owners /\ Busy(lock.by)
                    \/ lock.by \in Cancels /\ can[lock.by].pc \in {"saving", "free", "failed"}
    /\ \A p \in Owners: proc[p].pc \in Holding => lock.live /\ lock.by = p

\* Beside the types: a run is cancelled only as the execution that a cancel aimed at, or by a
\* cancel that found the run without an owner: a request that stayed behind
\* never ends a later execution, not even one of the same process (ADR 0039).
RequestsAreBound ==
    /\ TypeOK
    /\ rec.status = "cancelled" /\ rec.by # 0 => \E c \in Cancels: can[c].target = rec.by

\* An ended run changes only because a command resumes it: neither a tick that
\* read it while it was unfinished nor a late cancel touches it again.
EndedStaysEnded == [][~Unfinished /\ rec' # rec => lock.by \in Runners]_vars

\* Tick recovers a stale run at most Cap times in a row without a new completed
\* step, however ticks overlap and whenever they crash (ADR 0020).
CrashLoopsStop == streak <= Cap

\* Where cancel said that the next tick ends the run, a tick that retires that
\* owner's lock does not run the body, as long as no other cancel replaced the
\* request (ADR 0058).
KilledCancelSticks ==
    \A t \in Ticks, c \in Cancels:
        /\ can[c].pc = "unfinished" /\ can[c].promised /\ request.by = c
        /\ can[c].target = proc[t].reclaimed
        => proc[t].pc \notin {"execute", "body", "ending"}

\* Ticks bring every run to rest: ended, parked until it is due, or left to the
\* operator after Cap fruitless recoveries; and every cancel that started answers.
EverythingSettles ==
    /\ <>[](NotNow(rec) \/ CrashLooping(rec))
    /\ \A c \in Cancels: (can[c].pc # "idle") ~> (can[c].pc \in CancelOver)
=============================================================================
