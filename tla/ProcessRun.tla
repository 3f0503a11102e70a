---------------------------- MODULE ProcessRun ----------------------------
(* One native process: runProcess of processes/run.ts. Its callbacks (exit,   *)
(* data and end of the pipes, timers, the abort, the registration) run one    *)
(* at a time, in any order; the operating system, the child's descendants and *)
(* the consumer of its output are the environment, of which nothing is        *)
(* assumed: a process may ignore every signal, a descendant outside the group *)
(* may hold the pipes for ever, a consumer may never settle, and a look at    *)
(* the group or at the leader's start time may fail. Time is abstract: an     *)
(* armed timer fires some time.                                               *)
EXTENDS Naturals, FiniteSets

CONSTANTS
    Pipes,       \* stdout and stderr
    Requests,    \* what callers ask for: [stream, idle, track : BOOLEAN]
    MaxChunks    \* bound: chunks that the child writes

\* A request says whether its output is consumed as it comes, its silence is timed, it is registered.
ASSUME ProcessAssumption ==
    /\ Requests \subseteq [stream: BOOLEAN, idle: BOOLEAN, track: BOOLEAN]
    /\ MaxChunks \in Nat

VARIABLES
    os,      \* leader: "none", "alive", "dead"; kin: a live descendant in its group;
             \* foreign: the group's number belongs to another group
    pipe,    \* pipe[p]: unread chunks, and whether every writer has closed it
    queue,   \* deliveries: chunks per pipe that the consumer holds
    wrote,   \* chunks written so far
    req,     \* the request: stream, idle deadline, trackProcess
    reg,     \* the durable registration, and then the ownership record
    h,       \* what the callbacks share; h.gone is history, read by no guard: a look has found
             \* the group gone
    sent,    \* history: signals sent to the group; one that met another group is "blind", or
             \* "stray" when a look had found the group gone
    fin      \* finish: "no", "lease", then the outcome "resolved" or "rejected"

processVars == <<os, pipe, queue, wrote, req, reg, h, sent, fin>>
environment == <<os, pipe, wrote>>

GroupAlive == os.leader = "alive" \/ os.kin
Over == fin \in {"resolved", "rejected"}

ProcessInit ==
    /\ req \in Requests
    /\ \E spawned, kin \in BOOLEAN :
          /\ kin => spawned
          /\ os = [leader |-> IF spawned THEN "alive" ELSE "none", kin |-> kin,
                   foreign |-> FALSE]
          /\ reg = IF spawned /\ req.track THEN "pending" ELSE "none"
          /\ h = [failure |-> "none", settled |-> FALSE, exited |-> FALSE, ended |-> {},
                  truncated |-> FALSE, reaped |-> ~spawned, gone |-> FALSE,
                  cleaning |-> FALSE, fed |-> FALSE, idleArmed |-> FALSE, timers |-> {"deadline"}]
    /\ pipe = [p \in Pipes |-> [unread |-> 0, shut |-> os.leader = "none"]]
    /\ queue = [p \in Pipes |-> 0] /\ wrote = 0
    /\ sent = {} /\ fin = "no"

-----------------------------------------------------------------------------
\* What the callbacks call. Each maps the shared state to the states it may leave.

Holding(q) == \E p \in Pipes : q[p] > 0

Gone(k) == [k EXCEPT !.reaped = TRUE, !.gone = TRUE]

\* Mutant of Refresh: the last look replaces the earlier ones.
RefreshForgets(k) ==
    IF os.leader = "none" THEN {k}
    ELSE {[k EXCEPT !.reaped = FALSE]}
         \cup (IF GroupAlive \/ os.foreign THEN {} ELSE {Gone(k)})

\* refresh: groupState may say "unknown", and a group ID in use again looks alive; a group that
\* was found gone stays so
Refresh(k) == IF GroupAlive \/ os.foreign THEN {k} ELSE {k, Gone(k)}

Finish(k) == [k EXCEPT !.settled = TRUE, !.timers = {}]

MaybeFinish(k, q) ==
    CASE k.settled \/ ~k.exited \/ ~k.reaped \/ k.ended # Pipes -> k
      [] ~k.settled /\ k.exited /\ k.reaped /\ k.ended = Pipes /\ ~Holding(q) -> Finish(k)
      [] OTHER -> [k EXCEPT !.timers = @ \cup {"delivery"}]

\* kill: another start time under the leader's number tells a number that is used again. Either
\* time may be unknown (the read fails, or no process has that number): nothing is told then.
Recognised(k) == IF os.foreign THEN {k, Gone(k)} ELSE {k}

\* kill, of a group that is not known to be gone
Signals(k, signal) ==
    sent' = IF k.reaped THEN sent
            ELSE sent \cup {IF ~os.foreign THEN signal ELSE IF k.gone THEN "stray" ELSE "blind"}

Quietly(states) == h' \in states /\ sent' = sent

\* refresh, then maybeFinish
Again(k, q) == {MaybeFinish(seen, q) : seen \in Refresh(k)}

\* What a signal finds: the group is looked at, and then the leader's start time
Looks(k) == UNION {IF seen.reaped THEN {seen} ELSE Recognised(seen) : seen \in Refresh(k)}

\* beginCleanup; the exit looks at the group again after it
CleanupThen(k, q, again) ==
    IF k.cleaning \/ k.settled THEN Quietly(IF again THEN Again(k, q) ELSE {k})
    ELSE \E known \in Looks([k EXCEPT !.cleaning = TRUE]) :
           LET begun == MaybeFinish([known EXCEPT !.timers = @ \cup {"poll", "escalation"}], q)
           IN h' \in (IF again THEN Again(begun, q) ELSE {begun}) /\ Signals(known, "TERM")

Cleanup(k, q) == CleanupThen(k, q, FALSE)

Stop(k, failure, q) ==
    IF k.failure # "none" \/ k.settled THEN Quietly({k})
    ELSE Cleanup([k EXCEPT !.failure = failure], q)

ArmIdle(k) ==
    IF ~req.idle \/ ~k.idleArmed \/ k.settled \/ k.failure # "none" \/ k.exited THEN k
    ELSE [k EXCEPT !.timers = @ \cup {"idle"}]

-----------------------------------------------------------------------------
\* The child's events

\* Node reports the exit once; finish has removed what listens for it by then
Exit ==
    /\ os.leader = "dead" /\ ~h.exited /\ ~h.settled
    /\ CleanupThen([h EXCEPT !.exited = TRUE,
                       !.timers = (@ \ {"deadline", "idle"}) \cup {"drain"}], queue, TRUE)
    /\ UNCHANGED <<environment, queue, req, reg, fin>>

\* A child that could not be started
SpawnError ==
    /\ os.leader = "none" /\ ~h.settled
    /\ Quietly({Finish([h EXCEPT !.failure = "spawn"])})
    /\ UNCHANGED <<environment, queue, req, reg, fin>>

\* A pipe whose chunk the consumer holds is paused, until the exit flushes it
Flows(p) == ~h.settled /\ p \notin h.ended /\ (queue[p] = 0 \/ h.exited)

\* A chunk arrives and may exceed a limit; it is delivered unless the call has failed
Data(p, exceeds) ==
    /\ pipe[p].unread > 0 /\ Flows(p)
    /\ pipe' = [pipe EXCEPT ![p].unread = @ - 1]
    /\ queue' = IF req.stream /\ h.failure = "none" /\ ~exceeds
                THEN [queue EXCEPT ![p] = @ + 1] ELSE queue
    /\ IF exceeds THEN Stop(ArmIdle(h), "limit", queue) ELSE Quietly({ArmIdle(h)})
    /\ UNCHANGED <<os, wrote, req, reg, fin>>

End(p) ==
    /\ pipe[p].shut /\ pipe[p].unread = 0 /\ Flows(p)
    /\ Quietly({MaybeFinish([h EXCEPT !.ended = @ \cup {p}], queue)})
    /\ UNCHANGED <<environment, queue, req, reg, fin>>

\* An error of a pipe, or of stdin other than its reader being gone
PipeError ==
    /\ ~h.settled /\ os.leader # "none" /\ h.failure = "none"
    /\ Stop(h, "pipe", queue)
    /\ UNCHANGED <<environment, queue, req, reg, fin>>

\* The consumer settles a chunk, even after finish; when it throws, the call fails
Consumed(p) ==
    /\ queue[p] > 0 /\ ~Over
    /\ queue' = [queue EXCEPT ![p] = @ - 1]
    /\ Quietly({MaybeFinish(ArmIdle(h), queue')})
    /\ UNCHANGED <<environment, req, reg, fin>>

ConsumerThrows(p) ==
    /\ queue[p] > 0 /\ ~Over /\ h.failure = "none"
    /\ queue' = [queue EXCEPT ![p] = @ - 1]
    /\ LET failed == [h EXCEPT !.failure = "consumer"]
       IN IF h.cleaning THEN Quietly({MaybeFinish(failed, queue')}) ELSE Cleanup(failed, queue')
    /\ UNCHANGED <<environment, req, reg, fin>>

-----------------------------------------------------------------------------
\* The registration, stdin and the abort

Registered ==
    /\ reg = "pending" /\ reg' = "held"
    /\ h' = [h EXCEPT !.fed = ~h.settled /\ h.failure = "none" /\ ~h.exited]
    /\ UNCHANGED <<environment, queue, req, sent, fin>>

\* Its failure replaces an earlier one
RegistrationFails ==
    /\ reg = "pending" /\ reg' = "failed"
    /\ Cleanup([h EXCEPT !.failure = "registration"], queue)
    /\ UNCHANGED <<environment, queue, req, fin>>

\* Without trackProcess the input follows the spawn
Untracked ==
    /\ reg = "none" /\ os.leader # "none" /\ ~h.fed
    /\ ~h.settled /\ h.failure = "none" /\ ~h.exited
    /\ h' = [h EXCEPT !.fed = TRUE]
    /\ UNCHANGED <<environment, queue, req, reg, sent, fin>>

\* stdin has taken the whole input, or is closed
Flushed ==
    /\ h.fed /\ ~h.idleArmed
    /\ h' = ArmIdle([h EXCEPT !.idleArmed = TRUE])
    /\ UNCHANGED <<environment, queue, req, reg, sent, fin>>

\* Mutant of Abort: a completed leader's result is thrown away.
AbortAlways ==
    /\ ~h.settled /\ h.failure = "none"
    /\ Stop(h, "abort", queue)
    /\ UNCHANGED <<environment, queue, req, reg, fin>>

Abort ==
    /\ ~h.settled /\ h.failure = "none" /\ ~h.exited
    /\ Stop(h, "abort", queue)
    /\ UNCHANGED <<environment, queue, req, reg, fin>>

-----------------------------------------------------------------------------
\* Timers

Fires(timer) == timer \in h.timers
Spent(timer) == [h EXCEPT !.timers = @ \ {timer}]

Deadline ==
    /\ Fires("deadline")
    /\ Stop(Spent("deadline"), "deadline", queue)
    /\ UNCHANGED <<environment, queue, req, reg, fin>>

\* A chunk that the consumer holds is not the child's silence
Idle ==
    /\ Fires("idle")
    /\ IF Holding(queue) THEN Quietly({ArmIdle(Spent("idle"))})
       ELSE Stop(Spent("idle"), "idle", queue)
    /\ UNCHANGED <<environment, queue, req, reg, fin>>

Poll ==
    /\ Fires("poll")
    /\ Quietly(Again(h, queue))
    /\ UNCHANGED <<environment, queue, req, reg, fin>>

\* The drain alone bounds a leader that exited by itself and whose group is gone
Escalate ==
    /\ Fires("escalation")
    /\ \E known \in Looks(Spent("escalation")) :
          /\ h' = IF known.exited /\ known.reaped /\ known.failure = "none" THEN known
                  ELSE [known EXCEPT !.timers = @ \cup {"backstop"}]
          /\ Signals(known, "KILL")
    /\ UNCHANGED <<environment, queue, req, reg, fin>>

Backstop ==
    /\ Fires("backstop")
    /\ Quietly({Finish([k EXCEPT !.truncated = @ \/ k.ended # Pipes,
                            !.failure = IF ~k.exited /\ @ = "none" THEN "stuck" ELSE @]) :
                   k \in Refresh(h)})
    /\ UNCHANGED <<environment, queue, req, reg, fin>>

\* Mutant of Drain: the pipes are destroyed, but do not count as ended.
DrainOnly ==
    /\ Fires("drain")
    /\ Quietly({MaybeFinish([Spent("drain") EXCEPT !.truncated = @ \/ h.ended # Pipes], queue)})
    /\ UNCHANGED <<environment, queue, req, reg, fin>>

Drain ==
    /\ Fires("drain")
    /\ Quietly({MaybeFinish([Spent("drain") EXCEPT !.truncated = @ \/ h.ended # Pipes,
                                 !.ended = Pipes], queue)})
    /\ UNCHANGED <<environment, queue, req, reg, fin>>

Delivery ==
    /\ Fires("delivery")
    /\ Quietly({Finish(h)})
    /\ UNCHANGED <<environment, queue, req, reg, fin>>

-----------------------------------------------------------------------------
\* finish, after its synchronous part: deliveries, then the ownership record

Fail(k, failure) == IF k.failure = "none" THEN [k EXCEPT !.failure = failure] ELSE k

\* The deliveries have settled, or the backstop of finish expires
Deliver ==
    /\ h.settled /\ fin = "no"
    /\ \/ ~Holding(queue) /\ fin' = "lease" /\ UNCHANGED h
       \/ Holding(queue) /\ fin' = "stalled" /\ h' = Fail(h, "stalled")
    /\ UNCHANGED <<environment, queue, req, reg, sent>>

Outcome(k) == IF k.failure = "none" THEN "resolved" ELSE "rejected"

\* lease.release() needs the group gone and its output delivered
MayRelease == h.reaped /\ fin = "lease"

\* A release that fails leaves the record, with a warning
Lease ==
    /\ fin \in {"lease", "stalled"} /\ reg # "pending"
    /\ h' = IF reg = "failed" THEN Fail(h, "registration") ELSE h
    /\ reg' \in IF reg # "held" THEN {reg} ELSE IF MayRelease THEN {"released", "kept"} ELSE {"kept"}
    /\ fin' = Outcome(h')
    /\ UNCHANGED <<environment, queue, req, sent>>

-----------------------------------------------------------------------------
\* The operating system and the child's descendants

Acts == /\ ~Over /\ UNCHANGED <<queue, req, reg, h, sent, fin>>

Dies ==
    /\ Acts
    /\ \/ os.leader = "alive" /\ os' = [os EXCEPT !.leader = "dead"]
       \/ os.kin /\ os' = [os EXCEPT !.kin = FALSE]
    /\ UNCHANGED <<pipe, wrote>>

\* The number of a group that is gone and waited for is used again
Reused ==
    /\ Acts
    /\ os.leader = "dead" /\ h.exited /\ ~os.kin /\ ~os.foreign
    /\ os' = [os EXCEPT !.foreign = TRUE]
    /\ UNCHANGED <<pipe, wrote>>

\* A descendant that has left the group writes to the pipes when the group is gone, too
Writes(p) ==
    /\ Acts
    /\ ~pipe[p].shut /\ wrote < MaxChunks
    /\ wrote' = wrote + 1
    /\ pipe' = [pipe EXCEPT ![p].unread = @ + 1]
    /\ UNCHANGED os

Shuts(p) ==
    /\ Acts
    /\ ~pipe[p].shut
    /\ pipe' = [pipe EXCEPT ![p].shut = TRUE]
    /\ UNCHANGED <<os, wrote>>

Timers == Deadline \/ Idle \/ Poll \/ Escalate \/ Backstop \/ Drain \/ Delivery

ProcessNext ==
    \/ Exit \/ SpawnError \/ PipeError
    \/ \E p \in Pipes : \/ \E exceeds \in BOOLEAN : Data(p, exceeds)
                        \/ End(p) \/ Consumed(p) \/ ConsumerThrows(p) \/ Writes(p) \/ Shuts(p)
    \/ Registered \/ RegistrationFails \/ Untracked \/ Flushed \/ Abort
    \/ Timers \/ Deliver \/ Lease
    \/ Dies \/ Reused

ProcessSpec == ProcessInit /\ [][ProcessNext]_processVars

\* Armed timers fire, a spawn that failed is reported, a registration is over some time
ProcessFairness ==
    /\ WF_processVars(Deadline) /\ WF_processVars(Escalate) /\ WF_processVars(Backstop)
    /\ WF_processVars(Drain) /\ WF_processVars(Delivery) /\ WF_processVars(Poll)
    /\ WF_processVars(SpawnError) /\ WF_processVars(Registered \/ RegistrationFails)
    /\ WF_processVars(Deliver) /\ WF_processVars(Lease)

ProcessFairSpec == ProcessSpec /\ ProcessFairness

-----------------------------------------------------------------------------
ProcessTypeOK ==
    /\ os.leader \in {"none", "alive", "dead"}
    /\ reg \in {"none", "pending", "held", "failed", "released", "kept"}
    /\ h.timers \subseteq {"deadline", "idle", "poll", "escalation", "backstop", "drain", "delivery"}
    /\ h.ended \subseteq Pipes /\ wrote \in 0..MaxChunks
    /\ sent \subseteq {"TERM", "KILL", "blind", "stray"}
    /\ fin \in {"no", "lease", "stalled", "resolved", "rejected"}

\* process-lifecycle.md, "release records only after reaping": the ownership record goes only when
\* no process of the group is alive and all output is consumed. A group that is alive when the
\* call is over was sent SIGKILL and its record, if it had one, is still there. "Once observed
\* gone, this numeric group ID is no longer ours": no later signal goes to that number.
OwnershipIsKept ==
    /\ ProcessTypeOK
    /\ reg = "released" => ~GroupAlive /\ ~Holding(queue)
    /\ Over /\ GroupAlive => "KILL" \in sent /\ reg # "released"
    /\ "stray" \notin sent

\* The outcome is the leader's own once it has exited by itself: no deadline, silence or abort
\* fails it afterwards; and a result that is not marked truncated has every chunk, consumed.
Whole == \A p \in Pipes : pipe[p].shut /\ pipe[p].unread = 0 /\ queue[p] = 0
ResultsStand ==
    [][/\ h.exited /\ h.failure = "none" => h'.failure \notin {"deadline", "idle", "abort"}
       /\ fin' = "resolved" => h.exited /\ (h.truncated \/ Whole)]_processVars

\* "settles the invocation even when an escaped descendant holds" the pipes: whatever the
\* processes, their pipes and the consumer do, the call is over some time.
InvocationSettles == <>Over
=============================================================================
