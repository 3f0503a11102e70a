------------------------------- MODULE Runner -------------------------------
(***************************************************************************)
(* One run over several executions: src/workflow/runtime/runner.ts.        *)
(*                                                                         *)
(* An execution loads the record, runs the workflow body and ends with a   *)
(* save.  The body is any program: at any time it may ask for an effect    *)
(* that it has not asked for in this execution, return, or throw.  Each    *)
(* effect is an operation with its own place `pc`; between two awaits it   *)
(* is one step.  All of them change one record in memory, and a save       *)
(* writes the whole record in a batch that others join (run-store.ts): the *)
(* batch copies the record when it starts, so what changes later is not in *)
(* it.  A kill loses everything but the record on disk.                    *)
(***************************************************************************)
EXTENDS Naturals, FiniteSetsExt

CONSTANTS
  Ids,            \* step IDs of the workflow
  Values,         \* results that an effect can produce
  Definitions,    \* definitions (fingerprints) a step may be given
  None,
  Settles,        \* the steps with onError: 'return'
  Scoped,         \* the steps asked for by the items of a map with cancelSiblings
  MaxAttempts,    \* attempts of one launch: retry.maxAttempts
  Faults,         \* ways an attempt fails, see Fails
  Aborts,         \* reasons for which a run is aborted from outside
  Strict,         \* strictReplay
  MaxExecutions,  \* bound: executions of the run
  MaxSaveFails    \* bound: batches that fail, over all executions

Failure == "error"              \* the settled error of a step with onError: 'return'
Rejected == "rejected"          \* what the body gets of a request that throws
Self == "run"                   \* the run's own saves, beside those of its steps
Outcomes == Values \cup {Failure}
Reasons == {"none", "checkpoint", "divergence"} \cup Aborts

ASSUME RunnerAssumption ==
  /\ MaxAttempts \in Nat \ {0} /\ MaxExecutions \in Nat /\ MaxSaveFails \in Nat
  /\ Settles \subseteq Ids /\ Scoped \subseteq Ids /\ Strict \in BOOLEAN
  /\ Faults \subseteq {"transient", "filtered", "fatal", "storage"}
  /\ Aborts \subseteq {"cancel"}
  /\ IsFiniteSet(Ids) /\ Self \notin Ids
  /\ None \notin Outcomes \cup Definitions /\ Failure \notin Values /\ Rejected \notin Values

VARIABLES
  disk,        \* the record that a reader or a later execution finds
  mem,         \* the owner's record
  batch,       \* the save in flight: a copy of the record and who waits for it
  op,          \* op[s]: this execution's operation on step s
  run,         \* where the execution is
  reason,      \* why the run's signal is aborted
  cancelled,   \* that map has aborted its scope, in this execution
  reported,    \* a replay divergence was reported in this execution
  nextSeq,     \* the next first-use number
  executions,  \* executions so far
  saveFails,   \* batches that failed so far
  starts,      \* history: how often step s's effect was started
  won          \* history: steps whose effect succeeded in this execution

vars == <<disk, mem, batch, op, run, reason, cancelled, reported, nextSeq, executions,
          saveFails, starts, won>>

Absent == [status |-> "absent", attempts |-> 0, def |-> None, output |-> None, seq |-> 0]
Idle == [pc |-> "none", attempt |-> 0, def |-> None, seq |-> 0, result |-> None]
NoBatch == [record |-> None, waiters |-> {}]

Statuses == {"absent", "running", "failed", "cancelled", "completed", "settled-failed",
             "superseded"}
isTerminalStep(step) == step.status \in {"completed", "settled-failed"}

\* Operations that wait for a save, and where the run itself does.
SavePcs == {"warning", "redefining", "launching", "completing", "settling", "failing", "retrying"}
OpPcs == {"none", "entering", "redefined", "ready", "running", "backoff", "done"} \cup SavePcs
RunSaves == {"starting", "completed", "stopping"}
RunPcs == {"idle", "body", "draining", "closing", "failed"} \cup RunSaves

Waiters == {s \in Ids : op[s].pc \in SavePcs} \cup (IF run \in RunSaves THEN {Self} ELSE {})

used == {s \in Ids : op[s].pc # "none"}
closed == run \notin {"body", "draining"}
Settled(s) == op[s].pc \in {"none", "done"}
Aborted == reason # "none"

\* The signal of step s is its scope's, which follows the run's: the first reason stays.
AbortedAt(s) == Aborted \/ (s \in Scoped /\ cancelled)
ReasonAt(s) == IF s \in Scoped /\ cancelled THEN "siblings" ELSE reason

\* AbortController: the first reason stays.
AbortWith(why) == reason' = IF Aborted THEN reason ELSE why

Move(s, pc) == op' = [op EXCEPT ![s].pc = pc]

\* An operation is over: the body has its result, or an error.
Finished(o, result) == [Idle EXCEPT !.pc = "done", !.def = o.def, !.result = result]
Reject(s) == op' = [op EXCEPT ![s] = Finished(@, Rejected)]

SetStatus(s, status) == mem' = [mem EXCEPT !.steps[s].status = status]

Init ==
  /\ disk = [status |-> "absent", steps |-> [s \in Ids |-> Absent]]
  /\ mem = disk
  /\ batch = NoBatch
  /\ op = [s \in Ids |-> Idle]
  /\ run = "idle"
  /\ reason = "none"
  /\ cancelled = FALSE
  /\ reported = FALSE
  /\ nextSeq = 1
  /\ executions = 0
  /\ saveFails = 0
  /\ starts = [s \in Ids |-> 0]
  /\ won = {}
------------------------------------------------------------------------------
(* The storage: batches of saves.                                          *)

\* The batch starts: it takes a copy of the record, and everyone who waits now.
BatchStarts ==
  /\ batch = NoBatch /\ Waiters # {}
  /\ batch' = [record |-> mem, waiters |-> Waiters]
  /\ UNCHANGED <<disk, mem, op, run, reason, cancelled, reported, nextSeq, executions, saveFails,
                 starts, won>>

\* An operation whose save succeeded.
Saved(o) ==
  CASE o.pc = "warning"    -> IF Strict THEN Finished(o, Rejected) ELSE [o EXCEPT !.pc = "entering"]
    [] o.pc = "redefining" -> [o EXCEPT !.pc = "redefined"]
    [] o.pc = "launching"  -> [o EXCEPT !.pc = "ready"]
    [] o.pc \in {"completing", "settling"} -> Finished(o, o.result)
    [] o.pc = "failing"    -> Finished(o, Rejected)
    [] o.pc = "retrying"   -> [o EXCEPT !.pc = "backoff"]

\* The execution is over; its memory is gone.
Over ==
  /\ run' = "idle" /\ reason' = "none" /\ cancelled' = FALSE
  /\ reported' = FALSE /\ nextSeq' = 1
  /\ mem' = disk' /\ op' = [s \in Ids |-> Idle] /\ batch' = NoBatch

BatchSucceeds ==
  /\ batch # NoBatch
  /\ disk' = batch.record
  /\ IF Self \in batch.waiters /\ run # "starting"
     THEN Over
     ELSE /\ op' = [s \in Ids |-> IF s \in batch.waiters THEN Saved(op[s]) ELSE op[s]]
          /\ run' = IF Self \in batch.waiters THEN "body" ELSE run
          /\ batch' = NoBatch
          /\ UNCHANGED <<mem, reason, cancelled, reported, nextSeq>>
  /\ UNCHANGED <<executions, saveFails, starts, won>>

\* A completion that was not saved did not retire the steps that were not asked for.
Unfinished == [mem EXCEPT !.steps = [s \in Ids |-> IF s \in used THEN mem.steps[s] ELSE disk.steps[s]]]

\* Everyone in the batch is rejected, and the run is aborted.  A failure between retries
\* goes on to its backoff when the signal was aborted for another reason before.
BatchFails ==
  /\ batch # NoBatch /\ saveFails < MaxSaveFails
  /\ saveFails' = saveFails + 1
  /\ IF Self \in batch.waiters /\ run # "completed"
     THEN UNCHANGED disk /\ Over
     ELSE /\ AbortWith("checkpoint") /\ UNCHANGED cancelled
          /\ op' = [s \in Ids |->
                      IF s \notin batch.waiters THEN op[s]
                      ELSE IF op[s].pc = "retrying" /\ ReasonAt(s)' # "checkpoint"
                      THEN [op[s] EXCEPT !.pc = "backoff"]
                      ELSE Finished(op[s], Rejected)]
          /\ IF Self \in batch.waiters THEN mem' = Unfinished /\ run' = "failed"
                                       ELSE UNCHANGED <<mem, run>>
          /\ batch' = NoBatch
          /\ UNCHANGED <<disk, reported, nextSeq>>
  /\ UNCHANGED <<executions, starts, won>>
------------------------------------------------------------------------------
(* effect(): one step, from its request to its outcome.                    *)

Frame == UNCHANGED <<disk, batch, cancelled, executions, saveFails>>
FrameRun == Frame /\ UNCHANGED <<run, reported, nextSeq>>

\* Mutant of Replay: the recorded definition is not compared.
ReplayAny(s, d) ==
  /\ isTerminalStep(mem.steps[s])
  /\ op' = [op EXCEPT ![s] = Finished([Idle EXCEPT !.def = d], mem.steps[s].output)]
  /\ UNCHANGED <<mem, reason, starts, won>> /\ FrameRun

\* decideReplay: a recorded outcome of the same definition is returned.
Replay(s, d) ==
  /\ isTerminalStep(mem.steps[s]) /\ mem.steps[s].def = d
  /\ op' = [op EXCEPT ![s] = Finished([Idle EXCEPT !.def = d], mem.steps[s].output)]
  /\ UNCHANGED <<mem, reason, starts, won>> /\ FrameRun

\* A recorded outcome of another definition refuses.
Refuse(s, d) ==
  /\ isTerminalStep(mem.steps[s]) /\ mem.steps[s].def # d
  /\ op' = [op EXCEPT ![s] = Finished([Idle EXCEPT !.def = d], Rejected)]
  /\ UNCHANGED <<mem, reason, starts, won>> /\ FrameRun

\* Recorded outcomes from before step s that this execution has not asked for.
Skipped(s, seq) ==
  {t \in Ids \ (used \cup {s}) : isTerminalStep(mem.steps[t]) /\ mem.steps[t].seq < seq}

\* Mutant of GoLive: a recorded outcome does not keep the step from running again.
GoLiveAgain(s, d) ==
  /\ op' = [op EXCEPT ![s] = [pc |-> "entering", attempt |-> 1, def |-> d,
                              seq |-> mem.steps[s].seq, result |-> None]]
  /\ UNCHANGED <<mem, reason, run, reported, nextSeq, starts, won>> /\ Frame

\* Mutant of GoLive: a step that was not recorded before is not checked.
GoLiveNew(s, d) ==
  /\ ~isTerminalStep(mem.steps[s])
  /\ op' = [op EXCEPT ![s] = [pc |-> "entering", attempt |-> 1, def |-> d,
                              seq |-> nextSeq, result |-> None]]
  /\ nextSeq' = nextSeq + 1
  /\ UNCHANGED <<mem, reason, run, reported, starts, won>> /\ Frame

\* No outcome yet: run it, after beforeLive has reported a divergence, once.
GoLive(s, d) ==
  /\ ~isTerminalStep(mem.steps[s])
  /\ LET new == mem.steps[s].status = "absent"
         seq == IF new THEN nextSeq ELSE mem.steps[s].seq
         diverges == ~reported /\ Skipped(s, seq) # {}
     IN /\ op' = [op EXCEPT ![s] =
                    [pc |-> IF diverges THEN "warning" ELSE "entering",
                     attempt |-> 1, def |-> d, seq |-> seq, result |-> None]]
        /\ nextSeq' = IF new THEN nextSeq + 1 ELSE nextSeq
        /\ reported' = (reported \/ diverges)
        /\ IF diverges /\ Strict THEN AbortWith("divergence") ELSE UNCHANGED reason
  /\ UNCHANGED <<mem, run, starts, won>> /\ Frame

\* The body asks for step s with definition d.  A request after the run is closed, one whose
\* signal is aborted, or for a step asked for before, is rejected and changes nothing.
Ask(s, d) ==
  /\ ~closed /\ ~AbortedAt(s) /\ s \notin used
  /\ Replay(s, d) \/ Refuse(s, d) \/ GoLive(s, d)

\* attempts++ and the save that precedes the attempt.
Count(s) ==
  /\ mem' = [mem EXCEPT !.steps[s] =
               [@ EXCEPT !.status = "running", !.attempts = mem.steps[s].attempts + 1,
                         !.def = op[s].def, !.seq = op[s].seq]]
  /\ Move(s, "launching")

\* The attempt loop's head: an unfinished step with another definition is redefined first.
Enter(s) ==
  /\ op[s].pc = "entering" /\ ~AbortedAt(s)
  /\ IF mem.steps[s].status # "absent" /\ mem.steps[s].def # op[s].def
     THEN /\ mem' = [mem EXCEPT !.steps[s] =
                       [@ EXCEPT !.status = "running", !.def = op[s].def, !.output = None]]
          /\ Move(s, "redefining")
     ELSE Count(s)
  /\ UNCHANGED <<reason, starts, won>> /\ FrameRun

Redefined(s) ==
  /\ op[s].pc = "redefined"
  /\ Count(s)
  /\ UNCHANGED <<reason, starts, won>> /\ FrameRun

\* A step that ends without its effect: cancelled, or failed with the run's own storage.
GiveUp(s) ==
  /\ SetStatus(s, IF ReasonAt(s) = "checkpoint" THEN "failed" ELSE "cancelled")
  /\ Move(s, "failing")

\* Mutant of EnterAborted: the wait for a first attempt does not hear the abort.
EnterDeaf(s) ==
  /\ op[s].pc = "entering" /\ AbortedAt(s) /\ op[s].attempt > 1 /\ Reject(s)
  /\ UNCHANGED <<mem, reason, starts, won>> /\ FrameRun

\* Aborted before the attempt counts: no trace, except that a retry which waits for its
\* admission is recorded as cancelled.
EnterAborted(s) ==
  /\ op[s].pc = "entering" /\ AbortedAt(s)
  /\ \/ Reject(s) /\ UNCHANGED mem
     \/ op[s].attempt > 1 /\ ReasonAt(s) # "checkpoint" /\ GiveUp(s)
  /\ UNCHANGED <<reason, starts, won>> /\ FrameRun

\* The attempt is recorded: start the effect, unless its signal was aborted meanwhile.
Launch(s) ==
  /\ op[s].pc = "ready"
  /\ IF AbortedAt(s)
     THEN GiveUp(s) /\ UNCHANGED starts
     ELSE Move(s, "running") /\ starts' = [starts EXCEPT ![s] = @ + 1] /\ UNCHANGED mem
  /\ UNCHANGED <<reason, won>> /\ FrameRun

\* Mutant of Succeed: the body gets the result before it is saved.
SucceedUnsaved(s, v) ==
  /\ op[s].pc = "running"
  /\ mem' = [mem EXCEPT !.steps[s] = [@ EXCEPT !.status = "completed", !.output = v]]
  /\ op' = [op EXCEPT ![s] = Finished(@, v)]
  /\ won' = won \cup {s}
  /\ UNCHANGED <<reason, starts>> /\ FrameRun

\* A valid result is kept even if its signal was aborted meanwhile.
Succeed(s, v) ==
  /\ op[s].pc = "running"
  /\ mem' = [mem EXCEPT !.steps[s] = [@ EXCEPT !.status = "completed", !.output = v]]
  /\ op' = [op EXCEPT ![s].pc = "completing", ![s].result = v]
  /\ won' = won \cup {s}
  /\ UNCHANGED <<reason, starts>> /\ FrameRun

\* classifyAttemptFailure.  "transient" passes the retry filter and "filtered" does not,
\* "fatal" is a configuration, prompt or abort error, "storage" the run's own storage.
scoped(s, f) == AbortedAt(s) /\ f # "storage"

fatal(s, f) == scoped(s, f) \/ f \in {"fatal", "storage"}

retry(s, f) == ~fatal(s, f) /\ f = "transient" /\ op[s].attempt < MaxAttempts

settle(s, f) == ~fatal(s, f) /\ ~retry(s, f) /\ s \in Settles

Fail(s, f) ==
  /\ op[s].pc = "running"
  /\ IF f = "storage" THEN AbortWith("checkpoint") ELSE UNCHANGED reason
  /\ \/ /\ settle(s, f)
        /\ mem' = [mem EXCEPT !.steps[s] =
                     [@ EXCEPT !.status = "settled-failed", !.output = Failure]]
        /\ op' = [op EXCEPT ![s].pc = "settling", ![s].result = Failure]
     \/ /\ retry(s, f)
        /\ SetStatus(s, "failed")
        /\ Move(s, "retrying")
     \/ /\ ~settle(s, f) /\ ~retry(s, f)
        /\ SetStatus(s, IF scoped(s, f) THEN "cancelled" ELSE "failed")
        /\ Move(s, "failing")
  /\ UNCHANGED <<starts, won>> /\ FrameRun

\* waitUntil the next attempt; an abort ends the wait.
Backoff(s) ==
  /\ op[s].pc = "backoff"
  /\ \/ /\ ~AbortedAt(s)
        /\ op' = [op EXCEPT ![s].pc = "entering", ![s].attempt = @ + 1]
        /\ UNCHANGED mem
     \/ AbortedAt(s) /\ ReasonAt(s) = "checkpoint" /\ Reject(s) /\ UNCHANGED mem
     \/ AbortedAt(s) /\ ReasonAt(s) # "checkpoint" /\ GiveUp(s)
  /\ UNCHANGED <<reason, starts, won>> /\ FrameRun

Step(s) ==
  \/ Enter(s) \/ Redefined(s) \/ EnterAborted(s) \/ Launch(s) \/ Backoff(s)
  \/ \E v \in Values : Succeed(s, v)
  \/ \E f \in Faults : Fail(s, f)
------------------------------------------------------------------------------
(* The execution.                                                          *)

FrameSteps == UNCHANGED <<disk, batch, op, cancelled, reported, nextSeq, saveFails, starts>>

\* Load the record and save it as running.  A completed run is executed again only with
\* --accept-code-change.
Start ==
  /\ run = "idle" /\ executions < MaxExecutions
  /\ run' = "starting"
  /\ mem' = [disk EXCEPT !.status = "running"]
  /\ won' = {}
  /\ nextSeq' = 1 + Max({0} \cup {disk.steps[s].seq : s \in Ids})
  /\ executions' = executions + 1
  /\ UNCHANGED <<disk, batch, op, reason, cancelled, reported, saveFails, starts>>

\* The body returns: drain what it did not await.
BodyReturns ==
  /\ run = "body" /\ run' = "draining"
  /\ UNCHANGED <<mem, reason, executions, won>> /\ FrameSteps

\* It throws: nothing new starts, what is in flight goes on.
BodyThrows ==
  /\ run = "body" /\ run' = "failed"
  /\ UNCHANGED <<mem, reason, executions, won>> /\ FrameSteps

Drain ==
  /\ run = "draining" /\ \A s \in Ids : Settled(s)
  /\ run' = "closing"
  /\ UNCHANGED <<mem, reason, executions, won>> /\ FrameSteps

\* Mutant of Complete: steps that were not asked for keep their status.
CompleteKeeping ==
  /\ run = "closing" /\ ~Aborted
  /\ \A s \in Ids \ used : ~isTerminalStep(mem.steps[s])
  /\ mem' = [mem EXCEPT !.status = "completed"]
  /\ run' = "completed"
  /\ UNCHANGED <<reason, executions, won>> /\ FrameSteps

\* Every recorded outcome was asked for: retire the other steps and complete.
Complete ==
  /\ run = "closing" /\ ~Aborted
  /\ \A s \in Ids \ used : ~isTerminalStep(mem.steps[s])
  /\ mem' = [status |-> "completed",
             steps |-> [s \in Ids |->
               IF s \in used \/ mem.steps[s].status = "absent" THEN mem.steps[s]
               ELSE [mem.steps[s] EXCEPT !.status = "superseded"]]]
  /\ run' = "completed"
  /\ UNCHANGED <<reason, executions, won>> /\ FrameSteps

\* The run was aborted, a recorded outcome was skipped, an operation that was not awaited
\* failed, or the output is invalid.
NotComplete ==
  /\ run = "closing" /\ run' = "failed"
  /\ UNCHANGED <<mem, reason, executions, won>> /\ FrameSteps

\* Failed, cancelled or interrupted: save that, once nothing is in flight.
Stop ==
  /\ run = "failed" /\ \A s \in Ids : Settled(s)
  /\ mem' = [mem EXCEPT !.status = "stopped"]
  /\ run' = "stopping"
  /\ UNCHANGED <<reason, executions, won>> /\ FrameSteps

\* workflow cancel, a signal or tick's deadline.
Abort(why) ==
  /\ run # "idle" /\ ~Aborted
  /\ reason' = why
  /\ UNCHANGED <<mem, run, executions, won>> /\ FrameSteps

\* An item of the map fails: the map aborts its scope, and the run goes on.
CancelScope ==
  /\ run \in {"body", "draining", "failed"} /\ Scoped # {} /\ ~cancelled /\ ~Aborted
  /\ cancelled' = TRUE
  /\ UNCHANGED <<disk, mem, batch, op, run, reason, reported, nextSeq, executions, saveFails,
                 starts, won>>

\* The owner is killed: the batch in flight is on disk or not.
Crash ==
  /\ run # "idle"
  /\ disk' \in {disk} \cup (IF batch = NoBatch THEN {} ELSE {batch.record})
  /\ Over /\ won' = {}
  /\ UNCHANGED <<executions, saveFails, starts>>

Progress == BodyReturns \/ BodyThrows \/ Drain \/ Complete \/ NotComplete \/ Stop

Next ==
  \/ Start \/ Progress \/ BatchStarts \/ BatchSucceeds \/ BatchFails \/ Crash \/ CancelScope
  \/ \E s \in Ids : Step(s) \/ \E d \in Definitions : Ask(s, d)
  \/ \E why \in Aborts : Abort(why)

Spec == Init /\ [][Next]_vars

\* An execution goes on: writes end one way or the other, an effect returns or fails
\* (it has a deadline, or a person stops it), timers fire, and a body that does nothing
\* but await its operations ends.
Fairness ==
  /\ WF_vars(BatchStarts) /\ WF_vars(BatchSucceeds \/ BatchFails) /\ WF_vars(Progress)
  /\ \A s \in Ids : WF_vars(Step(s))

FairSpec == Spec /\ Fairness
------------------------------------------------------------------------------
StepRecord == [status : Statuses, attempts : 0..(MaxAttempts * MaxExecutions),
               def : Definitions \cup {None}, output : Outcomes \cup {None},
               seq : 0..(Cardinality(Ids) * MaxExecutions)]
RunRecord == [status : {"absent", "running", "completed", "stopped"}, steps : [Ids -> StepRecord]]
Operation == [pc : OpPcs, attempt : 0..MaxAttempts, def : Definitions \cup {None},
              seq : 0..(Cardinality(Ids) * MaxExecutions),
              result : Outcomes \cup {None, Rejected}]

\* The state stays within its types; a launch makes no more than its attempts.
TypeOK ==
  /\ disk \in RunRecord /\ mem \in RunRecord
  /\ batch = NoBatch \/ (batch.record \in RunRecord /\ batch.waiters \subseteq Ids \cup {Self})
  /\ op \in [Ids -> Operation]
  /\ run \in RunPcs /\ reason \in Reasons
  /\ cancelled \in BOOLEAN /\ reported \in BOOLEAN
  /\ nextSeq \in 1..(Cardinality(Ids) * MaxExecutions + 1)
  /\ executions \in 0..MaxExecutions /\ saveFails \in 0..MaxSaveFails
  /\ starts \in [Ids -> Nat] /\ won \subseteq Ids

\* Durable outcomes (ADR 0007): one that the body has seen, a value or a settled error, is
\* on disk, so the next execution's body sees the same one.  A rejection need not be.
DeliveredIsRecorded ==
  \A s \in Ids : op[s].pc = "done" /\ op[s].result \in Outcomes =>
    isTerminalStep(disk.steps[s]) /\ disk.steps[s].output = op[s].result
                                  /\ disk.steps[s].def = op[s].def

\* Every start of an effect was recorded before it, with an attempt number of its own: no
\* two attempts share a number, from which deriveAgentSessionId derives, across kills too.
EveryStartIsRecorded == \A s \in Ids : starts[s] <= disk.steps[s].attempts

\* What anybody relies on is on disk first: an outcome before the body sees it, an attempt
\* number before the attempt starts.
RecordedBeforeUse == TypeOK /\ DeliveredIsRecorded /\ EveryStartIsRecorded

\* The run's last save is made when nothing is in flight: no effect outlives its run.
EndsQuiet ==
  run \in {"completed", "stopping", "idle"} =>
    (\A s \in Ids : Settled(s)) /\ batch.waiters \subseteq {Self}

\* Results are kept: after an execution that ended by itself, whatever the run's fate,
\* each effect that succeeded in it is recorded as completed.
FinishedWorkIsKept ==
  run = "idle" /\ disk.status \in {"completed", "stopped"} =>
    \A s \in won : disk.steps[s].status = "completed"

\* A run completes on what its body saw: in the record that completes it, a step is running or
\* cancelled only if its request was rejected in this execution, as those of a map's siblings are
\* when the map has aborted its scope and the body goes on (test/fan-out.test.ts:146-202); what
\* it did not ask for is retired.
CompletedRunIsWhole ==
  run = "completed" =>
    \A s \in Ids : mem.steps[s].status \in {"running", "cancelled"} => op[s].result = Rejected

\* A run ends whole: nothing is in flight at its last save, what succeeded is recorded
\* whatever the run's fate, and a completed run leaves no step running or cancelled behind the
\* back of its body.
EndsWhole == EndsQuiet /\ FinishedWorkIsKept /\ CompletedRunIsWhole

\* No effect starts that may not: none once the run or its scope is aborted, though the abort
\* crossed the save before the attempt, and under strictReplay none while an outcome from
\* before it has not been asked for.
StartsAreAllowed ==
  [][\A s \in Ids : starts'[s] # starts[s] =>
       ~AbortedAt(s) /\ (Strict => Skipped(s, op[s].seq) = {})]_vars

\* Every execution ends, whatever fails and whenever it is aborted.
EveryExecutionEnds == run # "idle" ~> run = "idle"
------------------------------------------------------------------------------
\* The record on disk implements durable effects.
Recorded == [s \in Ids |->
  IF isTerminalStep(disk.steps[s]) THEN <<disk.steps[s].def, disk.steps[s].output>> ELSE <<>>]
Abstract == INSTANCE Effects WITH
  Outcomes <- Definitions \X Outcomes, NoOutcome <- <<>>, outcome <- Recorded, starts <- starts
AbstractSpec == Abstract!Spec
=============================================================================
