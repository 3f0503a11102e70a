----------------------------- MODULE RunnerProofs -----------------------------
(***************************************************************************)
(* What a run promises about its effects, proved for every workflow, every *)
(* number of steps, executions and attempts, and every fault.              *)
(*                                                                         *)
(* The record exists in up to three copies: in memory, in the batch that   *)
(* is being written, and on disk.  The inductive invariant says where each *)
(* operation may be while the copies differ, and in what.                  *)
(***************************************************************************)
EXTENDS Runner, FiniteSetTheorems, WellFoundedInduction, TLAPS

Flying == batch # NoBatch
Live(s) == op[s].pc \notin {"none", "done"}
Ending(s) == op[s].pc \in {"completing", "settling"}

StepType == [status : Statuses, attempts : Nat, def : Definitions \cup {None},
             output : Outcomes \cup {None}, seq : Nat]
RecordType == [status : {"absent", "running", "completed", "stopped"}, steps : [Ids -> StepType]]
OpType == [pc : OpPcs, attempt : Nat, def : Definitions \cup {None}, seq : Nat,
           result : Outcomes \cup {None, Rejected}]

\* The types, without the bounds that Counted gives.
Typed ==
  /\ disk \in RecordType /\ mem \in RecordType
  /\ Flying => batch.record \in RecordType /\ batch.waiters \subseteq Ids \cup {Self}
  /\ op \in [Ids -> OpType]
  /\ run \in RunPcs /\ reason \in Reasons
  /\ cancelled \in BOOLEAN /\ reported \in BOOLEAN
  /\ nextSeq \in Nat \ {0} /\ executions \in 0..MaxExecutions /\ saveFails \in 0..MaxSaveFails
  /\ starts \in [Ids -> Nat] /\ won \subseteq Ids

\* Where the execution is, what its steps and its batch may be doing, and what the
\* record says of it.
Staged ==
  /\ run = "idle" => mem = disk /\ ~Flying
  /\ run \in {"idle", "starting"} => \A s \in Ids : op[s].pc = "none"
  /\ run \in {"closing", "completed", "stopping"} => \A s \in Ids : Settled(s)
  /\ Flying => batch.waiters # {} /\ batch.waiters \subseteq Waiters
  /\ run \in {"starting", "body", "draining", "closing"} => mem.status = "running"
  /\ run = "completed" => mem.status = "completed"
  /\ run = "stopping" => mem.status = "stopped"
  /\ run = "failed" => \/ mem.status = "running"
                       \/ mem.status = "completed" /\ \A s \in Ids : Settled(s)
  /\ run \notin {"idle", "starting"} => disk.status = "running"
  /\ Flying /\ Self \notin batch.waiters => batch.record.status = "running"

\* Whoever waits for the batch finds its own part of the record in it, and what this
\* execution has not asked for is the same in all copies.
Copied ==
  /\ Flying => /\ \A s \in Ids \cap batch.waiters : batch.record.steps[s] = mem.steps[s]
               /\ Self \in batch.waiters => batch.record = mem
  /\ run # "completed" =>
       \A s \in Ids \ used : /\ mem.steps[s] = disk.steps[s]
                             /\ Flying => batch.record.steps[s] = disk.steps[s]

\* A recorded outcome is in every later copy, and no operation is live on one.
Final ==
  \A s \in Ids :
    /\ Live(s) => ~isTerminalStep(disk.steps[s])
    /\ Live(s) /\ ~Ending(s) => ~isTerminalStep(mem.steps[s])
    /\ Live(s) /\ Flying /\ s \notin batch.waiters => ~isTerminalStep(batch.record.steps[s])
    /\ isTerminalStep(disk.steps[s]) => mem.steps[s] = disk.steps[s]
    /\ Flying /\ isTerminalStep(disk.steps[s]) => batch.record.steps[s] = disk.steps[s]
    /\ Flying /\ isTerminalStep(batch.record.steps[s]) => batch.record.steps[s] = mem.steps[s]

\* What is delivered is on disk, what is about to be delivered is in memory.
Delivered ==
  /\ DeliveredIsRecorded
  /\ \A s \in Ids : Ending(s) =>
       isTerminalStep(mem.steps[s]) /\ mem.steps[s].output = op[s].result
                                    /\ mem.steps[s].def = op[s].def

\* A recorded outcome is of an effect that was started, with a definition.
Ran ==
  \A s \in Ids :
    /\ op[s].pc # "none" => op[s].def \in Definitions
    /\ op[s].pc \in {"launching", "ready", "running"} => mem.steps[s].def = op[s].def
    /\ op[s].pc = "running" => starts[s] > 0
    /\ isTerminalStep(mem.steps[s]) =>
         starts[s] > 0 /\ mem.steps[s].def \in Definitions /\ mem.steps[s].output \in Outcomes

\* Attempts are counted in memory, then in the batch, then on disk, then made.
Numbered ==
  \A s \in Ids :
    /\ disk.steps[s].attempts <= mem.steps[s].attempts
    /\ Flying => /\ disk.steps[s].attempts <= batch.record.steps[s].attempts
                 /\ batch.record.steps[s].attempts <= mem.steps[s].attempts
    /\ starts[s] <= disk.steps[s].attempts
    /\ op[s].pc = "ready" => starts[s] < disk.steps[s].attempts
    /\ op[s].pc = "launching" => starts[s] < mem.steps[s].attempts

\* What succeeded is recorded as completed until the run is over and after it.
Kept ==
  /\ FinishedWorkIsKept
  /\ run # "idle" =>
       \A s \in won : op[s].pc \in {"completing", "done"} /\ mem.steps[s].status = "completed"

\* The body of a completed run saw an outcome of every step that was not rejected.
Whole ==
  /\ CompletedRunIsWhole
  /\ \A s \in Ids : op[s].pc = "done" => op[s].result \in Outcomes \cup {Rejected}

\* Under strictReplay a divergence aborts, so what is live skipped nothing.
Replayed ==
  /\ Strict /\ reported => Aborted
  /\ \A s \in Ids : op[s].pc = "warning" => reported
  /\ Strict /\ ~Aborted => \A s \in Ids : Live(s) => Skipped(s, op[s].seq) = {}

\* Attempts that operation o has counted in this execution.
Launched(o) ==
  CASE o.pc = "none" -> 0
    [] o.pc = "done" -> MaxAttempts
    [] o.pc \in {"warning", "entering", "redefining", "redefined"} -> o.attempt - 1
    [] OTHER -> o.attempt

\* The numbers in a record stay below what the executions so far can have used up.
Below(r) == \A s \in Ids : r.steps[s].seq < nextSeq
Counted ==
  /\ run = "idle" => /\ nextSeq = 1
                     /\ \A s \in Ids : /\ disk.steps[s].seq <= executions * Cardinality(Ids)
                                       /\ disk.steps[s].attempts <= executions * MaxAttempts
  /\ run # "idle" => /\ executions > 0
                     /\ nextSeq <= 1 + (executions - 1) * Cardinality(Ids) + Cardinality(used)
                     /\ Below(disk) /\ Below(mem) /\ (Flying => Below(batch.record))
                     /\ \A s \in Ids : mem.steps[s].attempts <= (executions - 1) * MaxAttempts + Launched(op[s])
  /\ \A s \in Ids :
       /\ Live(s) => op[s].attempt \in 1..MaxAttempts /\ op[s].seq < nextSeq
       /\ ~Live(s) => op[s].attempt = 0 /\ op[s].seq = 0
       /\ op[s].pc \in {"retrying", "backoff"} => op[s].attempt < MaxAttempts

RunnerInv ==
  /\ Typed /\ Staged /\ Copied /\ Final /\ Delivered /\ Ran /\ Numbered /\ Kept /\ Whole
  /\ Replayed /\ Counted
------------------------------------------------------------------------------
(* What each action does to its operation and to the record, field by      *)
(* field.  The invariant's parts are proved from these.                    *)

\* Only step s changes, in its operation and in the record in memory.
Local(s) ==
  /\ \A t \in Ids \ {s} : op'[t] = op[t] /\ mem'.steps[t] = mem.steps[t]
  /\ mem'.status = mem.status
  /\ mem' \in RecordType /\ op' \in [Ids -> OpType]
  /\ UNCHANGED <<disk, batch, run, cancelled, executions, saveFails>>

\* The operation moves on and keeps its other fields.
Moves(s, pc) ==
  /\ op'[s].pc = pc
  /\ op'[s].attempt = op[s].attempt /\ op'[s].def = op[s].def
  /\ op'[s].seq = op[s].seq /\ op'[s].result = op[s].result

\* It is over.
Ends(s, result) ==
  /\ op'[s].pc = "done" /\ op'[s].result = result
  /\ op'[s].attempt = 0 /\ op'[s].seq = 0

\* The step's part of the record keeps its fields, all but the status.
Sets(s, status) ==
  /\ mem'.steps[s].status = status
  /\ mem'.steps[s].attempts = mem.steps[s].attempts /\ mem'.steps[s].seq = mem.steps[s].seq
  /\ mem'.steps[s].def = mem.steps[s].def

LEMMA MoveFields ==
  ASSUME Typed, NEW s \in Ids, NEW pc \in OpPcs, Move(s, pc)
  PROVE  /\ op' \in [Ids -> OpType] /\ Moves(s, pc)
         /\ \A t \in Ids \ {s} : op'[t] = op[t]
BY DEF Typed, Move, OpType, Moves

LEMMA PutFields ==
  ASSUME Typed, NEW s \in Ids, NEW x \in StepType, mem' = [mem EXCEPT !.steps[s] = x]
  PROVE  /\ mem' \in RecordType /\ mem'.status = mem.status /\ mem'.steps[s] = x
         /\ \A t \in Ids \ {s} : mem'.steps[t] = mem.steps[t]
BY DEF Typed, RecordType

LEMMA SetStatusFields ==
  ASSUME Typed, NEW s \in Ids, NEW status \in Statuses, SetStatus(s, status)
  PROVE  /\ mem' \in RecordType /\ mem'.status = mem.status /\ Sets(s, status)
         /\ mem'.steps[s].output = mem.steps[s].output
         /\ \A t \in Ids \ {s} : mem'.steps[t] = mem.steps[t]
<1> DEFINE x == [mem.steps[s] EXCEPT !.status = status]
<1>1. mem.steps[s] \in StepType
  BY DEF Typed, RecordType
<1>2. /\ x \in StepType /\ x.status = status /\ x.attempts = mem.steps[s].attempts
      /\ x.seq = mem.steps[s].seq /\ x.def = mem.steps[s].def /\ x.output = mem.steps[s].output
  BY <1>1 DEF StepType
<1>3. mem' = [mem EXCEPT !.steps[s] = x]
  BY <1>1 DEF SetStatus, Typed, RecordType, StepType
<1> HIDE DEF x
<1> QED BY <1>2, <1>3, PutFields DEF Sets

LEMMA RejectFields ==
  ASSUME Typed, NEW s \in Ids, Reject(s)
  PROVE  /\ op' \in [Ids -> OpType] /\ Ends(s, Rejected) /\ op'[s].def = op[s].def
         /\ \A t \in Ids \ {s} : op'[t] = op[t]
BY DEF Typed, Reject, Finished, Idle, OpType, OpPcs, Ends

LEMMA CountFields ==
  ASSUME Typed, NEW s \in Ids, Count(s)
  PROVE  /\ Moves(s, "launching") /\ op' \in [Ids -> OpType]
         /\ \A t \in Ids \ {s} : op'[t] = op[t] /\ mem'.steps[t] = mem.steps[t]
         /\ mem' \in RecordType /\ mem'.status = mem.status
         /\ mem'.steps[s].status = "running" /\ mem'.steps[s].attempts = mem.steps[s].attempts + 1
         /\ mem'.steps[s].def = op[s].def /\ mem'.steps[s].seq = op[s].seq
<1> DEFINE x == [mem.steps[s] EXCEPT !.status = "running", !.attempts = mem.steps[s].attempts + 1,
                                     !.def = op[s].def, !.seq = op[s].seq]
<1>1. mem.steps[s] \in StepType /\ mem.steps[s].attempts + 1 \in Nat
  BY DEF Typed, RecordType, StepType
<1>2. op[s].def \in Definitions \cup {None} /\ op[s].seq \in Nat
  BY DEF Typed, OpType
<1>3. x \in StepType
  BY <1>1, <1>2 DEF StepType, Statuses
<1>4. mem' = [mem EXCEPT !.steps[s] = x]
  BY DEF Count
<1>5. x.status = "running" /\ x.attempts = mem.steps[s].attempts + 1 /\ x.def = op[s].def /\ x.seq = op[s].seq
  BY <1>1 DEF StepType
<1>6. Move(s, "launching") /\ "launching" \in OpPcs
  BY DEF Count, OpPcs, SavePcs
<1> HIDE DEF x
<1> QED BY <1>3, <1>4, <1>5, <1>6, MoveFields, PutFields

(* The turns that one step takes, named by what happens to it. *)

\* What stays the same unless the turn says otherwise.
Calm == UNCHANGED <<reason, reported, nextSeq, starts, won>>

Asked(s) == op[s].pc = "none" /\ ~closed /\ ~Aborted

Returns(s) ==
  /\ Asked(s) /\ Calm /\ UNCHANGED mem
  /\ isTerminalStep(mem.steps[s]) /\ op'[s].def = mem.steps[s].def /\ op'[s].def \in Definitions
  /\ Ends(s, mem.steps[s].output)

Refuses(s) ==
  /\ Asked(s) /\ Calm /\ UNCHANGED mem
  /\ isTerminalStep(mem.steps[s]) /\ op'[s].def \in Definitions
  /\ Ends(s, Rejected)

GoesLive(s) ==
  /\ Asked(s) /\ UNCHANGED <<mem, starts, won>>
  /\ ~isTerminalStep(mem.steps[s])
  /\ op'[s].attempt = 1 /\ op'[s].def \in Definitions
  /\ \/ op'[s].seq = nextSeq /\ nextSeq' = nextSeq + 1
     \/ op'[s].seq = mem.steps[s].seq /\ nextSeq' = nextSeq
  /\ \/ /\ op'[s].pc = "warning" /\ reported'
        /\ Strict => reason' # "none"
        /\ ~Strict => UNCHANGED reason
     \/ /\ op'[s].pc = "entering"
        /\ reported \/ Skipped(s, op'[s].seq) = {}
        /\ UNCHANGED <<reported, reason>>

Redefines(s) ==
  /\ op[s].pc = "entering" /\ Calm
  /\ Moves(s, "redefining")
  /\ mem'.steps[s].status = "running" /\ mem'.steps[s].attempts = mem.steps[s].attempts
  /\ mem'.steps[s].seq = mem.steps[s].seq

Counts(s) ==
  /\ op[s].pc \in {"entering", "redefined"} /\ Calm
  /\ Moves(s, "launching")
  /\ mem'.steps[s].status = "running" /\ mem'.steps[s].attempts = mem.steps[s].attempts + 1
  /\ mem'.steps[s].def = op[s].def /\ mem'.steps[s].seq = op[s].seq

Rejects(s) ==
  /\ op[s].pc \in {"entering", "backoff"} /\ Calm /\ UNCHANGED mem
  /\ Ends(s, Rejected) /\ op'[s].def = op[s].def

GivesUp(s) ==
  /\ op[s].pc \in {"entering", "ready", "backoff"} /\ Calm
  /\ Moves(s, "failing")
  /\ \E status \in {"failed", "cancelled"} : Sets(s, status)

Launches(s) ==
  /\ op[s].pc = "ready" /\ ~AbortedAt(s)
  /\ Moves(s, "running") /\ starts' = [starts EXCEPT ![s] = @ + 1]
  /\ UNCHANGED <<mem, reason, reported, nextSeq, won>>

Outcome(s, pc, status) ==
  /\ op'[s].pc = pc /\ op'[s].attempt = op[s].attempt /\ op'[s].def = op[s].def
  /\ op'[s].seq = op[s].seq /\ op'[s].result \in Outcomes
  /\ Sets(s, status) /\ mem'.steps[s].output = op'[s].result

Succeeds(s) ==
  /\ op[s].pc = "running" /\ UNCHANGED <<reason, reported, nextSeq, starts>>
  /\ Outcome(s, "completing", "completed") /\ won' = won \cup {s}

SettlesFailed(s) ==
  /\ op[s].pc = "running" /\ Calm
  /\ Outcome(s, "settling", "settled-failed")

Retries(s) ==
  /\ op[s].pc = "running" /\ op[s].attempt < MaxAttempts /\ Calm
  /\ Moves(s, "retrying") /\ Sets(s, "failed")

Fails(s) ==
  /\ op[s].pc = "running" /\ UNCHANGED <<reported, nextSeq, starts, won>>
  /\ reason' = "none" => reason = "none"
  /\ Moves(s, "failing")
  /\ \E status \in {"failed", "cancelled"} : Sets(s, status)

Resumes(s) ==
  /\ op[s].pc = "backoff" /\ Calm /\ UNCHANGED mem
  /\ op'[s].pc = "entering" /\ op'[s].attempt = op[s].attempt + 1 /\ op'[s].def = op[s].def
  /\ op'[s].seq = op[s].seq

Turn(s) ==
  \/ Returns(s) \/ Refuses(s) \/ GoesLive(s) \/ Redefines(s) \/ Counts(s) \/ Rejects(s)
  \/ GivesUp(s) \/ Launches(s) \/ Succeeds(s) \/ SettlesFailed(s) \/ Retries(s) \/ Fails(s)
  \/ Resumes(s)

LEMMA CalmTyped ==
  ASSUME Typed, NEW s \in Ids, Local(s), Calm
  PROVE  Typed'
BY DEF Typed, Local, Calm, Flying

LEMMA AskTurns ==
  ASSUME Typed, NEW s \in Ids, NEW d \in Definitions, Ask(s, d)
  PROVE  Local(s) /\ Turn(s) /\ Typed'
<1> USE RunnerAssumption
<1>1. op[s].pc = "none" /\ Asked(s) /\ Frame /\ UNCHANGED <<mem, run>>
  BY DEF Ask, used, Asked, AbortedAt, Replay, Refuse, GoLive, FrameRun, Frame
<1>2. CASE Replay(s, d)
  <2>1. mem.steps[s] \in StepType
    BY DEF Typed, RecordType
  <2>2. /\ op' \in [Ids -> OpType] /\ \A t \in Ids \ {s} : op'[t] = op[t]
        /\ Ends(s, mem.steps[s].output) /\ op'[s].def = d
    BY <1>2, <2>1 DEF Replay, Typed, Finished, Idle, OpType, StepType, OpPcs, Ends
  <2>3. Local(s)
    BY <1>1, <1>2, <2>2 DEF Local, Frame, Typed
  <2>4. Returns(s)
    BY <1>1, <1>2, <2>2 DEF Returns, Replay, Calm, FrameRun
  <2> QED BY <2>3, <2>4, CalmTyped DEF Turn, Returns
<1>3. CASE Refuse(s, d)
  <2>2. /\ op' \in [Ids -> OpType] /\ \A t \in Ids \ {s} : op'[t] = op[t]
        /\ Ends(s, Rejected) /\ op'[s].def = d
    BY <1>3 DEF Refuse, Typed, Finished, Idle, OpType, OpPcs, Ends
  <2>3. Local(s)
    BY <1>1, <1>3, <2>2 DEF Local, Frame, Typed
  <2>4. Refuses(s)
    BY <1>1, <1>3, <2>2 DEF Refuses, Refuse, Calm, FrameRun
  <2> QED BY <2>3, <2>4, CalmTyped DEF Turn, Refuses
<1>4. CASE GoLive(s, d)
  <2> DEFINE new == mem.steps[s].status = "absent"
             seq == IF new THEN nextSeq ELSE mem.steps[s].seq
             diverges == ~reported /\ Skipped(s, seq) # {}
             pc == IF diverges THEN "warning" ELSE "entering"
  <2>1. seq \in Nat /\ pc \in OpPcs
    BY DEF Typed, RecordType, StepType, OpPcs, SavePcs
  <2>2. /\ op' = [op EXCEPT ![s] = [pc |-> pc, attempt |-> 1, def |-> d, seq |-> seq, result |-> None]]
        /\ nextSeq' = IF new THEN nextSeq + 1 ELSE nextSeq
        /\ reported' = (reported \/ diverges)
        /\ IF diverges /\ Strict THEN AbortWith("divergence") ELSE UNCHANGED reason
        /\ ~isTerminalStep(mem.steps[s]) /\ UNCHANGED <<starts, won>>
    BY <1>4 DEF GoLive
  <2> HIDE DEF seq, pc
  <2>3. /\ op' \in [Ids -> OpType] /\ \A t \in Ids \ {s} : op'[t] = op[t]
        /\ op'[s].pc = pc /\ op'[s].attempt = 1 /\ op'[s].def = d /\ op'[s].seq = seq
    BY <2>1, <2>2 DEF Typed, OpType
  <2>4. Local(s)
    BY <1>1, <2>3 DEF Local, Frame, Typed
  <2>5. \/ op'[s].seq = nextSeq /\ nextSeq' = nextSeq + 1
        \/ op'[s].seq = mem.steps[s].seq /\ nextSeq' = nextSeq
    BY <2>2, <2>3 DEF seq
  <2>6. /\ Asked(s) /\ UNCHANGED <<mem, starts, won>> /\ ~isTerminalStep(mem.steps[s])
        /\ op'[s].attempt = 1 /\ op'[s].def \in Definitions
    BY <1>1, <2>2, <2>3
  <2>7. ASSUME diverges PROVE GoesLive(s)
    <3>1. op'[s].pc = "warning" /\ reported'
      BY <2>2, <2>3, <2>7 DEF pc
    <3>2. Strict => reason' # "none"
      BY <2>2, <2>7 DEF AbortWith, Aborted
    <3>3. ~Strict => UNCHANGED reason
      BY <2>2
    <3> QED BY <2>5, <2>6, <3>1, <3>2, <3>3 DEF GoesLive
  <2>8. ASSUME ~diverges PROVE GoesLive(s)
    <3>1. op'[s].pc = "entering" /\ UNCHANGED reason
      BY <2>2, <2>3, <2>8 DEF pc
    <3>2. UNCHANGED reported
      BY <2>2, <2>8 DEF Typed
    <3>3. reported \/ Skipped(s, op'[s].seq) = {}
      BY <2>3, <2>8
    <3> QED BY <2>5, <2>6, <3>1, <3>2, <3>3 DEF GoesLive
  <2>9. reason' \in Reasons /\ nextSeq' \in Nat \ {0} /\ reported' \in BOOLEAN
    BY <2>2 DEF AbortWith, Reasons, Typed
  <2>10. Typed'
    BY <2>4, <2>6, <2>9 DEF Typed, Local, Flying
  <2> QED BY <2>4, <2>7, <2>8, <2>10 DEF Turn
<1> QED BY <1>2, <1>3, <1>4 DEF Ask

LEMMA OutcomeFields ==
  ASSUME Typed, NEW s \in Ids, NEW pc \in OpPcs, NEW status \in Statuses, NEW v \in Outcomes,
         mem' = [mem EXCEPT !.steps[s] = [mem.steps[s] EXCEPT !.status = status, !.output = v]],
         op' = [op EXCEPT ![s].pc = pc, ![s].result = v], FrameRun
  PROVE  Local(s) /\ Outcome(s, pc, status)
<1> DEFINE x == [mem.steps[s] EXCEPT !.status = status, !.output = v]
<1>1. mem.steps[s] \in StepType
  BY DEF Typed, RecordType
<1>2. /\ x \in StepType /\ x.status = status /\ x.attempts = mem.steps[s].attempts
      /\ x.seq = mem.steps[s].seq /\ x.def = mem.steps[s].def /\ x.output = v
  BY <1>1 DEF StepType
<1>3. mem' = [mem EXCEPT !.steps[s] = x]
  OBVIOUS
<1>4. /\ op' \in [Ids -> OpType] /\ \A t \in Ids \ {s} : op'[t] = op[t]
      /\ op'[s].pc = pc /\ op'[s].attempt = op[s].attempt /\ op'[s].def = op[s].def
      /\ op'[s].seq = op[s].seq /\ op'[s].result = v
  BY DEF Typed, OpType
<1> HIDE DEF x
<1> QED BY <1>2, <1>3, <1>4, PutFields DEF Local, Outcome, Sets, FrameRun, Frame

LEMMA StepTurns ==
  ASSUME Typed, NEW s \in Ids, Step(s)
  PROVE  Local(s) /\ Turn(s) /\ Typed'
<1> USE RunnerAssumption
<1>1. CASE Enter(s)
  <2>1. op[s].pc = "entering" /\ Calm /\ FrameRun
    BY <1>1 DEF Enter, Calm, FrameRun
  <2>2. CASE Count(s)
    <3>1. Local(s) /\ Counts(s)
      BY <2>1, <2>2, CountFields DEF Local, Counts, FrameRun, Frame
    <3> QED BY <2>1, <3>1, CalmTyped DEF Turn
  <2>3. CASE ~Count(s)
    <3> DEFINE x == [mem.steps[s] EXCEPT !.status = "running", !.def = op[s].def, !.output = None]
    <3>1. mem' = [mem EXCEPT !.steps[s] = x] /\ Move(s, "redefining")
      BY <1>1, <2>3 DEF Enter
    <3>2. mem.steps[s] \in StepType /\ op[s].def \in Definitions \cup {None}
      BY DEF Typed, RecordType, OpType
    <3>3. /\ x \in StepType /\ x.status = "running" /\ x.attempts = mem.steps[s].attempts
          /\ x.seq = mem.steps[s].seq
      BY <3>2 DEF StepType, Statuses
    <3> HIDE DEF x
    <3>4. Local(s) /\ Redefines(s)
      BY <2>1, <3>1, <3>3, MoveFields, PutFields
      DEF Local, Redefines, FrameRun, Frame, OpPcs, SavePcs
    <3> QED BY <2>1, <3>4, CalmTyped DEF Turn
  <2> QED BY <2>2, <2>3
<1>2. CASE Redefined(s)
  <2>1. Local(s) /\ Counts(s) /\ Calm
    BY <1>2, CountFields DEF Redefined, Local, Counts, FrameRun, Frame, Calm
  <2> QED BY <2>1, CalmTyped DEF Turn
<1>3. ASSUME GiveUp(s), op[s].pc \in {"entering", "ready", "backoff"}, Calm, FrameRun
      PROVE  Local(s) /\ Turn(s) /\ Typed'
  <2>1. PICK status \in {"failed", "cancelled"} : SetStatus(s, status)
    BY <1>3 DEF GiveUp
  <2>2. status \in Statuses /\ "failing" \in OpPcs /\ Move(s, "failing")
    BY <1>3 DEF GiveUp, Statuses, OpPcs, SavePcs
  <2>3. Local(s) /\ GivesUp(s)
    BY <1>3, <2>1, <2>2, MoveFields, SetStatusFields DEF Local, GivesUp, FrameRun, Frame
  <2> QED BY <1>3, <2>3, CalmTyped DEF Turn
<1>4. ASSUME Reject(s), op[s].pc \in {"entering", "backoff"}, Calm, UNCHANGED mem, FrameRun
      PROVE  Local(s) /\ Turn(s) /\ Typed'
  <2>1. Local(s) /\ Rejects(s)
    BY <1>4, RejectFields DEF Local, Rejects, FrameRun, Frame, Typed
  <2> QED BY <1>4, <2>1, CalmTyped DEF Turn
<1>5. CASE EnterAborted(s)
  BY <1>3, <1>4, <1>5 DEF EnterAborted, Calm, FrameRun
<1>6. CASE Launch(s)
  <2>1. CASE AbortedAt(s)
    BY <1>3, <1>6, <2>1 DEF Launch, Calm, FrameRun
  <2>2. CASE ~AbortedAt(s)
    <3>1. /\ op[s].pc = "ready" /\ Move(s, "running") /\ "running" \in OpPcs
          /\ starts' = [starts EXCEPT ![s] = @ + 1]
          /\ UNCHANGED <<mem, reason, won>> /\ FrameRun
      BY <1>6, <2>2 DEF Launch, OpPcs
    <3>2. Local(s) /\ Launches(s)
      BY <2>2, <3>1, MoveFields DEF Local, Launches, FrameRun, Frame, Typed
    <3>3. starts' \in [Ids -> Nat]
      BY <3>1 DEF Typed
    <3>4. Typed'
      BY <3>1, <3>2, <3>3 DEF Typed, Local, Flying, FrameRun
    <3> QED BY <3>2, <3>4 DEF Turn
  <2> QED BY <2>1, <2>2
<1>7. ASSUME NEW v \in Values, Succeed(s, v)
      PROVE  Local(s) /\ Turn(s) /\ Typed'
  <2>1. /\ op[s].pc = "running" /\ UNCHANGED <<reason, starts>> /\ FrameRun
        /\ won' = won \cup {s}
        /\ mem' = [mem EXCEPT !.steps[s] = [mem.steps[s] EXCEPT !.status = "completed", !.output = v]]
        /\ op' = [op EXCEPT ![s].pc = "completing", ![s].result = v]
    BY <1>7 DEF Succeed
  <2>2. v \in Outcomes /\ "completed" \in Statuses /\ "completing" \in OpPcs
    BY DEF Outcomes, Statuses, OpPcs, SavePcs
  <2>3. Local(s) /\ Outcome(s, "completing", "completed")
    BY <2>1, <2>2, OutcomeFields
  <2>4. Typed'
    BY <2>1, <2>3 DEF Typed, Local, Flying, FrameRun
  <2> QED BY <2>1, <2>3, <2>4 DEF Turn, Succeeds, FrameRun
<1>8. ASSUME NEW f \in Faults, Fail(s, f)
      PROVE  Local(s) /\ Turn(s) /\ Typed'
  <2>1. /\ op[s].pc = "running" /\ UNCHANGED <<starts, won>> /\ FrameRun
        /\ IF f = "storage" THEN AbortWith("checkpoint") ELSE UNCHANGED reason
    BY <1>8 DEF Fail
  <2>2. reason' = "none" => reason = "none"
    BY <2>1 DEF AbortWith, Aborted
  <2>3. reason' \in Reasons
    BY <2>1 DEF AbortWith, Reasons, Typed
  <2>4. CASE settle(s, f)
    <3>1. UNCHANGED reason
      BY <2>1, <2>4 DEF settle, fatal
    <3>2. /\ mem' = [mem EXCEPT !.steps[s] =
                       [mem.steps[s] EXCEPT !.status = "settled-failed", !.output = Failure]]
          /\ op' = [op EXCEPT ![s].pc = "settling", ![s].result = Failure]
      BY <1>8, <2>4 DEF Fail, settle
    <3>3. Failure \in Outcomes /\ "settled-failed" \in Statuses /\ "settling" \in OpPcs
      BY DEF Outcomes, Statuses, OpPcs, SavePcs
    <3>4. Local(s) /\ SettlesFailed(s)
      BY <2>1, <3>1, <3>2, <3>3, OutcomeFields DEF SettlesFailed, Calm, FrameRun
    <3> QED BY <3>4, CalmTyped DEF Turn, SettlesFailed
  <2>5. CASE retry(s, f)
    <3>1. SetStatus(s, "failed") /\ Move(s, "retrying")
      BY <1>8, <2>5 DEF Fail, settle
    <3>2. UNCHANGED reason /\ op[s].attempt < MaxAttempts
      BY <2>1, <2>5 DEF retry, fatal
    <3>3. Local(s) /\ Retries(s)
      BY <2>1, <3>1, <3>2, MoveFields, SetStatusFields
      DEF Local, Retries, Calm, FrameRun, Frame, Statuses, OpPcs, SavePcs
    <3> QED BY <3>3, CalmTyped DEF Turn, Retries
  <2>6. CASE ~settle(s, f) /\ ~retry(s, f)
    <3>1. Move(s, "failing") /\ "failing" \in OpPcs
      BY <1>8, <2>6 DEF Fail, OpPcs, SavePcs
    <3>2. PICK status \in {"failed", "cancelled"} : SetStatus(s, status)
      BY <1>8, <2>6 DEF Fail
    <3>3. Sets(s, status) /\ Local(s)
      BY <2>1, <3>1, <3>2, MoveFields, SetStatusFields DEF Local, FrameRun, Frame, Statuses
    <3>4. Fails(s)
      BY <2>1, <2>2, <3>1, <3>2, <3>3, MoveFields DEF Fails, FrameRun
    <3>5. Typed'
      BY <2>1, <2>3, <3>3 DEF Typed, Local, Flying, FrameRun
    <3> QED BY <3>3, <3>4, <3>5 DEF Turn
  <2> QED BY <2>4, <2>5, <2>6
<1>9. CASE Backoff(s)
  <2>1. ASSUME ~AbortedAt(s) PROVE Local(s) /\ Turn(s) /\ Typed'
    <3>1. /\ op[s].pc = "backoff" /\ op' = [op EXCEPT ![s].pc = "entering", ![s].attempt = @ + 1]
          /\ UNCHANGED mem /\ Calm /\ FrameRun
      BY <1>9, <2>1 DEF Backoff, Calm, FrameRun
    <3>2. op[s].attempt + 1 \in Nat
      BY DEF Typed, OpType
    <3>3. /\ op' \in [Ids -> OpType] /\ \A t \in Ids \ {s} : op'[t] = op[t]
          /\ op'[s].pc = "entering" /\ op'[s].attempt = op[s].attempt + 1 /\ op'[s].def = op[s].def
          /\ op'[s].seq = op[s].seq
      BY <3>1, <3>2 DEF Typed, OpType, OpPcs
    <3>4. Local(s) /\ Resumes(s)
      BY <2>1, <3>1, <3>3 DEF Local, Resumes, FrameRun, Frame, Typed
    <3> QED BY <3>1, <3>4, CalmTyped DEF Turn
  <2> QED BY <1>3, <1>4, <1>9, <2>1 DEF Backoff, Calm, FrameRun
<1> QED BY <1>1, <1>2, <1>5, <1>6, <1>7, <1>8, <1>9 DEF Step
------------------------------------------------------------------------------
(* The batches and the execution, in the same way.                         *)

NoneLive == \A s \in Ids : op'[s].pc = "none" /\ op'[s].attempt = 0 /\ op'[s].seq = 0

\* The execution is over, and r is on disk.
Stopped(r) ==
  /\ disk' = r /\ mem' = r /\ batch' = NoBatch
  /\ run' = "idle" /\ reason' = "none" /\ cancelled' = FALSE
  /\ reported' = FALSE /\ nextSeq' = 1
  /\ NoneLive

\* What a waiter of a batch that was written does next.
Acknowledged(s) ==
  \/ op[s].pc = "warning" /\ Strict /\ Ends(s, Rejected) /\ op'[s].def = op[s].def
  \/ op[s].pc = "warning" /\ ~Strict /\ Moves(s, "entering")
  \/ op[s].pc = "redefining" /\ Moves(s, "redefined")
  \/ op[s].pc = "launching" /\ Moves(s, "ready")
  \/ Ending(s) /\ Ends(s, op[s].result) /\ op'[s].def = op[s].def
  \/ op[s].pc = "failing" /\ Ends(s, Rejected) /\ op'[s].def = op[s].def
  \/ op[s].pc = "retrying" /\ Moves(s, "backoff")

\* The run's last save is written, or fails, or nobody is left to wait for it.
EndsSaved ==
  /\ Flying /\ Self \in batch.waiters /\ run \in {"completed", "stopping"}
  /\ Stopped(batch.record) /\ UNCHANGED <<executions, saveFails, starts, won>>
EndsUnsaved ==
  /\ Flying /\ Self \in batch.waiters /\ run \in {"starting", "stopping"}
  /\ Stopped(disk) /\ UNCHANGED <<executions, starts, won>>
Killed ==
  /\ run # "idle" /\ won' = {} /\ UNCHANGED <<executions, saveFails, starts>>
  /\ Stopped(disk) \/ (Flying /\ Stopped(batch.record))

\* A batch is written, and all who wait for it hear of it.
Written ==
  /\ Flying /\ disk' = batch.record /\ batch' = NoBatch
  /\ IF Self \in batch.waiters THEN run = "starting" /\ run' = "body" ELSE run' = run
  /\ UNCHANGED <<mem, reason, reported, nextSeq, executions, saveFails, starts, won>>
  /\ \A s \in Ids : IF s \in batch.waiters THEN Acknowledged(s) ELSE op'[s] = op[s]

\* What a waiter of a batch that failed does next; the signal is aborted by then.
Refused(s) ==
  \/ op[s].pc = "retrying" /\ Moves(s, "backoff")
  \/ op[s].pc \in SavePcs /\ Ends(s, Rejected) /\ op'[s].def = op[s].def

\* A batch fails; if the run's completion was in it, the run has failed.
Lost ==
  /\ Flying /\ batch' = NoBatch /\ reason' # "none"
  /\ UNCHANGED <<disk, reported, nextSeq, executions, starts, won>>
  /\ IF Self \in batch.waiters
     THEN run = "completed" /\ run' = "failed" /\ mem' = Unfinished
     ELSE UNCHANGED <<run, mem>>
  /\ \A s \in Ids : IF s \in batch.waiters THEN Refused(s) ELSE op'[s] = op[s]

\* An execution begins, with numbers that are not on disk yet.
Begins ==
  /\ run = "idle" /\ run' = "starting" /\ won' = {}
  /\ mem'.status = "running" /\ mem'.steps = disk.steps
  /\ executions' = executions + 1
  /\ UNCHANGED <<disk, batch, op, reason, reported, saveFails, starts>>
  /\ \A s \in Ids : disk.steps[s].seq < nextSeq'
  /\ nextSeq' <= 1 + executions * Cardinality(Ids)

\* A completion retires what was not asked for.
Retires ==
  \A s \in Ids :
    /\ mem'.steps[s].attempts = mem.steps[s].attempts /\ mem'.steps[s].seq = mem.steps[s].seq
    /\ \/ mem'.steps[s] = mem.steps[s] /\ (s \in used \/ mem.steps[s].status = "absent")
       \/ s \notin used /\ mem'.steps[s].status = "superseded"
    /\ s \notin used => ~isTerminalStep(mem.steps[s])

\* The execution goes on by itself: only its place and the record's status change.
Proceeds ==
  /\ UNCHANGED <<disk, batch, op, reason, reported, nextSeq, executions, saveFails, starts, won>>
  /\ \/ run = "body" /\ run' = "draining" /\ UNCHANGED mem
     \/ run \in {"body", "closing"} /\ run' = "failed" /\ UNCHANGED mem
     \/ /\ run = "draining" /\ run' = "closing" /\ UNCHANGED mem
        /\ \A s \in Ids : Settled(s)
     \/ /\ run = "closing" /\ run' = "completed" /\ ~Aborted
        /\ mem'.status = "completed" /\ Retires
     \/ /\ run = "failed" /\ run' = "stopping" /\ \A s \in Ids : Settled(s)
        /\ mem'.status = "stopped" /\ mem'.steps = mem.steps

\* It is aborted from outside.
Interrupted ==
  /\ run # "idle" /\ ~Aborted /\ reason' # "none"
  /\ UNCHANGED <<disk, mem, batch, op, run, reported, nextSeq, executions, saveFails, starts, won>>

\* At rest, but for the signal of the scope: no part of the invariant reads it.
Rests ==
  UNCHANGED <<disk, mem, batch, op, run, reason, reported, nextSeq, executions, saveFails,
              starts, won>>

LEMMA StoppedTyped ==
  ASSUME Typed, NEW r \in RecordType, Over, disk' = r, won' \subseteq Ids,
         UNCHANGED <<executions, starts>>, saveFails' \in 0..MaxSaveFails
  PROVE  Stopped(r) /\ Typed'
<1>1. op' = [s \in Ids |-> Idle] /\ Idle \in OpType
  BY DEF Over, Idle, OpType, OpPcs
<1>2. Stopped(r)
  BY <1>1 DEF Over, Stopped, NoneLive, Idle
<1>3. "idle" \in RunPcs /\ "none" \in Reasons
  BY DEF RunPcs, Reasons
<1>4. 1 \in Nat \ {0} /\ FALSE \in BOOLEAN
  OBVIOUS
<1>5. op' \in [Ids -> OpType]
  BY <1>1
<1> QED BY <1>2, <1>3, <1>4, <1>5 DEF Typed, Stopped, Flying

LEMMA WaitersWait ==
  ASSUME Typed, Staged, Flying, NEW s \in Ids, s \in batch.waiters
  PROVE  op[s].pc \in SavePcs
BY RunnerAssumption DEF Staged, Waiters

LEMMA RunWaits ==
  ASSUME Typed, Staged, Flying, Self \in batch.waiters
  PROVE  run \in RunSaves
BY RunnerAssumption DEF Staged, Waiters

LEMMA FinishedFields ==
  ASSUME NEW o \in OpType, NEW r \in Outcomes \cup {None, Rejected}
  PROVE  /\ Finished(o, r) \in OpType
         /\ Finished(o, r).pc = "done" /\ Finished(o, r).result = r /\ Finished(o, r).def = o.def
         /\ Finished(o, r).attempt = 0 /\ Finished(o, r).seq = 0
BY DEF Finished, Idle, OpType, OpPcs

LEMMA BatchStartsFields ==
  ASSUME Typed, BatchStarts
  PROVE  Typed' /\ Flying'
<1>1. batch' = [record |-> mem, waiters |-> Waiters] /\ Waiters # {}
  BY DEF BatchStarts
<1>2. Waiters \subseteq Ids \cup {Self}
  BY DEF Waiters
<1> QED BY <1>1, <1>2 DEF BatchStarts, Typed, Flying, NoBatch

LEMMA BatchSucceedsFields ==
  ASSUME Typed, Staged, BatchSucceeds
  PROVE  Typed' /\ (EndsSaved \/ Written)
<1> USE RunnerAssumption
<1>1. /\ Flying /\ UNCHANGED <<executions, saveFails, starts, won>> /\ disk' = batch.record
      /\ batch.record \in RecordType
  BY DEF BatchSucceeds, Flying, Typed
<1>2. CASE Self \in batch.waiters /\ run # "starting"
  <2>1. Over
    BY <1>2 DEF BatchSucceeds
  <2>2. Stopped(batch.record) /\ Typed'
    BY <1>1, <2>1, StoppedTyped DEF Typed
  <2>3. run \in {"completed", "stopping"}
    BY <1>1, <1>2, RunWaits DEF RunSaves
  <2> QED BY <1>1, <1>2, <2>2, <2>3 DEF EndsSaved
<1>3. CASE ~(Self \in batch.waiters /\ run # "starting")
  <2>1. /\ op' = [s \in Ids |-> IF s \in batch.waiters THEN Saved(op[s]) ELSE op[s]]
        /\ run' = IF Self \in batch.waiters THEN "body" ELSE run
        /\ batch' = NoBatch
        /\ UNCHANGED <<mem, reason, cancelled, reported, nextSeq>>
    BY <1>3 DEF BatchSucceeds
  <2>2. ASSUME NEW s \in Ids, s \in batch.waiters
        PROVE  Acknowledged(s) /\ op'[s] \in OpType
    <3>1. op[s].pc \in SavePcs /\ op'[s] = Saved(op[s]) /\ op[s] \in OpType
      BY <1>1, <2>1, <2>2, WaitersWait DEF Typed
    <3>2. CASE op[s].pc = "warning" /\ Strict
      <4>1. op'[s] = Finished(op[s], Rejected)
        BY <3>1, <3>2 DEF Saved
      <4> QED BY <3>1, <3>2, <4>1, FinishedFields DEF Acknowledged, Ends
    <3>3. CASE op[s].pc = "warning" /\ ~Strict
      <4>1. op'[s] = [op[s] EXCEPT !.pc = "entering"]
        BY <3>1, <3>3 DEF Saved
      <4> QED BY <3>1, <3>3, <4>1 DEF OpType, OpPcs, Acknowledged, Moves
    <3>4. CASE op[s].pc = "redefining"
      <4>1. op'[s] = [op[s] EXCEPT !.pc = "redefined"]
        BY <3>1, <3>4 DEF Saved
      <4> QED BY <3>1, <3>4, <4>1 DEF OpType, OpPcs, Acknowledged, Moves
    <3>5. CASE op[s].pc = "launching"
      <4>1. op'[s] = [op[s] EXCEPT !.pc = "ready"]
        BY <3>1, <3>5 DEF Saved
      <4> QED BY <3>1, <3>5, <4>1 DEF OpType, OpPcs, Acknowledged, Moves
    <3>6. CASE Ending(s)
      <4>1. op'[s] = Finished(op[s], op[s].result) /\ op[s].result \in Outcomes \cup {None, Rejected}
        BY <3>1, <3>6 DEF Saved, Ending, OpType
      <4> QED BY <3>1, <3>6, <4>1, FinishedFields DEF Acknowledged, Ends
    <3>7. CASE op[s].pc = "failing"
      <4>1. op'[s] = Finished(op[s], Rejected)
        BY <3>1, <3>7 DEF Saved
      <4> QED BY <3>1, <3>7, <4>1, FinishedFields DEF Acknowledged, Ends
    <3>8. CASE op[s].pc = "retrying"
      <4>1. op'[s] = [op[s] EXCEPT !.pc = "backoff"]
        BY <3>1, <3>8 DEF Saved
      <4> QED BY <3>1, <3>8, <4>1 DEF OpType, OpPcs, Acknowledged, Moves
    <3> QED BY <3>1, <3>2, <3>3, <3>4, <3>5, <3>6, <3>7, <3>8 DEF SavePcs, Ending
  <2>3. op' \in [Ids -> OpType]
    BY <2>1, <2>2 DEF Typed
  <2>4. run' \in RunPcs
    BY <2>1 DEF Typed, RunPcs
  <2>5. Typed'
    BY <1>1, <2>1, <2>3, <2>4 DEF Typed, Flying
  <2> QED BY <1>1, <1>3, <2>1, <2>2, <2>5 DEF Written
<1> QED BY <1>2, <1>3

LEMMA BatchFailsFields ==
  ASSUME Typed, Staged, BatchFails
  PROVE  Typed' /\ (EndsUnsaved \/ Lost)
<1> USE RunnerAssumption
<1>1. /\ Flying /\ UNCHANGED <<executions, starts, won>>
      /\ saveFails' \in 0..MaxSaveFails
  BY DEF BatchFails, Flying, Typed
<1>2. CASE Self \in batch.waiters /\ run # "completed"
  <2>1. Over /\ disk' = disk
    BY <1>2 DEF BatchFails
  <2>2. Stopped(disk) /\ Typed'
    BY <1>1, <2>1, StoppedTyped DEF Typed
  <2>3. run \in {"starting", "stopping"}
    BY <1>1, <1>2, RunWaits DEF RunSaves
  <2> QED BY <1>1, <1>2, <2>2, <2>3 DEF EndsUnsaved
<1>3. CASE ~(Self \in batch.waiters /\ run # "completed")
  <2>1. /\ AbortWith("checkpoint") /\ UNCHANGED cancelled
        /\ op' = [s \in Ids |->
                    IF s \notin batch.waiters THEN op[s]
                    ELSE IF op[s].pc = "retrying" /\ ReasonAt(s)' # "checkpoint"
                    THEN [op[s] EXCEPT !.pc = "backoff"]
                    ELSE Finished(op[s], Rejected)]
        /\ IF Self \in batch.waiters THEN mem' = Unfinished /\ run' = "failed"
                                      ELSE UNCHANGED <<mem, run>>
        /\ batch' = NoBatch
        /\ UNCHANGED <<disk, reported, nextSeq>>
    BY <1>3 DEF BatchFails
  <2>2. ASSUME NEW s \in Ids, s \in batch.waiters
        PROVE  Refused(s) /\ op'[s] \in OpType
    <3>1. op[s].pc \in SavePcs /\ op[s] \in OpType
      BY <1>1, <2>2, WaitersWait DEF Typed
    <3>2. CASE op[s].pc = "retrying" /\ ReasonAt(s)' # "checkpoint"
      <4>1. op'[s] = [op[s] EXCEPT !.pc = "backoff"]
        BY <2>1, <2>2, <3>2
      <4> QED BY <3>1, <3>2, <4>1 DEF OpType, OpPcs, Refused, Moves
    <3>3. CASE ~(op[s].pc = "retrying" /\ ReasonAt(s)' # "checkpoint")
      <4>1. op'[s] = Finished(op[s], Rejected)
        BY <2>1, <2>2, <3>3
      <4> QED BY <3>1, <4>1, FinishedFields DEF Refused, Ends
    <3> QED BY <3>2, <3>3
  <2>3. op' \in [Ids -> OpType]
    BY <2>1, <2>2 DEF Typed
  <2>4. mem' \in RecordType
    BY <2>1 DEF Typed, RecordType, Unfinished
  <2>5. run' \in RunPcs /\ reason' \in Reasons /\ reason' # "none"
    BY <2>1 DEF Typed, RunPcs, Reasons, AbortWith, Aborted
  <2>6. Typed'
    BY <1>1, <2>1, <2>3, <2>4, <2>5 DEF Typed, Flying
  <2> QED BY <1>1, <1>3, <2>1, <2>2, <2>5, <2>6 DEF Lost
<1> QED BY <1>2, <1>3

\* A bounded set of numbers has a greatest one.
LEMMA MaxIsGreatest ==
  ASSUME NEW S \in SUBSET Nat, S # {}, NEW n \in Nat, \A x \in S : x <= n
  PROVE  Max(S) \in S /\ \A x \in S : x <= Max(S)
<1> DEFINE D == {n - x : x \in S}
<1>1. D \subseteq Nat /\ D # {}
  <2>1. \A x \in S : n - x \in Nat
    OBVIOUS
  <2> QED BY <2>1
<1>2. \E d \in D : \A e \in D : ~(<<e, d>> \in OpToRel(<, Nat))
  <2> HIDE DEF D
  <2> QED BY <1>1, WFMin, NatLessThanWellFounded
<1>3. PICK m \in S : \A e \in D : ~(<<e, n - m>> \in OpToRel(<, Nat))
  BY <1>2
<1>4. ASSUME NEW x \in S PROVE m >= x
  <2>1. n - x \in Nat /\ n - m \in Nat
    OBVIOUS
  <2>2. ~(n - x < n - m)
    BY <1>3, <2>1 DEF OpToRel
  <2> QED BY <2>1, <2>2
<1>5. Max(S) \in S /\ \A x \in S : Max(S) >= x
  BY <1>4 DEF Max
<1> QED BY <1>5

LEMMA StartFields ==
  ASSUME Typed, Counted, Start
  PROVE  Typed' /\ Begins
<1> USE RunnerAssumption
<1> DEFINE S == {0} \cup {disk.steps[s].seq : s \in Ids}
           n == executions * Cardinality(Ids)
<1>1. executions \in Nat /\ Cardinality(Ids) \in Nat /\ n \in Nat
  BY FS_CardinalityType DEF Typed
<1>2. run = "idle" /\ nextSeq' = 1 + Max(S)
  BY DEF Start
<1>3. \A s \in Ids : disk.steps[s].seq \in Nat /\ disk.steps[s].seq <= n
  BY <1>2 DEF Counted, Typed, RecordType, StepType
<1>4. S \in SUBSET Nat /\ S # {} /\ \A x \in S : x <= n
  BY <1>1, <1>3
<1>5. ASSUME NEW s \in Ids PROVE disk.steps[s].seq \in S
  <2>1. disk.steps[s].seq \in {disk.steps[t].seq : t \in Ids}
    OBVIOUS
  <2> QED BY <2>1
<1> HIDE DEF S
<1>6. Max(S) \in S /\ \A x \in S : x <= Max(S)
  BY <1>1, <1>4, MaxIsGreatest
<1>7. Max(S) \in Nat /\ Max(S) <= n
  BY <1>4, <1>6
<1> HIDE DEF n
<1>8. nextSeq' \in Nat \ {0} /\ nextSeq' <= 1 + n /\ \A s \in Ids : disk.steps[s].seq < nextSeq'
  BY <1>1, <1>2, <1>3, <1>5, <1>6, <1>7
<1>9. mem' \in RecordType /\ mem'.status = "running" /\ mem'.steps = disk.steps
  BY DEF Start, Typed, RecordType
<1>10. executions' = executions + 1 /\ executions < MaxExecutions /\ executions' \in 0..MaxExecutions
  BY <1>1 DEF Start
<1>11. "starting" \in RunPcs
  BY DEF RunPcs, RunSaves
<1>12. Typed'
  BY <1>8, <1>9, <1>10, <1>11 DEF Start, Typed, Flying
<1> QED BY <1>8, <1>9, <1>10, <1>12 DEF Start, Begins, n

LEMMA CrashFields ==
  ASSUME Typed, Crash
  PROVE  Typed' /\ Killed
<1>1. PICK r \in {disk} \cup (IF batch = NoBatch THEN {} ELSE {batch.record}) : disk' = r
  BY DEF Crash
<1>2. r \in RecordType
  BY <1>1 DEF Typed, Flying
<1>3. Stopped(r) /\ Typed'
  BY <1>1, <1>2, StoppedTyped DEF Crash, Typed
<1> QED BY <1>1, <1>3 DEF Crash, Flying, Killed

LEMMA ProgressFields ==
  ASSUME Typed, Progress
  PROVE  Typed' /\ Proceeds
<1> DEFINE Onward ==
  UNCHANGED <<disk, batch, op, reason, cancelled, reported, nextSeq, executions, saveFails,
              starts, won>>
<1> USE RunnerAssumption DEF FrameSteps
<1>1. ASSUME UNCHANGED mem, run' \in RunPcs, Onward PROVE Typed'
  BY <1>1 DEF Typed, Flying
<1>2. Onward
  BY DEF Progress, BodyReturns, BodyThrows, Drain, Complete, NotComplete, Stop
<1>3. CASE BodyReturns
  BY <1>1, <1>2, <1>3 DEF BodyReturns, RunPcs, Proceeds
<1>4. CASE BodyThrows
  BY <1>1, <1>2, <1>4 DEF BodyThrows, RunPcs, Proceeds
<1>5. CASE Drain
  BY <1>1, <1>2, <1>5 DEF Drain, RunPcs, Proceeds
<1>6. CASE NotComplete
  BY <1>1, <1>2, <1>6 DEF NotComplete, RunPcs, Proceeds
<1>7. CASE Complete
  <2> DEFINE x(s) == IF s \in used \/ mem.steps[s].status = "absent" THEN mem.steps[s]
                     ELSE [mem.steps[s] EXCEPT !.status = "superseded"]
  <2>1. mem' = [status |-> "completed", steps |-> [s \in Ids |-> x(s)]]
    BY <1>7 DEF Complete
  <2>2. ASSUME NEW s \in Ids
        PROVE  /\ x(s) \in StepType /\ x(s).attempts = mem.steps[s].attempts
               /\ x(s).seq = mem.steps[s].seq
               /\ \/ x(s) = mem.steps[s] /\ (s \in used \/ mem.steps[s].status = "absent")
                  \/ s \notin used /\ x(s).status = "superseded"
    <3>1. mem.steps[s] \in StepType
      BY DEF Typed, RecordType
    <3> QED BY <3>1 DEF StepType, Statuses
  <2> HIDE DEF x
  <2>3. mem' \in RecordType /\ mem'.status = "completed" /\ \A s \in Ids : mem'.steps[s] = x(s)
    BY <2>1, <2>2 DEF RecordType
  <2>4. run = "closing" /\ run' = "completed" /\ ~Aborted
        /\ \A s \in Ids \ used : ~isTerminalStep(mem.steps[s])
    BY <1>7 DEF Complete
  <2>5. Retires
    BY <2>2, <2>3, <2>4 DEF Retires
  <2>6. Typed'
    BY <1>2, <2>3, <2>4 DEF Typed, Flying, RunPcs, RunSaves
  <2> QED BY <1>2, <2>3, <2>4, <2>5, <2>6 DEF Proceeds
<1>8. CASE Stop
  <2>1. mem' \in RecordType /\ mem'.status = "stopped" /\ mem'.steps = mem.steps
    BY <1>8 DEF Stop, Typed, RecordType
  <2>2. Typed'
    BY <1>2, <1>8, <2>1 DEF Stop, Typed, Flying, RunPcs, RunSaves
  <2> QED BY <1>2, <1>8, <2>1, <2>2 DEF Stop, Proceeds
<1> QED BY <1>3, <1>4, <1>5, <1>6, <1>7, <1>8 DEF Progress

LEMMA AbortFields ==
  ASSUME Typed, NEW why \in Aborts, Abort(why)
  PROVE  Typed' /\ Interrupted
<1> USE RunnerAssumption DEF FrameSteps
<1>1. why \in Reasons /\ why # "none"
  BY DEF Reasons
<1> QED BY <1>1 DEF Abort, Typed, Flying, Interrupted

\* Every step of the specification is one of these.
Moved ==
  \/ \E s \in Ids : Local(s) /\ Turn(s)
  \/ BatchStarts \/ Written \/ Lost \/ EndsSaved \/ EndsUnsaved \/ Killed
  \/ Begins \/ Proceeds \/ Interrupted \/ Rests

LEMMA NextFields ==
  ASSUME Typed, Staged, Counted, [Next]_vars
  PROVE  Typed' /\ Moved
<1>1. ASSUME UNCHANGED vars PROVE Typed' /\ Moved
  BY <1>1 DEF vars, Typed, Flying, Rests, Moved
<1>2. ASSUME NEW s \in Ids, NEW d \in Definitions, Ask(s, d) PROVE Typed' /\ Moved
  BY <1>2, AskTurns DEF Moved
<1>3. ASSUME NEW s \in Ids, Step(s) PROVE Typed' /\ Moved
  BY <1>3, StepTurns DEF Moved
<1>4. ASSUME BatchStarts \/ BatchSucceeds \/ BatchFails PROVE Typed' /\ Moved
  BY <1>4, BatchStartsFields, BatchSucceedsFields, BatchFailsFields DEF Moved
<1>5. ASSUME Start \/ Progress \/ Crash PROVE Typed' /\ Moved
  BY <1>5, StartFields, ProgressFields, CrashFields DEF Moved
<1>6. ASSUME NEW why \in Aborts, Abort(why) PROVE Typed' /\ Moved
  BY <1>6, AbortFields DEF Moved
<1>7. ASSUME CancelScope PROVE Typed' /\ Moved
  BY <1>7 DEF CancelScope, Typed, Flying, Rests, Moved
<1> QED BY <1>1, <1>2, <1>3, <1>4, <1>5, <1>6, <1>7 DEF Next

\* Where a turn is taken from: never from a save, and never from nothing in a run that
\* is closed.
LEMMA TurnFacts ==
  ASSUME NEW s \in Ids, Turn(s)
  PROVE  /\ op[s].pc \in {"none", "entering", "redefined", "ready", "running", "backoff"}
         /\ op[s].pc = "none" => run \in {"body", "draining"}
         /\ op'[s].pc \notin {"none"}
BY DEF Turn, Returns, Refuses, GoesLive, Redefines, Counts, Rejects, GivesUp, Launches, Succeeds,
       SettlesFailed, Retries, Fails, Resumes, Asked, closed, Ends, Moves, Outcome

\* Who waits for a batch: the run alone, or steps of a run that is under way.
LEMMA WhoWaits ==
  ASSUME Typed, Staged, Flying
  PROVE  /\ Self \in batch.waiters => /\ run \in RunSaves
                                      /\ \A s \in Ids : s \notin batch.waiters /\ Settled(s)
         /\ Self \notin batch.waiters => /\ run \in {"body", "draining", "failed"}
                                         /\ mem.status = "running"
                                         /\ \E s \in Ids : s \in batch.waiters /\ ~Settled(s)
<1> USE RunnerAssumption
<1>1. \A s \in Ids : s \in batch.waiters => op[s].pc \in SavePcs /\ ~Settled(s)
  BY WaitersWait DEF SavePcs, Settled
<1>2. CASE Self \in batch.waiters
  BY <1>1, <1>2, RunWaits DEF Staged, RunSaves, Settled
<1>3. CASE Self \notin batch.waiters
  <2>1. \E s \in Ids : s \in batch.waiters /\ ~Settled(s)
    BY <1>1, <1>3 DEF Typed, Staged
  <2> QED BY <1>3, <2>1 DEF Staged, Typed, RunPcs, RunSaves, Settled
<1> QED BY <1>2, <1>3

------------------------------------------------------------------------------
(* The invariant's parts, one by one.                                      *)

LEMMA StagedStep ==
  ASSUME Typed, Staged, Copied, Typed', Moved
  PROVE  Staged'
<1> USE RunnerAssumption DEF Flying
<1>1. ASSUME NEW s \in Ids, Local(s), Turn(s) PROVE Staged'
  BY <1>1, TurnFacts DEF Local, Staged, Waiters, Settled, SavePcs
<1>2. ASSUME BatchStarts PROVE Staged'
  <2>1. /\ batch' = [record |-> mem, waiters |-> Waiters] /\ Waiters # {} /\ batch = NoBatch
        /\ UNCHANGED <<disk, mem, op, run>> /\ Waiters' = Waiters
    BY <1>2 DEF BatchStarts, Waiters
  <2>2. Self \notin Waiters => mem.status = "running"
    BY <2>1 DEF Staged, Waiters, Settled, RunSaves, SavePcs, Typed, RunPcs
  <2>3. run # "idle"
    BY <2>1 DEF Staged, Waiters, RunSaves, SavePcs
  <2> QED BY <2>1, <2>2, <2>3 DEF Staged, Settled
<1>3. ASSUME Written PROVE Staged'
  <2>1. Flying /\ batch' = NoBatch /\ disk' = batch.record /\ UNCHANGED mem
    BY <1>3 DEF Written
  <2>2. mem'.status = "running" /\ run' \in {"body", "draining", "failed"}
    BY <1>3, <2>1, WhoWaits DEF Written, Staged
  <2>3. disk'.status = "running"
    BY <1>3, <2>1, <2>2, WhoWaits DEF Written, Staged, Copied
  <2> QED BY <2>1, <2>2, <2>3 DEF Staged
<1>4. ASSUME Lost PROVE Staged'
  <2>1. Flying /\ batch' = NoBatch /\ UNCHANGED disk
    BY <1>4 DEF Lost
  <2>2. CASE Self \in batch.waiters
    <3>1. mem'.status = "completed"
      BY <1>4, <2>2 DEF Lost, Unfinished, Typed, RecordType, Staged
    <3>2. \A s \in Ids : op'[s] = op[s] /\ Settled(s)
      BY <1>4, <2>1, <2>2, WhoWaits DEF Lost
    <3>3. \A s \in Ids : Settled(s)'
      BY <3>2 DEF Settled
    <3> QED BY <1>4, <2>1, <2>2, <3>1, <3>3 DEF Lost, Staged
  <2>3. CASE Self \notin batch.waiters
    <3>1. UNCHANGED <<run, mem>> /\ mem.status = "running" /\ run \in {"body", "draining", "failed"}
      BY <1>4, <2>1, <2>3, WhoWaits DEF Lost
    <3> QED BY <2>1, <3>1 DEF Staged
  <2> QED BY <2>2, <2>3
<1>5. ASSUME EndsSaved \/ EndsUnsaved \/ Killed PROVE Staged'
  BY <1>5 DEF EndsSaved, EndsUnsaved, Killed, Stopped, NoneLive, Staged, Settled
<1>6. ASSUME Begins PROVE Staged'
  BY <1>6 DEF Begins, Staged, Settled
<1>7. ASSUME Proceeds PROVE Staged'
  BY <1>7 DEF Proceeds, Staged, Settled, Waiters, RunSaves
<1>8. ASSUME Interrupted PROVE Staged'
  BY <1>8 DEF Interrupted, Staged, Settled, Waiters
<1>9. ASSUME Rests PROVE Staged'
  BY <1>9 DEF Rests, Staged, Settled, Waiters
<1> QED BY <1>1, <1>2, <1>3, <1>4, <1>5, <1>6, <1>7, <1>8, <1>9 DEF Moved

\* A step takes a turn only while the run is under way, and never while it waits itself.
LEMMA TurnWaits ==
  ASSUME Typed, Staged, NEW s \in Ids, Turn(s)
  PROVE  /\ run \in {"body", "draining", "failed"}
         /\ Flying => Self \notin batch.waiters /\ s \notin batch.waiters
<1>1. run \in {"body", "draining", "failed"}
  BY TurnFacts DEF Staged, Settled, Typed, RunPcs, RunSaves
<1>2. ASSUME Flying PROVE s \notin batch.waiters
  BY <1>2, TurnFacts, WaitersWait DEF SavePcs
<1> QED BY <1>1, <1>2, WhoWaits DEF RunSaves

\* Nothing is being written when the run closes.
LEMMA ClosedQuiet ==
  ASSUME Typed, Staged, run \in {"closing", "failed"}, \A s \in Ids : Settled(s)
  PROVE  ~Flying
BY WhoWaits DEF RunSaves

LEMMA CopiedStep ==
  ASSUME Typed, Staged, Copied, Moved
  PROVE  Copied'
<1> USE RunnerAssumption
<1>1. ASSUME NEW s \in Ids, Local(s), Turn(s) PROVE Copied'
  <2>1. \A t \in Ids \ used' : t # s /\ t \notin used
    BY <1>1, TurnFacts DEF Local, used
  <2>2. Flying' <=> Flying
    BY <1>1 DEF Local, Flying
  <2> QED BY <1>1, <2>1, <2>2, TurnWaits DEF Local, Copied
<1>2. ASSUME BatchStarts PROVE Copied'
  <2>1. batch'.record = mem /\ batch'.waiters = Waiters /\ UNCHANGED <<disk, mem, op, run>>
        /\ used' = used
    BY <1>2 DEF BatchStarts, used
  <2> QED BY <2>1 DEF Copied
<1>3. ASSUME Written PROVE Copied'
  <2>1. /\ ~Flying' /\ disk' = batch.record /\ UNCHANGED mem /\ Flying
        /\ run # "completed"
    BY <1>3, WhoWaits DEF Written, Flying
  <2>2. \A s \in Ids : s \notin used' => s \notin used
    BY <1>3 DEF Written, used, Acknowledged, Moves, Ends
  <2> QED BY <2>1, <2>2 DEF Copied
<1>4. ASSUME Lost PROVE Copied'
  <2>1. ~Flying' /\ UNCHANGED disk /\ Flying
    BY <1>4 DEF Lost, Flying
  <2>2. \A s \in Ids : s \notin used' => s \notin used
    BY <1>4 DEF Lost, used, Refused, Moves, Ends
  <2>3. CASE Self \in batch.waiters
    BY <1>4, <2>1, <2>2, <2>3 DEF Lost, Unfinished, Copied, Typed, RecordType
  <2>4. CASE Self \notin batch.waiters
    BY <1>4, <2>1, <2>2, <2>4, WhoWaits DEF Lost, Copied
  <2> QED BY <2>3, <2>4
<1>5. ASSUME EndsSaved \/ EndsUnsaved \/ Killed PROVE Copied'
  BY <1>5 DEF EndsSaved, EndsUnsaved, Killed, Stopped, Copied, Flying
<1>6. ASSUME Begins PROVE Copied'
  BY <1>6 DEF Begins, Copied, Staged, Flying
<1>7. ASSUME Proceeds PROVE Copied'
  <2>1. UNCHANGED <<disk, batch, op>> /\ used' = used
    BY <1>7 DEF Proceeds, used
  <2>2. CASE UNCHANGED mem /\ run \in {"body", "draining", "closing"}
    BY <1>7, <2>1, <2>2 DEF Proceeds, Copied, Flying
  <2>3. CASE run = "closing" /\ run' = "completed"
    BY <2>1, <2>3, ClosedQuiet DEF Staged, Copied, Flying
  <2>4. CASE run = "failed" /\ mem'.steps = mem.steps /\ \A s \in Ids : Settled(s)
    BY <2>1, <2>4, ClosedQuiet DEF Copied, Flying
  <2> QED BY <1>7, <2>2, <2>3, <2>4 DEF Proceeds
<1>8. ASSUME Interrupted \/ Rests PROVE Copied'
  BY <1>8 DEF Interrupted, Rests, Copied, Flying, used
<1> QED BY <1>1, <1>2, <1>3, <1>4, <1>5, <1>6, <1>7, <1>8 DEF Moved

\* What a turn of a live step does to the outcome in memory.
LEMMA TurnOutcome ==
  ASSUME NEW s \in Ids, Turn(s), Local(s), Final, Staged, Copied
  PROVE  /\ Live(s)' => ~isTerminalStep(disk.steps[s])
         /\ Live(s)' /\ Flying => ~isTerminalStep(batch.record.steps[s])
         /\ Live(s)' /\ ~Ending(s)' => ~isTerminalStep(mem'.steps[s])
         /\ ~Live(s)' => mem'.steps[s] = mem.steps[s]
         /\ Flying => s \notin batch.waiters
<1>1. Flying => s \notin batch.waiters
  BY TurnFacts, RunnerAssumption DEF Staged, Waiters, SavePcs
<1>2. CASE Returns(s) \/ Refuses(s)
  BY <1>1, <1>2 DEF Returns, Refuses, Live, Ends
<1>3. CASE GoesLive(s)
  <2>1. s \notin used /\ run # "completed" /\ UNCHANGED mem
    BY <1>3 DEF GoesLive, Asked, used, closed
  <2> QED BY <1>1, <1>3, <2>1 DEF Copied, GoesLive
<1>4. CASE Rejects(s)
  BY <1>1, <1>4 DEF Rejects, Live, Ends
<1>5. CASE Live(s) /\ ~Ending(s) /\ Live(s)'
  <2>1. ~isTerminalStep(disk.steps[s]) /\ ~isTerminalStep(mem.steps[s])
        /\ (Flying => ~isTerminalStep(batch.record.steps[s]))
    BY <1>1, <1>5 DEF Final
  <2>2. Redefines(s) \/ Counts(s) => mem'.steps[s].status = "running"
    BY DEF Redefines, Counts
  <2>3. GivesUp(s) \/ Retries(s) \/ Fails(s) => mem'.steps[s].status \in {"failed", "cancelled"}
    BY DEF GivesUp, Retries, Fails, Sets
  <2>4. Succeeds(s) \/ SettlesFailed(s) => Ending(s)'
    BY DEF Succeeds, SettlesFailed, Outcome, Ending
  <2>5. Launches(s) \/ Resumes(s) => UNCHANGED mem
    BY DEF Launches, Resumes
  <2> QED BY <1>1, <1>2, <1>3, <1>4, <1>5, <2>1, <2>2, <2>3, <2>4, <2>5 DEF Turn, isTerminalStep
<1>6. Returns(s) \/ Refuses(s) \/ GoesLive(s) \/ Rejects(s) \/ (Live(s) /\ ~Ending(s) /\ Live(s)')
  BY DEF Turn, Returns, Refuses, GoesLive, Redefines, Counts, Rejects, GivesUp, Launches, Succeeds,
         SettlesFailed, Retries, Fails, Resumes, Live, Ending, Moves, Outcome
<1> QED BY <1>2, <1>3, <1>4, <1>5, <1>6

LEMMA FinalStep ==
  ASSUME Typed, Staged, Copied, Final, Moved
  PROVE  Final'
<1> USE RunnerAssumption
<1>1. ASSUME NEW s \in Ids, Local(s), Turn(s) PROVE Final'
  <2>1. UNCHANGED <<disk, batch>> /\ (Flying' <=> Flying)
    BY <1>1 DEF Local, Flying
  <2>2. \A t \in Ids \ {s} : /\ mem'.steps[t] = mem.steps[t] /\ (Live(t)' <=> Live(t))
                             /\ (Ending(t)' <=> Ending(t))
    BY <1>1 DEF Local, Live, Ending
  <2>3. ASSUME Live(s)', isTerminalStep(disk.steps[s]) \/ (Flying /\ isTerminalStep(batch.record.steps[s]))
        PROVE  FALSE
    BY <1>1, <2>3, TurnOutcome
  <2> QED BY <1>1, <2>1, <2>2, <2>3, TurnOutcome DEF Final
<1>2. ASSUME BatchStarts PROVE Final'
  <2>1. batch'.record = mem /\ batch'.waiters = Waiters /\ UNCHANGED <<disk, mem, op, run>>
    BY <1>2 DEF BatchStarts
  <2>2. \A s \in Ids : Ending(s) => s \in Waiters
    BY DEF Ending, Waiters, SavePcs
  <2>3. \A s \in Ids : (Live(s)' <=> Live(s)) /\ (Ending(s)' <=> Ending(s))
    BY <2>1 DEF Live, Ending
  <2> QED BY <2>1, <2>2, <2>3 DEF Final
<1>3. ASSUME Written PROVE Final'
  <2>1. ~Flying' /\ disk' = batch.record /\ UNCHANGED mem /\ Flying
    BY <1>3 DEF Written, Flying
  <2>2. ASSUME NEW s \in Ids, Live(s)'
        PROVE  ~isTerminalStep(batch.record.steps[s]) /\ (~Ending(s)' => ~isTerminalStep(mem.steps[s]))
    <3>1. CASE s \in batch.waiters
      <4>1. Live(s) /\ ~Ending(s)
        BY <1>3, <2>2, <3>1 DEF Written, Acknowledged, Live, Ending, Ends
      <4> QED BY <2>1, <3>1, <4>1 DEF Final, Copied
    <3>2. CASE s \notin batch.waiters
      <4>1. Live(s) /\ (Ending(s)' <=> Ending(s))
        BY <1>3, <2>2, <3>2 DEF Written, Live, Ending
      <4> QED BY <2>1, <3>2, <4>1 DEF Final
    <3> QED BY <3>1, <3>2
  <2> QED BY <2>1, <2>2 DEF Final
<1>4. ASSUME Lost PROVE Final'
  <2>1. ~Flying' /\ UNCHANGED disk /\ Flying
    BY <1>4 DEF Lost, Flying
  <2>2. \A s \in Ids : isTerminalStep(disk.steps[s]) => mem.steps[s] = disk.steps[s]
    BY DEF Final
  <2>3. ASSUME NEW s \in Ids, Live(s)' PROVE Live(s) /\ (~Ending(s)' => ~Ending(s)) /\ Self \notin batch.waiters
    <3>1. Live(s) /\ (~Ending(s)' => ~Ending(s))
      BY <1>4, <2>3 DEF Lost, Refused, Live, Ending, Ends, Moves, SavePcs
    <3> QED BY <2>1, <3>1, WhoWaits DEF Live, Settled
  <2>4. CASE Self \in batch.waiters
    <3>1. \A s \in Ids : mem'.steps[s] = IF s \in used THEN mem.steps[s] ELSE disk.steps[s]
      BY <1>4, <2>4 DEF Lost, Unfinished, Typed, RecordType
    <3> QED BY <2>1, <2>2, <2>3, <2>4, <3>1 DEF Final
  <2>5. CASE Self \notin batch.waiters
    BY <1>4, <2>1, <2>3, <2>5 DEF Lost, Final
  <2> QED BY <2>4, <2>5
<1>5. ASSUME EndsSaved \/ EndsUnsaved \/ Killed PROVE Final'
  BY <1>5 DEF EndsSaved, EndsUnsaved, Killed, Stopped, NoneLive, Final, Flying, Live
<1>6. ASSUME Begins PROVE Final'
  BY <1>6 DEF Begins, Final, Staged, Flying, Live, Ending
<1>7. ASSUME Proceeds PROVE Final'
  <2>1. UNCHANGED <<disk, batch, op>> /\ \A s \in Ids : (Live(s)' <=> Live(s)) /\ (Ending(s)' <=> Ending(s))
    BY <1>7 DEF Proceeds, Live, Ending
  <2>2. CASE mem'.steps = mem.steps
    BY <2>1, <2>2 DEF Final, Flying
  <2>3. CASE run = "closing" /\ Retires
    <3>1. ~Flying' /\ \A s \in Ids : ~Live(s)
      BY <2>1, <2>3, ClosedQuiet DEF Staged, Flying, Live, Settled
    <3>2. \A s \in Ids : isTerminalStep(mem.steps[s]) => mem'.steps[s] = mem.steps[s]
      BY <2>3 DEF Retires
    <3> QED BY <2>1, <3>1, <3>2 DEF Final
  <2> QED BY <1>7, <2>2, <2>3 DEF Proceeds
<1>8. ASSUME Interrupted \/ Rests PROVE Final'
  BY <1>8 DEF Interrupted, Rests, Final, Flying, Live, Ending
<1> QED BY <1>1, <1>2, <1>3, <1>4, <1>5, <1>6, <1>7, <1>8 DEF Moved

LEMMA DeliveredStep ==
  ASSUME Typed, Staged, Copied, Final, Delivered, Ran, Moved
  PROVE  Delivered'
<1> USE RunnerAssumption
<1>0. Rejected \notin Outcomes
  BY DEF Rejected, Failure, Outcomes
<1>1. ASSUME NEW s \in Ids, Local(s), Turn(s) PROVE Delivered'
  <2>1. \A t \in Ids \ {s} : op'[t] = op[t] /\ mem'.steps[t] = mem.steps[t] /\ disk' = disk
    BY <1>1 DEF Local
  <2>2. disk' = disk /\ \A t \in Ids \ {s} : Ending(t)' <=> Ending(t)
    BY <1>1 DEF Local, Ending
  <2>3. op'[s].pc = "done" /\ op'[s].result \in Outcomes =>
          isTerminalStep(disk.steps[s]) /\ disk.steps[s].output = op'[s].result
                                        /\ disk.steps[s].def = op'[s].def
    <3>1. CASE Returns(s)
      <4>1. s \notin used /\ run # "completed"
        BY <3>1 DEF Returns, Asked, used, closed
      <4> QED BY <3>1, <4>1 DEF Returns, Ends, Copied
    <3>2. CASE Refuses(s) \/ Rejects(s)
      BY <1>0, <3>2 DEF Refuses, Rejects, Ends
    <3>3. CASE ~Returns(s) /\ ~Refuses(s) /\ ~Rejects(s)
      BY <1>1, <3>3 DEF Turn, GoesLive, Redefines, Counts, GivesUp, Launches, Succeeds,
                        SettlesFailed, Retries, Fails, Resumes, Moves, Outcome
    <3> QED BY <3>1, <3>2, <3>3
  <2>4. Ending(s)' => isTerminalStep(mem'.steps[s]) /\ mem'.steps[s].output = op'[s].result
                                                    /\ mem'.steps[s].def = op'[s].def
    <3>1. CASE Succeeds(s) \/ SettlesFailed(s)
      BY <3>1 DEF Succeeds, SettlesFailed, Outcome, Sets, Ran, isTerminalStep
    <3>2. CASE ~Succeeds(s) /\ ~SettlesFailed(s)
      BY <1>1, <3>2 DEF Turn, Returns, Refuses, GoesLive, Redefines, Counts, Rejects, GivesUp,
                        Launches, Retries, Fails, Resumes, Moves, Ends, Ending
    <3> QED BY <3>1, <3>2
  <2> QED BY <2>1, <2>2, <2>3, <2>4 DEF Delivered, DeliveredIsRecorded
<1>2. ASSUME BatchStarts \/ Interrupted \/ Rests PROVE Delivered'
  BY <1>2 DEF BatchStarts, Interrupted, Rests, Delivered, DeliveredIsRecorded, Ending
<1>3. ASSUME Written PROVE Delivered'
  <2>1. Flying /\ disk' = batch.record /\ UNCHANGED mem
    BY <1>3 DEF Written
  <2>2. ASSUME NEW s \in Ids, op'[s].pc = "done", op'[s].result \in Outcomes
        PROVE  isTerminalStep(disk'.steps[s]) /\ disk'.steps[s].output = op'[s].result
                                              /\ disk'.steps[s].def = op'[s].def
    <3>1. CASE s \in batch.waiters
      <4>1. Ending(s) /\ op'[s].result = op[s].result /\ op'[s].def = op[s].def
        BY <1>0, <1>3, <2>2, <3>1 DEF Written, Acknowledged, Ends, Moves
      <4> QED BY <2>1, <3>1, <4>1 DEF Delivered, Copied
    <3>2. CASE s \notin batch.waiters
      <4>1. op'[s] = op[s]
        BY <1>3, <3>2 DEF Written
      <4> QED BY <2>1, <2>2, <4>1 DEF Delivered, DeliveredIsRecorded, Final
    <3> QED BY <3>1, <3>2
  <2>3. \A s \in Ids : Ending(s)' => op'[s] = op[s] /\ Ending(s)
    BY <1>3 DEF Written, Acknowledged, Ending, Ends, Moves
  <2> QED BY <2>1, <2>2, <2>3 DEF Delivered, DeliveredIsRecorded
<1>4. ASSUME Lost PROVE Delivered'
  <2>1. UNCHANGED disk /\ Flying
    BY <1>4 DEF Lost
  <2>2. ASSUME NEW s \in Ids, Ending(s)' \/ (op'[s].pc = "done" /\ op'[s].result \in Outcomes)
        PROVE  op'[s] = op[s]
    BY <1>0, <1>4, <2>2 DEF Lost, Refused, Ends, Moves, Ending
  <2>3. ASSUME NEW s \in Ids, Ending(s)' PROVE Ending(s) /\ mem' = mem
    <3>1. Ending(s)
      BY <2>2, <2>3 DEF Ending
    <3> QED BY <1>4, <2>1, <3>1, WhoWaits DEF Lost, Ending, Settled
  <2>4. DeliveredIsRecorded'
    BY <2>1, <2>2 DEF Delivered, DeliveredIsRecorded
  <2> QED BY <2>2, <2>3, <2>4 DEF Delivered
<1>5. ASSUME EndsSaved \/ EndsUnsaved \/ Killed PROVE Delivered'
  BY <1>5 DEF EndsSaved, EndsUnsaved, Killed, Stopped, NoneLive, Delivered, DeliveredIsRecorded, Ending
<1>6. ASSUME Begins PROVE Delivered'
  BY <1>6 DEF Begins, Staged, Delivered, DeliveredIsRecorded, Ending
<1>7. ASSUME Proceeds PROVE Delivered'
  <2>1. UNCHANGED <<disk, op>> /\ \A s \in Ids : Ending(s)' <=> Ending(s)
    BY <1>7 DEF Proceeds, Ending
  <2>2. mem'.steps = mem.steps \/ \A s \in Ids : ~Ending(s)
    BY <1>7 DEF Proceeds, Staged, Settled, Ending
  <2> QED BY <2>1, <2>2 DEF Delivered, DeliveredIsRecorded
<1> QED BY <1>1, <1>2, <1>3, <1>4, <1>5, <1>6, <1>7 DEF Moved

LEMMA RanStep ==
  ASSUME Typed, Staged, Final, Ran, Typed', Moved
  PROVE  Ran'
<1> USE RunnerAssumption
<1>1. ASSUME NEW s \in Ids, Local(s), Turn(s) PROVE Ran'
  <2>1. starts[s] \in Nat /\ starts' \in [Ids -> Nat] /\ starts \in [Ids -> Nat]
    BY DEF Typed
  <2>2. (starts' = starts \/ (Launches(s) /\ starts'[s] = starts[s] + 1))
        /\ \A t \in Ids \ {s} : starts'[t] = starts[t]
    BY <1>1, <2>1 DEF Turn, Returns, Refuses, GoesLive, Redefines, Counts, Rejects, GivesUp, Launches,
       Succeeds, SettlesFailed, Retries, Fails, Resumes, Calm
  <2>3. \A t \in Ids \ {s} : op'[t] = op[t] /\ mem'.steps[t] = mem.steps[t]
    BY <1>1 DEF Local
  <2>4. op'[s].def \in Definitions
    BY <1>1 DEF Ran, Turn, Returns, Refuses, GoesLive, Redefines, Counts, Rejects, GivesUp, Launches,
       Succeeds, SettlesFailed, Retries, Fails, Resumes, Moves, Outcome
  <2>5. op'[s].pc \in {"launching", "ready", "running"} => mem'.steps[s].def = op'[s].def
    BY <1>1 DEF Ran, Turn, Returns, Refuses, GoesLive, Redefines, Counts, Rejects, GivesUp, Launches,
       Succeeds, SettlesFailed, Retries, Fails, Resumes, Moves, Outcome, Ends
  <2>6. op'[s].pc = "running" => starts'[s] > 0
    <3>1. op'[s].pc = "running" => Launches(s)
      BY <1>1 DEF Turn, Returns, Refuses, GoesLive, Redefines, Counts, Rejects, GivesUp,
         Succeeds, SettlesFailed, Retries, Fails, Resumes, Moves, Outcome, Ends
    <3> QED BY <2>1, <3>1 DEF Launches
  <2>7. isTerminalStep(mem'.steps[s]) =>
          starts'[s] > 0 /\ mem'.steps[s].def \in Definitions /\ mem'.steps[s].output \in Outcomes
    <3>1. CASE Returns(s) \/ Refuses(s) \/ GoesLive(s) \/ Rejects(s) \/ Launches(s) \/ Resumes(s)
      <4>1. mem' = mem
        BY <3>1 DEF Returns, Refuses, GoesLive, Rejects, Launches, Resumes
      <4> QED BY <2>1, <2>2, <4>1 DEF Ran
    <3>2. CASE Redefines(s) \/ Counts(s) \/ GivesUp(s) \/ Retries(s) \/ Fails(s)
      BY <3>2 DEF Redefines, Counts, GivesUp, Retries, Fails, Sets, isTerminalStep
    <3>3. CASE Succeeds(s) \/ SettlesFailed(s)
      <4>1. mem'.steps[s].def = mem.steps[s].def /\ mem'.steps[s].output \in Outcomes
            /\ op[s].pc = "running" /\ starts' = starts
        BY <3>3 DEF Succeeds, SettlesFailed, Outcome, Sets, Calm
      <4> QED BY <4>1 DEF Ran
    <3> QED BY <1>1, <3>1, <3>2, <3>3 DEF Turn
  <2> QED BY <2>2, <2>3, <2>4, <2>5, <2>6, <2>7 DEF Ran
<1>2. ASSUME BatchStarts \/ Interrupted \/ Rests PROVE Ran'
  BY <1>2 DEF BatchStarts, Interrupted, Rests, Ran
<1>3. ASSUME Written PROVE Ran'
  <2>1. UNCHANGED <<mem, starts>>
    BY <1>3 DEF Written
  <2>2. ASSUME NEW s \in Ids
        PROVE  /\ op'[s].def = op[s].def /\ (op'[s].pc # "none" <=> op[s].pc # "none")
               /\ op'[s].pc = "running" <=> op[s].pc = "running"
               /\ op'[s].pc \in {"launching", "ready", "running"} => op[s].pc \in {"launching", "ready", "running"}
    BY <1>3 DEF Written, Acknowledged, Ends, Moves, Ending
  <2> QED BY <2>1, <2>2 DEF Ran
<1>4. ASSUME Lost PROVE Ran'
  <2>1. UNCHANGED <<disk, starts>>
    BY <1>4 DEF Lost
  <2>2. ASSUME NEW s \in Ids
        PROVE  /\ op'[s].def = op[s].def /\ (op'[s].pc # "none" <=> op[s].pc # "none")
               /\ op'[s].pc \in {"launching", "ready", "running"} => op'[s] = op[s]
    BY <1>4 DEF Lost, Refused, Ends, Moves, SavePcs
  <2>3. ASSUME NEW s \in Ids PROVE mem'.steps[s] = mem.steps[s] \/ (mem'.steps[s] = disk.steps[s] /\ s \notin used)
    BY <1>4 DEF Lost, Unfinished, Typed, RecordType
  <2> QED BY <2>1, <2>2, <2>3 DEF Ran, Final, used
<1>5. ASSUME EndsSaved \/ EndsUnsaved \/ Killed PROVE Ran'
  <2>1. UNCHANGED starts /\ NoneLive /\ (mem' = disk \/ (Flying /\ mem' = batch.record))
    BY <1>5 DEF EndsSaved, EndsUnsaved, Killed, Stopped
  <2> QED BY <2>1 DEF Ran, Final, NoneLive
<1>6. ASSUME Begins PROVE Ran'
  BY <1>6 DEF Begins, Staged, Ran
<1>7. ASSUME Proceeds PROVE Ran'
  <2>1. UNCHANGED <<op, starts>>
    BY <1>7 DEF Proceeds
  <2>2. CASE mem'.steps = mem.steps
    BY <2>1, <2>2 DEF Ran
  <2>3. CASE Retires /\ run = "closing"
    <3>1. \A s \in Ids : op[s].pc \in {"none", "done"}
      BY <2>3 DEF Staged, Settled
    <3> QED BY <2>1, <2>3, <3>1 DEF Ran, Retires, isTerminalStep
  <2> QED BY <1>7, <2>2, <2>3 DEF Proceeds
<1> QED BY <1>1, <1>2, <1>3, <1>4, <1>5, <1>6, <1>7 DEF Moved

\* What a turn does to the numbers of attempts.
LEMMA TurnAttempts ==
  ASSUME Typed, NEW s \in Ids, Local(s), Turn(s)
  PROVE  /\ mem'.steps[s].attempts \in Nat
         /\ \/ mem'.steps[s].attempts = mem.steps[s].attempts /\ op'[s].pc # "launching"
            \/ mem'.steps[s].attempts = mem.steps[s].attempts + 1 /\ Counts(s)
         /\ op'[s].pc # "ready"
         /\ \A t \in Ids : \/ starts'[t] = starts[t]
                           \/ t = s /\ Launches(s) /\ starts'[s] = starts[s] + 1
<1>1. mem.steps[s].attempts \in Nat /\ starts \in [Ids -> Nat]
  BY DEF Typed, RecordType, StepType
<1>2. \/ mem'.steps[s].attempts = mem.steps[s].attempts /\ op'[s].pc # "launching"
      \/ mem'.steps[s].attempts = mem.steps[s].attempts + 1 /\ Counts(s)
  BY DEF Turn, Returns, Refuses, GoesLive, Redefines, Counts, Rejects, GivesUp, Launches,
         Succeeds, SettlesFailed, Retries, Fails, Resumes, Moves, Outcome, Ends, Sets
<1>3. op'[s].pc # "ready"
  BY DEF Turn, Returns, Refuses, GoesLive, Redefines, Counts, Rejects, GivesUp, Launches,
         Succeeds, SettlesFailed, Retries, Fails, Resumes, Moves, Outcome, Ends
<1>4. starts' = starts \/ Launches(s)
  BY DEF Turn, Returns, Refuses, GoesLive, Redefines, Counts, Rejects, GivesUp, Launches,
         Succeeds, SettlesFailed, Retries, Fails, Resumes, Calm
<1>5. \A t \in Ids : \/ starts'[t] = starts[t]
                     \/ t = s /\ Launches(s) /\ starts'[s] = starts[s] + 1
  BY <1>1, <1>4 DEF Launches
<1> QED BY <1>1, <1>2, <1>3, <1>5

\* The numbers of attempts are numbers, in every copy.
LEMMA AttemptsTyped ==
  ASSUME Typed, NEW s \in Ids
  PROVE  /\ mem.steps[s].attempts \in Nat /\ disk.steps[s].attempts \in Nat /\ starts[s] \in Nat
         /\ Flying => batch.record.steps[s].attempts \in Nat
BY DEF Typed, RecordType, StepType

LEMMA NumberedStep ==
  ASSUME Typed, Staged, Copied, Numbered, Moved
  PROVE  Numbered'
<1> USE RunnerAssumption
<1>1. ASSUME NEW s \in Ids, Local(s), Turn(s) PROVE Numbered'
  <2>1. UNCHANGED <<disk, batch>> /\ (Flying' <=> Flying)
        /\ \A t \in Ids \ {s} : op'[t] = op[t] /\ mem'.steps[t] = mem.steps[t]
    BY <1>1 DEF Local, Flying
  <2>2. \A t \in Ids : Launches(t) => op[t].pc = "ready" /\ op'[t].pc = "running"
    BY DEF Launches, Moves
  <2>3. \A t \in Ids : Counts(t) => op'[t].pc = "launching"
    BY DEF Counts, Moves
  <2> QED BY <1>1, <2>1, <2>2, <2>3, TurnAttempts, AttemptsTyped DEF Numbered
<1>2. ASSUME BatchStarts PROVE Numbered'
  <2>1. batch'.record = mem /\ UNCHANGED <<disk, mem, op, starts>>
    BY <1>2 DEF BatchStarts
  <2> QED BY <2>1, AttemptsTyped DEF Numbered
<1>3. ASSUME Written PROVE Numbered'
  <2>1. ~Flying' /\ disk' = batch.record /\ UNCHANGED <<mem, starts>> /\ Flying
    BY <1>3 DEF Written, Flying
  <2>2. ASSUME NEW s \in Ids, op'[s].pc = "ready" PROVE starts[s] < batch.record.steps[s].attempts
    <3>1. CASE s \in batch.waiters
      <4>1. op[s].pc = "launching"
        BY <1>3, <2>2, <3>1 DEF Written, Acknowledged, Moves, Ends
      <4> QED BY <2>1, <3>1, <4>1 DEF Numbered, Copied
    <3>2. CASE s \notin batch.waiters
      <4>1. op[s].pc = "ready"
        BY <1>3, <2>2, <3>2 DEF Written
      <4> QED BY <2>1, <4>1, AttemptsTyped DEF Numbered
    <3> QED BY <3>1, <3>2
  <2>3. \A s \in Ids : op'[s].pc = "launching" => op[s].pc = "launching"
    BY <1>3 DEF Written, Acknowledged, Moves, Ends
  <2> QED BY <2>1, <2>2, <2>3, AttemptsTyped DEF Numbered
<1>4. ASSUME Lost PROVE Numbered'
  <2>1. ~Flying' /\ UNCHANGED <<disk, starts>> /\ Flying
    BY <1>4 DEF Lost, Flying
  <2>2. \A s \in Ids : op'[s].pc \in {"ready", "launching"} => op'[s] = op[s]
    BY <1>4 DEF Lost, Refused, Moves, Ends
  <2>3. ASSUME NEW s \in Ids
        PROVE  \/ mem'.steps[s] = mem.steps[s]
               \/ mem'.steps[s] = disk.steps[s] /\ op'[s].pc # "launching"
    <3>1. CASE Self \in batch.waiters
      BY <1>4, <2>1, <2>2, <3>1, WhoWaits DEF Lost, Unfinished, Typed, RecordType, Settled
    <3>2. CASE Self \notin batch.waiters
      BY <1>4, <3>2 DEF Lost
    <3> QED BY <3>1, <3>2
  <2> QED BY <2>1, <2>2, <2>3, AttemptsTyped DEF Numbered
<1>5. ASSUME EndsSaved \/ EndsUnsaved \/ Killed PROVE Numbered'
  <2>1. /\ UNCHANGED starts /\ NoneLive /\ ~Flying' /\ mem' = disk'
        /\ disk' = disk \/ (Flying /\ disk' = batch.record)
    BY <1>5 DEF EndsSaved, EndsUnsaved, Killed, Stopped, Flying
  <2>2. \A s \in Ids : starts[s] <= disk'.steps[s].attempts /\ disk'.steps[s].attempts \in Nat
    BY <2>1, AttemptsTyped DEF Numbered
  <2> QED BY <2>1, <2>2 DEF Numbered, NoneLive
<1>6. ASSUME Begins PROVE Numbered'
  <2>1. ~Flying' /\ UNCHANGED <<disk, op, starts>> /\ mem'.steps = disk.steps
        /\ \A s \in Ids : op[s].pc = "none"
    BY <1>6 DEF Begins, Staged, Flying
  <2> QED BY <2>1, AttemptsTyped DEF Numbered
<1>7. ASSUME Proceeds PROVE Numbered'
  <2>1. UNCHANGED <<disk, batch, op, starts>>
    BY <1>7 DEF Proceeds
  <2>2. \A s \in Ids : mem'.steps[s].attempts = mem.steps[s].attempts
    BY <1>7 DEF Proceeds, Retires
  <2> QED BY <2>1, <2>2 DEF Numbered, Flying
<1>8. ASSUME Interrupted \/ Rests PROVE Numbered'
  BY <1>8 DEF Interrupted, Rests, Numbered, Flying
<1> QED BY <1>1, <1>2, <1>3, <1>4, <1>5, <1>6, <1>7, <1>8 DEF Moved

LEMMA KeptStep ==
  ASSUME Typed, Staged, Copied, Kept, Moved
  PROVE  Kept'
<1> USE RunnerAssumption
<1>1. ASSUME NEW s \in Ids, Local(s), Turn(s) PROVE Kept'
  <2>1. run # "idle" /\ run' = run
    BY <1>1, TurnWaits DEF Local
  <2>2. s \notin won /\ \A t \in Ids \ {s} : op'[t] = op[t] /\ mem'.steps[t] = mem.steps[t]
    BY <1>1, <2>1, TurnFacts DEF Local, Kept
  <2>3. won' = won \/ (won' = won \cup {s} /\ op'[s].pc = "completing"
                       /\ mem'.steps[s].status = "completed")
    BY <1>1 DEF Turn, Returns, Refuses, GoesLive, Redefines, Counts, Rejects, GivesUp, Launches,
       Succeeds, SettlesFailed, Retries, Fails, Resumes, Outcome, Sets, Calm
  <2> QED BY <2>1, <2>2, <2>3 DEF Kept, FinishedWorkIsKept, Typed
<1>2. ASSUME BatchStarts \/ Interrupted \/ Rests PROVE Kept'
  BY <1>2 DEF BatchStarts, Interrupted, Rests, Kept, FinishedWorkIsKept
<1>3. ASSUME Written \/ Lost PROVE Kept'
  <2>1. run # "idle" /\ run' # "idle" /\ won' = won
    BY <1>3, WhoWaits DEF Written, Lost, RunSaves
  <2>2. \A s \in Ids : op[s].pc \in {"completing", "done"} => op'[s].pc \in {"completing", "done"}
    BY <1>3 DEF Written, Lost, Acknowledged, Refused, Ends, Moves, Ending, SavePcs
  <2>3. \A s \in Ids : op[s].pc \in {"completing", "done"} => mem'.steps[s] = mem.steps[s]
    BY <1>3 DEF Written, Lost, Unfinished, used, Typed, RecordType
  <2> QED BY <2>1, <2>2, <2>3 DEF Kept, FinishedWorkIsKept, Typed
<1>4. ASSUME EndsSaved PROVE Kept'
  <2>1. run # "idle" /\ disk' = mem /\ run' = "idle" /\ won' = won
    BY <1>4 DEF EndsSaved, Stopped, Copied
  <2> QED BY <2>1 DEF Kept, FinishedWorkIsKept
<1>5. ASSUME EndsUnsaved PROVE Kept'
  <2>1. disk' = disk /\ run' = "idle" /\ won' = won
    BY <1>5 DEF EndsUnsaved, Stopped
  <2>2. CASE run = "starting"
    <3>1. won = {}
      BY <2>2 DEF Kept, Staged, Typed
    <3> QED BY <2>1, <3>1 DEF Kept, FinishedWorkIsKept
  <2>3. CASE run = "stopping"
    BY <2>1, <2>3 DEF Kept, FinishedWorkIsKept, Staged
  <2> QED BY <1>5, <2>2, <2>3 DEF EndsUnsaved
<1>6. ASSUME Killed \/ Begins PROVE Kept'
  BY <1>6 DEF Killed, Begins, Kept, FinishedWorkIsKept
<1>7. ASSUME Proceeds PROVE Kept'
  <2>1. run # "idle" /\ run' # "idle" /\ UNCHANGED <<disk, op, won>>
    BY <1>7 DEF Proceeds
  <2>2. \A s \in Ids : s \in used => mem'.steps[s] = mem.steps[s]
    BY <1>7 DEF Proceeds, Retires
  <2> QED BY <2>1, <2>2 DEF Kept, FinishedWorkIsKept, used, Typed
<1> QED BY <1>1, <1>2, <1>3, <1>4, <1>5, <1>6, <1>7 DEF Moved

LEMMA WholeStep ==
  ASSUME Typed, Staged, Final, Delivered, Ran, Whole, Moved
  PROVE  Whole'
<1> USE RunnerAssumption
<1>1. ASSUME NEW s \in Ids, Local(s), Turn(s) PROVE Whole'
  <2>1. run' # "completed"
    BY <1>1, TurnWaits DEF Local
  <2>2. \A t \in Ids \ {s} : op'[t] = op[t]
    BY <1>1 DEF Local
  <2>3. op'[s].pc = "done" => op'[s].result \in Outcomes \cup {Rejected}
    <3>1. CASE Returns(s)
      BY <3>1 DEF Returns, Ends, Ran
    <3>2. CASE Refuses(s) \/ Rejects(s)
      BY <3>2 DEF Refuses, Rejects, Ends
    <3>3. CASE ~Returns(s) /\ ~Refuses(s) /\ ~Rejects(s)
      BY <1>1, <3>3 DEF Turn, GoesLive, Redefines, Counts, GivesUp, Launches, Succeeds,
                        SettlesFailed, Retries, Fails, Resumes, Moves, Outcome
    <3> QED BY <3>1, <3>2, <3>3
  <2> QED BY <2>1, <2>2, <2>3 DEF Whole, CompletedRunIsWhole
<1>2. ASSUME BatchStarts \/ Interrupted \/ Rests PROVE Whole'
  BY <1>2 DEF BatchStarts, Interrupted, Rests, Whole, CompletedRunIsWhole
<1>3. ASSUME Written PROVE Whole'
  <2>1. run' # "completed"
    BY <1>3, WhoWaits DEF Written
  <2>2. ASSUME NEW s \in Ids, op'[s].pc = "done"
        PROVE  op'[s].result \in Outcomes \cup {Rejected}
    <3>1. CASE Ending(s)
      <4>1. op'[s].result = op[s].result
        BY <1>3, <3>1 DEF Written, Acknowledged, Ends, Moves, Ending
      <4> QED BY <3>1, <4>1 DEF Delivered, Ran
    <3>2. CASE ~Ending(s)
      BY <1>3, <2>2, <3>2 DEF Written, Acknowledged, Ends, Moves, Whole
    <3> QED BY <3>1, <3>2
  <2> QED BY <2>1, <2>2 DEF Whole, CompletedRunIsWhole
<1>4. ASSUME Lost PROVE Whole'
  <2>1. run' # "completed"
    BY <1>4, WhoWaits DEF Lost
  <2>2. \A s \in Ids : op'[s].pc = "done" => op'[s].result \in Outcomes \cup {Rejected}
    BY <1>4 DEF Lost, Refused, Ends, Moves, Whole
  <2> QED BY <2>1, <2>2 DEF Whole, CompletedRunIsWhole
<1>5. ASSUME EndsSaved \/ EndsUnsaved \/ Killed PROVE Whole'
  BY <1>5 DEF EndsSaved, EndsUnsaved, Killed, Stopped, NoneLive, Whole, CompletedRunIsWhole
<1>6. ASSUME Begins PROVE Whole'
  BY <1>6 DEF Begins, Whole, CompletedRunIsWhole
<1>7. ASSUME Proceeds PROVE Whole'
  <2>1. op' = op
    BY <1>7 DEF Proceeds
  <2>2. ASSUME run = "closing", Retires,
               NEW s \in Ids, mem'.steps[s].status \in {"running", "cancelled"}
        PROVE  op[s].result = Rejected
    <3>1. mem'.steps[s] = mem.steps[s] /\ s \in used
      BY <2>2 DEF Retires
    <3>2. op[s].pc = "done"
      BY <2>2, <3>1 DEF used, Staged, Settled
    <3>3. ~isTerminalStep(mem.steps[s])
      BY <2>2, <3>1 DEF isTerminalStep
    <3>4. op[s].result \notin Outcomes
      BY <3>2, <3>3 DEF Delivered, DeliveredIsRecorded, Final
    <3> QED BY <3>2, <3>4 DEF Whole
  <2>3. run' = "completed" => run = "closing" /\ Retires
    BY <1>7 DEF Proceeds
  <2> QED BY <2>1, <2>2, <2>3 DEF Whole, CompletedRunIsWhole
<1> QED BY <1>1, <1>2, <1>3, <1>4, <1>5, <1>6, <1>7 DEF Moved

LEMMA ReplayedStep ==
  ASSUME Typed, Staged, Replayed, Typed', Moved
  PROVE  Replayed'
<1> USE RunnerAssumption
<1>1. ASSUME NEW s \in Ids, Local(s), Turn(s) PROVE Replayed'
  <2>1. \A t \in Ids \ {s} : op'[t] = op[t] /\ mem'.steps[t] = mem.steps[t] /\ (Live(t)' <=> Live(t))
    BY <1>1 DEF Local, Live
  <2>2. used' = used \cup {s}
    BY <1>1, <2>1, TurnFacts DEF used
  <2> DEFINE Later(t, q) == {u \in Ids \ (used' \cup {t}) :
                               isTerminalStep(mem'.steps[u]) /\ mem'.steps[u].seq < q}
  <2>3. ASSUME NEW t \in Ids, NEW q, Skipped(t, q) = {} PROVE Later(t, q) = {}
    BY <2>1, <2>2, <2>3 DEF Skipped
  <2>0. \A t \in Ids : Skipped(t, op[t].seq)' = Later(t, op'[t].seq)
    BY DEF Skipped, isTerminalStep
  <2> HIDE DEF Later
  <2>4. ~Aborted' => ~Aborted
    BY <1>1 DEF Aborted, Turn, Returns, Refuses, GoesLive, Redefines, Counts, Rejects, GivesUp,
       Launches, Succeeds, SettlesFailed, Retries, Fails, Resumes, Calm
  <2>5. CASE GoesLive(s)
    <3>1. Strict /\ reported' => Aborted'
      BY <2>5 DEF GoesLive, Replayed, Aborted
    <3>2. op'[s].pc = "warning" => reported'
      BY <2>5 DEF GoesLive
    <3>3. reported => reported'
      BY <2>5 DEF GoesLive
    <3>4. Strict /\ ~Aborted' => Skipped(s, op'[s].seq) = {}
      BY <2>4, <2>5, <3>1 DEF GoesLive, Aborted
    <3>5. Strict /\ ~Aborted' => Later(s, op'[s].seq) = {}
      BY <2>3, <3>4
    <3> QED BY <2>0, <2>1, <2>3, <2>4, <3>1, <3>2, <3>3, <3>5 DEF Replayed
  <2>6. CASE ~GoesLive(s)
    <3>1. reported' = reported /\ op'[s].pc # "warning"
      BY <1>1, <2>6 DEF Turn, Returns, Refuses, Redefines, Counts, Rejects, GivesUp,
         Launches, Succeeds, SettlesFailed, Retries, Fails, Resumes, Calm, Moves, Outcome, Ends
    <3>2. Live(s)' => Live(s) /\ op'[s].seq = op[s].seq
      BY <1>1, <2>6 DEF Turn, Returns, Refuses, Redefines, Counts, Rejects, GivesUp, Live,
         Launches, Succeeds, SettlesFailed, Retries, Fails, Resumes, Moves, Outcome, Ends
    <3>3. Aborted => Aborted'
      BY <1>1 DEF Aborted, Turn, Returns, Refuses, GoesLive, Redefines, Counts, Rejects, GivesUp,
         Launches, Succeeds, SettlesFailed, Retries, Fails, Resumes, Calm, Asked
    <3> QED BY <2>0, <2>1, <2>3, <2>4, <3>1, <3>2, <3>3 DEF Replayed
  <2> QED BY <2>5, <2>6
<1>2. ASSUME BatchStarts \/ Rests PROVE Replayed'
  BY <1>2 DEF BatchStarts, Rests, Replayed, Aborted, Live, Skipped, used
<1>3. ASSUME Interrupted \/ Lost PROVE Replayed'
  <2>1. Aborted' /\ UNCHANGED reported
    BY <1>3 DEF Interrupted, Lost, Aborted
  <2>2. \A s \in Ids : op'[s].pc = "warning" => op[s].pc = "warning"
    BY <1>3 DEF Interrupted, Lost, Refused, Ends, Moves
  <2> QED BY <2>1, <2>2 DEF Replayed
<1>4. ASSUME Written PROVE Replayed'
  <2>1. UNCHANGED <<mem, reason, reported>>
    BY <1>4 DEF Written
  <2>2. \A s \in Ids : Live(s)' => Live(s) /\ op'[s].seq = op[s].seq
    BY <1>4 DEF Written, Acknowledged, Live, Ends, Moves, Ending
  <2>3. \A s \in Ids : op'[s].pc = "warning" => op[s].pc = "warning"
    BY <1>4 DEF Written, Acknowledged, Ends, Moves
  <2>4. used' = used
    <3>1. \A s \in Ids : op'[s].pc # "none" <=> op[s].pc # "none"
      BY <1>4 DEF Written, Acknowledged, Ends, Moves, Ending
    <3> QED BY <3>1 DEF used
  <2> QED BY <2>1, <2>2, <2>3, <2>4 DEF Replayed, Skipped, Aborted
<1>5. ASSUME EndsSaved \/ EndsUnsaved \/ Killed PROVE Replayed'
  BY <1>5 DEF EndsSaved, EndsUnsaved, Killed, Stopped, NoneLive, Replayed, Live
<1>6. ASSUME Begins PROVE Replayed'
  BY <1>6 DEF Begins, Staged, Replayed, Live, Aborted
<1>7. ASSUME Proceeds PROVE Replayed'
  <2>1. UNCHANGED <<op, reason, reported>>
    BY <1>7 DEF Proceeds
  <2>2. mem'.steps = mem.steps \/ \A s \in Ids : ~Live(s)
    BY <1>7 DEF Proceeds, Staged, Settled, Live
  <2> QED BY <2>1, <2>2 DEF Replayed, Skipped, Live, Aborted, used
<1> QED BY <1>1, <1>2, <1>3, <1>4, <1>5, <1>6, <1>7 DEF Moved

\* The numbers that the bounds are made of.
LEMMA BoundsTyped ==
  ASSUME Typed
  PROVE  /\ Cardinality(Ids) \in Nat /\ IsFiniteSet(used)
         /\ Cardinality(used) \in Nat /\ Cardinality(used) <= Cardinality(Ids)
         /\ executions \in Nat /\ MaxAttempts \in Nat /\ MaxAttempts > 0
<1> USE RunnerAssumption
<1>1. used \subseteq Ids
  BY DEF used
<1> QED BY <1>1, FS_Subset, FS_CardinalityType DEF Typed

LEMMA LaunchedType ==
  ASSUME NEW s \in Ids, Typed, Counted
  PROVE  Launched(op[s]) \in Nat /\ Launched(op[s]) <= MaxAttempts
<1>1. Live(s) => op[s].attempt \in 1..MaxAttempts
  BY DEF Counted
<1> QED BY <1>1, BoundsTyped, RunnerAssumption DEF Launched, Live

\* The numbers of a record are numbers.
LEMMA NumbersTyped ==
  ASSUME Typed, NEW s \in Ids
  PROVE  /\ mem.steps[s].seq \in Nat /\ disk.steps[s].seq \in Nat /\ nextSeq \in Nat
         /\ op[s].seq \in Nat /\ op[s].attempt \in Nat
         /\ Flying => batch.record.steps[s].seq \in Nat
BY DEF Typed, RecordType, StepType, OpType

\* What a turn does to the operation's numbers.
LEMMA TurnNumbers ==
  ASSUME Typed, Typed', Counted, NEW s \in Ids, Local(s), Turn(s), run # "idle"
  PROVE  /\ nextSeq' = nextSeq \/ (nextSeq' = nextSeq + 1 /\ s \notin used)
         /\ mem'.steps[s].seq < nextSeq'
         /\ Live(s)' => op'[s].attempt \in 1..MaxAttempts /\ op'[s].seq < nextSeq'
         /\ ~Live(s)' => op'[s].attempt = 0 /\ op'[s].seq = 0
         /\ op'[s].pc \in {"retrying", "backoff"} => op'[s].attempt < MaxAttempts
         /\ mem'.steps[s].attempts - mem.steps[s].attempts <= Launched(op'[s]) - Launched(op[s])
<1> USE BoundsTyped, NumbersTyped, AttemptsTyped
<1>1. mem.steps[s].seq < nextSeq /\ (Live(s) => op[s].attempt \in 1..MaxAttempts /\ op[s].seq < nextSeq)
  BY DEF Counted, Below
<1>2. CASE Returns(s) \/ Refuses(s)
  BY <1>1, <1>2 DEF Returns, Refuses, Asked, Calm, Ends, Live, Launched
<1>3. CASE GoesLive(s)
  BY <1>1, <1>3 DEF GoesLive, Asked, used, Live, Launched
<1>4. CASE Redefines(s)
  BY <1>1, <1>4 DEF Redefines, Calm, Moves, Live, Launched
<1>5. CASE Counts(s)
  BY <1>1, <1>5 DEF Counts, Calm, Moves, Live, Launched
<1>6. CASE Rejects(s)
  BY <1>1, <1>6 DEF Rejects, Calm, Ends, Live, Launched
<1>7. CASE GivesUp(s)
  BY <1>1, <1>7 DEF GivesUp, Calm, Moves, Sets, Live, Launched
<1>8. CASE Launches(s)
  BY <1>1, <1>8 DEF Launches, Moves, Live, Launched
<1>9. CASE Succeeds(s) \/ SettlesFailed(s)
  BY <1>1, <1>9 DEF Succeeds, SettlesFailed, Outcome, Calm, Sets, Live, Launched
<1>10. CASE Retries(s)
  BY <1>1, <1>10 DEF Retries, Calm, Moves, Sets, Live, Launched
<1>11. CASE Fails(s)
  BY <1>1, <1>11 DEF Fails, Moves, Sets, Live, Launched
<1>12. CASE Resumes(s)
  <2>1. op[s].attempt < MaxAttempts
    BY <1>12 DEF Resumes, Counted
  <2> QED BY <1>1, <1>12, <2>1 DEF Resumes, Calm, Live, Launched
<1> QED BY <1>2, <1>3, <1>4, <1>5, <1>6, <1>7, <1>8, <1>9, <1>10, <1>11, <1>12 DEF Turn

\* The bounds of one execution add up.
LEMMA OneMore ==
  ASSUME NEW e \in Nat, e > 0, NEW n \in Nat
  PROVE  /\ (e - 1) * n \in Nat /\ (e - 1) * n + n = e * n
         /\ ((e + 1) - 1) * n = e * n /\ e * n \in Nat
<1>1. (e - 1) * n + n = e * n
  OBVIOUS
<1>2. (e - 1) * n \in Nat /\ e * n \in Nat
  <2>1. e - 1 \in Nat
    OBVIOUS
  <2> QED BY <2>1
<1>3. ((e + 1) - 1) * n = e * n
  OBVIOUS
<1> QED BY <1>1, <1>2, <1>3

\* An operation that hears of its save has counted no fewer attempts, and keeps its numbers
\* unless it is over.
LEMMA HeardNumbers ==
  ASSUME Typed, Counted, NEW s \in Ids, Acknowledged(s) \/ Refused(s) \/ op'[s] = op[s]
  PROVE  /\ Launched(op[s]) <= Launched(op'[s])
         /\ Live(s)' => op'[s].attempt \in 1..MaxAttempts /\ op'[s].seq < nextSeq
         /\ ~Live(s)' => op'[s].attempt = 0 /\ op'[s].seq = 0
         /\ op'[s].pc \in {"retrying", "backoff"} => op'[s].attempt < MaxAttempts
         /\ op'[s].pc = "none" <=> op[s].pc = "none"
<1> USE BoundsTyped, NumbersTyped
<1>1. /\ Live(s) => op[s].attempt \in 1..MaxAttempts /\ op[s].seq < nextSeq
      /\ ~Live(s) => op[s].attempt = 0 /\ op[s].seq = 0
      /\ op[s].pc \in {"retrying", "backoff"} => op[s].attempt < MaxAttempts
  BY DEF Counted
<1>2. CASE Acknowledged(s)
  BY <1>1, <1>2 DEF Acknowledged, Ends, Moves, Ending, Live, Launched
<1>3. CASE Refused(s)
  BY <1>1, <1>3 DEF Refused, Ends, Moves, Live, Launched, SavePcs
<1>4. CASE op'[s] = op[s]
  BY <1>1, <1>4, LaunchedType DEF Live
<1> QED BY <1>2, <1>3, <1>4

\* The end of an execution: its numbers count as used up.
LEMMA EndNumbers ==
  ASSUME Typed, Numbered, Counted, run # "idle", NEW s \in Ids
  PROVE  /\ disk.steps[s].seq <= executions * Cardinality(Ids)
         /\ disk.steps[s].attempts <= executions * MaxAttempts
         /\ Flying => /\ batch.record.steps[s].seq <= executions * Cardinality(Ids)
                      /\ batch.record.steps[s].attempts <= executions * MaxAttempts
<1> DEFINE P == (executions - 1) * Cardinality(Ids)
           Q == (executions - 1) * MaxAttempts
<1>1. executions > 0 /\ P \in Nat /\ P + Cardinality(Ids) = executions * Cardinality(Ids)
      /\ Q \in Nat /\ Q + MaxAttempts = executions * MaxAttempts
  BY BoundsTyped, OneMore DEF Counted
<1>2. nextSeq <= 1 + P + Cardinality(used) /\ mem.steps[s].attempts <= Q + Launched(op[s])
      /\ disk.steps[s].seq < nextSeq /\ (Flying => batch.record.steps[s].seq < nextSeq)
  BY DEF Counted, Below
<1>3. /\ disk.steps[s].attempts <= mem.steps[s].attempts
      /\ Flying => batch.record.steps[s].attempts <= mem.steps[s].attempts
  BY DEF Numbered
<1> HIDE DEF P, Q
<1>4. nextSeq <= 1 + executions * Cardinality(Ids)
  <2>1. Cardinality(used) <= Cardinality(Ids) /\ Cardinality(used) \in Nat /\ Cardinality(Ids) \in Nat
    BY BoundsTyped
  <2> QED BY <1>1, <1>2, <2>1, NumbersTyped
<1>5. mem.steps[s].attempts <= executions * MaxAttempts
  BY <1>1, <1>2, LaunchedType, BoundsTyped, AttemptsTyped
<1>6. executions * Cardinality(Ids) \in Nat /\ executions * MaxAttempts \in Nat
  BY <1>1, BoundsTyped
<1>7. disk.steps[s].seq <= executions * Cardinality(Ids)
      /\ (Flying => batch.record.steps[s].seq <= executions * Cardinality(Ids))
  BY <1>2, <1>4, <1>6, NumbersTyped
<1>8. disk.steps[s].attempts <= executions * MaxAttempts
      /\ (Flying => batch.record.steps[s].attempts <= executions * MaxAttempts)
  BY <1>3, <1>5, <1>6, AttemptsTyped
<1> QED BY <1>7, <1>8

LEMMA CountedStep ==
  ASSUME Typed, Staged, Numbered, Counted, Typed', Moved
  PROVE  Counted'
<1> USE RunnerAssumption
<1> DEFINE P == (executions - 1) * Cardinality(Ids)
           Q == (executions - 1) * MaxAttempts
<1>0. ASSUME run # "idle"
      PROVE  /\ executions > 0 /\ P \in Nat /\ Q \in Nat
             /\ nextSeq <= 1 + P + Cardinality(used) /\ Below(disk) /\ Below(mem)
             /\ Flying => Below(batch.record)
             /\ \A s \in Ids : mem.steps[s].attempts <= Q + Launched(op[s])
  BY <1>0, BoundsTyped, OneMore DEF Counted
<1>1. ASSUME NEW s \in Ids, Local(s), Turn(s) PROVE Counted'
  <2>1. run # "idle" /\ run' # "idle" /\ executions' = executions /\ UNCHANGED <<disk, batch>>
        /\ (Flying' <=> Flying)
    BY <1>1, TurnWaits DEF Local, Flying
  <2>2. \A t \in Ids \ {s} : op'[t] = op[t] /\ mem'.steps[t] = mem.steps[t] /\ (Live(t)' <=> Live(t))
                             /\ Launched(op'[t]) = Launched(op[t])
    BY <1>1 DEF Local, Live
  <2>3. used' = used \cup {s}
    BY <1>1, <2>2, TurnFacts DEF used
  <2>4. nextSeq \in Nat /\ nextSeq' \in Nat /\ nextSeq' >= nextSeq
    BY <1>1, <2>1, TurnNumbers, NumbersTyped
  <2>5. nextSeq' <= 1 + P + Cardinality(used')
    <3>1. CASE s \in used
      <4>1. used' = used
        BY <2>3, <3>1
      <4> QED BY <1>0, <1>1, <2>1, <3>1, <4>1, TurnNumbers
    <3>2. CASE s \notin used
      <4>1. Cardinality(used') = Cardinality(used) + 1
        BY <2>3, <3>2, BoundsTyped, FS_AddElement
      <4> HIDE DEF P
      <4> QED BY <1>0, <1>1, <2>1, <2>4, <4>1, TurnNumbers, BoundsTyped
    <3> QED BY <3>1, <3>2
  <2>6. Below(disk)' /\ (Flying' => Below(batch.record)')
    BY <1>0, <2>1, <2>4, NumbersTyped DEF Below
  <2>7. Below(mem)'
    BY <1>0, <1>1, <2>1, <2>2, <2>4, TurnNumbers, NumbersTyped DEF Below
  <2>8. mem'.steps[s].attempts <= Q + Launched(op'[s])
    <3> HIDE DEF Q
    <3>1. mem'.steps[s].attempts \in Nat /\ mem.steps[s].attempts \in Nat /\ Launched(op[s]) \in Nat
      BY <1>1, TurnAttempts, AttemptsTyped, LaunchedType
    <3>2. Launched(op'[s]) \in Nat
      BY <1>1, <2>1, TurnNumbers, BoundsTyped DEF Launched, Live
    <3>3. mem'.steps[s].attempts - mem.steps[s].attempts <= Launched(op'[s]) - Launched(op[s])
      BY <1>1, <2>1, TurnNumbers
    <3>4. mem.steps[s].attempts <= Q + Launched(op[s]) /\ Q \in Nat
      BY <1>0, <2>1
    <3> QED BY <3>1, <3>2, <3>3, <3>4
  <2>9. \A t \in Ids : mem'.steps[t].attempts <= Q + Launched(op'[t])
    BY <1>0, <2>1, <2>2, <2>8
  <2>10. \A t \in Ids :
           /\ Live(t)' => op'[t].attempt \in 1..MaxAttempts /\ op'[t].seq < nextSeq'
           /\ ~Live(t)' => op'[t].attempt = 0 /\ op'[t].seq = 0
           /\ op'[t].pc \in {"retrying", "backoff"} => op'[t].attempt < MaxAttempts
    <3>1. /\ Live(s)' => op'[s].attempt \in 1..MaxAttempts /\ op'[s].seq < nextSeq'
          /\ ~Live(s)' => op'[s].attempt = 0 /\ op'[s].seq = 0
          /\ op'[s].pc \in {"retrying", "backoff"} => op'[s].attempt < MaxAttempts
      BY <1>1, <2>1, TurnNumbers
    <3>2. \A t \in Ids : op[t].seq \in Nat
      BY NumbersTyped
    <3> QED BY <2>2, <2>4, <3>1, <3>2 DEF Counted
  <2> QED BY <1>0, <2>1, <2>5, <2>6, <2>7, <2>9, <2>10 DEF Counted
<1>2. ASSUME BatchStarts PROVE Counted'
  <2>1. batch'.record = mem /\ UNCHANGED <<disk, mem, op, run, nextSeq, executions>> /\ run # "idle"
        /\ used' = used
    BY <1>2 DEF BatchStarts, Waiters, Staged, SavePcs, RunSaves, used
  <2>2. \A s \in Ids : Live(s)' <=> Live(s)
    BY <2>1 DEF Live
  <2> QED BY <2>1, <2>2 DEF Counted, Below
<1>3. ASSUME Written \/ Lost PROVE Counted'
  <2>1. /\ ~Flying' /\ run # "idle" /\ run' # "idle" /\ UNCHANGED <<nextSeq, executions>>
        /\ disk' = disk \/ (Flying /\ disk' = batch.record)
    BY <1>3, WhoWaits DEF Written, Lost, Flying, RunSaves
  <2>2. \A s \in Ids :
         /\ Launched(op[s]) <= Launched(op'[s]) /\ (op'[s].pc = "none" <=> op[s].pc = "none")
         /\ Live(s)' => op'[s].attempt \in 1..MaxAttempts /\ op'[s].seq < nextSeq
         /\ ~Live(s)' => op'[s].attempt = 0 /\ op'[s].seq = 0
         /\ op'[s].pc \in {"retrying", "backoff"} => op'[s].attempt < MaxAttempts
    <3>1. \A s \in Ids : Acknowledged(s) \/ Refused(s) \/ op'[s] = op[s]
      BY <1>3 DEF Written, Lost
    <3> QED BY <3>1, HeardNumbers
  <2>3. used' = used
    BY <2>2 DEF used
  <2>4. ASSUME NEW s \in Ids
        PROVE  mem'.steps[s].seq < nextSeq /\ mem'.steps[s].attempts <= mem.steps[s].attempts
    <3>1. mem' = mem \/ mem' = Unfinished
      BY <1>3 DEF Written, Lost
    <3>2. mem'.steps[s] = mem.steps[s] \/ mem'.steps[s] = disk.steps[s]
      BY <3>1 DEF Unfinished, Typed, RecordType
    <3>3. mem.steps[s].seq < nextSeq /\ disk.steps[s].seq < nextSeq
      BY <1>0, <2>1 DEF Below
    <3> QED BY <3>2, <3>3, AttemptsTyped DEF Numbered
  <2>5. ASSUME NEW s \in Ids PROVE mem'.steps[s].attempts <= Q + Launched(op'[s])
    <3> HIDE DEF Q
    <3>1. Launched(op'[s]) \in Nat
      BY <2>2, BoundsTyped DEF Launched, Live
    <3>2. mem'.steps[s].attempts \in Nat /\ Launched(op[s]) \in Nat /\ mem.steps[s].attempts \in Nat
      BY AttemptsTyped, LaunchedType DEF Typed, RecordType, StepType
    <3>3. mem.steps[s].attempts <= Q + Launched(op[s]) /\ Q \in Nat
      BY <1>0, <2>1
    <3>4. mem'.steps[s].attempts <= mem.steps[s].attempts /\ Launched(op[s]) <= Launched(op'[s])
      BY <2>2, <2>4
    <3> QED BY <3>1, <3>2, <3>3, <3>4
  <2>6. Below(disk)' /\ Below(mem)'
    BY <1>0, <2>1, <2>4 DEF Below
  <2> QED BY <1>0, <2>1, <2>2, <2>3, <2>5, <2>6 DEF Counted
<1>4. ASSUME EndsSaved \/ EndsUnsaved \/ Killed PROVE Counted'
  <2>1. /\ run # "idle" /\ run' = "idle" /\ nextSeq' = 1 /\ executions' = executions /\ NoneLive
        /\ disk' = disk \/ (Flying /\ disk' = batch.record)
    BY <1>4 DEF EndsSaved, EndsUnsaved, Killed, Stopped
  <2>2. \A s \in Ids : /\ disk'.steps[s].seq <= executions * Cardinality(Ids)
                       /\ disk'.steps[s].attempts <= executions * MaxAttempts
    BY <2>1, EndNumbers
  <2>3. \A s \in Ids : ~Live(s)' /\ op'[s].pc \notin {"retrying", "backoff"}
                       /\ op'[s].attempt = 0 /\ op'[s].seq = 0
    BY <2>1 DEF NoneLive, Live
  <2> QED BY <2>1, <2>2, <2>3 DEF Counted
<1>5. ASSUME Begins PROVE Counted'
  <2>1. /\ run = "idle" /\ run' # "idle" /\ executions' = executions + 1 /\ ~Flying'
        /\ UNCHANGED <<disk, op>> /\ mem'.steps = disk.steps
        /\ \A s \in Ids : disk.steps[s].seq < nextSeq' /\ op[s].pc = "none"
        /\ nextSeq' <= 1 + executions * Cardinality(Ids)
    BY <1>5 DEF Begins, Staged, Flying
  <2>2. executions \in Nat /\ executions' - 1 = executions
    BY <2>1, BoundsTyped
  <2>3. used' = {} /\ Cardinality(used') = 0
    BY <2>1, FS_EmptySet DEF used
  <2>4. executions' > 0 /\ nextSeq' <= 1 + (executions' - 1) * Cardinality(Ids) + Cardinality(used')
    <3>1. executions * Cardinality(Ids) \in Nat
      BY BoundsTyped
    <3>2. nextSeq' \in Nat
      BY DEF Typed
    <3>3. (executions' - 1) * Cardinality(Ids) = executions * Cardinality(Ids)
      BY <2>2
    <3> QED BY <2>1, <2>2, <2>3, <3>1, <3>2, <3>3
  <2>5. \A s \in Ids : mem'.steps[s].attempts <= (executions' - 1) * MaxAttempts + Launched(op'[s])
    <3>1. executions * MaxAttempts \in Nat
      BY BoundsTyped
    <3>2. ASSUME NEW s \in Ids PROVE Launched(op'[s]) = 0
      BY <2>1 DEF Launched
    <3>3. (executions' - 1) * MaxAttempts = executions * MaxAttempts
      BY <2>2
    <3> QED BY <2>1, <3>1, <3>2, <3>3 DEF Counted
  <2>6. Below(disk)' /\ Below(mem)'
    BY <2>1 DEF Below
  <2>7. \A s \in Ids : ~Live(s)' /\ op'[s].pc \notin {"retrying", "backoff"}
                       /\ op'[s].attempt = 0 /\ op'[s].seq = 0
    BY <2>1 DEF Counted, Live
  <2> QED BY <2>1, <2>4, <2>5, <2>6, <2>7 DEF Counted
<1>6. ASSUME Proceeds PROVE Counted'
  <2>1. run # "idle" /\ run' # "idle" /\ UNCHANGED <<disk, batch, op, nextSeq, executions>>
        /\ used' = used /\ (Flying' <=> Flying)
    BY <1>6 DEF Proceeds, used, Flying
  <2>2. \A s \in Ids : /\ mem'.steps[s].seq = mem.steps[s].seq
                       /\ mem'.steps[s].attempts = mem.steps[s].attempts
                       /\ (Live(s)' <=> Live(s))
    BY <1>6, <2>1 DEF Proceeds, Retires, Live
  <2> QED BY <2>1, <2>2 DEF Counted, Below
<1>7. ASSUME Interrupted \/ Rests PROVE Counted'
  BY <1>7 DEF Interrupted, Rests, Counted, Below, Live, Flying, used
<1> QED BY <1>1, <1>2, <1>3, <1>4, <1>5, <1>6, <1>7 DEF Moved

LEMMA InitInv ==
  ASSUME Init
  PROVE  RunnerInv
<1> USE RunnerAssumption
<1>1. /\ disk \in RecordType /\ mem = disk /\ disk.status = "absent"
      /\ \A s \in Ids : disk.steps[s] = Absent
  BY DEF Init, RecordType, StepType, Absent, Statuses
<1>2. op \in [Ids -> OpType] /\ \A s \in Ids : op[s] = Idle
  BY DEF Init, OpType, Idle, OpPcs
<1>3. ~Flying /\ run = "idle" /\ won = {} /\ reported = FALSE /\ ~Aborted
  BY DEF Init, Flying, Aborted
<1>4. Typed
  <2>1. starts \in [Ids -> Nat] /\ executions \in 0..MaxExecutions /\ saveFails \in 0..MaxSaveFails
        /\ nextSeq \in Nat \ {0}
    BY DEF Init
  <2>2. run \in RunPcs /\ reason \in Reasons /\ cancelled \in BOOLEAN /\ reported \in BOOLEAN
    BY DEF Init, RunPcs, Reasons
  <2> QED BY <1>1, <1>2, <1>3, <2>1, <2>2 DEF Typed
<1>5. Staged /\ Copied
  BY <1>1, <1>2, <1>3 DEF Staged, Copied, Settled, Idle
<1>6. Final /\ Delivered /\ Ran
  BY <1>1, <1>2, <1>3 DEF Final, Delivered, DeliveredIsRecorded, Ran, Live, Ending, Idle, Absent,
                         isTerminalStep
<1>7. Numbered
  <2>1. \A s \in Ids : starts[s] = 0
    BY DEF Init
  <2> QED BY <1>1, <1>2, <1>3, <2>1 DEF Numbered, Idle, Absent
<1>9. Kept /\ Whole /\ Replayed
  BY <1>1, <1>2, <1>3 DEF Kept, FinishedWorkIsKept, Whole, CompletedRunIsWhole, Replayed, Live, Idle
<1>8. Counted
  BY <1>1, <1>2, <1>3, BoundsTyped, <1>4 DEF Init, Counted, Live, Idle, Absent
<1> QED BY <1>4, <1>5, <1>6, <1>7, <1>8, <1>9 DEF RunnerInv

LEMMA NextInv ==
  ASSUME RunnerInv, [Next]_vars
  PROVE  RunnerInv' /\ Moved
<1>1. Typed' /\ Moved
  BY NextFields DEF RunnerInv
<1>2. Staged' /\ Copied' /\ Final' /\ Delivered' /\ Ran'
  BY <1>1, StagedStep, CopiedStep, FinalStep, DeliveredStep, RanStep DEF RunnerInv
<1>3. Numbered' /\ Kept' /\ Whole' /\ Replayed' /\ Counted'
  BY <1>1, <1>2, NumberedStep, KeptStep, WholeStep, ReplayedStep, CountedStep DEF RunnerInv
<1> QED BY <1>1, <1>2, <1>3 DEF RunnerInv
------------------------------------------------------------------------------
(* What follows from it.                                                   *)

\* The inductive invariant of runner.ts, run-store.ts and replay.ts together: its parts say
\* where an operation may be while the record in memory, the one in the batch and the one
\* on disk differ.
THEOREM RunnerInvariant == Spec => []RunnerInv
<1>1. Init => RunnerInv
  BY InitInv
<1>2. RunnerInv /\ [Next]_vars => RunnerInv'
  BY NextInv
<1> QED BY <1>1, <1>2, PTL DEF Spec

\* The numbers stay within what the executions so far can use up.
LEMMA WithinBounds ==
  ASSUME RunnerInv, NEW s \in Ids
  PROVE  /\ mem.steps[s].attempts <= executions * MaxAttempts
         /\ disk.steps[s].attempts <= executions * MaxAttempts
         /\ mem.steps[s].seq <= executions * Cardinality(Ids)
         /\ disk.steps[s].seq <= executions * Cardinality(Ids)
         /\ op[s].seq <= executions * Cardinality(Ids) /\ op[s].attempt <= MaxAttempts
         /\ nextSeq <= 1 + executions * Cardinality(Ids)
         /\ Flying => /\ batch.record.steps[s].seq <= executions * Cardinality(Ids)
                      /\ batch.record.steps[s].attempts <= executions * MaxAttempts
<1> USE DEF RunnerInv
<1> USE BoundsTyped, NumbersTyped, AttemptsTyped
<1> DEFINE C == executions * Cardinality(Ids)
           A == executions * MaxAttempts
<1>1. C \in Nat /\ A \in Nat
  OBVIOUS
<1>2. ~Live(s) => op[s].attempt = 0 /\ op[s].seq = 0
  BY DEF Counted
<1>3. CASE run = "idle"
  <2>1. ~Flying /\ mem = disk /\ nextSeq = 1 /\ op[s].attempt = 0 /\ op[s].seq = 0
    BY <1>2, <1>3 DEF Staged, Counted, Live, Settled
  <2>2. disk.steps[s].seq <= C /\ disk.steps[s].attempts <= A
    BY <1>3 DEF Counted
  <2> HIDE DEF C, A
  <2>3. 0 <= C /\ 0 <= MaxAttempts /\ 1 <= 1 + C
    BY <1>1
  <2> QED BY <1>1, <2>1, <2>2, <2>3 DEF C, A
<1>4. CASE run # "idle"
  <2> DEFINE P == (executions - 1) * Cardinality(Ids)
             Q == (executions - 1) * MaxAttempts
  <2>1. P \in Nat /\ P + Cardinality(Ids) = C /\ Q \in Nat /\ Q + MaxAttempts = A
    BY <1>4, OneMore DEF Counted
  <2>2. nextSeq <= 1 + P + Cardinality(used) /\ mem.steps[s].attempts <= Q + Launched(op[s])
        /\ mem.steps[s].seq < nextSeq
    BY <1>4 DEF Counted, Below
  <2>3. Live(s) => op[s].seq < nextSeq /\ op[s].attempt <= MaxAttempts
    BY DEF Counted
  <2>4. /\ disk.steps[s].seq <= C /\ disk.steps[s].attempts <= A
        /\ Flying => batch.record.steps[s].seq <= C /\ batch.record.steps[s].attempts <= A
    BY <1>4, EndNumbers
  <2> HIDE DEF C, A, P, Q
  <2>5. nextSeq <= 1 + C /\ mem.steps[s].attempts <= A
    BY <1>1, <2>1, <2>2, LaunchedType
  <2>6. mem.steps[s].seq <= C /\ op[s].seq <= C /\ op[s].attempt <= MaxAttempts
    BY <1>1, <1>2, <2>2, <2>3, <2>5
  <2> QED BY <2>4, <2>5, <2>6 DEF C, A
<1> QED BY <1>3, <1>4

\* Fewer executions than the bound use up no more than the bound.
LEMMA LessOfAll ==
  ASSUME NEW e \in Nat, NEW m \in Nat, e <= m, NEW n \in Nat
  PROVE  e * n <= m * n /\ e * n \in Nat /\ m * n \in Nat
<1>1. PICK k \in Nat : m = e + k
  <2>1. m - e \in Nat /\ m = e + (m - e)
    OBVIOUS
  <2> QED BY <2>1
<1>2. m * n = e * n + k * n
  BY <1>1
<1>3. k * n \in Nat /\ e * n \in Nat
  OBVIOUS
<1> QED BY <1>2, <1>3

LEMMA InvTypeOK ==
  ASSUME RunnerInv
  PROVE  TypeOK
<1> USE RunnerAssumption
<1> DEFINE C == Cardinality(Ids) * MaxExecutions
           A == MaxAttempts * MaxExecutions
<1>1. /\ executions * Cardinality(Ids) <= C /\ executions * MaxAttempts <= A /\ C \in Nat /\ A \in Nat
      /\ executions * Cardinality(Ids) \in Nat /\ executions * MaxAttempts \in Nat
  <2>1. executions \in Nat /\ executions <= MaxExecutions /\ MaxExecutions \in Nat
        /\ Cardinality(Ids) \in Nat /\ MaxAttempts \in Nat
    BY BoundsTyped DEF RunnerInv, Typed
  <2>2. C = MaxExecutions * Cardinality(Ids) /\ A = MaxExecutions * MaxAttempts
    BY <2>1
  <2> QED BY <2>1, <2>2, LessOfAll
<1>2. Typed
  BY DEF RunnerInv
<1> DEFINE Within(r) == \A s \in Ids : /\ r.steps[s].attempts <= executions * MaxAttempts
                                       /\ r.steps[s].seq <= executions * Cardinality(Ids)
<1>3. ASSUME NEW r \in RecordType, Within(r) PROVE r \in RunRecord
  <2>1. ASSUME NEW s \in Ids PROVE r.steps[s] \in StepRecord
    <3>1. r.steps[s] \in StepType
      BY <1>3 DEF RecordType
    <3>2. r.steps[s].attempts \in Nat /\ r.steps[s].seq \in Nat
      BY <3>1 DEF StepType
    <3>3. r.steps[s].attempts <= executions * MaxAttempts /\ r.steps[s].seq <= executions * Cardinality(Ids)
      BY <1>3
    <3> HIDE DEF C, A
    <3>4. r.steps[s].attempts \in 0..A /\ r.steps[s].seq \in 0..C
      BY <1>1, <3>2, <3>3
    <3> USE DEF C, A
    <3> QED BY <3>1, <3>4 DEF StepType, StepRecord
  <2> QED BY <1>3, <2>1 DEF RecordType, RunRecord
<1>4. Within(disk) /\ Within(mem) /\ (Flying => Within(batch.record))
  BY WithinBounds
<1>5. disk \in RunRecord /\ mem \in RunRecord /\ (Flying => batch.record \in RunRecord)
  BY <1>2, <1>3, <1>4 DEF Typed
<1>6. ASSUME NEW s \in Ids PROVE op[s] \in Operation
  <2>1. op[s] \in OpType /\ op[s].seq \in Nat /\ op[s].attempt \in Nat
    BY <1>2 DEF Typed, OpType
  <2>2. op[s].seq <= executions * Cardinality(Ids) /\ op[s].attempt <= MaxAttempts
    BY WithinBounds
  <2> HIDE DEF C
  <2>3. op[s].seq \in 0..C /\ op[s].attempt \in 0..MaxAttempts
    BY <1>1, <2>1, <2>2
  <2> USE DEF C
  <2> QED BY <2>1, <2>3 DEF OpType, Operation
<1>7. op \in [Ids -> Operation]
  BY <1>2, <1>6 DEF Typed
<1>8. nextSeq \in 1..(C + 1)
  <2>1. nextSeq <= 1 + executions * Cardinality(Ids)
    <3>1. CASE run = "idle"
      BY <1>1, <3>1 DEF RunnerInv, Counted
    <3>2. CASE run # "idle"
      <4> DEFINE P == (executions - 1) * Cardinality(Ids)
      <4>1. P \in Nat /\ P + Cardinality(Ids) = executions * Cardinality(Ids)
            /\ nextSeq <= 1 + P + Cardinality(used)
        BY <1>2, <3>2, BoundsTyped, OneMore DEF RunnerInv, Counted
      <4>2. Cardinality(used) <= Cardinality(Ids) /\ Cardinality(used) \in Nat /\ Cardinality(Ids) \in Nat
            /\ nextSeq \in Nat
        BY <1>2, BoundsTyped DEF Typed
      <4> HIDE DEF P
      <4> QED BY <1>1, <4>1, <4>2
    <3> QED BY <3>1, <3>2
  <2>2. nextSeq \in Nat \ {0}
    BY <1>2 DEF Typed
  <2> HIDE DEF C
  <2> QED BY <1>1, <2>1, <2>2
<1> QED BY <1>2, <1>5, <1>7, <1>8 DEF TypeOK, Typed, Flying

\* What anybody relies on is on disk first (runner.ts effect(): the save before an attempt
\* and the save before the body sees an outcome), whatever is killed or fails: within its
\* types and bounds, an outcome that the body has seen is recorded, and every start of an
\* effect is recorded before it with an attempt number of its own.
THEOREM AlwaysRecordedBeforeUse == Spec => []RecordedBeforeUse
<1>1. RunnerInv => RecordedBeforeUse
  BY InvTypeOK DEF RunnerInv, RecordedBeforeUse, Delivered, Numbered, EveryStartIsRecorded
<1> QED BY <1>1, RunnerInvariant, PTL

\* A run ends whole (runner.ts: drain, settle, the last save): nothing is in flight when it
\* is saved for the last time, what succeeded is recorded whatever the run's fate, and the
\* record that completes it has a step running or cancelled only if the request for it was
\* rejected in that execution.
THEOREM AlwaysEndsWhole == Spec => []EndsWhole
<1>1. ASSUME RunnerInv PROVE EndsWhole
  <2>1. FinishedWorkIsKept /\ CompletedRunIsWhole
    BY <1>1 DEF RunnerInv, Kept, Whole
  <2>2. ASSUME run \in {"completed", "stopping", "idle"}
        PROVE  (\A s \in Ids : Settled(s)) /\ batch.waiters \subseteq {Self}
    <3>1. \A s \in Ids : Settled(s)
      BY <1>1, <2>2 DEF RunnerInv, Staged, Settled
    <3>2. CASE Flying
      <4>1. batch.waiters \subseteq Waiters
        BY <1>1, <3>2 DEF RunnerInv, Staged
      <4> QED BY <3>1, <4>1 DEF Waiters, Settled, SavePcs
    <3>3. CASE ~Flying
      BY <3>1, <3>3 DEF Flying, NoBatch
    <3> QED BY <3>1, <3>2, <3>3
  <2> QED BY <2>1, <2>2 DEF EndsWhole, EndsQuiet
<1> QED BY <1>1, RunnerInvariant, PTL

\* No effect starts that may not (runner.ts: the check of the signal between the save and
\* the attempt, beforeLive's report of a divergence): none once the run, or the scope of the
\* map that asked for it, is aborted, and under strictReplay none while a recorded outcome
\* from before it was skipped.
THEOREM AlwaysStartsAreAllowed == Spec => StartsAreAllowed
<1> DEFINE A == \A s \in Ids : starts'[s] # starts[s] =>
                  ~AbortedAt(s) /\ (Strict => Skipped(s, op[s].seq) = {})
<1>1. ASSUME RunnerInv, [Next]_vars PROVE [A]_vars
  <2>1. Moved /\ Typed
    BY <1>1, NextInv DEF RunnerInv
  <2>2. ASSUME NEW s \in Ids, starts'[s] # starts[s] PROVE Launches(s)
    <3>1. CASE \E t \in Ids : Local(t) /\ Turn(t)
      BY <2>1, <2>2, <3>1, TurnAttempts
    <3>2. CASE ~(\E t \in Ids : Local(t) /\ Turn(t))
      BY <2>1, <2>2, <3>2 DEF Moved, BatchStarts, Written, Lost, EndsSaved, EndsUnsaved, Killed,
                             Begins, Proceeds, Interrupted, Rests
    <3> QED BY <3>1, <3>2
  <2>3. ASSUME NEW s \in Ids, Launches(s)
        PROVE  ~AbortedAt(s) /\ (Strict => Skipped(s, op[s].seq) = {})
    BY <1>1, <2>3 DEF Launches, AbortedAt, RunnerInv, Replayed, Live
  <2> QED BY <2>2, <2>3
<1>2. RunnerInv /\ [Next]_vars => [A]_vars
  BY <1>1
<1> QED BY <1>2, RunnerInvariant, PTL DEF Spec, StartsAreAllowed
------------------------------------------------------------------------------
(* The record on disk implements the abstract promise, Effects.            *)

\* The recorded outcome of step s in record r.
OutcomeIn(r, s) == IF isTerminalStep(r.steps[s]) THEN <<r.steps[s].def, r.steps[s].output>> ELSE <<>>

\* A write of a later copy of the record records outcomes of effects that ran, or nothing.
LEMMA WriteRecords ==
  ASSUME RunnerInv, NEW r, r = disk \/ (Flying /\ r = batch.record), disk' = r, UNCHANGED starts
  PROVE  [Abstract!Next]_<<Recorded, starts>>
<1> USE RunnerAssumption DEF RunnerInv
<1> DEFINE settled == {s \in Ids : isTerminalStep(r.steps[s]) /\ ~isTerminalStep(disk.steps[s])}
           new == [s \in settled |-> <<r.steps[s].def, r.steps[s].output>>]
<1>1. \A s \in Ids : isTerminalStep(disk.steps[s]) => r.steps[s] = disk.steps[s]
  BY DEF Final
<1>2. \A s \in settled : Recorded[s] = <<>> /\ starts[s] > 0
  BY DEF Final, Ran, Recorded
<1>3. new \in [settled -> Definitions \X Outcomes]
  BY DEF Final, Ran
<1>4. Recorded' = [s \in Ids |-> IF s \in settled THEN new[s] ELSE Recorded[s]]
  <2>1. \A s \in Ids : OutcomeIn(r, s) = IF s \in settled THEN new[s] ELSE Recorded[s]
    BY <1>1 DEF OutcomeIn, Recorded
  <2>2. Recorded' = [s \in Ids |-> OutcomeIn(r, s)]
    BY DEF Recorded, OutcomeIn, isTerminalStep
  <2> HIDE DEF settled, new
  <2> QED BY <2>1, <2>2
<1>5. CASE settled = {}
  <2>1. Recorded' = [s \in Ids |-> Recorded[s]]
    BY <1>4, <1>5
  <2> QED BY <2>1 DEF Recorded
<1>6. CASE settled # {}
  <2>0. settled \subseteq Ids
    OBVIOUS
  <2> HIDE DEF settled, new
  <2>1. settled \in (SUBSET Ids) \ {{}}
    BY <1>6, <2>0
  <2>2. Abstract!Record(settled)
    BY <1>2, <1>3, <1>4 DEF Abstract!Record
  <2> QED BY <2>1, <2>2 DEF Abstract!Next
<1> QED BY <1>5, <1>6

LEMMA StepRefines ==
  ASSUME RunnerInv, [Next]_vars
  PROVE  [Abstract!Next]_<<Recorded, starts>>
<1> USE DEF RunnerInv
<1>1. Moved
  BY NextInv
<1>2. CASE \E s \in Ids : Local(s) /\ Turn(s)
  <2>1. PICK s \in Ids : Local(s) /\ Turn(s)
    BY <1>2
  <2>2. Recorded' = Recorded
    BY <2>1 DEF Local, Recorded, isTerminalStep
  <2>3. CASE Launches(s)
    <3>1. Recorded[s] = <<>>
      BY <2>3 DEF Launches, Final, Live, Recorded
    <3> QED BY <2>2, <2>3, <3>1 DEF Launches, Abstract!Start, Abstract!Next
  <2>4. CASE ~Launches(s)
    <3>1. starts' = starts
      BY <2>1, <2>4 DEF Turn, Returns, Refuses, GoesLive, Redefines, Counts, Rejects, GivesUp,
         Succeeds, SettlesFailed, Retries, Fails, Resumes, Calm
    <3> QED BY <2>2, <3>1
  <2> QED BY <2>3, <2>4
<1>3. CASE BatchStarts \/ Lost \/ Begins \/ Proceeds \/ Interrupted \/ Rests
  <2>1. disk' = disk /\ starts' = starts
    BY <1>3 DEF BatchStarts, Lost, Begins, Proceeds, Interrupted, Rests
  <2> QED BY <2>1 DEF Recorded, isTerminalStep
<1>4. CASE Written \/ EndsSaved \/ EndsUnsaved \/ Killed
  <2>1. starts' = starts /\ (disk' = disk \/ (Flying /\ disk' = batch.record))
    BY <1>4 DEF Written, EndsSaved, EndsUnsaved, Killed, Stopped
  <2> QED BY <2>1, WriteRecords
<1> QED BY <1>1, <1>2, <1>3, <1>4 DEF Moved

\* Durable effects (docs/adr/0007, effect() and decideReplay): whatever is killed, fails,
\* is aborted or resumed, the record on disk behaves as Effects says: a recorded outcome is
\* of an effect that was started, it is final, and the effect is not started again after it.
THEOREM RunnerImplementsEffects == Spec => AbstractSpec
<1>1. Init => Abstract!Init
  <2>1. ASSUME Init PROVE Recorded = [s \in Ids |-> <<>>]
    BY <2>1 DEF Init, Recorded, Absent, isTerminalStep
  <2> QED BY <2>1 DEF Init, Abstract!Init
<1>2. RunnerInv /\ [Next]_vars => [Abstract!Next]_<<Recorded, starts>>
  BY StepRefines
<1> QED BY <1>1, <1>2, RunnerInvariant, PTL DEF Spec, AbstractSpec, Abstract!Spec
=============================================================================
