------------------------------- MODULE FanOut -------------------------------
(***************************************************************************)
(* One named map of a workflow over several executions of its run:         *)
(* src/workflow/runtime/map.ts, with the settle rules of settled-outcome.ts*)
(* and decideSettledMapReplay of replay-decision.ts.                       *)
(*                                                                         *)
(* Workers take the items in order and call the mapper, which is any       *)
(* program: it may start the item's effect, await it or not, return or     *)
(* throw.  With onError: 'return' (settle) each item's outcome goes into a *)
(* journal in the run's record, and a later execution takes it from there. *)
(* All items change one record in memory, which is saved in batches        *)
(* (run-store.ts): the promise of a save settles after the write, and the  *)
(* code behind the `await` runs later than that.                           *)
(***************************************************************************)
EXTENDS Naturals, FiniteSets

CONSTANTS
  N,              \* the items are 1 .. N
  Concurrency,
  Effectful,      \* the items whose mapper has an effect to start
  Options,        \* [settle, cancel]: onError: 'return', cancelSiblings
  Edits,          \* what may have changed in the source when a run is resumed
  None,
  MaxExecutions,  \* bound: executions of the run
  MaxSaveFails    \* bound: saves that fail

Items == 1 .. N

ASSUME FanOutAssumption ==
  /\ N \in Nat \ {0} /\ Concurrency \in Nat \ {0}
  /\ Effectful \subseteq Items
  /\ Options \subseteq [settle : BOOLEAN, cancel : BOOLEAN]
  /\ Edits \subseteq {"items", "mapper"}
  /\ MaxExecutions \in Nat /\ MaxSaveFails \in Nat

VARIABLES
  \* The record: the map's journal and the status of each item's step.
  disk,        \* as a later execution finds it
  mem,         \* as the owner has it
  batch,       \* the save in flight: a copy of the record, and who waits for it
  \* This execution.
  map,         \* where the call of the map is
  opts,        \* its options
  def,         \* its definition, what the journal's fingerprint is made of
  item,        \* item[i]: where its worker is
  result,      \* result[i]: how the mapper ended
  op,          \* op[i]: the item's effect
  free,        \* workers at the head of their loop
  next,        \* the next index
  failures,    \* the failures of a map that throws
  fatal,       \* something that no item may settle
  controller,  \* this map's own controller is aborted
  parent,      \* the scope around the map is aborted
  \* Over all executions.
  executions, saveFails,
  before       \* history: the journal that this execution found

vars == <<disk, mem, batch, map, opts, def, item, result, op, free, next, failures, fatal,
          controller, parent, executions, saveFails, before>>

Pending == [kind |-> "pending", items |-> None, owns |-> FALSE]
NoJournal == [status |-> "none", def |-> None, items |-> [i \in Items |-> Pending]]
NoBatch == [record |-> None, waiters |-> {}]

Completed(j, i) == j.items[i].kind # "pending"
committed(j) == j.status = "completed" \/ \E i \in Items : Completed(j, i)
Failed(j) == \E i \in Items : j.items[i].kind = "failed"

Over == {"returned", "threw"}
Self == 0                      \* the map's own saves, beside its items'
InFlight(i) == op[i] \in {"running", "recording"}
Busy(i) == item[i] \notin {"unscheduled", "done"}
Waiters == {i \in Items : item[i] = "saving" \/ op[i] = "recording"}
             \cup (IF map \in {"opening", "closing"} THEN {Self} ELSE {})

mapSignal == parent \/ controller
scopeSignal == IF opts.settle THEN parent ELSE mapSignal

\* What an execution starts with.
Reset ==
  /\ batch' = NoBatch
  /\ item' = [i \in Items |-> "unscheduled"]
  /\ result' = [i \in Items |-> "none"]
  /\ op' = [i \in Items |-> "none"]
  /\ free' = 0 /\ next' = 1 /\ failures' = {}
  /\ fatal' = FALSE /\ controller' = FALSE /\ parent' = FALSE

Init ==
  /\ disk = [journal |-> NoJournal, steps |-> [i \in Items |-> "absent"]]
  /\ mem = disk
  /\ map = "idle" /\ opts \in Options /\ def = [items |-> 1, mapper |-> 1]
  /\ batch = NoBatch
  /\ item = [i \in Items |-> "unscheduled"]
  /\ result = [i \in Items |-> "none"]
  /\ op = [i \in Items |-> "none"]
  /\ free = 0 /\ next = 1 /\ failures = {}
  /\ fatal = FALSE /\ controller = FALSE /\ parent = FALSE
  /\ executions = 0 /\ saveFails = 0
  /\ before = NoJournal
------------------------------------------------------------------------------
(* Saves.                                                                  *)

\* A batch takes a copy of the record for all who wait.
BatchStarts ==
  /\ batch = NoBatch
  /\ Waiters # {}
  /\ batch' = [record |-> mem, waiters |-> Waiters]
  /\ UNCHANGED <<disk, mem, map, opts, def, item, result, op, free, next, failures, fatal,
                 controller, parent, executions, saveFails, before>>

Told(pc, i, news) == IF i \in batch.waiters /\ pc = "saving" THEN news ELSE pc

BatchSucceeds ==
  /\ batch # NoBatch
  /\ disk' = batch.record
  /\ item' = [i \in Items |-> Told(item[i], i, "saved")]
  /\ op' = [i \in Items |-> IF i \in batch.waiters /\ op[i] = "recording" THEN "ok" ELSE op[i]]
  /\ map' = IF Self \in batch.waiters
            THEN IF map = "opening" THEN "opened" ELSE "returned"
            ELSE map
  /\ batch' = NoBatch
  /\ UNCHANGED <<mem, opts, def, result, free, next, failures, fatal, controller, parent,
                 executions, saveFails, before>>

\* A failed save aborts the run before those who wait for it hear of it.
BatchFails ==
  /\ batch # NoBatch /\ saveFails < MaxSaveFails
  /\ saveFails' = saveFails + 1
  /\ parent' = TRUE
  /\ item' = [i \in Items |-> Told(item[i], i, "unsaved")]
  /\ op' = [i \in Items |->
              IF i \in batch.waiters /\ op[i] = "recording" THEN "checkpoint" ELSE op[i]]
  /\ map' = IF Self \in batch.waiters THEN "threw" ELSE map
  /\ batch' = NoBatch
  /\ UNCHANGED <<disk, mem, opts, def, result, free, next, failures, fatal, controller,
                 executions, before>>

Frame == UNCHANGED <<disk, batch, opts, def, parent, executions, saveFails, before>>
------------------------------------------------------------------------------
(* The call of the map.                                                    *)

NewJournal(d) == [NoJournal EXCEPT !.status = "running", !.def = d]

Workers == IF Concurrency < N THEN Concurrency ELSE N

\* decideSettledMapReplay: the journal is kept, started anew, kept though the mapper was
\* edited, or refused.
reuse(j, d) == j.status # "none" /\ j.def = d

\* Mutant of reset: what is committed does not keep the journal.
resetAny(j, d) == ~reuse(j, d)

reset(j, d) == ~reuse(j, d) /\ ~committed(j)

\* Mutant of accept: acceptCodeChange accepts other items too.
acceptAny(j, d, accepted) == ~reuse(j, d) /\ ~reset(j, d) /\ accepted

accept(j, d, accepted) ==
  /\ ~reuse(j, d) /\ ~reset(j, d)
  /\ accepted /\ j.def.items = d.items

\* The body calls the map, perhaps edited since the last execution, and perhaps
\* resumed with acceptCodeChange.
Call(edit, accepted) ==
  /\ map = "idle" /\ executions < MaxExecutions
  /\ edit # {} => executions > 0
  /\ executions' = executions + 1
  /\ def' = [c \in {"items", "mapper"} |-> IF c \in edit THEN def[c] + 1 ELSE def[c]]
  /\ before' = mem.journal
  /\ LET j == mem.journal
         d == def' IN
     IF ~opts.settle
     THEN map' = "running" /\ free' = Workers /\ UNCHANGED mem
     ELSE /\ free' = 0
          /\ \/ /\ reuse(j, d)
                /\ map' = "opening" /\ UNCHANGED mem
             \/ /\ reset(j, d)
                /\ map' = "opening" /\ mem' = [mem EXCEPT !.journal = NewJournal(d)]
             \/ /\ accept(j, d, accepted)
                /\ map' = "opening" /\ mem' = [mem EXCEPT !.journal.def = d]
             \/ /\ ~reuse(j, d) /\ ~reset(j, d) /\ ~accept(j, d, accepted)
                /\ map' = "threw" /\ UNCHANGED mem
  /\ UNCHANGED <<disk, batch, opts, item, result, op, next, failures, fatal, controller, parent,
                 saveFails>>

\* Mutant of Opened: a failure of an earlier execution does not stop the rest.
OpenedAnyway ==
  /\ map = "opened"
  /\ map' = "running" /\ free' = Workers
  /\ UNCHANGED <<mem, item, result, op, next, failures, fatal, controller>> /\ Frame

\* "A committed failure already cancelled the rest on an earlier run."
Opened ==
  /\ map = "opened"
  /\ map' = "running" /\ free' = Workers
  /\ controller' = (opts.cancel /\ Failed(mem.journal))
  /\ UNCHANGED <<mem, item, result, op, next, failures, fatal>> /\ Frame

\* Every worker has left its loop.
Finish ==
  /\ map = "running" /\ free = 0 /\ \A i \in Items : ~Busy(i)
  /\ IF fatal \/ failures # {} \/ scopeSignal
     THEN map' = "threw" /\ UNCHANGED mem
     ELSE IF opts.settle
     THEN map' = "closing" /\ mem' = [mem EXCEPT !.journal.status = "completed"]
     ELSE map' = "returned" /\ UNCHANGED mem
  /\ UNCHANGED <<item, result, op, free, next, failures, fatal, controller>> /\ Frame
------------------------------------------------------------------------------
(* A worker.                                                               *)

Stops == \/ fatal \/ scopeSignal \/ next > N
         \/ ~opts.settle /\ failures # {}

\* The loop ends.
Leave ==
  /\ map = "running" /\ free > 0 /\ Stops
  /\ free' = free - 1
  /\ UNCHANGED <<mem, map, item, result, op, next, failures, fatal, controller>> /\ Frame

Commit(i, kind, owns) ==
  mem' = [mem EXCEPT !.journal.items[i] = [kind |-> kind, items |-> def.items, owns |-> owns]]

\* The next item: already committed, cancelled before it started, or mapped.
Take ==
  /\ map = "running" /\ free > 0 /\ ~Stops
  /\ next' = next + 1
  /\ LET i == next IN
     \/ /\ opts.settle /\ Completed(mem.journal, i)
        /\ item' = [item EXCEPT ![i] = "done"]
        /\ UNCHANGED <<mem, free>>
     \/ /\ opts.settle /\ ~Completed(mem.journal, i) /\ controller
        /\ Commit(i, "cancelled", FALSE)
        /\ item' = [item EXCEPT ![i] = "saving"]
        /\ free' = free - 1
     \/ /\ ~(opts.settle /\ (Completed(mem.journal, i) \/ controller))
        /\ item' = [item EXCEPT ![i] = "mapping"]
        /\ free' = free - 1
        /\ UNCHANGED mem
  /\ UNCHANGED <<map, result, op, failures, fatal, controller>> /\ Frame

\* fail(): the first failure of a map that throws cancels its siblings, if asked to.
fail(i) ==
  /\ failures' = failures \cup {i}
  /\ controller' = (controller \/ (opts.cancel /\ failures = {}))

\* The mapper's promise settles; a map that throws hears of it before the drain.
MapperEnds(i, how) ==
  /\ item[i] = "mapping"
  /\ how \in {"ok", "failed", "fatal"} \cup ({op[i]} \cap {"cancelled", "checkpoint"})
  /\ item' = [item EXCEPT ![i] = "draining"]
  /\ result' = [result EXCEPT ![i] = how]
  /\ IF ~opts.settle /\ how # "ok" THEN fail(i) ELSE UNCHANGED <<failures, controller>>
  /\ UNCHANGED <<mem, map, op, free, next, fatal>> /\ Frame

\* Mutant of settlesFailure: any cancellation becomes an item's outcome.
settlesAny(how) == how \notin {"checkpoint", "fatal"} /\ ~parent

\* Of cancellations only the map's own becomes an item's outcome.
settlesFailure(how) ==
  /\ ~parent
  /\ how = "cancelled" => controller
  /\ how \notin {"checkpoint", "fatal"}

\* An operation that failed and that nobody awaited is the author's mistake.
Ends(i) ==
  {result[i]} \cup (IF op[i] \in {"failed", "cancelled", "checkpoint"} /\ op[i] # result[i]
                    THEN {"fatal"} ELSE {})

\* A success that comes after the scope's abort is dropped for the abort's reason.
Judged(how) == IF how = "ok" /\ scopeSignal THEN "cancelled" ELSE how

\* What the mapper started and the record knows.
owns(i) == op[i] # "none" /\ mem.steps[i] # "absent"

\* Its worker leaves item i.
Done(i) ==
  /\ item' = [item EXCEPT ![i] = "done"]
  /\ free' = free + 1

\* Mutant of Drained: the journal does not wait for what the mapper started.
DrainedEarly(i) ==
  /\ item[i] = "draining" /\ opts.settle
  /\ Commit(i, "ok", owns(i))
  /\ item' = [item EXCEPT ![i] = "saving"]
  /\ UNCHANGED <<map, result, op, free, next, failures, fatal, controller>> /\ Frame

\* operations.drain(itemScope) is over: the outcome is journaled, or is nobody's.
Drained(i) ==
  /\ item[i] = "draining" /\ ~InFlight(i)
  /\ \E how \in {Judged(e) : e \in Ends(i)} :
     \/ /\ opts.settle
        /\ how = "ok" \/ settlesFailure(how)
        /\ Commit(i, how, owns(i))
        /\ item' = [item EXCEPT ![i] = "saving"]
        /\ UNCHANGED <<free, failures, fatal, controller>>
     \/ /\ opts.settle
        /\ how # "ok" /\ ~settlesFailure(how)
        /\ fatal' = TRUE
        /\ Done(i)
        /\ UNCHANGED <<mem, failures, controller>>
     \/ /\ ~opts.settle
        /\ IF how # "ok" /\ i \notin failures THEN fail(i) ELSE UNCHANGED <<failures, controller>>
        /\ Done(i)
        /\ UNCHANGED <<mem, fatal>>
  /\ result' = [result EXCEPT ![i] = "none"]
  /\ UNCHANGED <<map, op, next>> /\ Frame

\* The save is over: only now does a committed failure cancel the map's subtree.
Journaled(i) ==
  /\ item[i] \in {"saved", "unsaved"}
  /\ Done(i)
  /\ fatal' = (fatal \/ item[i] = "unsaved")
  /\ controller' = (controller \/ (/\ item[i] = "saved" /\ opts.cancel
                                   /\ mem.journal.items[i].kind = "failed"))
  /\ UNCHANGED <<mem, map, result, op, next, failures>> /\ Frame
------------------------------------------------------------------------------
(* An item's effect.                                                       *)

Step(i, status) == mem' = [mem EXCEPT !.steps[i] = status]
Op(i, pc) == op' = [op EXCEPT ![i] = pc]

\* The mapper asks for it: replayed, refused because the scope is aborted, or started.
Ask(i) ==
  /\ i \in Effectful /\ item[i] = "mapping" /\ op[i] = "none"
  /\ IF mapSignal THEN Op(i, "cancelled") /\ UNCHANGED mem
     ELSE IF mem.steps[i] = "completed" THEN Op(i, "ok") /\ UNCHANGED mem
     ELSE Op(i, "running") /\ Step(i, "running")
  /\ UNCHANGED <<map, item, result, free, next, failures, fatal, controller>> /\ Frame

\* It ends: with a result that is saved first, or with an error.
OpEnds(i) ==
  /\ op[i] = "running"
  /\ \/ Op(i, "recording") /\ Step(i, "completed")
     \/ Op(i, "failed") /\ Step(i, "failed")
     \/ Op(i, "cancelled") /\ Step(i, "cancelled")
  /\ UNCHANGED <<map, item, result, free, next, failures, fatal, controller>> /\ Frame
------------------------------------------------------------------------------
(* The run around the map.                                                 *)

\* The run is cancelled.
Abort ==
  /\ map \notin Over \cup {"idle"} /\ ~parent
  /\ parent' = TRUE
  /\ UNCHANGED <<disk, mem, batch, map, opts, def, item, result, op, free, next, failures,
                 fatal, controller, executions, saveFails, before>>

\* The run ends with a last save, which may fail, or is killed.
EndsWith(saved) ==
  /\ disk' = IF saved THEN mem ELSE disk
  /\ mem' = disk'
  /\ map' = "idle"
  /\ Reset
  /\ UNCHANGED <<opts, def, executions, saveFails, before>>

End == map \in Over /\ EndsWith(TRUE)
Crash == map # "idle" /\ EndsWith(FALSE)

Next ==
  \/ \E edit \in SUBSET Edits, accepted \in BOOLEAN : Call(edit, accepted)
  \/ Opened \/ Leave \/ Take \/ Finish
  \/ BatchStarts \/ BatchSucceeds \/ BatchFails
  \/ \E i \in Items :
       \/ \E how \in {"ok", "failed", "fatal", "cancelled", "checkpoint"} : MapperEnds(i, how)
       \/ Drained(i) \/ Journaled(i) \/ Ask(i) \/ OpEnds(i)
  \/ Abort \/ End \/ Crash

Spec == Init /\ [][Next]_vars
-----------------------------------------------------------------------------
Statuses == {"absent", "running", "completed", "failed", "cancelled"}
Records == [journal : [status : {"none", "running", "completed"}, def : {None, def} \cup
                         [{"items", "mapper"} -> 1 .. MaxExecutions],
                       items : [Items -> [kind : {"pending", "ok", "failed", "cancelled"},
                                          items : {None} \cup 1 .. MaxExecutions,
                                          owns : BOOLEAN]]],
            steps : [Items -> Statuses]]

\* A worker is free or at one item, and only a map that runs has workers.
TypeOK ==
  /\ disk \in Records /\ mem \in Records
  /\ free \in 0 .. Workers /\ next \in 1 .. N + 1
  /\ failures \subseteq Items
  /\ map # "running" => free = 0 /\ \A i \in Items : ~Busy(i)
  /\ free + Cardinality({i \in Items : Busy(i)}) <= Workers
  /\ \A i \in Items : item[i] # "unscheduled" => i < next

\* ADR 0008: an item's recorded outcome is final. No retry of its save, resume, edit of
\* the workflow or failure of a sibling replaces it.
CommittedIsFinal ==
  [][\A i \in Items : Completed(disk.journal, i) =>
       disk'.journal.items[i] = disk.journal.items[i]]_disk

\* What the body gets from the map is whole and is what every later execution gets: each
\* item was taken, and with onError: 'return' its outcome is on disk and was made from
\* the items that this call passed.
ReturnedIsRecorded ==
  /\ TypeOK
  /\ map = "returned" =>
       \A i \in Items :
         /\ item[i] = "done"
         /\ opts.settle => /\ Completed(disk.journal, i)
                           /\ disk.journal.items[i].items = def.items

\* Only the map's own cancelSiblings becomes an item's outcome, and a kill cannot separate
\* it from its cause: where an item is recorded as cancelled, a failure is recorded too.
CancellationHasCause ==
  (\E i \in Items : disk.journal.items[i].kind = "cancelled") => Failed(disk.journal)

\* Drained before it is journaled: a committed item has nothing in flight and owns all
\* that its mapper left in the record, and a map that is over has nothing in flight.
NothingOutlivesItsItem ==
  \A i \in Items :
    /\ Completed(mem.journal, i) =>
         ~InFlight(i) /\ (owns(i) => mem.journal.items[i].owns)
    /\ map \in Over => ~InFlight(i) /\ ~Busy(i)

\* With cancelSiblings a failure that an earlier execution recorded decides the rest:
\* what was not committed then ends as cancelled, and the mapper does not run for it.
FailureStaysDecisive ==
  opts.settle /\ opts.cancel /\ Failed(before) =>
    \A i \in Items : ~Completed(before, i) =>
      /\ item[i] # "mapping"
      /\ map = "returned" => disk.journal.items[i].kind = "cancelled"
=============================================================================
