# TLA+ models of quiet-choir

quiet-choir runs workflows: TypeScript modules whose effects (calls of coding agents, commands,
questions, waits, local steps) are recorded in a run's journal, so that a run that was interrupted
resumes and replays what it had completed. This directory models the parts of that system whose
correctness depends on the order in which several actors act: processes that contend for a run's
lock, callers that share the agent slots, an owner that is killed in the middle of a write, readers
without a lock, people who answer a question while the run is removed, a cancel that crosses a
recovery, a child process that neither exits nor closes its pipes, a write to GitHub whose answer
is lost.

Source lines are named in `PROJECT.json` ("map"); paths below are relative to `src/workflow/` unless
they say otherwise.

## The system

| Component | State it keeps | Operations | What is hard | What makes it correct | Module |
| --- | --- | --- | --- | --- | --- |
| Run lock (`runtime/lock.ts`) | a directory with `owner.json` and `recovery.json`, its tombstones | acquire, recover, release, unlock, inspect | every file system call is a point where another process may run or this one may die | one owner at a time, a dead owner's lock is recoverable, a live one's is never moved | `RunLock` |
| Process registry (`runtime/process-registry.ts`) | one file for each harness child, inside the lock | track, inspect, recover | the owner dies, its children live | no owner runs beside an earlier owner's child | `RunLock` |
| Agent limiter (`runtime/agent-limiter.ts`) | queue, permits, counters by harness | acquire, release, abort | grants resolve promises, signals abort while others release | ceilings, no lost wakeup, FIFO among eligible waiters | `AgentLimiter` |
| Run budget (`runtime/run-budget.ts`, admission in `runtime/runner.ts`) | attempts, cost, latch, active attempts | check, enter, refuse | a check is followed by a wait and acted on after it | caps hold, a refusal arrives when the run is idle | `AgentAdmission` |
| Journal storage (`runtime/journal.ts`, `run-store.ts`, `checkpoint.ts`, `storage-io.ts`) | `run.json`, `journal.jsonl`, the writer's memory | open, append, compact, repair, read | a kill or a loss of power anywhere, failed calls that are retried, readers without a lock | acknowledged changes are recovered, a reader sees one state | `Journal` |
| Runner (`runtime/runner.ts`) | the record: steps, attempts, status | step, agent, exec, sleep, wait, ask, map, child, end of run | retries, cancellation and the drain of work that was not awaited | a completed effect is not repeated, a run ends once | `Runner` |
| Named maps (`runtime/map.ts`, `scopes.ts`, `tracking.ts`, `settled-outcome.ts`) | workers, the map's journal | map | a failing sibling cancels while others commit; the workflow is edited between executions | every started item is drained and journaled once, and what is journaled is final | `FanOut` |
| Questions, inbox, waits (`runtime/questions.ts`, `inbox.ts`, `wait-model.ts`) | answer files, open questions | ask, answer, claim, poll, expire | an answer races a deadline, another answer, a restart, a removal | one answer is accepted, the wait has one outcome and ends | `Inbox` |
| Removal (`runtime/run-removal.ts`, `interrupted-removal.ts`) | the run's files | rm | a removal that died half way, writers beside it, a new run of the same ID | nothing of a removed run reaches another | `Inbox` |
| Cancellation (`runtime/cancel-request.ts`, `run-cancellation.ts`, `loader/cancel.ts`, `cancel-signal.ts`) | a request bound to an owner's token | request, match, honour | the request outlives the execution that it was for | only the targeted execution is cancelled | `RunControl` |
| Tick (`loader/tick.ts`, `runtime/recovery-decision.ts`) | recovery counts | inspect, claim, recheck, resume | it read the run before it owned it; its process may die anywhere | recovery gives up, an ended run stays ended | `RunControl` |
| GitHub writes (`src/integrations/github-writes.ts`) | remote objects with markers | reconciled writes | a write whose outcome is unknown, and others who use the repository | not written twice, not half written, truly reported | `GithubWrites` |
| Processes (`src/processes/run.ts`) | a child, its group, pipes and timers | run, stop, settle | output, exit, deadline and abort in any order | settles once, the record goes after the group | `ProcessRun` |

How they interact: a command acquires the *run lock*, opens *journal storage* and gives the record to
the *runner*. The runner's agent calls go through *run budget* and *limiter* to a *harness* child,
which *processes* runs and the *process registry* tracks under the lock. Each change of the record is
saved through *storage*; anyone may read it without a lock. *Cancel*, *tick*, *removal*, *unlock* and
writers of answers come from other processes and meet the owner only through files and signals.

## Modules

| Module | Models | Kind |
| --- | --- | --- |
| `Ownership` | exclusive ownership of a run and of its children | abstract specification |
| `RunLock` | one lock directory, call by call, and the registry's children | implements `Ownership` |
| `RunLockProofs` | its theorems, the refinement of `Ownership` among them | proofs |
| `AgentLimiter` | the limiter | component |
| `AgentAdmission` | budgets of several runs over one limiter | composes `AgentLimiter` |
| `AgentAdmissionProofs` | the theorems of the limiter and of the admission | proofs |
| `Journal` | storage format 7: writer, failures, kills, loss of power, readers | component |
| `JournalProofs` | its theorems | proofs |
| `Effects` | recorded outcomes are final, effects may be started more than once before | abstract specification |
| `Runner` | a run's steps over several executions: replay, retry, saves, abort, drain, end | implements `Effects` |
| `RunnerProofs` | its theorems | proofs |
| `FanOut` | a named map over several executions: workers, effects, cancellation, journal, edits | component |
| `FanOutProofs` | its theorems | proofs |
| `Inbox` | one wait: writers, owner, clock, poll, tick, removal, a later run of the same ID | component |
| `InboxProofs` | its theorems | proofs |
| `RunControl` | who may continue and who may end a run: commands, ticks, cancels, signals | component |
| `RunControlProofs` | its theorems | proofs |
| `GithubWrites` | the GitHub write steps and a repository that others change | component |
| `ProcessRun` | one native process from spawn to settlement | component |
| `SettlingProofs` | the theorems of `GithubWrites` and of `ProcessRun` | proofs |
| `MC*` | constants and bounds for TLC; `MCSettling` extends `ProcessRun` and `GithubWrites` and holds instances of two more modules | model checking |

### RunLock

A process's program counter `pc[p]` is its next file system call, and `my[p]` what it has read so far:
the previous owner's token (`prev`), the directory its temporary file went into (`dir`), the attempt.
`lock` is the directory at the lock path, `tomb[p]` the one that p renamed away, `aside[p]` a
`recovery.json` that p moved. A directory carries its owner's fresh token for ever, so the token tells
an operation *by path* from one on the directory that was looked at before; this is where the races are.
`Publish`, `ReadOwner`, `LookAgain` are acquireLock's loop; `MarkOpen`, `MarkLink`, `ReadMarker`,
`TakeMarker`, `ReadAside`, `PutAside` are claimRecovery with publishMarker and takeMarker;
`VerifyOwner`, `RecoverProcesses`, `ConfirmMarker` what a recoverer does under its marker;
`RetireRename`, `RetireCheck`, `RetirePutBack` are retire; `Release*` and `MarkReleased*` the release;
`Observe`, `Precheck` the part of unlock that precedes the shared claim.

`astray` is history, and no guard reads it: it becomes true when `takeMarker` moves aside a marker
other than the one that it was called for, which another contender has linked in the meantime. The code
notices that only after the rename, and until it puts the marker back nobody sees it. From then on two
contenders may both pass the last check before they retire one lock (`lock_aba`, `lock_finally`). So
`LockSafety`, `QuietRecoverable` and the refinement of `Ownership` are stated up to that moment, and
nothing else is assumed. `DeletesOnlyAbandoned` has two parts: that no recovery, unlock or release, by
its check after the rename, deletes the directory of an owner that keeps it holds after that moment too;
that no sweep of tombstones does holds up to it only. After it a new owner's sweep may delete a live
owner's lock while the process that moved it is about to put it back, as `lock_aba` and `lock_finally` do.

Liveness of a process is known (`dead`): a foreign host or an unknown start time only refuses more.
Reading `owner.json` and reading `recovery.json` in the tombstone are one step, as are a write and its
flush. lockRun's two directories (the legacy guard and the primary) are two instances of this protocol.

### AgentLimiter and AgentAdmission

acquire, release and the abort listener are synchronous, so each is one action that ends in `Pump`.
`Pump` says which waiters one scan of the queue admits, by their ranks, instead of walking the queue.
In `AgentAdmission` a grant and the code after `await` are separate (`Enter`, `Rejected`): other callers
run in between. Releasing the permit and recording the usage are one step (`Invoked`), because no
`await` separates them. `draining` requests are inside `RunBudget.refuse`.

### Journal

`pc` is the writer's next call. Every file has its contents and a set of the contents a loss of power
may leave (`snapLag`, `logLag`): all that it held since its last flush, in order. `Crash` loses memory,
`PowerLoss` picks from those sets. `written`, `kept`, `flushed` are history: what batches tried to
write, and what was acknowledged to a caller, and to a durable one.

Assumed of the operating system: rename is atomic, a file's operations reach the disk in order, and a
failed flush may be repeated. A file is written by one process, the lock's owner.

### Runner

`disk` is the record that later executions find, `mem` the owner's, `batch` the save in flight.
`RunStore.append` copies the record when its batch starts and lets later callers join the next one:
`BatchStarts` takes the copy and its waiters, `BatchSucceeds` and `BatchFails` settle them; what
happens to files below that is `Journal`. `op[s].pc` is where the `effect()` call of step s awaits.
`Ask` is the call up to its first await: the outcome of `decideReplay` (`Replay`, `Refuse`, `GoLive`).
`Enter` to `Backoff` are the attempt loop; `Fail` follows `classifyAttemptFailure`. `run` is the
execution: the body, the drain after it returned, the checks before completion, the last save. The body
is not a program: at any time it may ask for a step, return or throw, so the properties hold for every
body, also one that takes another path after a restart. Failed, cancelled and interrupted runs end
alike ("stopped"), since resuming treats them alike. The memory of an execution that is over is reset.

A step's signal is its scope's. `Scoped` are the steps that the items of a map with `cancelSiblings` ask
for; `CancelScope` is the moment at which that map aborts its scope, at any time, and the run goes on.
`AbortedAt` and `ReasonAt` are a step's signal and why it is aborted. Such a step is recorded as
cancelled and its request rejected; if the body catches that, the run may complete with it. What the map
itself does, with its workers and its journal, is `FanOut`.

Left out: several such maps in one run, one inside another or side by side, which abort their scopes
independently; the suspension at a wait (it is in `Inbox`); the warnings of healed divergence; reuse by
forks; original format-one records; worktrees, transcripts and events, whose own saves add points of
failure like those here. Admission is a wait that ends or is aborted; its budget is `AgentAdmission`'s.

### FanOut

The record is `disk`, `mem` and `batch` as in `Runner`; one copy per batch keeps apart what an
item changed and what a later execution will find. `item[i]` is where item i's worker is: `mapping`,
draining the scope's operations, waiting for the save of its journal entry, done. `op[i]` is an effect
that the item's mapper may or may not await. Workers take indices in order (`Take`); `Ends`, `Judged`,
`Drained` and `Journaled` are the worker's code behind the mapper, in its order: drain, judge by
`settlesFailure`, commit, save. `Call` is a call of the map up to its first save, which decides by
`decideSettledMapReplay`: reuse, accept an edit of the mapper, reset a journal without committed items,
or refuse; the workflow may have been edited between executions (`Edits`). `controller` is the map's own
abort controller and `parent` the scope around it, so the two causes of a cancellation stay apart.

Left out: nested maps and the names of items; maps without an ID, which are this loop without a journal.

### Inbox

`place` holds the delivery in either inbox: inside the run's directory, or beside the flat checkpoint
of an older layout. `saved` is the durable record and `own` the owner's position in `#check`:
`scan`, `clock`, `observing` (the poll), `rescan`, `finish`, and the save of an outcome. A writer reads
the run (`WriterReads`), looks at both candidates, links its file exclusively, then reads the run again
and takes its own delivery back if the run is gone. `rm` inspects, takes the guard and the lock, and
deletes the outside inbox, the siblings, the flat file and the directory in the code's order.
Generations stand for `runGeneration` and `runCreatedAt` in the envelope: after a removal a new run may
take the ID. `ResumeDue` is tick for a run whose wait is due; a running record without an owner is
recovered.

Left out: several waits of a run, whose files are independent; the poll's retry interval, rehearsal of
answers, the unreadable record that `rm --force` removes.

### RunControl

`lock` is what `RunLock` shows of the lock: a fresh token for every owner, which stays when the owner
dies. A tick's `proc[t].pc` follows `resumeRun`: look at the run, inspect ownership and the recovery
hint, retire a dead owner's lock, open, read a cancel request bound to the reclaimed token, honour it,
recheck the run it now owns, count the recovery, execute. A cancel follows cancelRun: read, observe the
owner, take a free lock and save, or write the request, check again, signal, poll, wait, tidy up. The
owner may be another cancel, which acts on a signal only while it acquires the lock (`run-cancellation.ts`
201); that a second signal kills it is `CancelDies`.
`Reason` and `Aborted` are `cancellableRunSignal`'s decision whether a signal means cancel, by the request that
is bound to this execution's token and process.

Merged: the verification of a process and the kill; the read of ownership and of the recovery hint.
A tick is interrupted by its deadline and a command by Ctrl-C, and cancel's SIGINT reaches both.
A released lock counts as dead. Left out: the suspension of a rate-limited run (`runner.ts` 4377-4419),
the resumption of a completed run, and detached start.

### GithubWrites

`op` is the step that was asked for, `step` its attempt: it reads, decides, and writes what is missing.
Every GitHub call is an action; a write is committed and then its answer arrives or the attempt breaks
(`Answered`). The next attempt starts over with the same marker. Others comment, close, reopen, open and
merge pull requests and rerun checks between any two calls.

Assumed of GitHub: a write is committed or dropped before its attempt ends, not later; a list shows a
new issue or pull request at once, which `src/docs/github.md` discusses at 593-630; markers are not
edited out; all attempts use one account.

### ProcessRun

`runProcess` is callbacks around shared variables, so each callback is an action: `Exit`, `SpawnError`,
`Data`, `End`, `PipeError`, `Consumed`, `ConsumerThrows`, `Registered`, `RegistrationFails`, the abort
and each timer. `h` is what they share. The group, its descendants, the pipes and the consumer are the
environment: a process may ignore every signal, a descendant outside the group may hold a pipe for ever,
a consumer may never settle, a look at the process table may fail, and the group's number may be reused.
`Refresh` is a look at the group and `Recognised` the comparison of start times before a signal
(`run.ts` 136), which tells nothing when either time is unknown: the signal is then sent unverified.
`sent` tells such a signal to another group ("blind") from one sent after a look had found the group gone
("stray"); `h.gone` remembers that look and no guard reads it. Only the second is excluded by
`OwnershipIsKept`, as the comment in `refresh` promises; see Observations for the first.

## Runs

| Run | Shows | Bounds and why they are enough |
| --- | --- | --- |
| `lock_owners` | until a marker goes astray the lock implements `Ownership` under acquire, cancel and unlock, there is one retirer at a time and what the killed leave is recoverable; no sweep deletes a directory that its owner keeps up to then, and no recovery, unlock or release deletes one, by its check after the rename, ever | three processes: an owner to be, one that recovers, one that is late; one command each, three attempts as in the code; a lock that is free, stale, or claimed by a dead recoverer; kills where an owner, a marker or a moved directory is left (at every call: `settling`) |
| `lock_aba` | violation: two owners of one lock | three processes from a lock with a dead recoverer's marker |
| `lock_finally` | violation: two owners of one lock, and no recoverer has died | four processes from a stale lock, of which one is killed, as an owner; two commands each. `Staged` keeps the search small: two processes contend until one of them dies in its second command, and then the others begin |
| `admission` | caps, ceilings, drained refusals, FIFO, every admission answered | five requests of two runs on two slots with a ceiling of one `claude`: three requests of the run with the cost cap go one beyond its overshoot, and one waits for its harness while one behind it may overtake |
| `journal` | acknowledged changes survive kills and losses of power; a reader's result is one committed state | three changes over two sessions, two of which reach a compaction, with one crash and one failed call; one reader across a change of owner |
| `journal_initial` | violation: a reader mixes two first snapshots | one session, one failed call |
| `runner` | recorded outcomes are final and are what the body saw; numbered attempts; no unlawful start; ends quiet and whole | two steps, of which one is asked for inside a map that may cancel its scope; two executions: the second replays, resumes or skips what the first left; one failed save, one retry; one value and the settled error, which is enough to tell a replayed outcome from another |
| `runner_live` | redefined steps; every execution ends | two definitions of each step, failures of saves and of the run's own storage, one step inside a map that may cancel its scope |
| `maps` | items are drained before they are journaled, journaled outcomes are final, a cancellation has a recorded cause | three items and two workers: one item fails, one is in flight, one is not yet taken; two executions, an edit of items or mapper between them, one failed save, one effect that need not be awaited |
| `inbox` | answers reach the run they were written for, one is queued and kept, a wait has one outcome and ends | two writers race; two generations of the ID, the first with a poll; one removal, of the first generation; one kill or failed save; both layouts |
| `control` | a cancel ends only what it aimed at and sticks; ended runs stay ended; crash loops stop; all comes to rest | one command, one tick and one cancel: each pair of them meets; a cap of 2 instead of 3, reached from every count below it; one fault besides the crashes that recovery is about; ticks that overlap, and cancels that meet, are in the theorems only |
| `settling` | with kills at any call of the lock's commands somebody owns it; saves commit; a process call is over, whole and without a signal after its group was found gone; GitHub writes are made once | two processes with two commands each; two temporary errors, which is what the code retries; one chunk on each of two pipes, with or without stream, idle deadline and registry; three attempts, three acts of others, two workflow runs |

`settling` picks one of its four parts in the initial state. They share no variable, so it checks each
of them on its own, and costs one search instead of four.

Deadlock is not checked: in every model the commands, requests or changes are finite, and a model
that has used them up stops. Liveness properties say where it must not stop.

**What the violations show.** `lock_aba`: p2 reads a dead recoverer's marker and pauses. p1 takes that
marker, links its own and passes its last check. p2 now renames p1's marker aside. p3 finds no marker,
links its own, passes every check, retires the dead owner's lock and publishes. p1's rename moves p3's
new lock to a tombstone, p3's sweep of tombstones deletes it, p1 finds its files missing, which counts
as a match, and publishes too: p1 and p3 own one lock. It takes a lock whose owner *and* whose
recoverer died, and three contenders; the run's second lock makes the same race necessary twice before
two owners execute one run, but `withRunGuard` relies on the guard alone.
`lock_finally`: here no recoverer dies. p2 opens and links its marker in a stale lock while p1 retires
that lock and publishes its own. p2 finds another owner at the path when it verifies, and refuses; but
the `finally` of its recovery takes back "its" marker by path. By then p1 has died as an owner, and p3
has linked its marker in p1's lock and passed its last check: p2 moves p3's marker aside. p4 finds no
marker, links its own, retires p1's lock and publishes. p3's rename moves p4's new lock, p4's sweep
deletes that tombstone, and p3 publishes: p3 and p4 own one lock.
`journal_initial`: if the first snapshot's rename succeeds but a later call of it fails, the next save
writes another snapshot of seq 0, and the reader's comparison of sequence numbers cannot tell them
apart. `journal` lets all other calls fail.

**Fairness.** `admission`: promise continuations run and an attempt ends, since its harness has a
deadline; nothing is assumed of new requests or of cancellation. `runner_live`: a save ends, an effect
returns or fails (it has a deadline), backoff timers fire, a body ends; nothing is assumed of kills,
aborts or of what fails. `inbox`: an owner that runs goes on, a removal goes on, and tick resumes what
is due; a writer may stop anywhere, and nothing is assumed of the poll or of the clock. `control`: a
tick is launched again and again, a process that runs goes on, a body ends; nothing is assumed of
commands, cancels that have not started, crashes or signals. `settling`: each process of the lock
issues its commands and its next call happens (the operating system schedules it); the journal writer's
next call happens; an armed timer fires except the idle timer, which output may rearm for ever, a spawn
that failed is reported, a registration is over some time. The group's poll is a timer too.

**How the properties can break.** Every property has a mutant in `PROJECT.json`: a change of one
definition that a plausible bug would make, under which the run finds it violated, as a removal that
does not look again (`StillThereAssumed`), an outcome saved after the body had it (`SaveOutcomeLater`),
or a tick that trusts what it read before it had the lock (`StaysAsSeen`). The mutated forms stand
before the definitions they replace.

## Observations

Made while modelling, in states that the runs reach. None has a run of its own. A property leaves
one out only where this list says so.

- A marker that `takeMarker` puts back may outlive its contender's command and then refuses recovery
  until that process exits. `QuietRecoverable`, and its theorem, say that this takes a marker that went
  astray.
- The owner's rename of an invalid answer to `.rejected` (`questions.ts` 664-677) takes what is at the
  path by then. Another writer may have withdrawn the invalid answer and queued a valid one, which is
  quarantined, or nothing may be there, in which case the rename's ENOENT fails the wait. Only writers
  for an earlier run of the ID withdraw; `Disturbed` excepts them from `QueuedIsKept`.
- A removal that dies after the siblings and before the flat checkpoint leaves an older-layout run that
  still exists without the answers that were queued for it.
- An outcome whose save failed stays in memory, and a later last save may record it.
- A completed run may keep a step that is recorded as cancelled (`test/fan-out.test.ts` 146-202): a map
  cancelled its scope, the body caught the map's error and returned, and only steps that the execution
  did not use are retired (`runner.ts` 4299-4305). So `CompletedRunIsWhole` excepts steps whose request
  was rejected.
- `docs/waits.md` 216-218 says that a valid signal wins over the deadline. The code looks at the inbox
  before the clock, but a deadline that passes during an observation wins without a second look
  (`questions.ts` 738-743), as `docs/waits.md` 176-177 says.
- Of two cancels one that stalled may overwrite the newer one's request, and `removeCancelRequest` reads
  the request and then removes the file by name.
- A group's number may be reused before any look has found the group gone. If the leader's start time was
  unknown at the spawn, or is when the signal is sent (the read fails, or no process has the leader's
  number), `kill` signals the new group. `docs/process-lifecycle.md` 178-183 calls these checks
  conservative and states their limit, so `OwnershipIsKept` speaks of signals after the group was found
  gone only.
- A tick that dies between retiring a dead owner's lock and saving `cancelled` loses the request: its
  token is then nobody's. `KilledCancelSticks` is about the tick that retires the lock.
- A merge that GitHub accepted and still shows as open when a retry reads it would be reported as
  `not-mergeable`, because the second PUT is refused. It is excluded by the first assumption on GitHub.

## Proofs

TLC checks an instance; the theorems below hold for every value of the constants that satisfies the
assumptions of the component's module. Their scope is the model's: what "Left out" names is left out of
them too. Each inductive invariant was an invariant of a TLC run of its component before it was proved.

| Module | Proved | Assumptions |
| --- | --- | --- |
| `RunLockProofs` | `AlwaysLockSafety`, `AlwaysQuietRecoverable`, `AlwaysDeletesOnlyAbandoned`, `LockImplementsOwnership` | `RunLockAssumption` |
| `AgentAdmissionProofs` | `CeilingsAlwaysHold`, `AlwaysWorkConserving`, `AlwaysEligibleFifo` of the limiter; the same under the budgets' calls (`AdmissionLimiter`); `CapsAlwaysHold` | `LimiterAssumption`, finitely many requests, and for the admission `AdmissionAssumption` |
| `RunnerProofs` | `AlwaysRecordedBeforeUse`, `AlwaysEndsWhole`, `AlwaysStartsAreAllowed`, `RunnerImplementsEffects` | `RunnerAssumption` |
| `FanOutProofs` | `AlwaysCommittedIsFinal`, `AlwaysReturnedIsRecorded`, `AlwaysCancellationHasCause`, `AlwaysNothingOutlivesItsItem`, `AlwaysFailureStaysDecisive` | `FanOutAssumption` |
| `JournalProofs` | `AlwaysAcknowledgedSurvives`; `AlwaysReadsAreConsistent` if the first snapshot's calls do not fail | `JournalAssumption`, `NoneAssumption` |
| `SettlingProofs` | `AlwaysWritesOnce`, `AlwaysNothingIsLost`, `AlwaysOutcomesAreTrue`; `AlwaysOwnershipIsKept`, `AlwaysResultsStand` | `WritesAssumption`; `ProcessAssumption` |
| `RunControlProofs` | `AlwaysRequestsAreBound`, `AlwaysCrashLoopsStop`, `AlwaysKilledCancelSticks`, `AlwaysEndedStaysEnded` | `RunControlAssumption` |
| `InboxProofs` | `AlwaysAnswersAreAddressed`, `AlwaysQueuedIsKept`, `AlwaysRemovedLeavesNothing`, `AlwaysOneOutcome` | `InboxAssumption`, `NoneAssumption` |

Each inductive invariant has a theorem of its own, `...Invariant` (the lock has two, `LockInvariant` and
`KeepInvariant`); most of the others follow from it in a few lines. Every invariant and every action
property that a passing run checks is the property of one of these theorems.
The assumptions give the constants their types and keep their sets apart (`None` is no value, a runner
is no tick), and require that numbers such as ceilings, attempts and workers are positive, as the
code's option schemas and its own constants are. Two are finiteness: `Ids` in `RunnerAssumption`, and a dearest
cost in `AdmissionAssumption`. `Costs` stands for what one invocation may cost, so its maximum is the
overshoot that a cost cap allows. The one hypothesis of a theorem besides these is that of
`AlwaysReadsAreConsistent`, `"initial" \notin FailAt`: run `journal_initial` shows that without it the
property is false.

All proofs are laid out alike: what a type or a helper yields, field by field; what each action does,
as a lemma that hides the records behind the fields that change; one lemma for each part of the
invariant, with a step for each action, or kind of action, that may disturb it; the theorems.

**Run lock.** The argument of `LockInv` is that a directory which has left the path does not come back,
so that what a process has read of it stays true: its owner is dead or has released it. A token is
published once (`Spent`), an owner's lock is at the path until it gives it up (`Held`), a lock that
nobody owns is dead or released (`Owned`), and who wants to retire one has seen that (`Stale`). A
contender's marker was opened in one directory and stays in it while the contender claims (`Claimed`,
`Gone`), a marker of a live process at the path is one that it will use or remove (`Noted`), and it is
taken only by its own writer or when that is dead (`Wanted`). So two processes past their last check
would have two markers in one directory, and what a rename catches is what was verified (`Caught`):
`retire`'s put-back is never needed. Recovery leaves no live child (`Childless`). All of these, except
types and which local is set where (`Typed`), are claimed only until a marker goes astray.
`KeepInv` is the weaker invariant that survives that: what a process is to retire, and is not its own,
nobody keeps (`Read`: its owner was dead or had released it when it was read), and a directory that is
marked released is kept by nobody, wherever it is (`Apart`). So when a rename catches another's new
lock, the comparison that follows tells it from the one that was meant, and it is not deleted.
For the sweep, `Left` says that until a marker goes astray a moved directory is one that nobody keeps.
The refinement maps `Publish` to acquiring, the end of `OwnerSteps` and the death of an owner to giving
up, `TrackProcess` to the start of a child, and exits and kills of children to its end.

**Limiter.** None of the three properties is inductive alone: that a pump admits no more than fits needs
exact counters, and that an aborted waiter's removal leaves nobody stranded needs work conservation
before it. `LimiterInv` adds that `total` and `active` count the permits out exactly (`Counted`), that
tickets order the waiters (`Ordered`), that the counters stay within the ceilings (`Bounded`) and that
no waiter's signal has fired. The core is one lemma about a scan of the queue (`ScanIsCorrect`).

**Admission.** `AdmissionInv` reserves for each attempt that is still invoking the greatest cost, since
its own cost is only known when it ends (`CostReserved`): with at most `Total` of them, a run that may
still start one is below its cap plus `Total` reservations. `Places` says that a refused request is
neither queued nor running, which is what makes a refusal drained. `CostOvershootBounded` is stated for
runs that have spent something, since a run whose cap is 0 starts nothing and overshoots nothing.

**Runner.** The record exists in memory, in the batch that is being written and on disk.
`RecordedBeforeUse` is about the disk only, and a step changes memory only, so the invariant must say
what the copies have in common: a recorded outcome is in every later copy and no operation is live on
one (`Final`), whoever waits for a batch finds its own change in it, and untouched steps are equal
everywhere (`Copied`), and attempts are counted in memory, then in the batch, then on disk, and then
made (`Numbered`). `Whole` adds to `CompletedRunIsWhole` that an operation which is over gave the body an
outcome or a rejection; `Replayed` carries strict replay.
`RunnerImplementsEffects` maps the record on disk to `Effects`: only a successful batch changes it, and
by `Final` that changes no outcome that is there.

**Named maps.** `FanOutInv` has the same three copies. `Keeps` orders their journals, `MadeFor` ties
every outcome to the items that its journal was made for, across edits, `CausedIn` keeps a failure
beside every recorded cancellation *in each copy*, since a crash may leave any of them, and `Decided`
remembers what the execution found. `Staffed` counts the workers, without which an item could be taken
after the map has stopped.

**Journal.** `JournalInv` speaks of all pairs of a snapshot in `snapLag` and a log in `logLag`:
`Recoverable` says that each of them replays to a state that some batch wrote and that is at least what
was flushed. To keep that through an append and a compaction takes that each such log is in order and
not far above the committed state (`Bounded`), that the writer's own idea of the committed state and
bytes is right *whichever* snapshot the disk holds (`Viewed`), that the line or snapshot in flight is a
successor of it (`Writing`), and, for batches that are retried after they had in fact been committed,
that changes only grow (`Growing`, `Fresh`). `ReplayOneMore` and `ReplayIsLast` are the facts about
replaying that it rests on. For readers `Reader` adds what a reader holds if the snapshot that it read
is still current.

**GitHub writes.** A step is of one kind, so `WriteInv` has a part for each kind. It relates what an
attempt that got so far has read to what GitHub holds now, and both to what earlier attempts, whose
answers were lost, had committed: `post` is reached only while there is no comment, issue or pull
request of the step's own, `confirm` only after a merge. Writes that others can undo are counted
against their acts (`Allowed`).

**Processes.** The callbacks of a call run one at a time, and each of them may be the next. `Sound` is
what every one relies on and leaves: a group that counts as gone is gone and one that was found gone
counts as gone for ever (`GoneIsGone`), an ended pipe
was read to its end or the output is marked as cut off (`ReadToTheEnd`), the armed backstop follows
SIGKILL or a group that is gone and the deadlines are disarmed by the exit (`TimersMean`), and what a
settled call has established (`SettledWhole`). It is proved of the helpers (`finish`, `maybeFinish`,
`refresh`, `kill`, `beginCleanup`, `stop`, `armIdle`) first, and of each callback from them.
`Finishing` carries that through the deliveries to the ownership record and the outcome.

**Run control.** A tick reads the run, then waits for its lock, then acts; a cancel reads the owner and
then writes a request. What is left of those reads is a token. `Exclusive` says that a live lock has one
holder who knows it, `Drawn` that tokens are never drawn twice, and so a request that names a token
means that execution and no other (`Aimed`, `Bound`). `Counted` bounds the recoveries since the last
step by the record's own count, `Promised` says where the tick that retired a promised token cannot be.

**Questions and removal.** A delivery lies in one of two places, its writer and the owner look at both
without a lock, and the removal deletes them one after the other. `Rejected` and `Kept` say what the
owner and a writer may still believe of a place that they looked at before, as long as nobody has
disturbed it; `Swept` says that what is put where the removal has been is covered by a writer that will
look again, which is why nothing is left when both are through; `Withdrawn` that a writer of the present
run withdraws only from its removal. `Judged` holds the outcome to the envelope's generation from the
moment of judgement until the body has it.

**Changed for the proofs.** `Runner`, `Inbox` and `ProcessRun` name assumptions that they made silently
(finitely many steps; markers that are no values; what a request consists of); `Runner`'s next sequence
number is a maximum instead of a choice; the statuses of GitHub's answers in `GithubWrites` are strings
like its other statuses; `ProcessRun` names its specification so that `MCSettling` can extend it together
with `GithubWrites`, and the assumptions of both are evaluated. `RunLock` has the history variable
`astray`: its properties had been checked from free or stale locks only and one at a time from a claimed
one, which hid that `lock_finally` breaks them from a stale lock as well; `RunLockAssumption` now allows
any lock that dead processes may have left.

**Only model-checked.**

- Liveness (`EveryAskIsAnswered` and its like): fairness and ENABLED are beyond the prover.
- The bounds themselves: the theorems hold for any bound of crashes, failures, executions and so on,
  but for finitely many of each.

## Not modelled

- Record schemas, usage summaries, profiles, roster and policy, prompts, typecheck and lint, packages,
  the loader's imports, the harness adapters and the command line compute or translate. They keep no
  state that steps of several actors change, so there is nothing for a model checker to interleave, and
  they make up most of the source by lines.
- Worktrees (`runtime/worktrees.ts`, `worktree-merge.ts`) are sequences of git commands whose effects
  are git's; their admin lock is `RunLock` with a wait around it.
- Rate limits add a cap to `Exceeded` and a wake time to a suspended run.
- Children and forks: a child is a run of its own with its own lock and journal; a fork copies a record
  once, before anything runs.
- Detached start, prune, event logs: a start waits for a file, prune is `rm` for each of a selection,
  and nothing depends on the event log.
- The two-lock composition of `lockRun`, two runs' worktrees, and several waits of one run are products
  of independent instances of what is modelled.

## Plan for more

The effects of a call of `runProcess` that its consumers see (the order of chunks within one pipe, the
limits of captured bytes), the two locks of `lockRun` as one composition, of which `LockImplementsOwnership`
would give each, and the suspension of a run at a rate limit.
