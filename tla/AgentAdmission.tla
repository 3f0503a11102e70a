--------------------------- MODULE AgentAdmission ---------------------------
(***************************************************************************)
(* The agent attempts of several runs in one process: each is admitted by  *)
(* its run's budget (run-budget.ts, budgetAdmission in runner.ts) and by   *)
(* the limiter that the runs share.  A budget that is reached latches: it  *)
(* drops the run's waiters at once, and refuses only when the attempts     *)
(* that it had let in are over.                                            *)
(*                                                                         *)
(* A grant resolves a promise, so the code after `await admission` runs    *)
(* later than the grant, with other callers in between: Enter and Rejected *)
(* are steps of their own.                                                 *)
(***************************************************************************)
EXTENDS AgentLimiter

CONSTANTS
  Runs,
  Run,          \* Run[r]: the run that request r, one attempt of a step, is of
  MaxAttempts,  \* MaxAttempts[u]: maxRunAgentAttempts, or Uncapped for null
  MaxCost,      \* MaxCost[u]: maxRunCostUsd, or Uncapped
  Uncapped,
  Costs         \* what one invocation may cost

ASSUME AdmissionAssumption ==
  /\ Run \in [Requests -> Runs]
  /\ MaxAttempts \in [Runs -> Nat \cup {Uncapped}]
  /\ MaxCost \in [Runs -> Nat \cup {Uncapped}]
  /\ Uncapped \notin Nat
  /\ Costs \subseteq Nat /\ \E dearest \in Costs : \A c \in Costs : c <= dearest

VARIABLES
  attempts,   \* attempts[u]: `#attempts` of u's budget
  spent,      \* spent[u]: what the record of u sums up to
  stopped,    \* runs whose budget has latched
  inside,     \* attempts between `enter` and its release: `#active` of each run
  finished,   \* attempts that are over
  draining,   \* requests in `refuse`, waiting for `#idle`
  refused,    \* requests refused with RunBudgetExceededError
  cancelled   \* requests rejected with their scope's reason

budget == <<attempts, spent, stopped, inside, finished, draining, refused, cancelled>>
all == <<vars, budget>>

AdmissionInit ==
  /\ Init
  /\ attempts = [u \in Runs |-> 0] /\ spent = [u \in Runs |-> 0]
  /\ stopped = {} /\ inside = {} /\ finished = {}
  /\ draining = {} /\ refused = {} /\ cancelled = {}

Reached(count, cap) == cap # Uncapped /\ count >= cap

\* check: once latched always latched, else a cap that is reached.
Exceeded(u) ==
  u \in stopped \/ Reached(attempts[u], MaxAttempts[u]) \/ Reached(spent[u], MaxCost[u])

Queued(u) == {q \in waiting : Run[q] = u}

\* The first check refuses, dropping the run's waiters, or the request is queued.
Ask(r) ==
  /\ Fresh(r) /\ r \notin draining \cup refused
  /\ IF Exceeded(Run[r])
     THEN /\ stopped' = stopped \cup {Run[r]}
          /\ draining' = draining \cup {r}
          /\ Drop(Queued(Run[r]))
          /\ UNCHANGED aborted
     ELSE /\ Acquire(r)
          /\ UNCHANGED <<stopped, draining>>
  /\ UNCHANGED <<attempts, spent, inside, finished, refused, cancelled>>

\* The slot of r goes back while the waiters R are dropped.
ReleaseAndDrop(r, R) ==
  /\ released' = released \cup {r}
  /\ rejected' = rejected \cup R
  /\ UNCHANGED <<ticket, next, aborted>>
  /\ Pump(waiting \ R, held \ {r}, total - 1, [active EXCEPT ![Harness[r]] = @ - 1])

Granted(r) == r \in held /\ r \notin inside

\* Mutant of Enter: a granted request is not checked again.
EnterUnchecked(r) ==
  /\ Granted(r)
  /\ attempts' = [attempts EXCEPT ![Run[r]] = @ + 1]
  /\ inside' = inside \cup {r}
  /\ UNCHANGED <<vars, spent, stopped, finished, draining, refused, cancelled>>

\* Mutant of Enter: the refused request keeps its permit.
EnterKeepsPermit(r) ==
  /\ Granted(r) /\ r \notin draining \cup refused
  /\ IF Exceeded(Run[r])
     THEN /\ stopped' = stopped \cup {Run[r]}
          /\ draining' = draining \cup {r}
          /\ Drop(Queued(Run[r]))
          /\ UNCHANGED <<attempts, inside, aborted>>
     ELSE /\ attempts' = [attempts EXCEPT ![Run[r]] = @ + 1]
          /\ inside' = inside \cup {r}
          /\ UNCHANGED <<vars, stopped, draining>>
  /\ UNCHANGED <<spent, finished, refused, cancelled>>

\* After `await admission`: check again, then reserve the attempt.
Enter(r) ==
  /\ Granted(r)
  /\ IF Exceeded(Run[r])
     THEN /\ stopped' = stopped \cup {Run[r]}
          /\ draining' = draining \cup {r}
          /\ ReleaseAndDrop(r, Queued(Run[r]))
          /\ UNCHANGED <<attempts, inside>>
     ELSE /\ attempts' = [attempts EXCEPT ![Run[r]] = @ + 1]
          /\ inside' = inside \cup {r}
          /\ UNCHANGED <<vars, stopped, draining>>
  /\ UNCHANGED <<spent, finished, refused, cancelled>>

\* `await admission` throws: the budget's refusal wins over the scope's reason.
Rejected(r) ==
  /\ r \in rejected \ (draining \cup refused \cup cancelled)
  /\ IF Run[r] \in stopped
     THEN draining' = draining \cup {r} /\ UNCHANGED cancelled
     ELSE cancelled' = cancelled \cup {r} /\ UNCHANGED draining
  /\ UNCHANGED <<vars, attempts, spent, stopped, inside, finished, refused>>

\* The invocation ends: its permit is released, and its usage recorded in the same
\* synchronous run of the event loop.
Invoked(r) ==
  /\ r \in held \cap inside
  /\ Release(r)
  /\ \E c \in Costs : spent' = [spent EXCEPT ![Run[r]] = @ + c]
  /\ UNCHANGED <<attempts, stopped, inside, finished, draining, refused, cancelled>>

\* The attempt's `finally`: release, again or for an attempt that never invoked,
\* and then the budget's own release.
Finish(r) ==
  /\ r \in inside
  /\ Release(r) \/ ReleaseAgain(r)
  /\ inside' = inside \ {r} /\ finished' = finished \cup {r}
  /\ UNCHANGED <<attempts, spent, stopped, draining, refused, cancelled>>

\* refuse: once no attempt of the run is active, throw.
Deliver(r) ==
  /\ r \in draining
  /\ \A q \in inside : Run[q] # Run[r]
  /\ draining' = draining \ {r} /\ refused' = refused \cup {r}
  /\ UNCHANGED <<vars, attempts, spent, stopped, inside, finished, cancelled>>

\* A scope is cancelled: its waiters leave the queue.
Cancel(s) == Abort(s) /\ UNCHANGED budget

AdmissionNext ==
  \/ \E r \in Requests :
       Ask(r) \/ Enter(r) \/ Rejected(r) \/ Invoked(r) \/ Finish(r) \/ Deliver(r)
  \/ \E s \in Signals : Cancel(s)

AdmissionSpec == AdmissionInit /\ [][AdmissionNext]_all

\* Promise continuations run, and an invocation ends: it has a deadline.
AdmissionFairness ==
  \A r \in Requests : /\ WF_all(Enter(r)) /\ WF_all(Rejected(r))
                      /\ WF_all(Finish(r)) /\ WF_all(Deliver(r))

FairAdmissionSpec == AdmissionSpec /\ AdmissionFairness
-----------------------------------------------------------------------------
\* Each attempt is in one place; every permit out belongs to an attempt that is
\* inside or to a grant that is not yet taken up.
AdmissionTypeOK ==
  /\ attempts \in [Runs -> Nat] /\ spent \in [Runs -> Nat]
  /\ stopped \subseteq Runs
  /\ inside \subseteq held \cup released /\ finished \subseteq released
  /\ draining \cup refused \subseteq Requests
  /\ cancelled \subseteq rejected
  /\ inside \cap (finished \cup draining \cup refused \cup cancelled) = {}
  /\ finished \cap (draining \cup refused \cup cancelled) = {}

\* usage-and-budgets.md, maxRunAgentAttempts: no interleaving of grants and checks
\* starts more attempts than the run's cap.
AttemptsWithinCap ==
  \A u \in Runs : MaxAttempts[u] # Uncapped => attempts[u] <= MaxAttempts[u]

\* maxRunCostUsd is checked before an invocation whose cost is not known: a run goes
\* over it by what its invocations in flight cost, at most one for each slot.
Greatest(S) == CHOOSE n \in S : \A k \in S : k <= n
CostOvershootBounded ==
  \A u \in Runs :
    MaxCost[u] # Uncapped =>
      spent[u] = 0 \/ spent[u] < MaxCost[u] + Total * Greatest(Costs)

\* refuse, "active invocations keep their scope signal": when a step of a run is told
\* that the budget is exceeded, none of the run's attempts is active and none will be.
RefusedRunIsIdle == \A r \in refused : \A q \in inside : Run[q] # Run[r]

\* No cap is passed by more than the calls in flight, and a step hears that its run's
\* budget is exceeded only once the run's other attempts are over.
CapsHold == AdmissionTypeOK /\ AttemptsWithinCap /\ CostOvershootBounded /\ RefusedRunIsIdle

\* Every admission is answered: it is over, refused or cancelled in the end, for one
\* run's refusal never strands the permits that another run waits for.
Unanswered == (waiting \cup held \cup rejected \cup draining \cup inside) \ (refused \cup cancelled)
EveryAskIsAnswered == <>[](Unanswered = {})
=============================================================================
