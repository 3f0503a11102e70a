---------------------------- MODULE AgentLimiter ----------------------------
(***************************************************************************)
(* The in-memory admission limiter of src/workflow/runtime/agent-limiter.ts.*)
(* acquire, release and the abort listener are synchronous, so each is one *)
(* action, and each ends with the same pump over the queue.                *)
(***************************************************************************)
EXTENDS Naturals, FiniteSets

CONSTANTS
  Requests,    \* calls of acquire; each is one waiter and at most one permit
  Harnesses,
  Signals,
  Harness,     \* Harness[r]: the provider that r asks for
  Signal,      \* Signal[r]: the abort signal that r was made with
  Total,       \* limits.total
  Ceiling      \* Ceiling[h]: limits.perProvider[h] ?? limits.total

ASSUME LimiterAssumption ==
  /\ Harness \in [Requests -> Harnesses]
  /\ Signal \in [Requests -> Signals]
  /\ Total \in Nat \ {0}
  /\ Ceiling \in [Harnesses -> Nat \ {0}]

VARIABLES
  waiting,     \* `queue`: the waiters, in the order of their tickets
  ticket,      \* ticket[r]: when r was pushed
  next,        \* the next ticket
  held,        \* permits granted and not released
  released,    \* permits released
  rejected,    \* requests whose promise was rejected
  aborted,     \* signals that have fired
  total,       \* `total`: reserved slots
  active       \* `active`: reserved slots of each harness

vars == <<waiting, ticket, next, held, released, rejected, aborted, total, active>>

Of(S, h) == {r \in S : Harness[r] = h}

Init ==
  /\ waiting = {} /\ held = {} /\ released = {} /\ rejected = {}
  /\ ticket = [r \in Requests |-> 0] /\ next = 1
  /\ aborted = {}
  /\ total = 0
  /\ active = [h \in Harnesses |-> 0]

\* Mutant of Before: the queue is scanned from its tail.
BeforeFromTail(A, f, r) == {q \in A : f[q] > f[r]}

\* The members of A that the pump reached before r; f gives the queue's order.
Before(A, f, r) == {q \in A : f[q] < f[r]}

\* Mutant of Admits: a ceiling that is reached still admits.
AdmitsOneMore(A, W, f, t, a) ==
  \A r \in W :
    r \in A <=> /\ t + Cardinality(Before(A, f, r)) <= Total
                /\ a[Harness[r]] + Cardinality(Of(Before(A, f, r), Harness[r]))
                     <= Ceiling[Harness[r]]

\* pump scans W from its head with t slots and a[h] slots of h taken: it admits a
\* waiter unless the total is reached, which ends the scan, or its harness is at
\* its ceiling, which skips it.
Admits(A, W, f, t, a) ==
  \A r \in W :
    r \in A <=> /\ t + Cardinality(Before(A, f, r)) < Total
                /\ a[Harness[r]] + Cardinality(Of(Before(A, f, r), Harness[r]))
                     < Ceiling[Harness[r]]

Pump(W, H, t, a) ==
  \E A \in SUBSET W :
    /\ Admits(A, W, ticket', t, a)
    /\ waiting' = W \ A
    /\ held' = H \cup A
    /\ total' = t + Cardinality(A)
    /\ active' = [h \in Harnesses |-> a[h] + Cardinality(Of(A, h))]

Fresh(r) == r \notin waiting \cup held \cup released \cup rejected

\* acquire: signal.throwIfAborted, then push and pump.
Acquire(r) ==
  /\ Fresh(r)
  /\ \/ /\ Signal[r] \in aborted
        /\ rejected' = rejected \cup {r}
        /\ UNCHANGED <<waiting, ticket, next, held, total, active>>
     \/ /\ Signal[r] \notin aborted
        /\ ticket' = [ticket EXCEPT ![r] = next]
        /\ next' = next + 1
        /\ Pump(waiting \cup {r}, held, total, active)
        /\ UNCHANGED rejected
  /\ UNCHANGED <<released, aborted>>

\* Mutant of Release: the freed slot is not offered to the queue.
ReleaseWithoutPump(r) ==
  /\ r \in held
  /\ held' = held \ {r} /\ released' = released \cup {r}
  /\ total' = total - 1 /\ active' = [active EXCEPT ![Harness[r]] = @ - 1]
  /\ UNCHANGED <<waiting, ticket, next, rejected, aborted>>

\* The first release of a permit.
Release(r) ==
  /\ r \in held
  /\ released' = released \cup {r}
  /\ UNCHANGED <<ticket, next, rejected, aborted>>
  /\ Pump(waiting, held \ {r}, total - 1, [active EXCEPT ![Harness[r]] = @ - 1])

\* "repeated calls are harmless": the runner releases in two nested `finally`s.
ReleaseAgain(r) ==
  /\ r \in released
  /\ UNCHANGED vars

\* The abort listener of a signal's group rejects all of its waiters, then pumps.
Drop(R) ==
  /\ rejected' = rejected \cup R
  /\ UNCHANGED <<ticket, next, released>>
  /\ Pump(waiting \ R, held, total, active)

Abort(s) ==
  /\ s \notin aborted
  /\ aborted' = aborted \cup {s}
  /\ Drop({r \in waiting : Signal[r] = s})

Next ==
  \/ \E r \in Requests : Acquire(r) \/ Release(r) \/ ReleaseAgain(r)
  \/ \E s \in Signals : Abort(s)

Spec == Init /\ [][Next]_vars

------------------------------------------------------------------------------
\* Each request is in at most one place and the counters are naturals.
TypeOK ==
  /\ waiting \subseteq Requests /\ held \subseteq Requests
  /\ released \subseteq Requests /\ rejected \subseteq Requests
  /\ waiting \cap held = {} /\ (waiting \cup held) \cap (released \cup rejected) = {}
  /\ ticket \in [Requests -> Nat] /\ next \in Nat
  /\ aborted \subseteq Signals
  /\ total \in Nat
  /\ active \in [Harnesses -> Nat]

\* "Maximum live harness invocations": the permits out never exceed the ceilings,
\* across all providers and for each.
CeilingsHold ==
  /\ Cardinality(held) <= Total
  /\ \A h \in Harnesses : Cardinality(Of(held, h)) <= Ceiling[h]

\* The pump leaves no waiter that could run: one that waits is behind a ceiling
\* that is reached now.  A missed pump would strand it.
WorkConserving ==
  \A r \in waiting : total >= Total \/ active[Harness[r]] >= Ceiling[Harness[r]]

\* "Admit FIFO among eligible requests": a request is admitted ahead of an earlier
\* waiter only while that waiter's own harness is at its ceiling.
Overtakes(r, q) == r \in held' \ held /\ q \in waiting' /\ ticket'[q] < ticket'[r]
EligibleFifo ==
  [][\A r, q \in Requests :
       Overtakes(r, q) => active'[Harness[q]] >= Ceiling[Harness[q]]]_vars

\* A waiter whose signal fires is rejected at once, never admitted afterwards.
AbortedNotWaiting == \A r \in waiting : Signal[r] \notin aborted

=============================================================================
