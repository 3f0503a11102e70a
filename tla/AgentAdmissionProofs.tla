------------------------ MODULE AgentAdmissionProofs ------------------------
(***************************************************************************)
(* The limiter's ceilings, its work conservation and its order, and what   *)
(* the budgets and the shared limiter promise together, proved for every   *)
(* set of runs and requests and every choice of caps and ceilings.         *)
(*                                                                         *)
(* The limiter comes first, by itself.  Its invariant survives the         *)
(* budgets' own calls; what is added to it says which requests have left   *)
(* the limiter for good, and reserves the cost of the attempts that are    *)
(* still invoking.                                                         *)
(***************************************************************************)
EXTENDS AgentAdmission, FiniteSetTheorems, WellFoundedInduction, TLAPS

-----------------------------------------------------------------------------
(* The limiter alone.                                                      *)

\* Some member of a non-empty set has the greatest rank, if ranks are bounded.
LEMMA LastRank ==
  ASSUME NEW A, A # {}, NEW f, NEW n \in Nat, \A r \in A : f[r] \in 0..n
  PROVE  \E m \in A : \A r \in A : f[r] <= f[m]
<1> DEFINE D == {n - f[r] : r \in A}
<1>1. D \subseteq Nat /\ D # {}
  OBVIOUS
<1>2. \E d \in D : \A e \in D : ~(<<e, d>> \in OpToRel(<, Nat))
  <2> HIDE DEF D
  <2> QED BY <1>1, WFMin, NatLessThanWellFounded
<1>3. PICK m \in A : \A e \in D : ~(<<e, n - f[m]>> \in OpToRel(<, Nat))
  BY <1>2
<1>4. ASSUME NEW r \in A PROVE f[r] <= f[m]
  <2>1. n - f[r] \in Nat /\ n - f[m] \in Nat
    OBVIOUS
  <2>2. ~(n - f[r] < n - f[m])
    BY <1>3, <2>1 DEF OpToRel
  <2> QED BY <2>1, <2>2
<1> QED BY <1>4

\* A queue order: f is one-to-one on A and bounded by n.
Ranks(f, A, n) ==
  /\ \A r \in A : f[r] \in 0..n
  /\ \A q, r \in A : f[q] = f[r] => q = r

\* What a scan that admits below a limit adds up to: it stops at the limit.
LEMMA ScanStopsAtLimit ==
  ASSUME NEW A, IsFiniteSet(A), NEW f, NEW n \in Nat, Ranks(f, A, n),
         NEW t \in Nat, NEW L \in Nat, t <= L,
         \A r \in A : t + Cardinality(Before(A, f, r)) < L
  PROVE  t + Cardinality(A) <= L
<1>1. CASE A = {}
  BY <1>1, FS_EmptySet
<1>2. CASE A # {}
  <2>1. PICK m \in A : \A r \in A : f[r] <= f[m]
    BY <1>2, LastRank DEF Ranks
  <2>2. Before(A, f, m) = A \ {m}
    BY <2>1 DEF Before, Ranks
  <2>3. Cardinality(A \ {m}) = Cardinality(A) - 1
    BY FS_RemoveElement
  <2>4. t + Cardinality(A \ {m}) < L
    BY <2>2
  <2>5. Cardinality(A) \in Nat
    BY FS_CardinalityType
  <2> QED BY <2>3, <2>4, <2>5
<1> QED BY <1>1, <1>2

\* The counters are the permits that are out, and tickets order the queue.
Counted ==
  /\ IsFiniteSet(waiting) /\ IsFiniteSet(held)
  /\ total = Cardinality(held)
  /\ \A h \in Harnesses : active[h] = Cardinality(Of(held, h))
Ordered ==
  /\ \A r \in Requests : ticket[r] < next
  /\ \A q, r \in waiting : ticket[q] = ticket[r] => q = r
Bounded == total <= Total /\ \A h \in Harnesses : active[h] <= Ceiling[h]

LimiterInv == TypeOK /\ Counted /\ Ordered /\ Bounded /\ WorkConserving /\ AbortedNotWaiting

\* Admitting adds as many permits as it takes waiters: nobody is counted twice.
LEMMA DisjointUnion ==
  ASSUME NEW S, NEW T, IsFiniteSet(S), IsFiniteSet(T), S \cap T = {}
  PROVE  /\ IsFiniteSet(S \cup T)
         /\ Cardinality(S) \in Nat /\ Cardinality(T) \in Nat
         /\ Cardinality(S \cup T) = Cardinality(S) + Cardinality(T)
BY FS_Union, FS_EmptySet, FS_CardinalityType

\* What pump is called on: disjoint waiters W and permits H, counted by t and a, in
\* an order f that is one-to-one and bounded.
Pumpable(W, H, f, n, t, a) ==
  /\ W \subseteq Requests /\ H \subseteq Requests /\ W \cap H = {}
  /\ IsFiniteSet(W) /\ IsFiniteSet(H)
  /\ t = Cardinality(H) /\ t <= Total
  /\ a \in [Harnesses -> Nat]
  /\ \A h \in Harnesses : a[h] = Cardinality(Of(H, h)) /\ a[h] <= Ceiling[h]
  /\ f \in [Requests -> Nat] /\ n \in Nat
  /\ \A r \in Requests : f[r] < n
  /\ \A q, r \in W : f[q] = f[r] => q = r

\* One scan stays within the ceilings, keeps the counts and leaves nobody waiting
\* who could run.
LEMMA ScanIsCorrect ==
  ASSUME NEW W, NEW H, NEW f, NEW n, NEW t, NEW a, Pumpable(W, H, f, n, t, a),
         NEW A \in SUBSET W, Admits(A, W, f, t, a)
  PROVE  /\ IsFiniteSet(W \ A) /\ IsFiniteSet(H \cup A)
         /\ t + Cardinality(A) \in Nat
         /\ t + Cardinality(A) = Cardinality(H \cup A)
         /\ t + Cardinality(A) <= Total
         /\ \A h \in Harnesses :
              /\ a[h] + Cardinality(Of(A, h)) \in Nat
              /\ a[h] + Cardinality(Of(A, h)) = Cardinality(Of(H \cup A, h))
              /\ a[h] + Cardinality(Of(A, h)) <= Ceiling[h]
         /\ \A r \in W \ A :
              \/ t + Cardinality(A) >= Total
              \/ a[Harness[r]] + Cardinality(Of(A, Harness[r])) >= Ceiling[Harness[r]]
<1> USE LimiterAssumption
<1>1. IsFiniteSet(A) /\ IsFiniteSet(W \ A) /\ H \cap A = {}
  BY FS_Subset, FS_Difference DEF Pumpable
<1>2. ASSUME NEW S \in SUBSET A
      PROVE  IsFiniteSet(S) /\ Cardinality(S) \in Nat /\ Cardinality(S) <= Cardinality(A)
  BY <1>1, FS_Subset, FS_CardinalityType
<1>3. n \in Nat /\ Ranks(f, A, n)
  BY DEF Pumpable, Ranks
<1>4. /\ IsFiniteSet(H \cup A) /\ t \in Nat /\ Cardinality(A) \in Nat
      /\ Cardinality(H \cup A) = t + Cardinality(A) /\ t + Cardinality(A) \in Nat
  <2>1. IsFiniteSet(H) /\ t = Cardinality(H)
    BY DEF Pumpable
  <2>2. /\ IsFiniteSet(H \cup A) /\ Cardinality(H) \in Nat /\ Cardinality(A) \in Nat
        /\ Cardinality(H \cup A) = Cardinality(H) + Cardinality(A)
    BY <1>1, <2>1, DisjointUnion
  <2> QED BY <2>1, <2>2
<1>5. t + Cardinality(A) <= Total
  <2>1. \A r \in A : t + Cardinality(Before(A, f, r)) < Total
    BY DEF Admits
  <2>2. Total \in Nat /\ t <= Total
    BY DEF Pumpable
  <2> QED BY <1>1, <1>3, <1>4, <2>1, <2>2, ScanStopsAtLimit
<1>6. ASSUME NEW h \in Harnesses
      PROVE  /\ a[h] + Cardinality(Of(A, h)) \in Nat
             /\ a[h] + Cardinality(Of(A, h)) = Cardinality(Of(H \cup A, h))
  <2>1. Of(H \cup A, h) = Of(H, h) \cup Of(A, h) /\ Of(H, h) \cap Of(A, h) = {}
    BY <1>1 DEF Of
  <2>2. IsFiniteSet(Of(H, h)) /\ IsFiniteSet(Of(A, h)) /\ a[h] = Cardinality(Of(H, h))
    BY <1>1, FS_Subset DEF Of, Pumpable
  <2>3. /\ Cardinality(Of(H, h)) \in Nat /\ Cardinality(Of(A, h)) \in Nat
        /\ Cardinality(Of(H \cup A, h)) = Cardinality(Of(H, h)) + Cardinality(Of(A, h))
    BY <2>1, <2>2, DisjointUnion
  <2> QED BY <2>1, <2>2, <2>3
<1>7. ASSUME NEW h \in Harnesses PROVE a[h] + Cardinality(Of(A, h)) <= Ceiling[h]
  <2> DEFINE B == Of(A, h)
  <2>1. ASSUME NEW r \in B PROVE a[h] + Cardinality(Before(B, f, r)) < Ceiling[h]
    <3>1. r \in W /\ r \in A /\ Harness[r] = h
      BY DEF Of
    <3>2. a[h] + Cardinality(Of(Before(A, f, r), h)) < Ceiling[h]
      BY <3>1 DEF Admits
    <3>3. Of(Before(A, f, r), h) = Before(B, f, r)
      BY DEF Of, Before
    <3> QED BY <3>2, <3>3
  <2>2. B \subseteq A
    BY DEF Of
  <2>3. Ranks(f, B, n)
    BY <1>3, <2>2 DEF Ranks
  <2>4. /\ IsFiniteSet(B) /\ a[h] \in Nat /\ Ceiling[h] \in Nat /\ a[h] <= Ceiling[h]
    BY <1>2, <2>2 DEF Pumpable
  <2> HIDE DEF B
  <2>5. a[h] + Cardinality(B) <= Ceiling[h]
    BY <1>3, <2>1, <2>3, <2>4, ScanStopsAtLimit
  <2> QED BY <2>5 DEF B
<1>8. ASSUME NEW r \in W \ A
      PROVE  \/ t + Cardinality(A) >= Total
             \/ a[Harness[r]] + Cardinality(Of(A, Harness[r])) >= Ceiling[Harness[r]]
  <2> DEFINE h == Harness[r]  B == Before(A, f, r)
  <2>1. h \in Harnesses /\ a[h] \in Nat /\ Ceiling[h] \in Nat
    BY DEF Pumpable
  <2>2. t + Cardinality(B) >= Total \/ a[h] + Cardinality(Of(B, h)) >= Ceiling[h]
    <3>1. ~(t + Cardinality(B) < Total /\ a[h] + Cardinality(Of(B, h)) < Ceiling[h])
      BY DEF Admits
    <3>2. Cardinality(B) \in Nat /\ Cardinality(Of(B, h)) \in Nat
      BY <1>2 DEF Before, Of
    <3> QED BY <1>4, <2>1, <3>1, <3>2
  <2>3. Cardinality(B) <= Cardinality(A) /\ Cardinality(B) \in Nat
    BY <1>2 DEF Before
  <2>4. /\ Cardinality(Of(B, h)) <= Cardinality(Of(A, h))
        /\ Cardinality(Of(B, h)) \in Nat /\ Cardinality(Of(A, h)) \in Nat
    <3>1. Of(B, h) \subseteq Of(A, h) /\ Of(A, h) \subseteq A
      BY DEF Of, Before
    <3> QED BY <1>2, <3>1, FS_Subset, FS_CardinalityType
  <2> QED BY <1>4, <2>1, <2>2, <2>3, <2>4
<1>9. \A h \in Harnesses :
        /\ a[h] + Cardinality(Of(A, h)) \in Nat
        /\ a[h] + Cardinality(Of(A, h)) = Cardinality(Of(H \cup A, h))
        /\ a[h] + Cardinality(Of(A, h)) <= Ceiling[h]
  BY <1>6, <1>7
<1> QED BY <1>1, <1>4, <1>5, <1>8, <1>9

\* What a pump leaves, whatever it was called on.
Pumped ==
  /\ waiting' \subseteq Requests /\ held' \subseteq Requests /\ waiting' \cap held' = {}
  /\ total' \in Nat /\ active' \in [Harnesses -> Nat]
  /\ Counted' /\ Bounded' /\ WorkConserving'

\* The same, of the operator Pump that every operation ends with.
LEMMA PumpIsCorrect ==
  ASSUME NEW W, NEW H, NEW t, NEW a,
         Pumpable(W, H, ticket', next', t, a), Pump(W, H, t, a)
  PROVE  Pumped /\ waiting' \subseteq W /\ H \subseteq held' /\ held' \subseteq H \cup W
<1>1. PICK A \in SUBSET W :
        /\ Admits(A, W, ticket', t, a)
        /\ waiting' = W \ A
        /\ held' = H \cup A
        /\ total' = t + Cardinality(A)
        /\ active' = [h \in Harnesses |-> a[h] + Cardinality(Of(A, h))]
  BY DEF Pump
<1>2. /\ IsFiniteSet(W \ A) /\ IsFiniteSet(H \cup A)
      /\ t + Cardinality(A) \in Nat
      /\ t + Cardinality(A) = Cardinality(H \cup A)
      /\ t + Cardinality(A) <= Total
      /\ \A h \in Harnesses :
           /\ a[h] + Cardinality(Of(A, h)) \in Nat
           /\ a[h] + Cardinality(Of(A, h)) = Cardinality(Of(H \cup A, h))
           /\ a[h] + Cardinality(Of(A, h)) <= Ceiling[h]
      /\ \A r \in W \ A :
           \/ t + Cardinality(A) >= Total
           \/ a[Harness[r]] + Cardinality(Of(A, Harness[r])) >= Ceiling[Harness[r]]
  BY <1>1, ScanIsCorrect
<1>3. W \subseteq Requests /\ H \subseteq Requests /\ W \cap H = {}
  BY DEF Pumpable
<1>4. \A r \in W : Harness[r] \in Harnesses
  BY <1>3, LimiterAssumption
<1> QED BY <1>1, <1>2, <1>3, <1>4 DEF Pumped, Counted, Bounded, WorkConserving

\* Each operation calls pump on a queue and permits that its invariant counts.
LEMMA AcquirePumps ==
  ASSUME LimiterInv, NEW r \in Requests, Acquire(r), Signal[r] \notin aborted
  PROVE  /\ Pumpable(waiting \cup {r}, held, ticket', next', total, active)
         /\ Pump(waiting \cup {r}, held, total, active)
         /\ UNCHANGED <<released, aborted, rejected>> /\ Fresh(r)
<1> USE LimiterAssumption
<1>1. /\ ticket' = [ticket EXCEPT ![r] = next] /\ next' = next + 1
      /\ Pump(waiting \cup {r}, held, total, active) /\ Fresh(r)
      /\ UNCHANGED <<released, aborted, rejected>>
  BY DEF Acquire
<1>2. IsFiniteSet(waiting \cup {r})
  BY FS_AddElement DEF LimiterInv, Counted
<1>3. /\ ticket' \in [Requests -> Nat] /\ next' \in Nat
      /\ \A q \in Requests : ticket'[q] < next'
      /\ \A p, q \in waiting \cup {r} : ticket'[p] = ticket'[q] => p = q
  BY <1>1 DEF LimiterInv, TypeOK, Ordered
<1>4. Pumpable(waiting \cup {r}, held, ticket', next', total, active)
  BY <1>1, <1>2, <1>3 DEF LimiterInv, TypeOK, Counted, Bounded, Pumpable, Fresh
<1> QED BY <1>1, <1>4

FreeSlot(r) == [active EXCEPT ![Harness[r]] = @ - 1]

\* With one slot given back, the counters count the other permits.
LEMMA FreeSlotCounts ==
  ASSUME LimiterInv, NEW r \in held
  PROVE  Pumpable(waiting, held \ {r}, ticket, next, total - 1, FreeSlot(r))
<1> USE LimiterAssumption
<1> DEFINE h == Harness[r]  a == FreeSlot(r)
<1>1. r \in held /\ r \in Requests
  BY DEF LimiterInv, TypeOK
<1>2. IsFiniteSet(held \ {r}) /\ total - 1 = Cardinality(held \ {r}) /\ total \in Nat
  BY <1>1, FS_RemoveElement DEF LimiterInv, Counted, TypeOK
<1>3. ASSUME NEW g \in Harnesses
      PROVE  a[g] \in Nat /\ a[g] = Cardinality(Of(held \ {r}, g)) /\ a[g] <= Ceiling[g]
  <2>1. IsFiniteSet(Of(held, g)) /\ active[g] = Cardinality(Of(held, g))
    BY FS_Subset DEF LimiterInv, Counted, Of
  <2>2. Of(held \ {r}, g) = IF g = h THEN Of(held, g) \ {r} ELSE Of(held, g)
    BY DEF Of
  <2>3. g = h => r \in Of(held, g)
    BY <1>1 DEF Of
  <2>4. /\ IsFiniteSet(Of(held, g) \ {r})
        /\ Cardinality(Of(held, g) \ {r}) \in Nat
        /\ g = h => Cardinality(Of(held, g) \ {r}) = active[g] - 1
    <3>1. CASE g = h
      BY <2>1, <2>3, <3>1, FS_RemoveElement, FS_CardinalityType
    <3>2. CASE g # h
      BY <2>1, <3>2, FS_Difference, FS_CardinalityType
    <3> QED BY <3>1, <3>2
  <2>5. a[g] = IF g = h THEN active[g] - 1 ELSE active[g]
    BY DEF LimiterInv, TypeOK, FreeSlot
  <2>6. active[g] \in Nat /\ active[g] <= Ceiling[g] /\ Ceiling[g] \in Nat
    BY DEF LimiterInv, TypeOK, Bounded
  <2> QED BY <2>1, <2>2, <2>4, <2>5, <2>6
<1>4. a \in [Harnesses -> Nat]
  BY <1>3 DEF LimiterInv, TypeOK, FreeSlot
<1>5. Cardinality(held \ {r}) \in Nat /\ total - 1 <= Total
  BY <1>2, FS_CardinalityType DEF LimiterInv, Bounded
<1> HIDE DEF a
<1>6. Pumpable(waiting, held \ {r}, ticket, next, total - 1, a)
  BY <1>1, <1>2, <1>3, <1>4, <1>5 DEF LimiterInv, TypeOK, Counted, Ordered, Pumpable
<1> QED BY <1>6 DEF a

\* release gives back one slot of the total and one of its harness, then pumps.
LEMMA ReleasePumps ==
  ASSUME LimiterInv, NEW r \in Requests, Release(r)
  PROVE  /\ Pumpable(waiting, held \ {r}, ticket', next', total - 1, FreeSlot(r))
         /\ Pump(waiting, held \ {r}, total - 1, FreeSlot(r))
         /\ r \in held /\ released' = released \cup {r}
         /\ UNCHANGED <<ticket, next, rejected, aborted>>
<1>1. /\ r \in held /\ released' = released \cup {r}
      /\ UNCHANGED <<ticket, next, rejected, aborted>>
      /\ Pump(waiting, held \ {r}, total - 1, FreeSlot(r))
  BY DEF Release, FreeSlot
<1>2. Pumpable(waiting, held \ {r}, ticket, next, total - 1, FreeSlot(r))
  BY <1>1, FreeSlotCounts
<1> QED BY <1>1, <1>2

\* The abort listener takes its waiters out of the queue, then pumps.
LEMMA DropPumps ==
  ASSUME LimiterInv, NEW R \in SUBSET waiting, Drop(R)
  PROVE  /\ Pumpable(waiting \ R, held, ticket', next', total, active)
         /\ Pump(waiting \ R, held, total, active)
         /\ rejected' = rejected \cup R
         /\ UNCHANGED <<ticket, next, released>>
<1>1. /\ rejected' = rejected \cup R /\ UNCHANGED <<ticket, next, released>>
      /\ Pump(waiting \ R, held, total, active)
  BY DEF Drop
<1>2. IsFiniteSet(waiting \ R)
  BY FS_Difference DEF LimiterInv, Counted
<1>3. Pumpable(waiting \ R, held, ticket', next', total, active)
  BY <1>1, <1>2 DEF LimiterInv, TypeOK, Counted, Ordered, Bounded, Pumpable
<1> QED BY <1>1, <1>3

LEMMA LimiterInit ==
  ASSUME Init
  PROVE  LimiterInv
<1>1. \A h \in Harnesses : Of(held, h) = {}
  BY DEF Init, Of
<1>2. TypeOK /\ Ordered /\ WorkConserving /\ AbortedNotWaiting
  BY DEF Init, TypeOK, Ordered, WorkConserving, AbortedNotWaiting
<1>3. Counted /\ Bounded
  BY <1>1, FS_EmptySet, LimiterAssumption DEF Init, Counted, Bounded
<1> QED BY <1>2, <1>3 DEF LimiterInv

\* Every operation keeps the invariant.
LEMMA LimiterStep ==
  ASSUME LimiterInv, [Next]_vars
  PROVE  LimiterInv'
<1> USE LimiterAssumption
<1>1. ASSUME NEW r \in Requests, Acquire(r), Signal[r] \in aborted PROVE LimiterInv'
  <2>1. /\ UNCHANGED <<waiting, ticket, next, held, total, active, released, aborted>>
        /\ rejected' = rejected \cup {r} /\ Fresh(r)
    BY <1>1 DEF Acquire
  <2> QED BY <2>1 DEF LimiterInv, TypeOK, Counted, Ordered, Bounded, WorkConserving,
                      AbortedNotWaiting, Fresh
<1>2. ASSUME NEW r \in Requests, Acquire(r), Signal[r] \notin aborted PROVE LimiterInv'
  <2>1. /\ Pumpable(waiting \cup {r}, held, ticket', next', total, active)
        /\ Pump(waiting \cup {r}, held, total, active)
        /\ UNCHANGED <<released, aborted, rejected>> /\ Fresh(r)
    BY <1>2, AcquirePumps
  <2>2. Pumped /\ waiting' \subseteq waiting \cup {r}
        /\ held' \subseteq held \cup (waiting \cup {r})
    BY <2>1, PumpIsCorrect
  <2> QED BY <1>2, <2>1, <2>2 DEF LimiterInv, TypeOK, Ordered, AbortedNotWaiting, Pumped,
                                  Pumpable, Fresh
<1>3. ASSUME NEW r \in Requests, Release(r) PROVE LimiterInv'
  <2>1. /\ Pumpable(waiting, held \ {r}, ticket', next', total - 1, FreeSlot(r))
        /\ Pump(waiting, held \ {r}, total - 1, FreeSlot(r))
        /\ r \in held /\ released' = released \cup {r}
        /\ UNCHANGED <<ticket, next, rejected, aborted>>
    BY <1>3, ReleasePumps
  <2>2. Pumped /\ waiting' \subseteq waiting /\ held' \subseteq (held \ {r}) \cup waiting
    BY <2>1, PumpIsCorrect
  <2> QED BY <2>1, <2>2 DEF LimiterInv, TypeOK, Ordered, AbortedNotWaiting, Pumped
<1>4. ASSUME NEW s \in Signals, Abort(s) PROVE LimiterInv'
  <2> DEFINE R == {r \in waiting : Signal[r] = s}
  <2>1. aborted' = aborted \cup {s} /\ Drop(R) /\ R \in SUBSET waiting
    BY <1>4 DEF Abort
  <2> HIDE DEF R
  <2>2. /\ Pumpable(waiting \ R, held, ticket', next', total, active)
        /\ Pump(waiting \ R, held, total, active)
        /\ rejected' = rejected \cup R
        /\ UNCHANGED <<ticket, next, released>>
    BY <2>1, DropPumps
  <2>3. Pumped /\ waiting' \subseteq waiting \ R /\ held' \subseteq held \cup (waiting \ R)
    BY <2>2, PumpIsCorrect
  <2>4. TypeOK'
    BY <2>1, <2>2, <2>3 DEF LimiterInv, TypeOK, Pumped
  <2>5. Ordered' /\ AbortedNotWaiting'
    BY <2>1, <2>2, <2>3 DEF LimiterInv, Ordered, AbortedNotWaiting, R
  <2> QED BY <2>3, <2>4, <2>5 DEF LimiterInv, Pumped
<1>5. CASE UNCHANGED vars
  BY <1>5 DEF vars, LimiterInv, TypeOK, Counted, Ordered, Bounded, WorkConserving,
              AbortedNotWaiting
<1> QED BY <1>1, <1>2, <1>3, <1>4, <1>5 DEF Next, ReleaseAgain

\* agent-limiter.ts: in every reachable state the types hold, total and active[h] count
\* the permits out, tickets order the queue, the ceilings hold, no waiter could run
\* and no waiter's signal has fired.
THEOREM LimiterInvariant == Spec => []LimiterInv
<1>1. Init => LimiterInv
  BY LimiterInit
<1>2. LimiterInv /\ [Next]_vars => LimiterInv'
  BY LimiterStep
<1> QED BY <1>1, <1>2, PTL DEF Spec

\* agent-limiter.ts, "Maximum live harness invocations across all providers" and the
\* ceilings by harness: never more permits out than either allows.
THEOREM CeilingsAlwaysHold == Spec => []CeilingsHold
<1>1. LimiterInv => CeilingsHold
  BY DEF LimiterInv, Counted, Bounded, CeilingsHold
<1> QED BY <1>1, LimiterInvariant, PTL

\* pump leaves no waiter that could run, after any acquire, release or abort.
THEOREM AlwaysWorkConserving == Spec => []WorkConserving
<1>1. LimiterInv => WorkConserving
  BY DEF LimiterInv
<1> QED BY <1>1, LimiterInvariant, PTL

\* A pump lets r past an earlier waiter q only if q's harness is full afterwards.
LEMMA PumpIsFifo ==
  ASSUME NEW W, NEW H, NEW t, NEW a, NEW n,
         Pumpable(W, H, ticket', n, t, a), Pump(W, H, t, a),
         NEW r \in held' \ H, NEW q \in waiting', ticket'[q] < ticket'[r]
  PROVE  active'[Harness[q]] >= Ceiling[Harness[q]]
<1> USE LimiterAssumption
<1>1. PICK A \in SUBSET W :
        /\ Admits(A, W, ticket', t, a)
        /\ waiting' = W \ A
        /\ held' = H \cup A
        /\ active' = [h \in Harnesses |-> a[h] + Cardinality(Of(A, h))]
  BY DEF Pump
<1> DEFINE h == Harness[q]  Bq == Before(A, ticket', q)  Br == Before(A, ticket', r)
<1>2. r \in A /\ q \in W \ A /\ h \in Harnesses /\ ticket' \in [Requests -> Nat]
      /\ r \in Requests /\ q \in Requests /\ A \subseteq Requests /\ IsFiniteSet(A)
  <2>1. IsFiniteSet(A)
    BY FS_Subset DEF Pumpable
  <2> QED BY <1>1, <2>1 DEF Pumpable
<1>3. Bq \subseteq Br /\ Br \subseteq A
  BY <1>2 DEF Before
<1>4. /\ Cardinality(Bq) \in Nat /\ Cardinality(Br) \in Nat
      /\ Cardinality(Bq) <= Cardinality(Br)
  BY <1>2, <1>3, FS_Subset, FS_CardinalityType
<1>5. t \in Nat /\ t + Cardinality(Br) < Total
  <2>1. t \in Nat
    BY FS_CardinalityType DEF Pumpable
  <2> QED BY <1>1, <1>2, <2>1 DEF Admits
<1>6. t + Cardinality(Bq) < Total
  BY <1>4, <1>5
<1>7. ~(a[h] + Cardinality(Of(Bq, h)) < Ceiling[h])
  BY <1>1, <1>2, <1>6 DEF Admits
<1>8. /\ Cardinality(Of(Bq, h)) \in Nat /\ Cardinality(Of(A, h)) \in Nat
      /\ Cardinality(Of(Bq, h)) <= Cardinality(Of(A, h))
  <2>1. Of(Bq, h) \subseteq Of(A, h) /\ Of(A, h) \subseteq A
    BY DEF Of, Before
  <2> QED BY <1>2, <2>1, FS_Subset, FS_CardinalityType
<1>9. a[h] \in Nat /\ Ceiling[h] \in Nat /\ active'[h] = a[h] + Cardinality(Of(A, h))
  BY <1>1, <1>2 DEF Pumpable
<1> QED BY <1>7, <1>8, <1>9

\* No operation admits past a waiter that could run.
LEMMA StepIsFifo ==
  ASSUME LimiterInv, [Next]_vars, NEW r \in Requests, NEW q \in Requests, Overtakes(r, q)
  PROVE  active'[Harness[q]] >= Ceiling[Harness[q]]
<1> USE DEF Overtakes
<1>1. ASSUME NEW x \in Requests, Acquire(x), Signal[x] \notin aborted
      PROVE  active'[Harness[q]] >= Ceiling[Harness[q]]
  BY <1>1, AcquirePumps, PumpIsFifo
<1>2. ASSUME NEW x \in Requests, Release(x)
      PROVE  active'[Harness[q]] >= Ceiling[Harness[q]]
  <2>1. r \in held' \ (held \ {x})
    OBVIOUS
  <2> QED BY <1>2, <2>1, ReleasePumps, PumpIsFifo
<1>3. ASSUME NEW s \in Signals, Abort(s)
      PROVE  active'[Harness[q]] >= Ceiling[Harness[q]]
  <2> DEFINE R == {p \in waiting : Signal[p] = s}
  <2>1. Drop(R) /\ R \in SUBSET waiting
    BY <1>3 DEF Abort
  <2> HIDE DEF R
  <2> QED BY <2>1, DropPumps, PumpIsFifo
<1>4. ~UNCHANGED held
  OBVIOUS
<1> QED BY <1>1, <1>2, <1>3, <1>4 DEF Next, Acquire, ReleaseAgain, vars

\* "Admit FIFO among eligible requests", as a fact about every step.
THEOREM AlwaysEligibleFifo == Spec => EligibleFifo
<1>1. LimiterInv /\ [Next]_vars =>
        \A r, q \in Requests : Overtakes(r, q) => active'[Harness[q]] >= Ceiling[Harness[q]]
  BY StepIsFifo
<1> QED BY <1>1, LimiterInvariant, PTL DEF Spec, EligibleFifo

-----------------------------------------------------------------------------
(* The budgets, and the limiter that runs share.                           *)

\* A request that a budget has refused is never queued, nor holds a permit again, and its
\* run's budget has latched; a permit is not released and rejected.
Places ==
  /\ (draining \cup refused) \cap (waiting \cup held) = {}
  /\ released \cap rejected = {}
  /\ \A r \in draining \cup refused : Run[r] \in stopped

\* Attempts of run u whose cost is not recorded yet: each will cost the greatest at most.
Invoking(u) == {r \in held \cap inside : Run[r] = u}
CostReserved ==
  \A u \in Runs : MaxCost[u] # Uncapped =>
    \/ Invoking(u) = {} /\ spent[u] = 0
    \/ spent[u] + Cardinality(Invoking(u)) * Greatest(Costs) < MaxCost[u] + Total * Greatest(Costs)

AdmissionInv ==
  /\ LimiterInv /\ AdmissionTypeOK /\ Places /\ AttemptsWithinCap /\ CostReserved
  /\ RefusedRunIsIdle

-----------------------------------------------------------------------------
(* The limiter under the budgets' calls.                                   *)

\* A refusal gives a permit back and drops the run's waiters, with one pump for both.
LEMMA ReleaseAndDropPumps ==
  ASSUME LimiterInv, NEW r \in held, NEW R \in SUBSET waiting, ReleaseAndDrop(r, R)
  PROVE  /\ Pumpable(waiting \ R, held \ {r}, ticket', next', total - 1, FreeSlot(r))
         /\ Pump(waiting \ R, held \ {r}, total - 1, FreeSlot(r))
         /\ released' = released \cup {r} /\ rejected' = rejected \cup R
         /\ UNCHANGED <<ticket, next, aborted>>
<1> USE LimiterAssumption
<1>1. /\ released' = released \cup {r} /\ rejected' = rejected \cup R
      /\ UNCHANGED <<ticket, next, aborted>>
      /\ Pump(waiting \ R, held \ {r}, total - 1, FreeSlot(r))
  BY DEF ReleaseAndDrop, FreeSlot
<1>2. r \in Requests
  BY DEF LimiterInv, TypeOK
<1>3. Pumpable(waiting, held \ {r}, ticket, next, total - 1, FreeSlot(r))
  BY <1>2, FreeSlotCounts
<1>4. IsFiniteSet(waiting \ R)
  BY FS_Difference DEF LimiterInv, Counted
<1> QED BY <1>1, <1>3, <1>4 DEF Pumpable

\* What a step of the admission does to the limiter: one of its own operations, or a drop
\* of a run's waiters, with or without a permit that goes back.
LimiterMoves ==
  \/ [Next]_vars
  \/ \E R \in SUBSET waiting : Drop(R) /\ UNCHANGED aborted
  \/ \E r \in held, R \in SUBSET waiting : ReleaseAndDrop(r, R)

LEMMA AdmissionMoves ==
  ASSUME LimiterInv, [AdmissionNext]_all
  PROVE  LimiterMoves
<1>1. ASSUME NEW r \in Requests, Ask(r) PROVE LimiterMoves
  <2>1. Queued(Run[r]) \in SUBSET waiting
    BY DEF Queued
  <2> QED BY <1>1, <2>1 DEF Ask, LimiterMoves, Next
<1>2. ASSUME NEW r \in Requests, Enter(r) PROVE LimiterMoves
  <2>1. Queued(Run[r]) \in SUBSET waiting /\ r \in held
    BY <1>2 DEF Queued, Enter, Granted
  <2> QED BY <1>2, <2>1 DEF Enter, LimiterMoves
<1>3. ASSUME NEW r \in Requests, Rejected(r) \/ Deliver(r) PROVE LimiterMoves
  BY <1>3 DEF Rejected, Deliver, LimiterMoves
<1>4. ASSUME NEW r \in Requests, Invoked(r) \/ Finish(r) PROVE LimiterMoves
  BY <1>4 DEF Invoked, Finish, LimiterMoves, Next
<1>5. ASSUME NEW s \in Signals, Cancel(s) PROVE LimiterMoves
  BY <1>5 DEF Cancel, LimiterMoves, Next
<1>6. CASE UNCHANGED all
  BY <1>6 DEF all, LimiterMoves
<1> QED BY <1>1, <1>2, <1>3, <1>4, <1>5, <1>6 DEF AdmissionNext

LEMMA DropKeepsLimiter ==
  ASSUME LimiterInv, NEW R \in SUBSET waiting, Drop(R), UNCHANGED aborted
  PROVE  LimiterInv' /\ waiting' \subseteq waiting /\ held \subseteq held'
         /\ held' \subseteq held \cup waiting
<1>1. /\ Pumpable(waiting \ R, held, ticket', next', total, active)
      /\ Pump(waiting \ R, held, total, active)
      /\ rejected' = rejected \cup R /\ UNCHANGED <<ticket, next, released>>
  BY DropPumps
<1>2. Pumped /\ waiting' \subseteq waiting \ R /\ held \subseteq held'
      /\ held' \subseteq held \cup (waiting \ R)
  BY <1>1, PumpIsCorrect
<1>3. TypeOK'
  BY <1>1, <1>2 DEF LimiterInv, TypeOK, Pumped
<1> QED BY <1>1, <1>2, <1>3 DEF LimiterInv, Ordered, AbortedNotWaiting, Pumped

LEMMA ReleaseAndDropKeepsLimiter ==
  ASSUME LimiterInv, NEW r \in held, NEW R \in SUBSET waiting, ReleaseAndDrop(r, R)
  PROVE  LimiterInv' /\ waiting' \subseteq waiting /\ held \ {r} \subseteq held'
         /\ held' \subseteq (held \ {r}) \cup waiting
<1>1. /\ Pumpable(waiting \ R, held \ {r}, ticket', next', total - 1, FreeSlot(r))
      /\ Pump(waiting \ R, held \ {r}, total - 1, FreeSlot(r))
      /\ released' = released \cup {r} /\ rejected' = rejected \cup R
      /\ UNCHANGED <<ticket, next, aborted>>
  BY ReleaseAndDropPumps
<1>2. Pumped /\ waiting' \subseteq waiting \ R /\ held \ {r} \subseteq held'
      /\ held' \subseteq (held \ {r}) \cup (waiting \ R)
  BY <1>1, PumpIsCorrect
<1>3. TypeOK'
  BY <1>1, <1>2 DEF LimiterInv, TypeOK, Pumped
<1> QED BY <1>1, <1>2, <1>3 DEF LimiterInv, Ordered, AbortedNotWaiting, Pumped

LEMMA MovesKeepLimiter ==
  ASSUME LimiterInv, LimiterMoves
  PROVE  LimiterInv'
BY LimiterStep, DropKeepsLimiter, ReleaseAndDropKeepsLimiter DEF LimiterMoves

LEMMA MovesAreFifo ==
  ASSUME LimiterInv, LimiterMoves, NEW r \in Requests, NEW q \in Requests, Overtakes(r, q)
  PROVE  active'[Harness[q]] >= Ceiling[Harness[q]]
<1>1. r \in held' \ held /\ q \in waiting' /\ ticket'[q] < ticket'[r]
  BY DEF Overtakes
<1>2. ASSUME NEW R \in SUBSET waiting, Drop(R) PROVE active'[Harness[q]] >= Ceiling[Harness[q]]
  BY <1>1, <1>2, DropPumps, PumpIsFifo
<1>3. ASSUME NEW x \in held, NEW R \in SUBSET waiting, ReleaseAndDrop(x, R)
      PROVE  active'[Harness[q]] >= Ceiling[Harness[q]]
  <2>1. r \in held' \ (held \ {x})
    BY <1>1
  <2> QED BY <1>1, <1>3, <2>1, ReleaseAndDropPumps, PumpIsFifo
<1> QED BY <1>2, <1>3, StepIsFifo DEF LimiterMoves

\* agent-limiter.ts under run-budget.ts: the ceilings hold, nobody who could run is left
\* waiting, and the order is first in, first out among the eligible, however the budgets
\* refuse, drop and release.
THEOREM AdmissionLimiter == AdmissionSpec => [](CeilingsHold /\ WorkConserving) /\ EligibleFifo
<1>1. AdmissionInit => LimiterInv
  BY LimiterInit DEF AdmissionInit
<1>2. LimiterInv /\ [AdmissionNext]_all => LimiterInv'
  BY AdmissionMoves, MovesKeepLimiter
<1>3. LimiterInv => CeilingsHold /\ WorkConserving
  BY DEF LimiterInv, Counted, Bounded, CeilingsHold
<1>4. LimiterInv /\ [AdmissionNext]_all =>
        \A r, q \in Requests : Overtakes(r, q) => active'[Harness[q]] >= Ceiling[Harness[q]]
  BY AdmissionMoves, MovesAreFifo
<1> QED BY <1>1, <1>2, <1>3, <1>4, PTL DEF AdmissionSpec, EligibleFifo

-----------------------------------------------------------------------------
(* The budgets.                                                            *)

\* What each action does to the limiter's sets.
LEMMA AcquireSets ==
  ASSUME LimiterInv, NEW r \in Requests, Acquire(r)
  PROVE  /\ r \notin waiting \cup held \cup released \cup rejected
         /\ waiting' \cup held' \subseteq waiting \cup held \cup {r} /\ held \subseteq held'
         /\ released' = released /\ rejected \subseteq rejected' /\ rejected' \subseteq rejected \cup {r}
<1>1. Fresh(r) /\ released' = released
  BY DEF Acquire
<1>2. CASE Signal[r] \in aborted
  BY <1>1, <1>2 DEF Acquire, Fresh
<1>3. CASE Signal[r] \notin aborted
  <2>1. /\ Pumpable(waiting \cup {r}, held, ticket', next', total, active)
        /\ Pump(waiting \cup {r}, held, total, active) /\ UNCHANGED rejected
    BY <1>3, AcquirePumps
  <2>2. waiting' \subseteq waiting \cup {r} /\ held \subseteq held'
        /\ held' \subseteq held \cup (waiting \cup {r})
    BY <2>1, PumpIsCorrect
  <2> QED BY <1>1, <2>1, <2>2 DEF Fresh
<1> QED BY <1>2, <1>3

LEMMA ReleaseSets ==
  ASSUME LimiterInv, NEW r \in Requests, Release(r)
  PROVE  /\ r \in held /\ waiting' \subseteq waiting /\ held' \subseteq (held \ {r}) \cup waiting
         /\ held \ {r} \subseteq held'
         /\ released' = released \cup {r} /\ rejected' = rejected
<1>1. /\ Pumpable(waiting, held \ {r}, ticket', next', total - 1, FreeSlot(r))
      /\ Pump(waiting, held \ {r}, total - 1, FreeSlot(r))
      /\ r \in held /\ released' = released \cup {r} /\ rejected' = rejected
  BY ReleasePumps
<1>2. waiting' \subseteq waiting /\ held \ {r} \subseteq held' /\ held' \subseteq (held \ {r}) \cup waiting
  BY <1>1, PumpIsCorrect
<1> QED BY <1>1, <1>2

LEMMA DropSets ==
  ASSUME LimiterInv, NEW R \in SUBSET waiting, Drop(R)
  PROVE  /\ waiting' \subseteq waiting /\ held' \subseteq held \cup waiting /\ held \subseteq held'
         /\ released' = released /\ rejected' = rejected \cup R
<1>1. /\ Pumpable(waiting \ R, held, ticket', next', total, active)
      /\ Pump(waiting \ R, held, total, active)
      /\ rejected' = rejected \cup R /\ released' = released
  BY DropPumps
<1>2. waiting' \subseteq waiting \ R /\ held \subseteq held' /\ held' \subseteq held \cup (waiting \ R)
  BY <1>1, PumpIsCorrect
<1> QED BY <1>1, <1>2

LEMMA RefusalSets ==
  ASSUME LimiterInv, NEW r \in held, NEW R \in SUBSET waiting, ReleaseAndDrop(r, R)
  PROVE  /\ waiting' \subseteq waiting /\ held' \subseteq (held \ {r}) \cup waiting
         /\ held \ {r} \subseteq held'
         /\ released' = released \cup {r} /\ rejected' = rejected \cup R
<1>1. /\ Pumpable(waiting \ R, held \ {r}, ticket', next', total - 1, FreeSlot(r))
      /\ Pump(waiting \ R, held \ {r}, total - 1, FreeSlot(r))
      /\ released' = released \cup {r} /\ rejected' = rejected \cup R
  BY ReleaseAndDropPumps
<1>2. waiting' \subseteq waiting \ R /\ held \ {r} \subseteq held'
      /\ held' \subseteq (held \ {r}) \cup (waiting \ R)
  BY <1>1, PumpIsCorrect
<1> QED BY <1>1, <1>2

\* The budgets' sets and the limiter's, without the numbers.
Sound == AdmissionTypeOK /\ Places /\ RefusedRunIsIdle

LEMMA SoundStep ==
  ASSUME LimiterInv, LimiterInv', Sound, [AdmissionNext]_all
  PROVE  Sound'
<1> USE AdmissionAssumption, LimiterAssumption DEF Sound
<1>0. /\ waiting \subseteq Requests /\ held \subseteq Requests
      /\ released \subseteq Requests /\ rejected \subseteq Requests
      /\ waiting \cap held = {} /\ (waiting \cup held) \cap (released \cup rejected) = {}
  BY DEF LimiterInv, TypeOK
<1>1. ASSUME NEW r \in Requests, Ask(r) PROVE Sound'
  <2>1. CASE Exceeded(Run[r])
    <3> DEFINE R == Queued(Run[r])
    <3>1. /\ R \in SUBSET waiting /\ Drop(R) /\ Fresh(r) /\ Run[r] \in Runs
          /\ stopped' = stopped \cup {Run[r]} /\ draining' = draining \cup {r}
          /\ UNCHANGED <<attempts, spent, inside, finished, refused, cancelled>>
      BY <1>1, <2>1 DEF Ask, Queued
    <3> HIDE DEF R
    <3>2. /\ waiting' \subseteq waiting /\ held' \subseteq held \cup waiting /\ held \subseteq held'
          /\ released' = released /\ rejected' = rejected \cup R
      BY <3>1, DropSets
    <3> QED BY <1>0, <3>1, <3>2 DEF AdmissionTypeOK, Places, RefusedRunIsIdle, Fresh
  <2>2. CASE ~Exceeded(Run[r])
    <3>1. /\ Acquire(r) /\ r \notin draining \cup refused
          /\ UNCHANGED <<stopped, draining, attempts, spent, inside, finished, refused, cancelled>>
      BY <1>1, <2>2 DEF Ask
    <3>2. /\ r \notin waiting \cup held \cup released \cup rejected
          /\ waiting' \cup held' \subseteq waiting \cup held \cup {r} /\ held \subseteq held'
          /\ released' = released /\ rejected \subseteq rejected' /\ rejected' \subseteq rejected \cup {r}
      BY <3>1, AcquireSets
    <3> QED BY <1>0, <3>1, <3>2 DEF AdmissionTypeOK, Places, RefusedRunIsIdle
  <2> QED BY <2>1, <2>2
<1>2. ASSUME NEW r \in Requests, Enter(r) PROVE Sound'
  <2>0. r \in held /\ r \notin inside /\ UNCHANGED <<spent, finished, refused, cancelled>>
        /\ Run[r] \in Runs
    BY <1>2 DEF Enter, Granted
  <2>1. CASE Exceeded(Run[r])
    <3> DEFINE R == Queued(Run[r])
    <3>1. /\ R \in SUBSET waiting /\ ReleaseAndDrop(r, R)
          /\ stopped' = stopped \cup {Run[r]} /\ draining' = draining \cup {r}
          /\ UNCHANGED <<attempts, inside>>
      BY <1>2, <2>1 DEF Enter, Queued
    <3> HIDE DEF R
    <3>2. /\ waiting' \subseteq waiting /\ held' \subseteq (held \ {r}) \cup waiting
          /\ held \ {r} \subseteq held'
          /\ released' = released \cup {r} /\ rejected' = rejected \cup R
      BY <2>0, <3>1, RefusalSets
    <3> QED BY <1>0, <2>0, <3>1, <3>2 DEF AdmissionTypeOK, Places, RefusedRunIsIdle
  <2>2. CASE ~Exceeded(Run[r])
    <3>1. /\ attempts' = [attempts EXCEPT ![Run[r]] = @ + 1] /\ inside' = inside \cup {r}
          /\ UNCHANGED <<waiting, held, released, rejected, stopped, draining>>
          /\ Run[r] \notin stopped
      BY <1>2, <2>2 DEF Enter, Exceeded, vars
    <3>2. \A q \in refused : Run[q] # Run[r]
      BY <3>1 DEF Places
    <3>3. attempts' \in [Runs -> Nat]
      BY <3>1 DEF AdmissionTypeOK
    <3>4. RefusedRunIsIdle'
      BY <2>0, <3>1, <3>2 DEF RefusedRunIsIdle
    <3>5. r \notin draining \cup refused \cup cancelled \cup finished
      BY <1>0, <2>0 DEF AdmissionTypeOK, Places
    <3>6. Places'
      BY <2>0, <3>1 DEF Places
    <3> QED BY <1>0, <2>0, <3>1, <3>3, <3>4, <3>5, <3>6 DEF AdmissionTypeOK
  <2> QED BY <2>1, <2>2
<1>3. ASSUME NEW r \in Requests, Rejected(r) PROVE Sound'
  <2>1. /\ r \in rejected \ (draining \cup refused \cup cancelled)
        /\ UNCHANGED <<waiting, held, released, rejected, attempts, spent, stopped, inside, finished, refused>>
        /\ \/ Run[r] \in stopped /\ draining' = draining \cup {r} /\ UNCHANGED cancelled
           \/ cancelled' = cancelled \cup {r} /\ UNCHANGED draining
    BY <1>3 DEF Rejected, vars
  <2>2. r \notin inside \cup finished \cup waiting \cup held
    BY <1>0, <2>1 DEF AdmissionTypeOK, Places
  <2> QED BY <1>0, <2>1, <2>2 DEF AdmissionTypeOK, Places, RefusedRunIsIdle
<1>4. ASSUME NEW r \in Requests, Invoked(r) PROVE Sound'
  <2>1. /\ r \in held \cap inside /\ Release(r)
        /\ UNCHANGED <<attempts, stopped, inside, finished, draining, refused, cancelled>>
    BY <1>4 DEF Invoked
  <2>2. /\ waiting' \subseteq waiting /\ held' \subseteq (held \ {r}) \cup waiting
        /\ held \ {r} \subseteq held'
        /\ released' = released \cup {r} /\ rejected' = rejected
    BY <2>1, ReleaseSets
  <2>3. spent' \in [Runs -> Nat]
    <3>1. PICK c \in Costs : spent' = [spent EXCEPT ![Run[r]] = @ + c]
      BY <1>4 DEF Invoked
    <3>2. c \in Nat
      OBVIOUS
    <3> QED BY <3>1, <3>2 DEF AdmissionTypeOK
  <2> QED BY <1>0, <2>1, <2>2, <2>3 DEF AdmissionTypeOK, Places, RefusedRunIsIdle
<1>5. ASSUME NEW r \in Requests, Finish(r) PROVE Sound'
  <2>1. /\ r \in inside /\ inside' = inside \ {r} /\ finished' = finished \cup {r}
        /\ UNCHANGED <<attempts, spent, stopped, draining, refused, cancelled>>
    BY <1>5 DEF Finish
  <2>2. /\ waiting' \subseteq waiting /\ held' \subseteq held \cup waiting
        /\ held \ {r} \subseteq held' /\ released' = released \cup {r} /\ rejected' = rejected
        /\ r \in held \/ held' = held
    <3>1. CASE Release(r)
      BY <3>1, ReleaseSets
    <3>2. CASE ReleaseAgain(r)
      BY <3>2 DEF ReleaseAgain, vars
    <3> QED BY <1>5, <3>1, <3>2 DEF Finish
  <2> QED BY <1>0, <2>1, <2>2 DEF AdmissionTypeOK, Places, RefusedRunIsIdle
<1>6. ASSUME NEW r \in Requests, Deliver(r) PROVE Sound'
  <2>1. /\ r \in draining /\ \A q \in inside : Run[q] # Run[r]
        /\ draining' = draining \ {r} /\ refused' = refused \cup {r}
        /\ UNCHANGED <<waiting, held, released, rejected, attempts, spent, stopped, inside, finished, cancelled>>
    BY <1>6 DEF Deliver, vars
  <2> QED BY <2>1 DEF AdmissionTypeOK, Places, RefusedRunIsIdle
<1>7. ASSUME NEW s \in Signals, Cancel(s) PROVE Sound'
  <2> DEFINE R == {r \in waiting : Signal[r] = s}
  <2>1. /\ R \in SUBSET waiting /\ Drop(R)
        /\ UNCHANGED <<attempts, spent, stopped, inside, finished, draining, refused, cancelled>>
    BY <1>7 DEF Cancel, Abort, budget
  <2> HIDE DEF R
  <2>2. /\ waiting' \subseteq waiting /\ held' \subseteq held \cup waiting /\ held \subseteq held'
        /\ released' = released /\ rejected' = rejected \cup R
    BY <2>1, DropSets
  <2> QED BY <1>0, <2>1, <2>2 DEF AdmissionTypeOK, Places, RefusedRunIsIdle
<1>8. CASE UNCHANGED all
  BY <1>8 DEF all, vars, budget, AdmissionTypeOK, Places, RefusedRunIsIdle
<1> QED BY <1>1, <1>2, <1>3, <1>4, <1>5, <1>6, <1>7, <1>8 DEF AdmissionNext

LEMMA AttemptsStep ==
  ASSUME AdmissionTypeOK, AttemptsWithinCap, [AdmissionNext]_all
  PROVE  AttemptsWithinCap'
<1> USE AdmissionAssumption
<1>1. ASSUME NEW r \in Requests, Enter(r) PROVE AttemptsWithinCap'
  <2>1. CASE Exceeded(Run[r])
    BY <1>1, <2>1 DEF Enter, AttemptsWithinCap
  <2>2. CASE ~Exceeded(Run[r])
    <3>1. attempts' = [attempts EXCEPT ![Run[r]] = @ + 1] /\ Run[r] \in Runs
      BY <1>1, <2>2 DEF Enter
    <3>2. MaxAttempts[Run[r]] # Uncapped => attempts[Run[r]] + 1 <= MaxAttempts[Run[r]]
      BY <2>2, <3>1 DEF Exceeded, Reached, AdmissionTypeOK
    <3> QED BY <3>1, <3>2 DEF AttemptsWithinCap, AdmissionTypeOK
  <2> QED BY <2>1, <2>2
<1>2. ASSUME UNCHANGED attempts PROVE AttemptsWithinCap'
  BY <1>2 DEF AttemptsWithinCap
<1> QED BY <1>1, <1>2 DEF AdmissionNext, Ask, Rejected, Invoked, Finish, Deliver, Cancel, budget, all

\* The dearest invocation.
LEMMA GreatestCost ==
  Greatest(Costs) \in Nat /\ \A c \in Costs : c <= Greatest(Costs)
<1>1. \E n \in Costs : \A k \in Costs : k <= n
  BY AdmissionAssumption
<1>2. Greatest(Costs) \in Costs /\ \A k \in Costs : k <= Greatest(Costs)
  BY <1>1 DEF Greatest
<1> QED BY <1>2, AdmissionAssumption

\* The attempts that are invoking are counted, and no more than the slots.
LEMMA InvokingCounted ==
  ASSUME LimiterInv, NEW u \in Runs
  PROVE  /\ IsFiniteSet(Invoking(u)) /\ Cardinality(Invoking(u)) \in Nat
         /\ Cardinality(Invoking(u)) <= Total
<1>1. IsFiniteSet(held) /\ Cardinality(held) \in Nat /\ Cardinality(held) <= Total /\ Total \in Nat
  BY FS_CardinalityType, LimiterAssumption DEF LimiterInv, Counted, Bounded
<1>2. Invoking(u) \subseteq held
  BY DEF Invoking
<1> QED BY <1>1, <1>2, FS_Subset, FS_CardinalityType

\* Reserving or spending a reserved cost: sums of products.
LEMMA ReserveOne ==
  ASSUME NEW k \in Nat, NEW t \in Nat, k + 1 <= t, NEW g \in Nat
  PROVE  (k + 1) * g <= t * g
<1>1. PICK d \in Nat : t = k + 1 + d
  <2>1. t - (k + 1) \in Nat /\ t = k + 1 + (t - (k + 1))
    OBVIOUS
  <2> QED BY <2>1
<1>2. t * g = (k + 1) * g + d * g
  BY <1>1
<1>3. d * g \in Nat /\ (k + 1) * g \in Nat
  OBVIOUS
<1> QED BY <1>2, <1>3

LEMMA CostStep ==
  ASSUME LimiterInv, LimiterInv', Sound, CostReserved, [AdmissionNext]_all
  PROVE  CostReserved'
<1> USE AdmissionAssumption, LimiterAssumption DEF Sound
<1> DEFINE G == Greatest(Costs)
           K(u) == Cardinality(Invoking(u))
<1>0. G \in Nat /\ Total \in Nat /\ \A u \in Runs : spent[u] \in Nat /\ K(u) \in Nat
  BY GreatestCost, InvokingCounted DEF AdmissionTypeOK
<1>1. inside \cap waiting = {}
  BY DEF LimiterInv, TypeOK, AdmissionTypeOK
<1>2. ASSUME spent' = spent, inside' = inside, held \cap inside = held' \cap inside
      PROVE  CostReserved'
  BY <1>2 DEF CostReserved, Invoking
<1>3. ASSUME NEW r \in Requests, Ask(r) PROVE CostReserved'
  <2>1. held \subseteq held' /\ held' \subseteq held \cup waiting \cup {r} /\ r \notin inside
    <3>1. CASE Exceeded(Run[r])
      <4>1. Queued(Run[r]) \in SUBSET waiting /\ Drop(Queued(Run[r])) /\ Fresh(r)
        BY <1>3, <3>1 DEF Ask, Queued
      <4> QED BY <4>1, DropSets DEF Fresh, AdmissionTypeOK
    <3>2. CASE ~Exceeded(Run[r])
      <4>1. Acquire(r)
        BY <1>3, <3>2 DEF Ask
      <4> QED BY <4>1, AcquireSets DEF AdmissionTypeOK
    <3> QED BY <3>1, <3>2
  <2> QED BY <1>1, <1>2, <1>3, <2>1 DEF Ask
<1>4. ASSUME NEW r \in Requests, Enter(r) PROVE CostReserved'
  <2>0. r \in held \ inside /\ spent' = spent /\ Run[r] \in Runs
    BY <1>4 DEF Enter, Granted
  <2>1. CASE Exceeded(Run[r])
    <3>1. Queued(Run[r]) \in SUBSET waiting /\ ReleaseAndDrop(r, Queued(Run[r])) /\ inside' = inside
      BY <1>4, <2>1 DEF Enter, Queued
    <3>2. held \ {r} \subseteq held' /\ held' \subseteq (held \ {r}) \cup waiting
      BY <2>0, <3>1, RefusalSets
    <3> QED BY <1>1, <1>2, <2>0, <3>1, <3>2
  <2>2. CASE ~Exceeded(Run[r])
    <3> DEFINE u == Run[r]
    <3>1. held' = held /\ inside' = inside \cup {r}
      BY <1>4, <2>2 DEF Enter, vars
    <3>2. \A v \in Runs \ {u} : Invoking(v)' = Invoking(v)
      BY <3>1 DEF Invoking
    <3>3. Invoking(u)' = Invoking(u) \cup {r} /\ r \notin Invoking(u)
      BY <2>0, <3>1 DEF Invoking
    <3>4. Cardinality(Invoking(u)') = K(u) + 1
      BY <2>0, <3>3, InvokingCounted, FS_AddElement
    <3>5. Cardinality(Invoking(u)') <= Total
      <4>1. Invoking(u) \cup {r} \subseteq held
        BY <2>0 DEF Invoking
      <4>2. IsFiniteSet(held) /\ Cardinality(held) \in Nat /\ Cardinality(held) <= Total
        BY FS_CardinalityType DEF LimiterInv, Counted, Bounded
      <4>3. Cardinality(Invoking(u) \cup {r}) <= Cardinality(held)
            /\ Cardinality(Invoking(u) \cup {r}) \in Nat
        BY <4>1, <4>2, FS_Subset, FS_CardinalityType
      <4> QED BY <1>0, <3>3, <4>2, <4>3
    <3>6. (K(u) + 1) * G <= Total * G
      <4> HIDE DEF K, G
      <4> QED BY <1>0, <2>0, <3>4, <3>5, ReserveOne
    <3>7. MaxCost[u] # Uncapped => spent[u] < MaxCost[u]
      BY <2>2, <2>0 DEF Exceeded, Reached, AdmissionTypeOK
    <3>8. MaxCost[u] # Uncapped => spent[u] + (K(u) + 1) * G < MaxCost[u] + Total * G
      <4>1. (K(u) + 1) * G \in Nat /\ Total * G \in Nat /\ spent[u] \in Nat
        BY <1>0, <2>0
      <4>2. MaxCost[u] # Uncapped => MaxCost[u] \in Nat
        BY <2>0
      <4> HIDE DEF K, G
      <4> QED BY <3>6, <3>7, <4>1, <4>2
    <3> QED BY <2>0, <3>2, <3>4, <3>8 DEF CostReserved
  <2> QED BY <2>1, <2>2
<1>5. ASSUME NEW r \in Requests, Rejected(r) \/ Deliver(r) PROVE CostReserved'
  BY <1>2, <1>5 DEF Rejected, Deliver, vars
<1>6. ASSUME NEW r \in Requests, Invoked(r) PROVE CostReserved'
  <2> DEFINE u == Run[r]
  <2>1. /\ r \in held \cap inside /\ Release(r) /\ inside' = inside /\ u \in Runs
    BY <1>6 DEF Invoked
  <2>2. PICK c \in Costs : spent' = [spent EXCEPT ![u] = @ + c]
    BY <1>6 DEF Invoked
  <2>3. held \ {r} \subseteq held' /\ held' \subseteq (held \ {r}) \cup waiting
    BY <2>1, ReleaseSets
  <2>4. held' \cap inside' = (held \cap inside) \ {r}
    BY <1>1, <2>1, <2>3
  <2>5. \A v \in Runs \ {u} : Invoking(v)' = Invoking(v) /\ spent'[v] = spent[v]
    BY <2>2, <2>4 DEF Invoking, AdmissionTypeOK
  <2>6. Invoking(u)' = Invoking(u) \ {r} /\ r \in Invoking(u)
    BY <2>1, <2>4 DEF Invoking
  <2>7. Cardinality(Invoking(u)') = K(u) - 1
    <3>1. IsFiniteSet(Invoking(u))
      BY <2>1, InvokingCounted
    <3>2. Cardinality(Invoking(u) \ {r}) = Cardinality(Invoking(u)) - 1
      BY <2>6, <3>1, FS_RemoveElement
    <3> QED BY <2>6, <3>2
  <2>8. spent'[u] = spent[u] + c /\ c \in Nat /\ c <= G
    BY <2>1, <2>2, GreatestCost DEF AdmissionTypeOK
  <2>9. MaxCost[u] # Uncapped => spent[u] + K(u) * G < MaxCost[u] + Total * G
    BY <2>1, <2>6 DEF CostReserved
  <2>10. MaxCost[u] # Uncapped => spent'[u] + (K(u) - 1) * G < MaxCost[u] + Total * G
    <3>1. (K(u) - 1) * G = K(u) * G - G /\ K(u) * G \in Nat /\ Total * G \in Nat /\ spent[u] \in Nat
      BY <1>0, <2>1
    <3>2. MaxCost[u] # Uncapped => MaxCost[u] \in Nat
      BY <2>1
    <3> HIDE DEF K, G
    <3> QED BY <1>0, <2>8, <2>9, <3>1, <3>2
  <2> QED BY <2>1, <2>5, <2>7, <2>10 DEF CostReserved
<1>7. ASSUME NEW r \in Requests, Finish(r) PROVE CostReserved'
  <2>1. r \in inside /\ inside' = inside \ {r} /\ spent' = spent
    BY <1>7 DEF Finish
  <2>2. held \ {r} \subseteq held' /\ held' \subseteq held \cup waiting
    <3>1. CASE Release(r)
      BY <3>1, ReleaseSets
    <3>2. CASE ReleaseAgain(r)
      BY <3>2 DEF ReleaseAgain, vars
    <3> QED BY <1>7, <3>1, <3>2 DEF Finish
  <2>3. ASSUME NEW u \in Runs PROVE Invoking(u)' \subseteq Invoking(u)
    BY <1>1, <2>1, <2>2 DEF Invoking
  <2>4. ASSUME NEW u \in Runs
        PROVE  Cardinality(Invoking(u)') * G <= K(u) * G /\ Cardinality(Invoking(u)') * G \in Nat
    <3>1. /\ Cardinality(Invoking(u)') <= K(u) /\ Cardinality(Invoking(u)') \in Nat
      BY <2>3, InvokingCounted, FS_Subset, FS_CardinalityType
    <3>2. PICK d \in Nat : K(u) = Cardinality(Invoking(u)') + d
      <4>1. K(u) - Cardinality(Invoking(u)') \in Nat
        BY <1>0, <3>1
      <4> QED BY <1>0, <3>1, <4>1
    <3>3. K(u) * G = Cardinality(Invoking(u)') * G + d * G /\ d * G \in Nat
      BY <1>0, <3>1, <3>2
    <3>4. Cardinality(Invoking(u)') * G \in Nat
      BY <1>0, <3>1
    <3> QED BY <3>3, <3>4
  <2>5. ASSUME NEW u \in Runs, MaxCost[u] # Uncapped
        PROVE  \/ Invoking(u)' = {} /\ spent'[u] = 0
               \/ spent'[u] + Cardinality(Invoking(u)') * G < MaxCost[u] + Total * G
    <3>1. CASE Invoking(u) = {} /\ spent[u] = 0
      BY <2>1, <2>3, <3>1
    <3>2. CASE spent[u] + K(u) * G < MaxCost[u] + Total * G
      <4>1. K(u) * G \in Nat /\ Total * G \in Nat /\ spent[u] \in Nat /\ MaxCost[u] \in Nat
        BY <1>0, <2>5
      <4> HIDE DEF K, G
      <4> QED BY <2>1, <2>4, <3>2, <4>1
    <3> QED BY <2>5, <3>1, <3>2 DEF CostReserved
  <2> QED BY <2>5 DEF CostReserved
<1>8. ASSUME NEW s \in Signals, Cancel(s) PROVE CostReserved'
  <2> DEFINE R == {r \in waiting : Signal[r] = s}
  <2>1. R \in SUBSET waiting /\ Drop(R) /\ UNCHANGED <<spent, inside>>
    BY <1>8 DEF Cancel, Abort, budget
  <2> HIDE DEF R
  <2>2. held' \subseteq held \cup waiting /\ held \subseteq held'
    BY <2>1, DropSets
  <2> QED BY <1>1, <1>2, <2>1, <2>2
<1>9. CASE UNCHANGED all
  BY <1>2, <1>9 DEF all, vars, budget
<1> QED BY <1>3, <1>4, <1>5, <1>6, <1>7, <1>8, <1>9 DEF AdmissionNext

LEMMA AdmissionInitInv ==
  ASSUME AdmissionInit
  PROVE  AdmissionInv
<1>1. LimiterInv
  BY LimiterInit DEF AdmissionInit
<1>2. AdmissionTypeOK /\ Places /\ RefusedRunIsIdle
  BY DEF AdmissionInit, Init, AdmissionTypeOK, Places, RefusedRunIsIdle
<1>3. AttemptsWithinCap
  BY AdmissionAssumption DEF AdmissionInit, AttemptsWithinCap
<1>4. CostReserved
  BY DEF AdmissionInit, CostReserved, Invoking
<1> QED BY <1>1, <1>2, <1>3, <1>4 DEF AdmissionInv

\* The inductive invariant of run-budget.ts, budgetAdmission in runner.ts and
\* agent-limiter.ts together.
THEOREM AdmissionInvariant == AdmissionSpec => []AdmissionInv
<1>1. AdmissionInit => AdmissionInv
  BY AdmissionInitInv
<1>2. AdmissionInv /\ [AdmissionNext]_all => AdmissionInv'
  <2> SUFFICES ASSUME AdmissionInv, [AdmissionNext]_all PROVE AdmissionInv'
    OBVIOUS
  <2>1. LimiterInv'
    BY AdmissionMoves, MovesKeepLimiter DEF AdmissionInv
  <2>2. Sound' /\ AttemptsWithinCap'
    BY <2>1, SoundStep, AttemptsStep DEF AdmissionInv, Sound
  <2>3. CostReserved'
    BY <2>1, CostStep DEF AdmissionInv, Sound
  <2> QED BY <2>1, <2>2, <2>3 DEF AdmissionInv, Sound
<1> QED BY <1>1, <1>2, PTL DEF AdmissionSpec

\* docs/usage-and-budgets.md: whatever is granted, refused, cancelled or released in between,
\* a run starts no more attempts than its cap, goes over its cost cap by no more than one
\* invocation for each slot, and a step hears of the refusal only when the run is idle.
THEOREM CapsAlwaysHold == AdmissionSpec => []CapsHold
<1>1. ASSUME AdmissionInv PROVE CapsHold
  <2>1. ASSUME NEW u \in Runs, MaxCost[u] # Uncapped
        PROVE  spent[u] = 0 \/ spent[u] < MaxCost[u] + Total * Greatest(Costs)
    <3>1. CASE spent[u] = 0
      BY <3>1
    <3>2. CASE spent[u] # 0
      <4> DEFINE x == Cardinality(Invoking(u)) * Greatest(Costs)
                 y == Total * Greatest(Costs)
      <4>1. spent[u] + x < MaxCost[u] + y
        BY <1>1, <2>1, <3>2 DEF AdmissionInv, CostReserved
      <4>2. x \in Nat /\ y \in Nat /\ spent[u] \in Nat /\ MaxCost[u] \in Nat
        BY <1>1, <2>1, GreatestCost, InvokingCounted, LimiterAssumption, AdmissionAssumption
           DEF AdmissionInv, AdmissionTypeOK
      <4> HIDE DEF x, y
      <4> QED BY <4>1, <4>2 DEF y
    <3> QED BY <3>1, <3>2
  <2> QED BY <1>1, <2>1 DEF AdmissionInv, CapsHold, CostOvershootBounded
<1> QED BY <1>1, AdmissionInvariant, PTL

=============================================================================
