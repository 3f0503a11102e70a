------------------------- MODULE RunControlProofs -------------------------
(***************************************************************************)
(* What start, tick and cancel promise of a run, for any number of each    *)
(* and any bounds: who may end it, how often it is recovered, and that a   *)
(* cancel which promised an end gets it.                                   *)
(*                                                                         *)
(* Everything rests on the lock: only the process that holds it changes    *)
(* the record, its token is drawn once, and a request names one token.     *)
(***************************************************************************)
EXTENDS RunControl, TLAPS

Places == {"idle", "open", "owned", "honour", "tidy", "recheck", "execute", "body", "ending",
           "leave", "inspect", "over"}

Outcomes == {"none", "completed", "failed", "suspended", "cancelled", "interrupted"}

Sigs == {"none", "cancel", "interrupt", "raw"}
Procs ==
  [pc : Places, reclaimed : Nat, halted : BOOLEAN, heard : Cancels \cup {None},
   sig : Sigs, hit : BOOLEAN, outcome : Outcomes]

\* Where a cancel has no target yet, where it holds the lock, and where it has a target.
Untargeted == {"idle", "again", "observe", "unowned"}
Saving == {"saving", "free", "failed"}
Targeting == {"write", "signal", "settle", "present", "tidy", "timeout", "unfinished"}

Stages == Untargeted \cup Saving \cup Targeting \cup {"ok", "refused"}
Cancellings ==
  [pc : Stages, tries : Nat,
   forced : BOOLEAN, promised : BOOLEAN, target : Nat]

Statuses == {"running", "suspended"} \cup Ended
Stales == [count : 0..Cap, steps : 0..MaxSteps]
Records ==
  [status : Statuses, steps : 0..MaxSteps, due : BOOLEAN,
   stale : Stales, by : Nat]

Locks == [tok : Nat, by : Owners \cup Cancels \cup {None}, live : BOOLEAN]
Requests == [tok : Nat, by : Cancels \cup {None}]

Typed ==
  /\ rec \in Records
  /\ lock \in Locks /\ request \in Requests /\ drawn \in Nat
  /\ proc \in [Owners -> Procs] /\ can \in [Cancels -> Cancellings] /\ streak \in Nat

\* A lock that lives has one holder, which knows it.
Exclusive ==
  /\ lock.tok # 0 => lock.by # None
  /\ lock.live => /\ lock.tok # 0
                  /\ \/ lock.by \in Owners /\ proc[lock.by].pc \in Holding
                     \/ lock.by \in Cancels /\ can[lock.by].pc \in Saving
  /\ \A p \in Owners : proc[p].pc \in Holding => lock.live /\ lock.by = p
  /\ \A c \in Cancels : can[c].pc \in Saving => lock.live /\ lock.by = c

\* A token is drawn once: nobody holds one again that somebody reclaimed.
Drawn ==
  /\ lock.tok <= drawn /\ request.tok <= drawn /\ rec.by <= drawn
  /\ \A p \in Owners : /\ proc[p].reclaimed <= drawn
                       /\ lock.tok # 0 => proc[p].reclaimed # lock.tok
  /\ \A c \in Cancels : can[c].target <= drawn

\* A cancel takes its target once, and a request is for its writer's target.
Aimed ==
  /\ \A c \in Cancels : /\ can[c].pc \in Untargeted \cup Saving => can[c].target = 0
                        /\ can[c].pc \in Targeting => can[c].target # 0
  /\ request.tok = 0 <=> request.by = None
  /\ \A c \in Cancels : request.by = c => request.tok = can[c].target

Wanted(tok) == tok # 0 => \E c \in Cancels : can[c].target = tok

\* Whatever is cancelled, or is about to be, a cancel aimed at.
Bound ==
  /\ rec.status = "cancelled" => Wanted(rec.by)
  /\ \A p \in Owners :
       /\ proc[p].sig = "cancel" => proc[p].pc \in {"body", "ending", "leave"} /\ Wanted(lock.tok)
       /\ proc[p].pc = "ending" => /\ proc[p].outcome # "none"
                                   /\ proc[p].outcome = "cancelled" => proc[p].sig = "cancel"
       /\ proc[p].pc = "honour" => Wanted(proc[p].reclaimed)

\* What a tick goes on with has not ended.
Unended ==
  \A t \in Ticks : proc[t].pc \in {"honour", "execute", "body", "ending"} => Unfinished

\* The record's own count of recoveries covers those since the last step.
Counted ==
  /\ streak <= Cap
  /\ streak <= (IF rec.stale.steps = rec.steps THEN rec.stale.count ELSE 0)

\* What a cancel promised of a dead owner, the tick that retired its lock keeps to.
Promised ==
  \A t \in Ticks, c \in Cancels :
    /\ can[c].pc = "unfinished" /\ can[c].promised /\ request.by = c
    /\ can[c].target = proc[t].reclaimed
    => /\ proc[t].pc \notin {"execute", "body", "ending"}
       /\ proc[t].pc = "recheck" => ~Unfinished

ControlInv ==
  Typed /\ Exclusive /\ Drawn /\ Aimed /\ Bound /\ Unended /\ Counted /\ Promised


-----------------------------------------------------------------------------
(* What a step does, field by field.                                       *)

LEMMA Numbers == Cap \in Nat \ {0} /\ Attempts \in Nat \ {0} /\ MaxSteps \in Nat
PROOF BY RunControlAssumption

LEMMA Parties ==
  /\ Owners \cap Cancels = {} /\ None \notin Owners /\ None \notin Cancels
  /\ Runners \subseteq Owners /\ Ticks \subseteq Owners
PROOF BY RunControlAssumption DEF Owners

\* A process moves, another one does not.
Becomes(p, S) ==
  /\ proc' \in [Owners -> Procs] /\ proc'[p].pc \in S
  /\ \A q \in Owners \ {p} : proc'[q] = proc[q]
Knows(p) ==
  /\ proc'[p].reclaimed = proc[p].reclaimed
  /\ proc'[p].sig = proc[p].sig /\ proc'[p].outcome = proc[p].outcome
Rested(p) ==
  /\ Becomes(p, {"idle", "over"})
  /\ proc'[p].reclaimed = 0 /\ proc'[p].sig = "none" /\ proc'[p].outcome = "none"

\* A cancel moves, another one does not.
Turns(c, S) ==
  /\ can' \in [Cancels -> Cancellings] /\ can'[c].pc \in S
  /\ \A d \in Cancels \ {c} : can'[d] = can[d]
Recalls(c) == can'[c].target = can[c].target /\ can'[c].promised = can[c].promised

\* The lock of a process that dies stays.
Outlived(p) ==
  /\ lock' \in Locks /\ lock'.tok = lock.tok /\ lock'.by = lock.by
  /\ lock'.live <=> lock.live /\ lock.by # p

LEMMA ProcFields ==
  ASSUME NEW s \in Procs, NEW pc \in Places, NEW tok \in Nat, NEW b \in BOOLEAN,
         NEW by \in Cancels \cup {None}, NEW sig \in Sigs, NEW o \in Outcomes
  PROVE  /\ [s EXCEPT !.pc = pc] \in Procs /\ [s EXCEPT !.reclaimed = tok] \in Procs
         /\ [s EXCEPT !.halted = b] \in Procs /\ [s EXCEPT !.heard = by] \in Procs
         /\ [s EXCEPT !.sig = sig] \in Procs /\ [s EXCEPT !.hit = b] \in Procs
         /\ [s EXCEPT !.outcome = o] \in Procs
PROOF BY DEF Procs

LEMMA GoneIs ==
  ASSUME NEW p \in Owners
  PROVE  /\ Gone(p) \in Procs /\ Gone(p).pc \in {"idle", "over"}
         /\ Gone(p).reclaimed = 0 /\ Gone(p).sig = "none" /\ Gone(p).outcome = "none"
PROOF BY DEF Gone, Fresh, Procs, Places, Sigs, Outcomes

LEMMA GoesDoes ==
  ASSUME Typed, NEW p \in Owners, NEW pc \in Places, Goes(p, pc)
  PROVE  Becomes(p, {pc}) /\ Knows(p)
PROOF BY DEF Typed, Goes, Becomes, Knows, Procs

LEMMA RestsDoes ==
  ASSUME Typed, NEW p \in Owners, Rests(p)
  PROVE  Rested(p)
PROOF BY GoneIs DEF Typed, Rests, Rested, Becomes

LEMMA DiesDoes ==
  ASSUME Typed, NEW p \in Owners, Dies(p)
  PROVE  Rested(p) /\ Outlived(p)
<1>1. Rested(p)
  BY GoneIs DEF Typed, Dies, Rested, Becomes
<1>2. Outlived(p)
  BY DEF Typed, Dies, Outlived, Locks
<1> QED BY <1>1, <1>2

\* What a signal turns into: a cancellation only in an execution whose lock a request names.
LEMMA AbortedIs ==
  ASSUME Typed, Aimed, NEW p \in Owners
  PROVE  /\ Aborted(p) \in Sigs
         /\ Aborted(p) = "cancel" =>
              \/ proc[p].sig = "cancel"
              \/ proc[p].pc \in {"body", "ending"} /\ Wanted(lock.tok)
<1>1. proc[p].sig \in Sigs
  BY DEF Typed, Procs
<1>2. Reason(p) \in {"cancel", "interrupt"} /\ (Reason(p) = "cancel" => Wanted(lock.tok))
  BY DEF Typed, Aimed, Requests, Reason, Matches, Wanted
<1> QED BY <1>1, <1>2 DEF Aborted, Sigs, Executing

\* The process keeps its place, and is told to stop.
Told(p) ==
  /\ Becomes(p, {proc[p].pc})
  /\ proc'[p].reclaimed = proc[p].reclaimed /\ proc'[p].outcome = proc[p].outcome
  /\ proc'[p].sig = Aborted(p)

LEMMA ToldKeeps ==
  ASSUME Typed, Aimed, Bound, NEW p \in Owners, Told(p)
  PROVE  \A q \in Owners :
           /\ proc'[q].pc = proc[q].pc /\ proc'[q].reclaimed = proc[q].reclaimed
           /\ proc'[q].outcome = proc[q].outcome
           /\ proc'[q].sig = "cancel" =>
                proc[q].pc \in {"body", "ending", "leave"} /\ Wanted(lock.tok)
           /\ proc[q].sig = "cancel" => proc'[q].sig = "cancel"
<1>1. ASSUME NEW q \in Owners \ {p}
      PROVE  proc'[q] = proc[q]
  BY DEF Told, Becomes
<1>2. proc'[p].pc = proc[p].pc
  BY DEF Told, Becomes
<1>3. proc'[p].sig = "cancel" =>
        proc[p].pc \in {"body", "ending", "leave"} /\ Wanted(lock.tok)
  BY AbortedIs DEF Told, Bound
<1>4. proc[p].sig = "cancel" => proc'[p].sig = "cancel"
  BY DEF Told, Aborted
<1> QED BY <1>1, <1>2, <1>3, <1>4 DEF Told, Bound

LEMMA SignalsDoes ==
  ASSUME Typed, Aimed, NEW p \in Owners, Signals(p)
  PROVE  \/ Rested(p) /\ Outlived(p)
         \/ Told(p) /\ UNCHANGED lock
<1>1. CASE proc[p].hit
  BY <1>1, DiesDoes DEF Signals
<1>2. CASE ~proc[p].hit
  <2>1. Aborted(p) \in Sigs
    BY AbortedIs
  <2> DEFINE s == [[proc[p] EXCEPT !.hit = TRUE] EXCEPT !.sig = Aborted(p)]
  <2>2. proc[p] \in Procs /\ proc' = [proc EXCEPT ![p] = s] /\ UNCHANGED lock
    BY <1>2 DEF Signals, Typed
  <2>3. s \in Procs /\ s.pc = proc[p].pc /\ s.reclaimed = proc[p].reclaimed
        /\ s.outcome = proc[p].outcome /\ s.sig = Aborted(p)
    BY <2>1, <2>2 DEF Procs
  <2> HIDE DEF s
  <2> QED BY <2>2, <2>3 DEF Typed, Told, Becomes
<1> QED BY <1>1, <1>2

LEMMA TurnsTo ==
  ASSUME Typed, NEW c \in Cancels, NEW pc \in Stages, To(c, pc)
  PROVE  Turns(c, {pc}) /\ Recalls(c)
PROOF BY DEF Typed, To, Turns, Recalls, Cancellings

LEMMA PublishesDoes ==
  ASSUME Typed, NEW p \in Owners \cup Cancels, Publishes(p)
  PROVE  /\ lock.tok = 0 /\ drawn' = drawn + 1 /\ drawn' \in Nat
         /\ lock' \in Locks /\ lock'.tok = drawn + 1 /\ lock'.by = p /\ lock'.live
PROOF BY DEF Typed, Publishes, Free, Locks

LEMMA NoLockIs == NoLock \in Locks /\ NoLock.tok = 0 /\ NoLock.by = None /\ ~NoLock.live
PROOF BY DEF NoLock, Locks

LEMMA NoRequestIs == NoRequest \in Requests /\ NoRequest.tok = 0 /\ NoRequest.by = None
PROOF BY DEF NoRequest, Requests

LEMMA RecordFields ==
  ASSUME NEW r \in Records, NEW status \in Statuses, NEW n \in 0..MaxSteps,
         NEW due \in BOOLEAN, NEW stale \in Stales, NEW by \in Nat
  PROVE  /\ [r EXCEPT !.status = status] \in Records /\ [r EXCEPT !.steps = n] \in Records
         /\ [r EXCEPT !.due = due] \in Records /\ [r EXCEPT !.stale = stale] \in Records
         /\ [r EXCEPT !.by = by] \in Records
PROOF BY DEF Records
-----------------------------------------------------------------------------
(* What each step amounts to.                                              *)

OnlyProcs == UNCHANGED <<rec, lock, request, drawn, can, streak>>
OnlyCancels == UNCHANGED <<rec, lock, request, drawn, proc, streak>>
Unlocked == lock' \in Locks /\ lock'.tok = 0 /\ lock'.by = None /\ ~lock'.live
Locked(p) ==
  /\ lock.tok = 0 /\ drawn' = drawn + 1 /\ drawn' \in Nat
  /\ lock' \in Locks /\ lock'.tok = drawn + 1 /\ lock'.by = p /\ lock'.live
Forgotten ==
  \/ request' = request
  \/ request' \in Requests /\ request'.tok = 0 /\ request'.by = None
\* The record has another status, or none of what concerns its end changes.
Rewritten(status, by) ==
  /\ rec' \in Records /\ rec'.status = status /\ rec'.by = by
  /\ rec'.steps = rec.steps /\ rec'.stale = rec.stale

\* Look, Inspect, Starts, Refused
Wanders(p) ==
  /\ OnlyProcs /\ proc[p].pc \notin Holding
  /\ Rested(p) \/ (Becomes(p, {"inspect", "open"}) /\ Knows(p))

\* Crash, and a second signal of Interrupt
Killed(p) == Rested(p) /\ Outlived(p) /\ UNCHANGED <<rec, request, drawn, can, streak>>

\* Deadline, and a first signal of Interrupt
Hears(p) == Told(p) /\ OnlyProcs

Retires(p) ==
  /\ proc[p].pc = "open" /\ lock.tok # 0 /\ ~lock.live
  /\ Unlocked /\ Becomes(p, {"open"})
  /\ proc'[p].reclaimed = lock.tok /\ proc'[p].sig = "none"
  /\ UNCHANGED <<rec, request, drawn, can, streak>>

Opens(p) ==
  /\ proc[p].pc = "open" /\ Locked(p) /\ Knows(p)
  /\ Becomes(p, {IF p \in Ticks THEN "owned" ELSE "execute"})
  /\ UNCHANGED <<rec, request, can, streak>>

Reads(t) ==
  /\ proc[t].pc = "owned" /\ Knows(t) /\ OnlyProcs
  /\ \/ ForcedCancel(t) /\ Becomes(t, {"honour"})
     \/ ~ForcedCancel(t) /\ Becomes(t, {"recheck"})

Honours(t) ==
  /\ proc[t].pc = "honour" /\ Knows(t)
  /\ \/ Rewritten("cancelled", proc[t].reclaimed) /\ Becomes(t, {"tidy"})
     \/ UNCHANGED rec /\ Becomes(t, {"leave"})
  /\ UNCHANGED <<lock, request, drawn, can, streak>>

Cleans(t) ==
  /\ proc[t].pc = "tidy" /\ Knows(t) /\ Becomes(t, {"leave"}) /\ Forgotten
  /\ UNCHANGED <<rec, lock, drawn, can, streak>>

Counts ==
  /\ rec.status = "running" /\ streak' = streak + 1
  /\ rec' \in Records /\ rec'.status = rec.status /\ rec'.by = rec.by
  /\ rec'.steps = rec.steps /\ rec'.stale = NextStale(rec)

Rechecks(t) ==
  /\ proc[t].pc = "recheck" /\ Knows(t)
  /\ \/ UNCHANGED <<rec, streak>> /\ Becomes(t, {"leave"})
     \/ ~Stays(rec) /\ Becomes(t, {"execute"}) /\ (Counts \/ UNCHANGED <<rec, streak>>)
  /\ UNCHANGED <<lock, request, drawn, can>>

Executes(p) ==
  /\ proc[p].pc = "execute"
  /\ proc'[p].reclaimed = proc[p].reclaimed
  /\ \/ /\ Rewritten("running", rec.by) /\ Becomes(p, {"body"})
        /\ proc'[p].sig = "cancel" => Wanted(lock.tok)
     \/ UNCHANGED rec /\ Becomes(p, {"leave"}) /\ Knows(p)
  /\ UNCHANGED <<lock, request, drawn, can, streak>>

Completes(p) ==
  /\ proc[p].pc = "body" /\ rec' \in Records
  /\ rec'.status = rec.status /\ rec'.by = rec.by /\ streak' = 0
  /\ UNCHANGED <<lock, request, drawn, proc, can>>

\* Concludes and Drains
Ends(p) ==
  /\ proc[p].pc = "body" /\ Becomes(p, {"ending"}) /\ OnlyProcs
  /\ proc'[p].reclaimed = proc[p].reclaimed /\ proc'[p].sig = proc[p].sig
  /\ proc'[p].outcome # "none" /\ (proc'[p].outcome = "cancelled" => proc[p].sig = "cancel")

Saves(p) ==
  /\ proc[p].pc = "ending"
  /\ proc'[p].reclaimed = proc[p].reclaimed /\ proc'[p].sig = proc[p].sig
  /\ \/ /\ Becomes(p, {"leave"}) /\ rec' \in Records
        /\ rec'.status = "cancelled" =>
             proc[p].outcome = "cancelled" /\ rec'.by = lock.tok
        /\ rec'.by \in {0, lock.tok}
        /\ \/ streak' = 0
           \/ streak' = streak /\ rec'.stale = rec.stale /\ rec'.steps = rec.steps
     \/ UNCHANGED <<rec, streak>> /\ Becomes(p, {"ending"}) /\ proc'[p].outcome = "failed"
     \/ UNCHANGED <<rec, streak>> /\ Becomes(p, {"leave"})
  /\ UNCHANGED <<lock, request, drawn, can>>

Releases(p) ==
  /\ proc[p].pc = "leave" /\ Rested(p) /\ Unlocked
  /\ UNCHANGED <<rec, request, drawn, can, streak>>

Due ==
  /\ Rewritten(rec.status, rec.by) /\ rec.status = "suspended"
  /\ UNCHANGED <<lock, request, drawn, proc, can, streak>>

\* CancelReads, CancelPolls, and what CancelObserves, CancelTakes and CancelWaits do beside
\* what has a name below
Turned(c) ==
  /\ OnlyCancels /\ Recalls(c) /\ can[c].pc \notin Saving
  /\ \/ can[c].pc \in Untargeted /\ Turns(c, Untargeted \cup {"ok", "refused"})
     \/ can[c].pc \in Targeting /\ Turns(c, Targeting \ {"unfinished"})

\* CancelObserves finds an owner
Aims(c) ==
  /\ OnlyCancels /\ can[c].pc = "observe" /\ Turns(c, {"write"})
  /\ can'[c].target = lock.tok /\ lock.tok # 0

\* CancelWaits finds no owner, and the run unfinished
Promises(c) ==
  /\ OnlyCancels /\ can[c].pc = "present" /\ Turns(c, {"unfinished"})
  /\ can'[c].target = can[c].target
  /\ can'[c].promised => lock.tok = can[c].target

\* CancelTakes obtains the lock
Takes(c) ==
  /\ can[c].pc = "unowned" /\ Turns(c, {"saving"}) /\ Recalls(c) /\ Locked(c)
  /\ UNCHANGED <<rec, request, proc, streak>>

Cancelled(c) ==
  /\ can[c].pc = "saving" /\ Turns(c, {"free", "failed"}) /\ Recalls(c)
  /\ UNCHANGED rec \/ (Unfinished /\ Rewritten("cancelled", 0))
  /\ UNCHANGED <<lock, request, drawn, proc, streak>>

LetsGo(c) ==
  /\ can[c].pc \in {"free", "failed"} /\ Turns(c, {"ok", "refused"}) /\ Recalls(c)
  /\ Unlocked /\ UNCHANGED <<rec, request, drawn, proc, streak>>

Perishes(c) ==
  /\ lock.by = c /\ lock.live /\ Turns(c, {"refused"}) /\ Recalls(c)
  /\ lock' \in Locks /\ lock'.tok = lock.tok /\ lock'.by = lock.by /\ ~lock'.live
  /\ UNCHANGED <<rec, request, drawn, proc, streak>>

Writes(c) ==
  /\ can[c].pc = "write" /\ Turns(c, {"signal"}) /\ Recalls(c)
  /\ request' \in Requests /\ request'.tok = can[c].target /\ request'.by = c
  /\ UNCHANGED <<rec, lock, drawn, proc, streak>>

Sends(c) ==
  /\ can[c].pc = "signal" /\ Turns(c, {"settle"}) /\ Recalls(c)
  /\ \/ UNCHANGED <<proc, lock>>
     \/ \E p \in Owners : Rested(p) /\ Outlived(p)
     \/ \E p \in Owners : Told(p) /\ UNCHANGED lock
  /\ UNCHANGED <<rec, request, drawn, streak>>

Clears(c) ==
  /\ can[c].pc = "tidy" /\ Turns(c, {"ok"}) /\ Recalls(c) /\ Forgotten
  /\ UNCHANGED <<rec, lock, drawn, proc, streak>>

LEMMA UnlockedIs ==
  ASSUME lock' = NoLock
  PROVE  Unlocked
PROOF BY NoLockIs DEF Unlocked

LEMMA PublishedIs ==
  ASSUME Typed, NEW p \in Owners \cup Cancels, Publishes(p)
  PROVE  Locked(p)
PROOF BY PublishesDoes DEF Locked

LEMMA ForgottenIs ==
  ASSUME NEW who, request' = IF request.by = who THEN NoRequest ELSE request
  PROVE  Forgotten
PROOF BY NoRequestIs DEF Forgotten

LEMMA WandersIs ==
  ASSUME Typed, NEW p \in Owners, Look(p) \/ Inspect(p) \/ Starts(p) \/ Refused(p)
  PROVE  Wanders(p)
<1>1. CASE Look(p)
  <2> DEFINE s == [[proc[p] EXCEPT !.pc = "inspect"] EXCEPT !.halted = CrashLooping(rec)]
  <2>1. proc[p] \in Procs /\ proc[p].pc = "idle" /\ proc' = [proc EXCEPT ![p] = s] /\ OnlyProcs
    BY <1>1 DEF Look, Typed, OnlyProcs
  <2>2. s \in Procs /\ s.pc = "inspect" /\ s.reclaimed = proc[p].reclaimed
        /\ s.sig = proc[p].sig /\ s.outcome = proc[p].outcome
    BY <2>1 DEF Procs, Places, CrashLooping
  <2> HIDE DEF s
  <2> QED BY <2>1, <2>2 DEF Typed, Wanders, Becomes, Knows, Holding
<1>2. CASE Inspect(p)
  <2>1. proc[p] \in Procs /\ proc[p].pc = "inspect" /\ OnlyProcs
    BY <1>2 DEF Inspect, Typed, OnlyProcs
  <2>2. CASE Rests(p)
    BY <2>1, <2>2, RestsDoes DEF Wanders, Holding
  <2> DEFINE s == [[proc[p] EXCEPT !.pc = "open"] EXCEPT !.halted = FALSE]
  <2>3. CASE proc' = [proc EXCEPT ![p] = s]
    <3>1. s \in Procs /\ s.pc = "open" /\ s.reclaimed = proc[p].reclaimed
          /\ s.sig = proc[p].sig /\ s.outcome = proc[p].outcome
      BY <2>1 DEF Procs, Places
    <3> HIDE DEF s
    <3> QED BY <2>1, <2>3, <3>1 DEF Typed, Wanders, Becomes, Knows, Holding
  <2> QED BY <1>2, <2>2, <2>3 DEF Inspect
<1>3. CASE Starts(p)
  BY <1>3, GoesDoes DEF Starts, Wanders, OnlyProcs, Becomes, Places, Holding
<1>4. CASE Refused(p)
  BY <1>4, RestsDoes DEF Refused, Wanders, OnlyProcs, Holding
<1> QED BY <1>1, <1>2, <1>3, <1>4

LEMMA KilledOrHears ==
  ASSUME Typed, Aimed, NEW p \in Owners, Crash(p) \/ Interrupt(p) \/ Deadline(p)
  PROVE  Killed(p) \/ Hears(p)
<1>1. CASE Crash(p)
  BY <1>1, DiesDoes DEF Crash, Killed
<1>2. CASE Interrupt(p)
  BY <1>2, SignalsDoes DEF Interrupt, Killed, Hears, OnlyProcs
<1>3. CASE Deadline(p)
  <2> DEFINE s == [proc[p] EXCEPT !.sig = Aborted(p)]
  <2>1. proc[p] \in Procs /\ proc' = [proc EXCEPT ![p] = s] /\ OnlyProcs
    BY <1>3 DEF Deadline, Typed, OnlyProcs
  <2>2. s \in Procs /\ s.pc = proc[p].pc /\ s.reclaimed = proc[p].reclaimed
        /\ s.outcome = proc[p].outcome /\ s.sig = Aborted(p)
    BY <2>1, AbortedIs DEF Procs
  <2> HIDE DEF s
  <2> QED BY <2>1, <2>2 DEF Typed, Hears, Told, Becomes
<1> QED BY <1>1, <1>2, <1>3

LEMMA RetiresIs ==
  ASSUME Typed, NEW p \in Owners, Retire(p)
  PROVE  Retires(p)
<1> DEFINE s == [proc[p] EXCEPT !.reclaimed = lock.tok]
<1>1. /\ proc[p] \in Procs /\ proc[p].pc = "open" /\ proc[p].sig = "none" /\ lock.tok \in Nat
      /\ proc' = [proc EXCEPT ![p] = s] /\ lock' = NoLock /\ lock.tok # 0 /\ ~lock.live
      /\ UNCHANGED <<rec, request, drawn, can, streak>>
  BY DEF Retire, Typed, Dead, Locks
<1>2. s \in Procs /\ s.pc = "open" /\ s.reclaimed = lock.tok /\ s.sig = "none"
  BY <1>1 DEF Procs
<1> HIDE DEF s
<1> QED BY <1>1, <1>2, UnlockedIs DEF Typed, Retires, Becomes

LEMMA OpensIs ==
  ASSUME Typed, NEW p \in Owners, Open(p)
  PROVE  Opens(p)
<1> DEFINE place == IF p \in Ticks THEN "owned" ELSE "execute"
<1>1. place \in Places
  BY DEF Places
<1>2. Goes(p, place) /\ Publishes(p) /\ proc[p].pc = "open"
      /\ UNCHANGED <<rec, request, can, streak>>
  BY DEF Open
<1>3. Becomes(p, {place}) /\ Knows(p)
  BY <1>1, <1>2, GoesDoes
<1> QED BY <1>2, <1>3, PublishedIs DEF Opens

LEMMA ReadsIs ==
  ASSUME Typed, NEW t \in Owners, ReadRequest(t)
  PROVE  Reads(t)
<1> DEFINE place == IF ForcedCancel(t) THEN "honour" ELSE "recheck"
           who == IF ForcedCancel(t) THEN request.by ELSE None
           s == [[proc[t] EXCEPT !.pc = place] EXCEPT !.heard = who]
<1>1. /\ proc[t] \in Procs /\ proc[t].pc = "owned" /\ proc' = [proc EXCEPT ![t] = s]
      /\ who \in Cancels \cup {None} /\ place \in Places /\ OnlyProcs
  BY DEF ReadRequest, Typed, OnlyProcs, Requests, Places
<1>2. s \in Procs /\ s.pc = place /\ s.reclaimed = proc[t].reclaimed
      /\ s.sig = proc[t].sig /\ s.outcome = proc[t].outcome
  BY <1>1 DEF Procs
<1> HIDE DEF s
<1> QED BY <1>1, <1>2 DEF Typed, Reads, Becomes, Knows

LEMMA HonoursIs ==
  ASSUME Typed, NEW t \in Owners, Honour(t)
  PROVE  Honours(t)
<1>1. proc[t].pc = "honour" /\ UNCHANGED <<lock, request, drawn, can, streak>>
  BY DEF Honour
<1>2. CASE /\ rec' = [rec EXCEPT !.status = "cancelled", !.by = proc[t].reclaimed]
           /\ Goes(t, "tidy")
  <2>1. proc[t].reclaimed \in Nat
    BY DEF Typed, Procs
  <2>2. Rewritten("cancelled", proc[t].reclaimed)
    BY <1>2, <2>1 DEF Typed, Rewritten, Records, Statuses, Ended
  <2> QED BY <1>1, <1>2, <2>2, GoesDoes DEF Honours, Places
<1>3. CASE Goes(t, "leave") /\ UNCHANGED rec
  BY <1>1, <1>3, GoesDoes DEF Honours, Places
<1> QED BY <1>2, <1>3 DEF Honour

LEMMA CleansIs ==
  ASSUME Typed, NEW t \in Owners, Tidy(t)
  PROVE  Cleans(t)
<1> DEFINE s == [[proc[t] EXCEPT !.pc = "leave"] EXCEPT !.heard = None]
<1>1. /\ proc[t] \in Procs /\ proc[t].pc = "tidy" /\ proc' = [proc EXCEPT ![t] = s]
      /\ Forgotten /\ UNCHANGED <<rec, lock, drawn, can, streak>>
  BY ForgottenIs DEF Tidy, Typed
<1>2. s \in Procs /\ s.pc = "leave" /\ s.reclaimed = proc[t].reclaimed
      /\ s.sig = proc[t].sig /\ s.outcome = proc[t].outcome
  BY <1>1 DEF Procs, Places
<1> HIDE DEF s
<1> QED BY <1>1, <1>2 DEF Typed, Cleans, Becomes, Knows

\* Below the cap the count of recoveries can be raised.
LEMMA NextStaleIs ==
  ASSUME NEW r \in Records, r.status = "running", ~CrashLooping(r)
  PROVE  /\ NextStale(r) \in Stales /\ NextStale(r).steps = r.steps
         /\ NextStale(r).count = (IF r.stale.steps = r.steps THEN r.stale.count + 1 ELSE 1)
         /\ r.stale.steps = r.steps => r.stale.count < Cap
PROOF BY Numbers DEF NextStale, CrashLooping, Records, Stales

LEMMA RechecksIs ==
  ASSUME Typed, NEW t \in Owners, Recheck(t)
  PROVE  Rechecks(t)
<1>1. proc[t].pc = "recheck" /\ UNCHANGED <<lock, request, drawn, can>>
  BY DEF Recheck
<1>2. CASE Goes(t, "leave") /\ UNCHANGED <<rec, streak>>
  BY <1>1, <1>2, GoesDoes DEF Rechecks, Places
<1>3. CASE ~Stays(rec) /\ Goes(t, "execute") /\ UNCHANGED <<rec, streak>>
  BY <1>1, <1>3, GoesDoes DEF Rechecks, Places
<1>4. CASE /\ ~Stays(rec) /\ rec.status = "running" /\ CountsRecovery(t)
           /\ streak' = streak + 1 /\ Goes(t, "execute")
  <2>1. NextStale(rec) \in Stales
    BY <1>4, NextStaleIs DEF Stays, Typed
  <2>2. Counts
    BY <1>4, <2>1 DEF Counts, CountsRecovery, Typed, Records
  <2> QED BY <1>1, <1>4, <2>2, GoesDoes DEF Rechecks, Places
<1> QED BY <1>2, <1>3, <1>4 DEF Recheck

LEMMA ExecutesIs ==
  ASSUME Typed, Aimed, Bound, NEW p \in Owners, Execute(p)
  PROVE  Executes(p)
<1> DEFINE why == IF proc[p].sig = "raw" THEN Reason(p) ELSE proc[p].sig
<1>1. /\ proc[p] \in Procs /\ proc[p].pc = "execute"
      /\ UNCHANGED <<lock, request, drawn, can, streak>>
  BY DEF Execute, Typed
<1>2. why \in Sigs /\ (why = "cancel" => Wanted(lock.tok))
  BY <1>1 DEF Typed, Aimed, Bound, Requests, Procs, Sigs, Reason, Matches, Wanted
<1>3. CASE /\ rec' = [rec EXCEPT !.status = "running"]
           /\ proc' = [proc EXCEPT ![p].pc = "body", ![p].sig = why]
  <2> DEFINE s == [[proc[p] EXCEPT !.pc = "body"] EXCEPT !.sig = why]
  <2> HIDE DEF why
  <2>1. s \in Procs /\ s.pc = "body" /\ s.reclaimed = proc[p].reclaimed /\ s.sig = why
    BY <1>1, <1>2 DEF Procs, Places
  <2>2. proc' = [proc EXCEPT ![p] = s]
    BY <1>1, <1>3 DEF Typed
  <2>3. Rewritten("running", rec.by)
    BY <1>3 DEF Typed, Rewritten, Records, Statuses
  <2> HIDE DEF s
  <2> QED BY <1>1, <1>2, <2>1, <2>2, <2>3 DEF Typed, Executes, Becomes
<1>4. CASE Goes(p, "leave") /\ UNCHANGED rec
  BY <1>1, <1>4, GoesDoes DEF Executes, Knows, Places
<1> QED BY <1>3, <1>4 DEF Execute

LEMMA CompletesIs ==
  ASSUME Typed, NEW p \in Owners, CompletesStep(p)
  PROVE  Completes(p)
<1>1. rec.steps + 1 \in 0..MaxSteps
  BY Numbers DEF CompletesStep, Typed, Records
<1> QED BY <1>1 DEF CompletesStep, Completes, Typed, Records

LEMMA EndsIs ==
  ASSUME Typed, NEW p \in Owners, Concludes(p) \/ Drains(p)
  PROVE  Ends(p)
<1>1. PICK o \in Outcomes \ {"none"} :
        /\ o = "cancelled" => proc[p].sig = "cancel"
        /\ proc' = [proc EXCEPT ![p].pc = "ending", ![p].outcome = o]
        /\ proc[p].pc = "body" /\ OnlyProcs
  <2>1. CASE Concludes(p)
    BY <2>1 DEF Concludes, Outcomes, OnlyProcs
  <2>2. CASE Drains(p)
    <3> DEFINE how == IF proc[p].sig = "cancel" THEN "cancelled" ELSE "interrupted"
    <3>1. /\ how \in Outcomes \ {"none"} /\ (how = "cancelled" => proc[p].sig = "cancel")
          /\ proc' = [proc EXCEPT ![p].pc = "ending", ![p].outcome = how]
          /\ proc[p].pc = "body" /\ OnlyProcs
      BY <2>2 DEF Drains, Outcomes, OnlyProcs
    <3> HIDE DEF how
    <3> QED BY <3>1
  <2> QED BY <2>1, <2>2
<1> DEFINE s == [[proc[p] EXCEPT !.pc = "ending"] EXCEPT !.outcome = o]
<1>2. proc[p] \in Procs /\ proc' = [proc EXCEPT ![p] = s]
  BY <1>1 DEF Typed
<1>3. s \in Procs /\ s.pc = "ending" /\ s.reclaimed = proc[p].reclaimed /\ s.sig = proc[p].sig
      /\ s.outcome = o
  BY <1>2 DEF Procs, Places
<1> HIDE DEF s
<1> QED BY <1>1, <1>2, <1>3 DEF Typed, Ends, Becomes

LEMMA ConcludedIs ==
  ASSUME Typed, NEW o \in Outcomes \ {"none"}
  PROVE  /\ Concluded(o) \in Records
         /\ Concluded(o).status = "cancelled" => o = "cancelled" /\ Concluded(o).by = lock.tok
         /\ Concluded(o).by \in {0, lock.tok}
         /\ ~Forgets(o) => Concluded(o).stale = rec.stale /\ Concluded(o).steps = rec.steps
<1> DEFINE status == IF o = "interrupted" THEN "suspended" ELSE o
           due == o # "suspended"
           by == IF o = "suspended" THEN 0 ELSE lock.tok
           stale == IF Forgets(o) THEN [count |-> 0, steps |-> 0] ELSE rec.stale
           r1 == [rec EXCEPT !.status = status]
           r2 == [r1 EXCEPT !.due = due]
           r3 == [r2 EXCEPT !.by = by]
           r4 == [r3 EXCEPT !.stale = stale]
<1>1. status \in Statuses /\ due \in BOOLEAN /\ by \in Nat /\ stale \in Stales
  BY Numbers DEF Typed, Statuses, Ended, Outcomes, Locks, Records, Stales
<1>2. rec \in Records /\ Concluded(o) = r4
  BY DEF Typed, Concluded
<1>3. /\ status = "cancelled" => o = "cancelled" /\ by = lock.tok
      /\ by \in {0, lock.tok} /\ (~Forgets(o) => stale = rec.stale)
  OBVIOUS
<1> HIDE DEF status, due, by, stale
<1>4. r4 \in Records /\ r4.status = status /\ r4.by = by /\ r4.stale = stale
      /\ r4.steps = rec.steps
  BY <1>1, <1>2 DEF Records
<1> QED BY <1>2, <1>3, <1>4

LEMMA SavesIs ==
  ASSUME Typed, Bound, NEW p \in Owners, SavesEnd(p)
  PROVE  Saves(p)
<1>1. /\ proc[p] \in Procs /\ proc[p].pc = "ending" /\ proc[p].outcome \in Outcomes \ {"none"}
      /\ UNCHANGED <<lock, request, drawn, can>>
  BY DEF SavesEnd, Typed, Bound, Procs
<1>2. CASE /\ rec' = Concluded(proc[p].outcome) /\ Goes(p, "leave")
           /\ streak' = IF Forgets(proc[p].outcome) THEN 0 ELSE streak
  BY <1>1, <1>2, ConcludedIs, GoesDoes DEF Saves, Knows, Places
<1>3. CASE UNCHANGED <<rec, streak>> /\ Goes(p, "leave")
  BY <1>1, <1>3, GoesDoes DEF Saves, Knows, Places
<1>4. CASE UNCHANGED <<rec, streak>> /\ proc' = [proc EXCEPT ![p].outcome = "failed"]
  <2> DEFINE s == [proc[p] EXCEPT !.outcome = "failed"]
  <2>1. s \in Procs /\ s.pc = "ending" /\ s.reclaimed = proc[p].reclaimed
        /\ s.sig = proc[p].sig /\ s.outcome = "failed"
    BY <1>1 DEF Procs, Outcomes
  <2>2. proc' = [proc EXCEPT ![p] = s]
    BY <1>4
  <2> HIDE DEF s
  <2> QED BY <1>1, <1>4, <2>1, <2>2 DEF Typed, Saves, Becomes
<1> QED BY <1>2, <1>3, <1>4 DEF SavesEnd

LEMMA ReleasesIs ==
  ASSUME Typed, NEW p \in Owners, Release(p)
  PROVE  Releases(p)
PROOF BY RestsDoes, UnlockedIs DEF Release, Releases

LEMMA DueIs ==
  ASSUME Typed, BecomesDue
  PROVE  Due
PROOF BY DEF Typed, BecomesDue, Due, Rewritten, Records

LEMMA StagesAre ==
  /\ Untargeted \subseteq Stages /\ Saving \subseteq Stages /\ Targeting \subseteq Stages
  /\ {"ok", "refused"} \subseteq Stages
PROOF BY DEF Stages

LEMMA ReadsOrPolls ==
  ASSUME Typed, NEW c \in Cancels, CancelReads(c) \/ CancelPolls(c)
  PROVE  Turned(c)
<1>1. CASE CancelReads(c)
  BY <1>1, TurnsTo DEF CancelReads, Turned, Turns, OnlyCancels, Stages, Untargeted, Saving,
     Targeting
<1>2. CASE CancelPolls(c)
  BY <1>2, TurnsTo DEF CancelPolls, Turned, Turns, OnlyCancels, Stages, Untargeted, Saving,
     Targeting
<1> QED BY <1>1, <1>2

LEMMA ObservesIs ==
  ASSUME Typed, Exclusive, NEW c \in Cancels, CancelObserves(c)
  PROVE  Turned(c) \/ Aims(c)
<1>1. CASE To(c, "unowned") \/ To(c, "refused")
  BY <1>1, TurnsTo DEF CancelObserves, Turned, Turns, OnlyCancels, Stages, Untargeted, Saving,
     Targeting
<1>2. CASE /\ ~Free /\ ~Dead
           /\ can' = [can EXCEPT ![c].pc = "write", ![c].target = lock.tok]
  <2>1. lock.tok # 0 /\ lock.tok \in Nat
    BY <1>2 DEF Free, Typed, Locks
  <2> DEFINE s == [[can[c] EXCEPT !.pc = "write"] EXCEPT !.target = lock.tok]
  <2>2. can[c] \in Cancellings /\ can' = [can EXCEPT ![c] = s]
    BY <1>2 DEF Typed
  <2>3. s \in Cancellings /\ s.pc = "write" /\ s.target = lock.tok
    BY <2>1, <2>2 DEF Cancellings, Stages, Targeting
  <2> HIDE DEF s
  <2>4. OnlyCancels /\ can[c].pc = "observe"
    BY DEF CancelObserves, OnlyCancels
  <2> QED BY <2>1, <2>2, <2>3, <2>4 DEF Typed, Aims, Turns
<1> QED BY <1>1, <1>2 DEF CancelObserves

LEMMA TakesIs ==
  ASSUME Typed, NEW c \in Cancels, CancelTakes(c)
  PROVE  Turned(c) \/ Takes(c)
<1>1. CASE Publishes(c) /\ To(c, "saving")
  BY <1>1, TurnsTo, PublishedIs DEF CancelTakes, Takes, Stages, Saving
<1> DEFINE pc == IF can[c].tries >= Attempts THEN "refused" ELSE "again"
<1>2. CASE /\ can' = [can EXCEPT ![c].tries = @ + 1, ![c].pc = pc]
           /\ UNCHANGED <<lock, drawn>>
  <2> DEFINE s == [[can[c] EXCEPT !.tries = can[c].tries + 1] EXCEPT !.pc = pc]
  <2>1. can[c] \in Cancellings /\ can' = [can EXCEPT ![c] = s]
    BY <1>2 DEF Typed
  <2>2. pc \in {"refused", "again"} /\ pc \in Stages
    BY DEF Stages, Untargeted
  <2> HIDE DEF pc
  <2> DEFINE r == [can[c] EXCEPT !.tries = can[c].tries + 1]
  <2>5. r \in Cancellings /\ r.target = can[c].target /\ r.promised = can[c].promised
    BY <2>1 DEF Cancellings
  <2>3. /\ s \in Cancellings /\ s.pc = pc /\ s.target = can[c].target
        /\ s.promised = can[c].promised
    BY <2>2, <2>5 DEF Cancellings
  <2> HIDE DEF s
  <2>4. OnlyCancels /\ can[c].pc = "unowned"
    BY <1>2 DEF CancelTakes, OnlyCancels
  <2> QED BY <2>1, <2>2, <2>3, <2>4 DEF Typed, Turned, Turns, Recalls, Untargeted, Saving
<1> QED BY <1>1, <1>2 DEF CancelTakes

LEMMA CancelledIs ==
  ASSUME Typed, NEW c \in Cancels, CancelSaves(c)
  PROVE  Cancelled(c)
<1>1. can[c].pc = "saving" /\ UNCHANGED <<lock, request, drawn, proc, streak>>
  BY DEF CancelSaves
<1>2. CASE Unfinished /\ rec' = [rec EXCEPT !.status = "cancelled", !.by = 0] /\ To(c, "free")
  <2>1. Rewritten("cancelled", 0)
    BY <1>2 DEF Typed, Rewritten, Records, Statuses, Ended
  <2> QED BY <1>1, <1>2, <2>1, TurnsTo DEF Cancelled, Turns, Recalls, Stages, Saving
<1>3. CASE (To(c, "free") \/ To(c, "failed")) /\ UNCHANGED rec
  BY <1>1, <1>3, TurnsTo DEF Cancelled, Turns, Recalls, Stages, Saving
<1> QED BY <1>2, <1>3 DEF CancelSaves

LEMMA LetsGoIs ==
  ASSUME Typed, NEW c \in Cancels, CancelReleases(c)
  PROVE  LetsGo(c)
PROOF BY TurnsTo, UnlockedIs DEF CancelReleases, LetsGo, Turns, Stages

LEMMA PerishesIs ==
  ASSUME Typed, NEW c \in Cancels, CancelDies(c)
  PROVE  Perishes(c)
<1>1. /\ lock' = [lock EXCEPT !.live = FALSE] /\ lock.by = c /\ lock.live
      /\ UNCHANGED <<rec, request, drawn, proc, streak>> /\ To(c, "refused")
  BY DEF CancelDies
<1>2. lock' \in Locks /\ lock'.tok = lock.tok /\ lock'.by = lock.by /\ ~lock'.live
  BY <1>1 DEF Typed, Locks
<1> QED BY <1>1, <1>2, TurnsTo DEF Perishes, Stages

LEMMA WritesIs ==
  ASSUME Typed, NEW c \in Cancels, CancelWrites(c)
  PROVE  Writes(c)
<1>1. can[c].target \in Nat
  BY DEF Typed, Cancellings
<1> QED BY <1>1, TurnsTo DEF CancelWrites, Writes, Requests, Stages, Targeting

LEMMA SendsIs ==
  ASSUME Typed, Exclusive, Aimed, NEW c \in Cancels, CancelSignals(c)
  PROVE  Sends(c)
<1>1. can[c].pc = "signal" /\ Turns(c, {"settle"}) /\ Recalls(c)
      /\ UNCHANGED <<rec, request, drawn, streak>>
  BY TurnsTo DEF CancelSignals, Stages, Targeting
<1>2. CASE lock.by \in Owners /\ Signals(lock.by)
  BY <1>1, <1>2, SignalsDoes DEF Sends
<1>3. CASE UNCHANGED <<proc, lock>>
  BY <1>1, <1>3 DEF Sends
<1> QED BY <1>2, <1>3 DEF CancelSignals

LEMMA WaitsIs ==
  ASSUME Typed, NEW c \in Cancels, CancelWaits(c)
  PROVE  Turned(c) \/ Promises(c)
<1>1. can[c] \in Cancellings /\ can[c].pc = "present" /\ OnlyCancels
  BY DEF CancelWaits, Typed, OnlyCancels
<1>2. CASE To(c, "settle") \/ To(c, "timeout") \/ To(c, "tidy")
  BY <1>1, <1>2, TurnsTo DEF Turned, Turns, Stages, Untargeted, Saving, Targeting
<1>3. CASE can' = [can EXCEPT ![c].forced = TRUE, ![c].pc = "signal"]
  <2> DEFINE s == [[can[c] EXCEPT !.forced = TRUE] EXCEPT !.pc = "signal"]
  <2>1. can' = [can EXCEPT ![c] = s]
    BY <1>1, <1>3 DEF Typed
  <2>2. /\ s \in Cancellings /\ s.pc = "signal" /\ s.target = can[c].target
        /\ s.promised = can[c].promised
    BY <1>1 DEF Cancellings, Stages, Targeting
  <2> HIDE DEF s
  <2> QED BY <1>1, <2>1, <2>2 DEF Typed, Turned, Turns, Recalls, Targeting, Saving
<1> DEFINE b == lock.tok = can[c].target
<1>4. CASE can' = [can EXCEPT ![c].pc = "unfinished", ![c].promised = b]
  <2>1. b \in BOOLEAN
    OBVIOUS
  <2> HIDE DEF b
  <2> DEFINE s == [[can[c] EXCEPT !.pc = "unfinished"] EXCEPT !.promised = b]
  <2>2. can' = [can EXCEPT ![c] = s]
    BY <1>1, <1>4 DEF Typed
  <2>3. s \in Cancellings /\ s.pc = "unfinished" /\ s.target = can[c].target /\ s.promised = b
    BY <1>1, <2>1 DEF Cancellings, Stages, Targeting
  <2> HIDE DEF s
  <2>4. Turns(c, {"unfinished"}) /\ can'[c].target = can[c].target /\ can'[c].promised = b
    BY <2>2, <2>3 DEF Typed, Turns
  <2> QED BY <1>1, <2>4 DEF Promises, b
<1> QED BY <1>2, <1>3, <1>4 DEF CancelWaits

LEMMA ClearsIs ==
  ASSUME Typed, NEW c \in Cancels, CancelTidies(c)
  PROVE  Clears(c)
PROOF BY TurnsTo, ForgottenIs DEF CancelTidies, Clears, Stages

-----------------------------------------------------------------------------
(* The invariant is inductive: a step is of one of these kinds, and each   *)
(* kind keeps every part.                                                  *)

OwnerMoves(p) ==
  \/ Wanders(p) \/ Killed(p) \/ Hears(p) \/ Retires(p) \/ Opens(p)
  \/ Executes(p) \/ Completes(p) \/ Ends(p) \/ Saves(p) \/ Releases(p)
TickMoves(t) == Reads(t) \/ Honours(t) \/ Cleans(t) \/ Rechecks(t)
CancelMoves(c) ==
  \/ Turned(c) \/ Aims(c) \/ Promises(c) \/ Takes(c) \/ Cancelled(c)
  \/ LetsGo(c) \/ Perishes(c) \/ Writes(c) \/ Sends(c) \/ Clears(c)
Moves ==
  \/ \E p \in Owners : OwnerMoves(p)
  \/ \E t \in Ticks : TickMoves(t)
  \/ \E c \in Cancels : CancelMoves(c)
  \/ Due

LEMMA EveryStepMoves ==
  ASSUME Typed, Exclusive, Aimed, Bound, Next
  PROVE  Moves
<1>1. ASSUME NEW t \in Ticks, TickSteps(t)
      PROVE  OwnerMoves(t) \/ TickMoves(t)
  BY <1>1, Parties, WandersIs, ReadsIs, HonoursIs, CleansIs, RechecksIs
     DEF TickSteps, OwnerMoves, TickMoves
<1>2. ASSUME NEW p \in Owners, OwnerSteps(p)
      PROVE  OwnerMoves(p)
  BY <1>2, WandersIs, RetiresIs, OpensIs, ExecutesIs, CompletesIs, EndsIs, SavesIs, ReleasesIs
     DEF OwnerSteps, OwnerMoves
<1>3. ASSUME NEW c \in Cancels, CancelSteps(c) \/ CancelReads(c) \/ CancelDies(c)
      PROVE  CancelMoves(c)
  BY <1>3, ReadsOrPolls, ObservesIs, TakesIs, CancelledIs, LetsGoIs, PerishesIs, WritesIs,
     SendsIs, WaitsIs, ClearsIs DEF CancelSteps, CancelMoves
<1>4. ASSUME NEW p \in Owners, Crash(p) \/ Interrupt(p) \/ Deadline(p) \/ Starts(p)
      PROVE  OwnerMoves(p)
  BY <1>4, KilledOrHears, WandersIs DEF OwnerMoves
<1>5. CASE BecomesDue
  BY <1>5, DueIs DEF Moves
<1> QED BY <1>1, <1>2, <1>3, <1>4, <1>5, Parties DEF Next, Environment, Moves

\* The types.
LEMMA TypedKept ==
  ASSUME ControlInv, Moves
  PROVE  Typed'
<1>1. ASSUME NEW p \in Owners, OwnerMoves(p)
      PROVE  Typed'
  <2>1. CASE Wanders(p)
    BY <2>1, Parties DEF ControlInv, Typed, Wanders, Becomes, Rested, Knows, OnlyProcs
  <2>2. CASE Killed(p)
    BY <2>2, Parties DEF ControlInv, Typed, Killed, Becomes, Rested, Outlived
  <2>3. CASE Hears(p)
    BY <2>3, Parties DEF ControlInv, Typed, Hears, Becomes, OnlyProcs, Told
  <2>4. CASE Retires(p)
    BY <2>4, Parties DEF ControlInv, Typed, Retires, Becomes, Unlocked
  <2>5. CASE Opens(p)
    BY <2>5, Parties DEF ControlInv, Typed, Opens, Becomes, Knows, Locked
  <2>6. CASE Executes(p)
    BY <2>6, Parties DEF ControlInv, Typed, Executes, Becomes, Knows, Rewritten
  <2>7. CASE Completes(p)
    BY <2>7, Parties DEF ControlInv, Typed, Completes
  <2>8. CASE Ends(p)
    BY <2>8, Parties DEF ControlInv, Typed, Ends, Becomes, OnlyProcs
  <2>9. CASE Saves(p)
    BY <2>9, Parties DEF ControlInv, Typed, Saves, Becomes
  <2>10. CASE Releases(p)
    BY <2>10, Parties DEF ControlInv, Typed, Releases, Becomes, Rested, Unlocked
  <2> QED BY <1>1, <2>1, <2>2, <2>3, <2>4, <2>5, <2>6, <2>7, <2>8, <2>9, <2>10 DEF OwnerMoves
<1>2. ASSUME NEW t \in Ticks, TickMoves(t)
      PROVE  Typed'
  <2>1. CASE Reads(t)
    BY <2>1, Parties DEF ControlInv, Typed, Reads, Becomes, Knows, OnlyProcs
  <2>2. CASE Honours(t)
    BY <2>2, Parties DEF ControlInv, Typed, Honours, Becomes, Knows, Rewritten
  <2>3. CASE Cleans(t)
    BY <2>3, Parties DEF ControlInv, Typed, Cleans, Becomes, Knows, Forgotten
  <2>4. CASE Rechecks(t)
    BY <2>4, Parties DEF ControlInv, Typed, Rechecks, Becomes, Knows, Counts
  <2> QED BY <1>2, <2>1, <2>2, <2>3, <2>4 DEF TickMoves
<1>3. ASSUME NEW c \in Cancels, CancelMoves(c)
      PROVE  Typed'
  <2>1. CASE Turned(c)
    BY <2>1, Parties DEF ControlInv, Typed, Turned, Turns, Recalls, OnlyCancels
  <2>2. CASE Aims(c)
    BY <2>2, Parties DEF ControlInv, Typed, Aims, Turns, OnlyCancels
  <2>3. CASE Promises(c)
    BY <2>3, Parties DEF ControlInv, Typed, Promises, Turns, OnlyCancels
  <2>4. CASE Takes(c)
    BY <2>4, Parties DEF ControlInv, Typed, Takes, Locked, Turns, Recalls
  <2>5. CASE Cancelled(c)
    BY <2>5, Parties DEF ControlInv, Typed, Cancelled, Rewritten, Turns, Recalls
  <2>6. CASE LetsGo(c)
    BY <2>6, Parties DEF ControlInv, Typed, LetsGo, Unlocked, Turns, Recalls
  <2>7. CASE Perishes(c)
    BY <2>7, Parties DEF ControlInv, Typed, Perishes, Turns, Recalls
  <2>8. CASE Writes(c)
    BY <2>8, Parties DEF ControlInv, Typed, Writes, Turns, Recalls
  <2>9. CASE Sends(c)
    BY <2>9, Parties DEF ControlInv, Typed, Sends, Becomes, Rested, Told, Outlived, Turns, Recalls
  <2>10. CASE Clears(c)
    BY <2>10, Parties DEF ControlInv, Typed, Clears, Forgotten, Turns, Recalls
  <2> QED BY <1>3, <2>1, <2>2, <2>3, <2>4, <2>5, <2>6, <2>7, <2>8, <2>9, <2>10 DEF CancelMoves
<1>4. CASE Due
  BY <1>4, Parties DEF ControlInv, Typed, Due, Rewritten
<1> QED BY <1>1, <1>2, <1>3, <1>4 DEF Moves

\* The lock: who takes it, drops it or dies with it knows.
LEMMA ExclusiveKept ==
  ASSUME ControlInv, Moves
  PROVE  Exclusive'
<1>1. ASSUME NEW p \in Owners, OwnerMoves(p)
      PROVE  Exclusive'
  <2>1. CASE Wanders(p)
    BY <2>1, Parties DEF ControlInv, Typed, Exclusive, Wanders, Becomes, Rested, Knows,
       OnlyProcs, Holding, Saving
  <2>2. CASE Killed(p)
    BY <2>2, Parties DEF ControlInv, Typed, Exclusive, Killed, Becomes, Rested, Outlived,
       Holding, Saving
  <2>3. CASE Hears(p)
    BY <2>3, Parties DEF ControlInv, Typed, Exclusive, Hears, Becomes, OnlyProcs, Told, Holding,
       Saving
  <2>4. CASE Retires(p)
    BY <2>4, Parties DEF ControlInv, Typed, Exclusive, Retires, Becomes, Unlocked, Holding, Saving
  <2>5. CASE Opens(p)
    BY <2>5, Parties DEF ControlInv, Typed, Exclusive, Opens, Becomes, Knows, Locked, Holding,
       Saving
  <2>6. CASE Executes(p)
    BY <2>6, Parties DEF ControlInv, Typed, Exclusive, Executes, Becomes, Knows, Rewritten,
       Holding, Saving
  <2>7. CASE Completes(p)
    BY <2>7, Parties DEF ControlInv, Typed, Exclusive, Completes, Holding, Saving
  <2>8. CASE Ends(p)
    BY <2>8, Parties DEF ControlInv, Typed, Exclusive, Ends, Becomes, OnlyProcs, Holding, Saving
  <2>9. CASE Saves(p)
    BY <2>9, Parties DEF ControlInv, Typed, Exclusive, Saves, Becomes, Holding, Saving
  <2>10. CASE Releases(p)
    BY <2>10, Parties DEF ControlInv, Typed, Exclusive, Releases, Becomes, Rested, Unlocked,
       Holding, Saving
  <2> QED BY <1>1, <2>1, <2>2, <2>3, <2>4, <2>5, <2>6, <2>7, <2>8, <2>9, <2>10 DEF OwnerMoves
<1>2. ASSUME NEW t \in Ticks, TickMoves(t)
      PROVE  Exclusive'
  <2>1. CASE Reads(t)
    BY <2>1, Parties DEF ControlInv, Typed, Exclusive, Reads, Becomes, Knows, OnlyProcs,
       Holding, Saving
  <2>2. CASE Honours(t)
    BY <2>2, Parties DEF ControlInv, Typed, Exclusive, Honours, Becomes, Knows, Rewritten,
       Holding, Saving
  <2>3. CASE Cleans(t)
    BY <2>3, Parties DEF ControlInv, Typed, Exclusive, Cleans, Becomes, Knows, Forgotten,
       Holding, Saving
  <2>4. CASE Rechecks(t)
    BY <2>4, Parties DEF ControlInv, Typed, Exclusive, Rechecks, Becomes, Knows, Counts,
       Holding, Saving
  <2> QED BY <1>2, <2>1, <2>2, <2>3, <2>4 DEF TickMoves
<1>3. ASSUME NEW c \in Cancels, CancelMoves(c)
      PROVE  Exclusive'
  <2>1. CASE Turned(c)
    BY <2>1, Parties DEF ControlInv, Typed, Exclusive, Turned, Turns, Recalls, OnlyCancels,
       Holding, Saving, Untargeted, Targeting
  <2>2. CASE Aims(c)
    BY <2>2, Parties DEF ControlInv, Typed, Exclusive, Aims, Turns, OnlyCancels, Holding, Saving
  <2>3. CASE Promises(c)
    BY <2>3, Parties DEF ControlInv, Typed, Exclusive, Promises, Turns, OnlyCancels, Holding,
       Saving
  <2>4. CASE Takes(c)
    BY <2>4, Parties DEF ControlInv, Typed, Exclusive, Takes, Locked, Turns, Recalls, Holding,
       Saving
  <2>5. CASE Cancelled(c)
    BY <2>5, Parties DEF ControlInv, Typed, Exclusive, Cancelled, Rewritten, Turns, Recalls,
       Holding, Saving
  <2>6. CASE LetsGo(c)
    BY <2>6, Parties DEF ControlInv, Typed, Exclusive, LetsGo, Unlocked, Turns, Recalls,
       Holding, Saving
  <2>7. CASE Perishes(c)
    BY <2>7, Parties DEF ControlInv, Typed, Exclusive, Perishes, Turns, Recalls, Holding, Saving
  <2>8. CASE Writes(c)
    BY <2>8, Parties DEF ControlInv, Typed, Exclusive, Writes, Turns, Recalls, Holding, Saving
  <2>9. CASE Sends(c)
    BY <2>9, Parties DEF ControlInv, Typed, Exclusive, Sends, Becomes, Rested, Told, Outlived,
       Turns, Recalls, Holding, Saving
  <2>10. CASE Clears(c)
    BY <2>10, Parties DEF ControlInv, Typed, Exclusive, Clears, Forgotten, Turns, Recalls,
       Holding, Saving
  <2> QED BY <1>3, <2>1, <2>2, <2>3, <2>4, <2>5, <2>6, <2>7, <2>8, <2>9, <2>10 DEF CancelMoves
<1>4. CASE Due
  BY <1>4, Parties DEF ControlInv, Typed, Exclusive, Due, Rewritten, Holding, Saving
<1> QED BY <1>1, <1>2, <1>3, <1>4 DEF Moves

\* Tokens: a new one is above all that anybody remembers.
LEMMA DrawnKept ==
  ASSUME ControlInv, Moves
  PROVE  Drawn'
<1>1. ASSUME NEW p \in Owners, OwnerMoves(p)
      PROVE  Drawn'
  <2>1. CASE Wanders(p)
    BY <2>1, Parties DEF ControlInv, Typed, Drawn, Wanders, Becomes, Rested, Knows, OnlyProcs,
       Locks, Requests, Procs, Cancellings, Records
  <2>2. CASE Killed(p)
    BY <2>2, Parties DEF ControlInv, Typed, Drawn, Killed, Becomes, Rested, Outlived, Locks,
       Requests, Procs, Cancellings, Records
  <2>3. CASE Hears(p)
    BY <2>3, Parties DEF ControlInv, Typed, Drawn, Hears, Becomes, OnlyProcs, Told, Locks,
       Requests, Procs, Cancellings, Records
  <2>4. CASE Retires(p)
    BY <2>4, Parties DEF ControlInv, Typed, Drawn, Retires, Becomes, Unlocked, Locks, Requests,
       Procs, Cancellings, Records
  <2>5. CASE Opens(p)
    BY <2>5, Parties DEF ControlInv, Typed, Drawn, Opens, Becomes, Knows, Locked, Locks,
       Requests, Procs, Cancellings, Records
  <2>6. CASE Executes(p)
    BY <2>6, Parties DEF ControlInv, Typed, Drawn, Executes, Becomes, Knows, Rewritten, Locks,
       Requests, Procs, Cancellings, Records
  <2>7. CASE Completes(p)
    BY <2>7, Parties DEF ControlInv, Typed, Drawn, Completes, Locks, Requests, Procs,
       Cancellings, Records
  <2>8. CASE Ends(p)
    BY <2>8, Parties DEF ControlInv, Typed, Drawn, Ends, Becomes, OnlyProcs, Locks, Requests,
       Procs, Cancellings, Records
  <2>9. CASE Saves(p)
    BY <2>9, Parties DEF ControlInv, Typed, Drawn, Saves, Becomes, Locks, Requests, Procs,
       Cancellings, Records
  <2>10. CASE Releases(p)
    BY <2>10, Parties DEF ControlInv, Typed, Drawn, Releases, Becomes, Rested, Unlocked, Locks,
       Requests, Procs, Cancellings, Records
  <2> QED BY <1>1, <2>1, <2>2, <2>3, <2>4, <2>5, <2>6, <2>7, <2>8, <2>9, <2>10 DEF OwnerMoves
<1>2. ASSUME NEW t \in Ticks, TickMoves(t)
      PROVE  Drawn'
  <2>1. CASE Reads(t)
    BY <2>1, Parties DEF ControlInv, Typed, Drawn, Reads, Becomes, Knows, OnlyProcs, Locks,
       Requests, Procs, Cancellings, Records
  <2>2. CASE Honours(t)
    BY <2>2, Parties DEF ControlInv, Typed, Drawn, Honours, Becomes, Knows, Rewritten, Locks,
       Requests, Procs, Cancellings, Records
  <2>3. CASE Cleans(t)
    BY <2>3, Parties DEF ControlInv, Typed, Drawn, Cleans, Becomes, Knows, Forgotten, Locks,
       Requests, Procs, Cancellings, Records
  <2>4. CASE Rechecks(t)
    BY <2>4, Parties DEF ControlInv, Typed, Drawn, Rechecks, Becomes, Knows, Counts, Locks,
       Requests, Procs, Cancellings, Records
  <2> QED BY <1>2, <2>1, <2>2, <2>3, <2>4 DEF TickMoves
<1>3. ASSUME NEW c \in Cancels, CancelMoves(c)
      PROVE  Drawn'
  <2>1. CASE Turned(c)
    BY <2>1, Parties DEF ControlInv, Typed, Drawn, Turned, Turns, Recalls, OnlyCancels, Locks,
       Requests, Procs, Cancellings, Records
  <2>2. CASE Aims(c)
    BY <2>2, Parties DEF ControlInv, Typed, Drawn, Aims, Turns, OnlyCancels, Locks, Requests,
       Procs, Cancellings, Records
  <2>3. CASE Promises(c)
    BY <2>3, Parties DEF ControlInv, Typed, Drawn, Promises, Turns, OnlyCancels, Locks,
       Requests, Procs, Cancellings, Records
  <2>4. CASE Takes(c)
    BY <2>4, Parties DEF ControlInv, Typed, Drawn, Takes, Locked, Turns, Recalls, Locks,
       Requests, Procs, Cancellings, Records
  <2>5. CASE Cancelled(c)
    BY <2>5, Parties DEF ControlInv, Typed, Drawn, Cancelled, Rewritten, Turns, Recalls, Locks,
       Requests, Procs, Cancellings, Records
  <2>6. CASE LetsGo(c)
    BY <2>6, Parties DEF ControlInv, Typed, Drawn, LetsGo, Unlocked, Turns, Recalls, Locks,
       Requests, Procs, Cancellings, Records
  <2>7. CASE Perishes(c)
    BY <2>7, Parties DEF ControlInv, Typed, Drawn, Perishes, Turns, Recalls, Locks, Requests,
       Procs, Cancellings, Records
  <2>8. CASE Writes(c)
    BY <2>8, Parties DEF ControlInv, Typed, Drawn, Writes, Turns, Recalls, Locks, Requests,
       Procs, Cancellings, Records
  <2>9. CASE Sends(c)
    <3>1. /\ \A d \in Cancels : can'[d].target = can[d].target
          /\ UNCHANGED <<rec, request, drawn, streak>>
      BY <2>9 DEF Sends, Turns, Recalls
    <3>2. CASE UNCHANGED <<proc, lock>>
      BY <3>1, <3>2 DEF ControlInv, Drawn, Typed
    <3>3. ASSUME NEW p \in Owners, Rested(p), Outlived(p)
          PROVE  Drawn'
      BY <3>1, <3>3 DEF ControlInv, Rested, Becomes, Outlived, Drawn, Typed
    <3>4. ASSUME NEW p \in Owners, Told(p), UNCHANGED lock
          PROVE  Drawn'
      BY <3>1, <3>4, ToldKeeps DEF ControlInv, Drawn, Typed
    <3> QED BY <2>9, <3>2, <3>3, <3>4 DEF Sends
  <2>10. CASE Clears(c)
    BY <2>10, Parties DEF ControlInv, Typed, Drawn, Clears, Forgotten, Turns, Recalls, Locks,
       Requests, Procs, Cancellings, Records
  <2> QED BY <1>3, <2>1, <2>2, <2>3, <2>4, <2>5, <2>6, <2>7, <2>8, <2>9, <2>10 DEF CancelMoves
<1>4. CASE Due
  BY <1>4, Parties DEF ControlInv, Typed, Drawn, Due, Rewritten, Locks, Requests, Procs,
     Cancellings, Records
<1> QED BY <1>1, <1>2, <1>3, <1>4 DEF Moves

\* Targets: taken once, and the request is for its writer's.
LEMMA AimedKept ==
  ASSUME ControlInv, Moves
  PROVE  Aimed'
<1>1. ASSUME NEW p \in Owners, OwnerMoves(p)
      PROVE  Aimed'
  <2>1. CASE Wanders(p)
    BY <2>1, Parties DEF ControlInv, Typed, Aimed, Wanders, Becomes, Rested, Knows, OnlyProcs,
       Locks, Requests, Cancellings, Exclusive, Drawn, Saving, Untargeted, Targeting
  <2>2. CASE Killed(p)
    BY <2>2, Parties DEF ControlInv, Typed, Aimed, Killed, Becomes, Rested, Outlived, Locks,
       Requests, Cancellings, Exclusive, Drawn, Saving, Untargeted, Targeting
  <2>3. CASE Hears(p)
    BY <2>3, Parties DEF ControlInv, Typed, Aimed, Hears, Becomes, OnlyProcs, Told, Locks,
       Requests, Cancellings, Exclusive, Drawn, Saving, Untargeted, Targeting
  <2>4. CASE Retires(p)
    BY <2>4, Parties DEF ControlInv, Typed, Aimed, Retires, Becomes, Unlocked, Locks, Requests,
       Cancellings, Exclusive, Drawn, Saving, Untargeted, Targeting
  <2>5. CASE Opens(p)
    BY <2>5, Parties DEF ControlInv, Typed, Aimed, Opens, Becomes, Knows, Locked, Locks,
       Requests, Cancellings, Exclusive, Drawn, Saving, Untargeted, Targeting
  <2>6. CASE Executes(p)
    BY <2>6, Parties DEF ControlInv, Typed, Aimed, Executes, Becomes, Knows, Rewritten, Locks,
       Requests, Cancellings, Exclusive, Drawn, Saving, Untargeted, Targeting
  <2>7. CASE Completes(p)
    BY <2>7, Parties DEF ControlInv, Typed, Aimed, Completes, Locks, Requests, Cancellings,
       Exclusive, Drawn, Saving, Untargeted, Targeting
  <2>8. CASE Ends(p)
    BY <2>8, Parties DEF ControlInv, Typed, Aimed, Ends, Becomes, OnlyProcs, Locks, Requests,
       Cancellings, Exclusive, Drawn, Saving, Untargeted, Targeting
  <2>9. CASE Saves(p)
    BY <2>9, Parties DEF ControlInv, Typed, Aimed, Saves, Becomes, Locks, Requests, Cancellings,
       Exclusive, Drawn, Saving, Untargeted, Targeting
  <2>10. CASE Releases(p)
    BY <2>10, Parties DEF ControlInv, Typed, Aimed, Releases, Becomes, Rested, Unlocked, Locks,
       Requests, Cancellings, Exclusive, Drawn, Saving, Untargeted, Targeting
  <2> QED BY <1>1, <2>1, <2>2, <2>3, <2>4, <2>5, <2>6, <2>7, <2>8, <2>9, <2>10 DEF OwnerMoves
<1>2. ASSUME NEW t \in Ticks, TickMoves(t)
      PROVE  Aimed'
  <2>1. CASE Reads(t)
    BY <2>1, Parties DEF ControlInv, Typed, Aimed, Reads, Becomes, Knows, OnlyProcs, Locks,
       Requests, Cancellings, Exclusive, Drawn, Saving, Untargeted, Targeting
  <2>2. CASE Honours(t)
    BY <2>2, Parties DEF ControlInv, Typed, Aimed, Honours, Becomes, Knows, Rewritten, Locks,
       Requests, Cancellings, Exclusive, Drawn, Saving, Untargeted, Targeting
  <2>3. CASE Cleans(t)
    BY <2>3, Parties DEF ControlInv, Typed, Aimed, Cleans, Becomes, Knows, Forgotten, Locks,
       Requests, Cancellings, Exclusive, Drawn, Saving, Untargeted, Targeting
  <2>4. CASE Rechecks(t)
    BY <2>4, Parties DEF ControlInv, Typed, Aimed, Rechecks, Becomes, Knows, Counts, Locks,
       Requests, Cancellings, Exclusive, Drawn, Saving, Untargeted, Targeting
  <2> QED BY <1>2, <2>1, <2>2, <2>3, <2>4 DEF TickMoves
<1>3. ASSUME NEW c \in Cancels, CancelMoves(c)
      PROVE  Aimed'
  <2>1. CASE Turned(c)
    BY <2>1, Parties DEF ControlInv, Typed, Aimed, Turned, Turns, Recalls, OnlyCancels, Locks,
       Requests, Cancellings, Exclusive, Drawn, Saving, Untargeted, Targeting
  <2>2. CASE Aims(c)
    BY <2>2, Parties DEF ControlInv, Typed, Aimed, Aims, Turns, OnlyCancels, Locks, Requests,
       Cancellings, Exclusive, Drawn, Saving, Untargeted, Targeting
  <2>3. CASE Promises(c)
    BY <2>3, Parties DEF ControlInv, Typed, Aimed, Promises, Turns, OnlyCancels, Locks,
       Requests, Cancellings, Exclusive, Drawn, Saving, Untargeted, Targeting
  <2>4. CASE Takes(c)
    BY <2>4, Parties DEF ControlInv, Typed, Aimed, Takes, Locked, Turns, Recalls, Locks,
       Requests, Cancellings, Exclusive, Drawn, Saving, Untargeted, Targeting
  <2>5. CASE Cancelled(c)
    BY <2>5, Parties DEF ControlInv, Typed, Aimed, Cancelled, Rewritten, Turns, Recalls, Locks,
       Requests, Cancellings, Exclusive, Drawn, Saving, Untargeted, Targeting
  <2>6. CASE LetsGo(c)
    BY <2>6, Parties DEF ControlInv, Typed, Aimed, LetsGo, Unlocked, Turns, Recalls, Locks,
       Requests, Cancellings, Exclusive, Drawn, Saving, Untargeted, Targeting
  <2>7. CASE Perishes(c)
    BY <2>7, Parties DEF ControlInv, Typed, Aimed, Perishes, Turns, Recalls, Locks, Requests,
       Cancellings, Exclusive, Drawn, Saving, Untargeted, Targeting
  <2>8. CASE Writes(c)
    BY <2>8, Parties DEF ControlInv, Typed, Aimed, Writes, Turns, Recalls, Locks, Requests,
       Cancellings, Exclusive, Drawn, Saving, Untargeted, Targeting
  <2>9. CASE Sends(c)
    BY <2>9, Parties DEF ControlInv, Typed, Aimed, Sends, Becomes, Rested, Told, Outlived,
       Turns, Recalls, Locks, Requests, Cancellings, Exclusive, Drawn, Saving, Untargeted,
       Targeting
  <2>10. CASE Clears(c)
    <3>1. \A d \in Cancels : can'[d].target = can[d].target
      BY <2>10 DEF Clears, Turns, Recalls
    <3>2. \A d \in Cancels : can'[d].pc = can[d].pc \/ (d = c /\ can'[d].pc = "ok")
      BY <2>10 DEF Clears, Turns
    <3>3. /\ request' \in Requests
          /\ request' = request \/ (request'.tok = 0 /\ request'.by = None)
      BY <2>10, NoRequestIs DEF ControlInv, Typed, Clears, Forgotten
    <3> QED BY <2>10, <3>1, <3>2, <3>3, Parties DEF ControlInv, Aimed, Clears, Saving,
             Untargeted, Targeting
  <2> QED BY <1>3, <2>1, <2>2, <2>3, <2>4, <2>5, <2>6, <2>7, <2>8, <2>9, <2>10 DEF CancelMoves
<1>4. CASE Due
  BY <1>4, Parties DEF ControlInv, Typed, Aimed, Due, Rewritten, Locks, Requests, Cancellings,
     Exclusive, Drawn, Saving, Untargeted, Targeting
<1> QED BY <1>1, <1>2, <1>3, <1>4 DEF Moves

\* A target that was taken stays.
LEMMA TargetsLast ==
  ASSUME Aimed, Moves, NEW d \in Cancels, can[d].target # 0
  PROVE  can'[d].target = can[d].target
<1>1. ASSUME NEW c \in Cancels, CancelMoves(c)
      PROVE  can'[d].target = can[d].target
  BY <1>1 DEF CancelMoves, Turned, Aims, Promises, Takes, Cancelled, LetsGo, Perishes, Writes,
     Sends, Clears, Turns, Recalls, Aimed, Untargeted
<1>2. CASE UNCHANGED can
  BY <1>2
<1>3. UNCHANGED can \/ \E c \in Cancels : CancelMoves(c)
  BY DEF Moves, OwnerMoves, TickMoves, Wanders, Killed, Hears, Retires, Opens, Executes,
     Completes, Ends, Saves, Releases, Reads, Honours, Cleans, Rechecks, Due, OnlyProcs
<1> QED BY <1>1, <1>2, <1>3

\* Whoever is cancelled was aimed at, for a target is never given up.
LEMMA BoundKept ==
  ASSUME ControlInv, Moves
  PROVE  Bound'
<1>1. ASSUME NEW p \in Owners, OwnerMoves(p)
      PROVE  Bound'
  <2>1. CASE Wanders(p)
    BY <2>1, Parties, TargetsLast DEF ControlInv, Typed, Bound, Wanders, Becomes, Rested, Knows,
       OnlyProcs, Wanted, Exclusive, Drawn, Holding, Aimed, Requests, Locks
  <2>2. CASE Killed(p)
    BY <2>2, Parties, TargetsLast DEF ControlInv, Typed, Bound, Killed, Becomes, Rested,
       Outlived, Wanted, Exclusive, Drawn, Holding, Aimed, Requests, Locks
  <2>3. CASE Hears(p)
    BY <2>3, ToldKeeps DEF ControlInv, Hears, OnlyProcs, Bound, Wanted
  <2>4. CASE Retires(p)
    BY <2>4, Parties, TargetsLast DEF ControlInv, Typed, Bound, Retires, Becomes, Unlocked,
       Wanted, Exclusive, Drawn, Holding, Aimed, Requests, Locks
  <2>5. CASE Opens(p)
    BY <2>5, Parties, TargetsLast DEF ControlInv, Typed, Bound, Opens, Becomes, Knows, Locked,
       Wanted, Exclusive, Drawn, Holding, Aimed, Requests, Locks
  <2>6. CASE Executes(p)
    BY <2>6, Parties, TargetsLast DEF ControlInv, Typed, Bound, Executes, Becomes, Knows,
       Rewritten, Wanted, Exclusive, Drawn, Holding, Aimed, Requests, Locks
  <2>7. CASE Completes(p)
    BY <2>7, Parties, TargetsLast DEF ControlInv, Typed, Bound, Completes, Wanted, Exclusive,
       Drawn, Holding, Aimed, Requests, Locks
  <2>8. CASE Ends(p)
    BY <2>8, Parties, TargetsLast DEF ControlInv, Typed, Bound, Ends, Becomes, OnlyProcs,
       Wanted, Exclusive, Drawn, Holding, Aimed, Requests, Locks
  <2>9. CASE Saves(p)
    BY <2>9, Parties, TargetsLast DEF ControlInv, Typed, Bound, Saves, Becomes, Wanted,
       Exclusive, Drawn, Holding, Aimed, Requests, Locks
  <2>10. CASE Releases(p)
    BY <2>10, Parties, TargetsLast DEF ControlInv, Typed, Bound, Releases, Becomes, Rested,
       Unlocked, Wanted, Exclusive, Drawn, Holding, Aimed, Requests, Locks
  <2> QED BY <1>1, <2>1, <2>2, <2>3, <2>4, <2>5, <2>6, <2>7, <2>8, <2>9, <2>10 DEF OwnerMoves
<1>2. ASSUME NEW t \in Ticks, TickMoves(t)
      PROVE  Bound'
  <2>1. CASE Reads(t)
    BY <2>1, Parties, TargetsLast DEF ControlInv, Typed, Bound, Reads, Becomes, Knows,
       OnlyProcs, Wanted, Exclusive, Drawn, Holding, ForcedCancel, Aimed, Requests, Locks
  <2>2. CASE Honours(t)
    BY <2>2, Parties, TargetsLast DEF ControlInv, Typed, Bound, Honours, Becomes, Knows,
       Rewritten, Wanted, Exclusive, Drawn, Holding, Aimed, Requests, Locks
  <2>3. CASE Cleans(t)
    BY <2>3, Parties, TargetsLast DEF ControlInv, Typed, Bound, Cleans, Becomes, Knows,
       Forgotten, Wanted, Exclusive, Drawn, Holding, Aimed, Requests, Locks
  <2>4. CASE Rechecks(t)
    BY <2>4, Parties, TargetsLast DEF ControlInv, Typed, Bound, Rechecks, Becomes, Knows,
       Counts, Wanted, Exclusive, Drawn, Holding, Aimed, Requests, Locks
  <2> QED BY <1>2, <2>1, <2>2, <2>3, <2>4 DEF TickMoves
<1>3. ASSUME NEW c \in Cancels, CancelMoves(c)
      PROVE  Bound'
  <2>1. CASE Turned(c)
    BY <2>1, Parties, TargetsLast DEF ControlInv, Typed, Bound, Turned, Turns, Recalls,
       OnlyCancels, Wanted, Exclusive, Drawn, Holding, Aimed, Requests, Locks
  <2>2. CASE Aims(c)
    BY <2>2, Parties, TargetsLast DEF ControlInv, Typed, Bound, Aims, Turns, OnlyCancels,
       Wanted, Exclusive, Drawn, Holding, Aimed, Requests, Locks
  <2>3. CASE Promises(c)
    BY <2>3, Parties, TargetsLast DEF ControlInv, Typed, Bound, Promises, Turns, OnlyCancels,
       Wanted, Exclusive, Drawn, Holding, Aimed, Requests, Locks
  <2>4. CASE Takes(c)
    BY <2>4, Parties, TargetsLast DEF ControlInv, Typed, Bound, Takes, Locked, Turns, Recalls,
       Wanted, Exclusive, Drawn, Holding, Aimed, Requests, Locks
  <2>5. CASE Cancelled(c)
    BY <2>5, Parties, TargetsLast DEF ControlInv, Typed, Bound, Cancelled, Rewritten, Turns,
       Recalls, Wanted, Exclusive, Drawn, Holding, Aimed, Requests, Locks
  <2>6. CASE LetsGo(c)
    BY <2>6, Parties, TargetsLast DEF ControlInv, Typed, Bound, LetsGo, Unlocked, Turns,
       Recalls, Wanted, Exclusive, Drawn, Holding, Aimed, Requests, Locks
  <2>7. CASE Perishes(c)
    BY <2>7, Parties, TargetsLast DEF ControlInv, Typed, Bound, Perishes, Turns, Recalls,
       Wanted, Exclusive, Drawn, Holding, Aimed, Requests, Locks
  <2>8. CASE Writes(c)
    BY <2>8, Parties, TargetsLast DEF ControlInv, Typed, Bound, Writes, Turns, Recalls, Wanted,
       Exclusive, Drawn, Holding, Aimed, Requests, Locks
  <2>9. CASE Sends(c)
    <3>1. /\ \A d \in Cancels : can'[d].target = can[d].target
          /\ UNCHANGED <<rec, request, drawn, streak>>
      BY <2>9 DEF Sends, Turns, Recalls
    <3>2. CASE UNCHANGED <<proc, lock>>
      BY <3>1, <3>2 DEF ControlInv, Bound, Wanted
    <3>3. ASSUME NEW p \in Owners, Rested(p), Outlived(p)
          PROVE  Bound'
      BY <3>1, <3>3 DEF ControlInv, Rested, Becomes, Outlived, Bound, Wanted
    <3>4. ASSUME NEW p \in Owners, Told(p), UNCHANGED lock
          PROVE  Bound'
      BY <3>1, <3>4, ToldKeeps DEF ControlInv, Bound, Wanted
    <3> QED BY <2>9, <3>2, <3>3, <3>4 DEF Sends
  <2>10. CASE Clears(c)
    BY <2>10, Parties, TargetsLast DEF ControlInv, Typed, Bound, Clears, Forgotten, Turns,
       Recalls, Wanted, Exclusive, Drawn, Holding, Aimed, Requests, Locks
  <2> QED BY <1>3, <2>1, <2>2, <2>3, <2>4, <2>5, <2>6, <2>7, <2>8, <2>9, <2>10 DEF CancelMoves
<1>4. CASE Due
  BY <1>4, Parties, TargetsLast DEF ControlInv, Typed, Bound, Due, Rewritten, Wanted, Exclusive,
     Drawn, Holding, Aimed, Requests, Locks
<1> QED BY <1>1, <1>2, <1>3, <1>4 DEF Moves

\* A tick goes on only with what has not ended.
LEMMA UnendedKept ==
  ASSUME ControlInv, Moves
  PROVE  Unended'
<1>1. ASSUME NEW p \in Owners, OwnerMoves(p)
      PROVE  Unended'
  <2>1. CASE Wanders(p)
    BY <2>1, Parties DEF ControlInv, Typed, Unended, Wanders, Becomes, Rested, Knows, OnlyProcs,
       Exclusive, Holding, Unfinished, Ended
  <2>2. CASE Killed(p)
    BY <2>2, Parties DEF ControlInv, Typed, Unended, Killed, Becomes, Rested, Outlived,
       Exclusive, Holding, Unfinished, Ended
  <2>3. CASE Hears(p)
    BY <2>3, Parties DEF ControlInv, Typed, Unended, Hears, Becomes, OnlyProcs, Told, Exclusive,
       Holding, Unfinished, Ended
  <2>4. CASE Retires(p)
    BY <2>4, Parties DEF ControlInv, Typed, Unended, Retires, Becomes, Unlocked, Exclusive,
       Holding, Unfinished, Ended
  <2>5. CASE Opens(p)
    BY <2>5, Parties DEF ControlInv, Typed, Unended, Opens, Becomes, Knows, Locked, Exclusive,
       Holding, Unfinished, Ended
  <2>6. CASE Executes(p)
    BY <2>6, Parties DEF ControlInv, Typed, Unended, Executes, Becomes, Knows, Rewritten,
       Exclusive, Holding, Unfinished, Ended
  <2>7. CASE Completes(p)
    BY <2>7, Parties DEF ControlInv, Typed, Unended, Completes, Exclusive, Holding, Unfinished,
       Ended
  <2>8. CASE Ends(p)
    BY <2>8, Parties DEF ControlInv, Typed, Unended, Ends, Becomes, OnlyProcs, Exclusive,
       Holding, Unfinished, Ended
  <2>9. CASE Saves(p)
    BY <2>9, Parties DEF ControlInv, Typed, Unended, Saves, Becomes, Exclusive, Holding,
       Unfinished, Ended
  <2>10. CASE Releases(p)
    BY <2>10, Parties DEF ControlInv, Typed, Unended, Releases, Becomes, Rested, Unlocked,
       Exclusive, Holding, Unfinished, Ended
  <2> QED BY <1>1, <2>1, <2>2, <2>3, <2>4, <2>5, <2>6, <2>7, <2>8, <2>9, <2>10 DEF OwnerMoves
<1>2. ASSUME NEW t \in Ticks, TickMoves(t)
      PROVE  Unended'
  <2>1. CASE Reads(t)
    BY <2>1, Parties DEF ControlInv, Typed, Unended, Reads, Becomes, Knows, OnlyProcs,
       Exclusive, Holding, Unfinished, ForcedCancel, Ended
  <2>2. CASE Honours(t)
    BY <2>2, Parties DEF ControlInv, Typed, Unended, Honours, Becomes, Knows, Rewritten,
       Exclusive, Holding, Unfinished, Ended
  <2>3. CASE Cleans(t)
    BY <2>3, Parties DEF ControlInv, Typed, Unended, Cleans, Becomes, Knows, Forgotten,
       Exclusive, Holding, Unfinished, Ended
  <2>4. CASE Rechecks(t)
    BY <2>4, Parties DEF ControlInv, Typed, Unended, Rechecks, Becomes, Knows, Counts,
       Exclusive, Holding, Stays, NotNow, Unfinished, Ended
  <2> QED BY <1>2, <2>1, <2>2, <2>3, <2>4 DEF TickMoves
<1>3. ASSUME NEW c \in Cancels, CancelMoves(c)
      PROVE  Unended'
  <2>1. CASE Turned(c)
    BY <2>1, Parties DEF ControlInv, Typed, Unended, Turned, Turns, Recalls, OnlyCancels,
       Exclusive, Holding, Unfinished, Ended
  <2>2. CASE Aims(c)
    BY <2>2, Parties DEF ControlInv, Typed, Unended, Aims, Turns, OnlyCancels, Exclusive,
       Holding, Unfinished, Ended
  <2>3. CASE Promises(c)
    BY <2>3, Parties DEF ControlInv, Typed, Unended, Promises, Turns, OnlyCancels, Exclusive,
       Holding, Unfinished, Ended
  <2>4. CASE Takes(c)
    BY <2>4, Parties DEF ControlInv, Typed, Unended, Takes, Locked, Turns, Recalls, Exclusive,
       Holding, Unfinished, Ended
  <2>5. CASE Cancelled(c)
    <3>1. lock.by \notin Owners /\ UNCHANGED proc
      BY <2>5, Parties DEF ControlInv, Exclusive, Saving, Cancelled
    <3>2. \A t \in Ticks : proc[t].pc \notin Holding
      BY <3>1, Parties DEF ControlInv, Exclusive
    <3> QED BY <3>1, <3>2 DEF Unended, Holding
  <2>6. CASE LetsGo(c)
    BY <2>6, Parties DEF ControlInv, Typed, Unended, LetsGo, Unlocked, Turns, Recalls,
       Exclusive, Holding, Unfinished, Ended
  <2>7. CASE Perishes(c)
    BY <2>7, Parties DEF ControlInv, Typed, Unended, Perishes, Turns, Recalls, Exclusive,
       Holding, Unfinished, Ended
  <2>8. CASE Writes(c)
    BY <2>8, Parties DEF ControlInv, Typed, Unended, Writes, Turns, Recalls, Exclusive, Holding,
       Unfinished, Ended
  <2>9. CASE Sends(c)
    BY <2>9, Parties DEF ControlInv, Typed, Unended, Sends, Becomes, Rested, Told, Outlived,
       Turns, Recalls, Exclusive, Holding, Unfinished, Ended
  <2>10. CASE Clears(c)
    BY <2>10, Parties DEF ControlInv, Typed, Unended, Clears, Forgotten, Turns, Recalls,
       Exclusive, Holding, Unfinished, Ended
  <2> QED BY <1>3, <2>1, <2>2, <2>3, <2>4, <2>5, <2>6, <2>7, <2>8, <2>9, <2>10 DEF CancelMoves
<1>4. CASE Due
  BY <1>4, Parties DEF ControlInv, Typed, Unended, Due, Rewritten, Exclusive, Holding,
     Unfinished, Ended
<1> QED BY <1>1, <1>2, <1>3, <1>4 DEF Moves

\* The count that is durable covers the recoveries.
LEMMA CountedKept ==
  ASSUME ControlInv, Moves
  PROVE  Counted'
<1>1. ASSUME NEW p \in Owners, OwnerMoves(p)
      PROVE  Counted'
  <2>1. CASE Wanders(p)
    BY <2>1, Parties, Numbers DEF ControlInv, Typed, Counted, Wanders, Becomes, Rested, Knows,
       OnlyProcs, Records, Stales
  <2>2. CASE Killed(p)
    BY <2>2, Parties, Numbers DEF ControlInv, Typed, Counted, Killed, Becomes, Rested, Outlived,
       Records, Stales
  <2>3. CASE Hears(p)
    BY <2>3, Parties, Numbers DEF ControlInv, Typed, Counted, Hears, Becomes, OnlyProcs, Told,
       Records, Stales
  <2>4. CASE Retires(p)
    BY <2>4, Parties, Numbers DEF ControlInv, Typed, Counted, Retires, Becomes, Unlocked,
       Records, Stales
  <2>5. CASE Opens(p)
    BY <2>5, Parties, Numbers DEF ControlInv, Typed, Counted, Opens, Becomes, Knows, Locked,
       Records, Stales
  <2>6. CASE Executes(p)
    BY <2>6, Parties, Numbers DEF ControlInv, Typed, Counted, Executes, Becomes, Knows,
       Rewritten, Records, Stales
  <2>7. CASE Completes(p)
    BY <2>7, Parties, Numbers DEF ControlInv, Typed, Counted, Completes, Records, Stales
  <2>8. CASE Ends(p)
    BY <2>8, Parties, Numbers DEF ControlInv, Typed, Counted, Ends, Becomes, OnlyProcs, Records,
       Stales
  <2>9. CASE Saves(p)
    BY <2>9, Parties, Numbers DEF ControlInv, Typed, Counted, Saves, Becomes, Records, Stales
  <2>10. CASE Releases(p)
    BY <2>10, Parties, Numbers DEF ControlInv, Typed, Counted, Releases, Becomes, Rested,
       Unlocked, Records, Stales
  <2> QED BY <1>1, <2>1, <2>2, <2>3, <2>4, <2>5, <2>6, <2>7, <2>8, <2>9, <2>10 DEF OwnerMoves
<1>2. ASSUME NEW t \in Ticks, TickMoves(t)
      PROVE  Counted'
  <2>1. CASE Reads(t)
    BY <2>1, Parties, Numbers DEF ControlInv, Typed, Counted, Reads, Becomes, Knows, OnlyProcs,
       Records, Stales
  <2>2. CASE Honours(t)
    BY <2>2, Parties, Numbers DEF ControlInv, Typed, Counted, Honours, Becomes, Knows,
       Rewritten, Records, Stales
  <2>3. CASE Cleans(t)
    BY <2>3, Parties, Numbers DEF ControlInv, Typed, Counted, Cleans, Becomes, Knows, Forgotten,
       Records, Stales
  <2>4. CASE Rechecks(t)
    BY <2>4, Parties, Numbers, NextStaleIs DEF ControlInv, Typed, Counted, Rechecks, Becomes,
       Knows, Counts, Records, Stales, Stays
  <2> QED BY <1>2, <2>1, <2>2, <2>3, <2>4 DEF TickMoves
<1>3. ASSUME NEW c \in Cancels, CancelMoves(c)
      PROVE  Counted'
  <2>1. CASE Turned(c)
    BY <2>1, Parties, Numbers DEF ControlInv, Typed, Counted, Turned, Turns, Recalls,
       OnlyCancels, Records, Stales
  <2>2. CASE Aims(c)
    BY <2>2, Parties, Numbers DEF ControlInv, Typed, Counted, Aims, Turns, OnlyCancels, Records,
       Stales
  <2>3. CASE Promises(c)
    BY <2>3, Parties, Numbers DEF ControlInv, Typed, Counted, Promises, Turns, OnlyCancels,
       Records, Stales
  <2>4. CASE Takes(c)
    BY <2>4, Parties, Numbers DEF ControlInv, Typed, Counted, Takes, Locked, Turns, Recalls,
       Records, Stales
  <2>5. CASE Cancelled(c)
    BY <2>5, Parties, Numbers DEF ControlInv, Typed, Counted, Cancelled, Rewritten, Turns,
       Recalls, Records, Stales
  <2>6. CASE LetsGo(c)
    BY <2>6, Parties, Numbers DEF ControlInv, Typed, Counted, LetsGo, Unlocked, Turns, Recalls,
       Records, Stales
  <2>7. CASE Perishes(c)
    BY <2>7, Parties, Numbers DEF ControlInv, Typed, Counted, Perishes, Turns, Recalls, Records,
       Stales
  <2>8. CASE Writes(c)
    BY <2>8, Parties, Numbers DEF ControlInv, Typed, Counted, Writes, Turns, Recalls, Records,
       Stales
  <2>9. CASE Sends(c)
    BY <2>9, Parties, Numbers DEF ControlInv, Typed, Counted, Sends, Becomes, Rested, Told,
       Outlived, Turns, Recalls, Records, Stales
  <2>10. CASE Clears(c)
    BY <2>10, Parties, Numbers DEF ControlInv, Typed, Counted, Clears, Forgotten, Turns,
       Recalls, Records, Stales
  <2> QED BY <1>3, <2>1, <2>2, <2>3, <2>4, <2>5, <2>6, <2>7, <2>8, <2>9, <2>10 DEF CancelMoves
<1>4. CASE Due
  BY <1>4, Parties, Numbers DEF ControlInv, Typed, Counted, Due, Rewritten, Records, Stales
<1> QED BY <1>1, <1>2, <1>3, <1>4 DEF Moves

\* A cancel that promised an end gets it.
LEMMA PromisedKept ==
  ASSUME ControlInv, Moves
  PROVE  Promised'
<1>1. ASSUME NEW p \in Owners, OwnerMoves(p)
      PROVE  Promised'
  <2>1. CASE Wanders(p)
    BY <2>1, Parties DEF ControlInv, Typed, Promised, Wanders, Becomes, Rested, Knows,
       OnlyProcs, Exclusive, Drawn, Aimed, Holding, Targeting, Unfinished
  <2>2. CASE Killed(p)
    BY <2>2, Parties DEF ControlInv, Typed, Promised, Killed, Becomes, Rested, Outlived,
       Exclusive, Drawn, Aimed, Holding, Targeting, Unfinished
  <2>3. CASE Hears(p)
    BY <2>3, Parties DEF ControlInv, Typed, Promised, Hears, Becomes, OnlyProcs, Told,
       Exclusive, Drawn, Aimed, Holding, Targeting, Unfinished
  <2>4. CASE Retires(p)
    BY <2>4, Parties DEF ControlInv, Typed, Promised, Retires, Becomes, Unlocked, Exclusive,
       Drawn, Aimed, Holding, Targeting, Unfinished
  <2>5. CASE Opens(p)
    BY <2>5, Parties DEF ControlInv, Typed, Promised, Opens, Becomes, Knows, Locked, Exclusive,
       Drawn, Aimed, Holding, Targeting, Unfinished
  <2>6. CASE Executes(p)
    BY <2>6, Parties DEF ControlInv, Typed, Promised, Executes, Becomes, Knows, Rewritten,
       Exclusive, Drawn, Aimed, Holding, Targeting, Unfinished
  <2>7. CASE Completes(p)
    BY <2>7, Parties DEF ControlInv, Typed, Promised, Completes, Exclusive, Drawn, Aimed,
       Holding, Targeting, Unfinished
  <2>8. CASE Ends(p)
    BY <2>8, Parties DEF ControlInv, Typed, Promised, Ends, Becomes, OnlyProcs, Exclusive,
       Drawn, Aimed, Holding, Targeting, Unfinished
  <2>9. CASE Saves(p)
    BY <2>9, Parties DEF ControlInv, Typed, Promised, Saves, Becomes, Exclusive, Drawn, Aimed,
       Holding, Targeting, Unfinished
  <2>10. CASE Releases(p)
    BY <2>10, Parties DEF ControlInv, Typed, Promised, Releases, Becomes, Rested, Unlocked,
       Exclusive, Drawn, Aimed, Holding, Targeting, Unfinished
  <2> QED BY <1>1, <2>1, <2>2, <2>3, <2>4, <2>5, <2>6, <2>7, <2>8, <2>9, <2>10 DEF OwnerMoves
<1>2. ASSUME NEW t \in Ticks, TickMoves(t)
      PROVE  Promised'
  <2>1. CASE Reads(t)
    BY <2>1, Parties DEF ControlInv, Typed, Promised, Reads, Becomes, Knows, OnlyProcs,
       Exclusive, Drawn, Aimed, Holding, Targeting, ForcedCancel, Unfinished
  <2>2. CASE Honours(t)
    BY <2>2, Parties DEF ControlInv, Typed, Promised, Honours, Becomes, Knows, Rewritten,
       Exclusive, Drawn, Aimed, Holding, Targeting, Unfinished
  <2>3. CASE Cleans(t)
    BY <2>3, Parties DEF ControlInv, Typed, Promised, Cleans, Becomes, Knows, Forgotten,
       Exclusive, Drawn, Aimed, Holding, Targeting, Unfinished
  <2>4. CASE Rechecks(t)
    BY <2>4, Parties DEF ControlInv, Typed, Promised, Rechecks, Becomes, Knows, Counts,
       Exclusive, Drawn, Aimed, Holding, Targeting, Stays, NotNow, Unfinished
  <2> QED BY <1>2, <2>1, <2>2, <2>3, <2>4 DEF TickMoves
<1>3. ASSUME NEW c \in Cancels, CancelMoves(c)
      PROVE  Promised'
  <2>1. CASE Turned(c)
    BY <2>1, Parties DEF ControlInv, Typed, Promised, Turned, Turns, Recalls, OnlyCancels,
       Exclusive, Drawn, Aimed, Holding, Targeting, Unfinished
  <2>2. CASE Aims(c)
    BY <2>2, Parties DEF ControlInv, Typed, Promised, Aims, Turns, OnlyCancels, Exclusive,
       Drawn, Aimed, Holding, Targeting, Unfinished
  <2>3. CASE Promises(c)
    BY <2>3, Parties DEF ControlInv, Typed, Promised, Promises, Turns, OnlyCancels, Exclusive,
       Drawn, Aimed, Holding, Targeting, Unfinished
  <2>4. CASE Takes(c)
    BY <2>4, Parties DEF ControlInv, Typed, Promised, Takes, Locked, Turns, Recalls, Exclusive,
       Drawn, Aimed, Holding, Targeting, Unfinished
  <2>5. CASE Cancelled(c)
    BY <2>5, Parties DEF ControlInv, Typed, Promised, Cancelled, Rewritten, Turns, Recalls,
       Exclusive, Drawn, Aimed, Holding, Targeting, Unfinished
  <2>6. CASE LetsGo(c)
    BY <2>6, Parties DEF ControlInv, Typed, Promised, LetsGo, Unlocked, Turns, Recalls,
       Exclusive, Drawn, Aimed, Holding, Targeting, Unfinished
  <2>7. CASE Perishes(c)
    BY <2>7, Parties DEF ControlInv, Typed, Promised, Perishes, Turns, Recalls, Exclusive,
       Drawn, Aimed, Holding, Targeting, Unfinished
  <2>8. CASE Writes(c)
    BY <2>8, Parties DEF ControlInv, Typed, Promised, Writes, Turns, Recalls, Exclusive, Drawn,
       Aimed, Holding, Targeting, Unfinished
  <2>9. CASE Sends(c)
    BY <2>9, Parties DEF ControlInv, Typed, Promised, Sends, Becomes, Rested, Told, Outlived,
       Turns, Recalls, Exclusive, Drawn, Aimed, Holding, Targeting, Unfinished
  <2>10. CASE Clears(c)
    BY <2>10, Parties DEF ControlInv, Typed, Promised, Clears, Forgotten, Turns, Recalls,
       Exclusive, Drawn, Aimed, Holding, Targeting, Unfinished
  <2> QED BY <1>3, <2>1, <2>2, <2>3, <2>4, <2>5, <2>6, <2>7, <2>8, <2>9, <2>10 DEF CancelMoves
<1>4. CASE Due
  BY <1>4, Parties DEF ControlInv, Typed, Promised, Due, Rewritten, Exclusive, Drawn, Aimed,
     Holding, Targeting, Unfinished
<1> QED BY <1>1, <1>2, <1>3, <1>4 DEF Moves

LEMMA InitKept ==
  ASSUME Init
  PROVE  ControlInv
<1>1. /\ lock = NoLock /\ request = NoRequest /\ drawn = 0 /\ streak \in 0..Cap
      /\ \A p \in Owners : proc[p] = Fresh
      /\ \A c \in Cancels : can[c] = [pc |-> "idle", tries |-> 1, forced |-> FALSE,
                                      promised |-> FALSE, target |-> 0]
  BY DEF Init
<1>2. Fresh \in Procs /\ Fresh.pc = "idle" /\ Fresh.sig = "none" /\ Fresh.reclaimed = 0
  BY DEF Fresh, Procs, Places, Sigs, Outcomes
<1>3. rec \in Records /\ rec.status \in {"running", "suspended"} /\ rec.by = 0
      /\ rec.steps = 0 /\ rec.stale = [count |-> streak, steps |-> 0]
  <2> DEFINE seed == [count |-> streak, steps |-> 0]
  <2>1. seed \in Stales /\ 0 \in 0..MaxSteps /\ {"running", "suspended"} \subseteq Statuses
    BY <1>1, Numbers DEF Stales, Statuses
  <2>2. rec \in [status : {"running", "suspended"}, steps : {0}, due : {TRUE},
                 stale : {seed}, by : {0}]
    BY DEF Init
  <2> HIDE DEF seed
  <2>3. rec \in Records
    <3>1. rec = [status |-> rec.status, steps |-> 0, due |-> TRUE, stale |-> seed, by |-> 0]
      BY <2>2
    <3>2. rec.status \in Statuses
      BY <2>1, <2>2
    <3> DEFINE status == rec.status
    <3> HIDE DEF status
    <3>3. [status |-> status, steps |-> 0, due |-> TRUE, stale |-> seed, by |-> 0] \in Records
      BY <2>1, <3>2 DEF Records, status
    <3> QED BY <3>1, <3>3 DEF status
  <2>4. rec.status \in {"running", "suspended"} /\ rec.by = 0 /\ rec.steps = 0
        /\ rec.stale = seed
    BY <2>2
  <2> QED BY <2>3, <2>4 DEF seed
<1>4. Typed
  <2>1. proc = [p \in Owners |-> Fresh]
    BY DEF Init
  <2>2. proc \in [Owners -> Procs]
    BY <2>1, <1>2
  <2>3. can \in [Cancels -> Cancellings]
    BY DEF Init, Cancellings, Stages, Untargeted
  <2> QED BY <1>1, <1>3, <2>2, <2>3, NoLockIs, NoRequestIs, Numbers DEF Typed
<1>5. Exclusive
  BY <1>1, <1>2, NoLockIs DEF Exclusive, Holding, Saving
<1>6. Drawn
  BY <1>1, <1>2, <1>3, NoLockIs, NoRequestIs DEF Drawn
<1>7. Aimed
  BY <1>1, NoRequestIs, NoLockIs, Parties DEF Aimed, Targeting
<1>8. Bound
  BY <1>1, <1>2, <1>3 DEF Bound
<1>9. Unended
  BY <1>3 DEF Unended, Unfinished, Ended
<1>10. Counted
  BY <1>1, <1>3, Numbers DEF Counted
<1>11. Promised
  BY <1>1 DEF Promised
<1> QED BY <1>4, <1>5, <1>6, <1>7, <1>8, <1>9, <1>10, <1>11 DEF ControlInv

LEMMA StepKept ==
  ASSUME ControlInv, [Next]_vars
  PROVE  ControlInv'
<1>1. CASE Next
  <2>1. Moves
    BY <1>1, EveryStepMoves DEF ControlInv
  <2> QED BY <2>1, TypedKept, ExclusiveKept, DrawnKept, AimedKept, BoundKept, UnendedKept,
             CountedKept, PromisedKept DEF ControlInv
<1>2. CASE UNCHANGED vars
  BY <1>2 DEF vars, ControlInv, Typed, Exclusive, Drawn, Aimed, Bound, Wanted, Unended,
     Unfinished, Counted, Promised
<1> QED BY <1>1, <1>2

\* In every reachable state: the lock has one holder that knows it, tokens are drawn once,
\* requests are for a target that their writer took, and what a process is about to
\* do to the run it may do (lock.ts, cancel.ts, tick.ts, runner.ts).
THEOREM ControlInvariant == Spec => []ControlInv
PROOF BY InitKept, StepKept, PTL DEF Spec
-----------------------------------------------------------------------------
(* What the runs check.                                                    *)

\* A run is cancelled only as the execution that some cancel took as its target, or by a
\* cancel that held the run's lock itself: a request left behind ends no later
\* execution (ADR 0039).
THEOREM AlwaysRequestsAreBound == Spec => []RequestsAreBound
<1>1. ASSUME ControlInv
      PROVE  RequestsAreBound
  <2>1. rec.by \in 0..drawn /\ lock.tok \in 0..drawn /\ request.tok \in 0..drawn
    BY <1>1 DEF ControlInv, Typed, Drawn, Records, Locks, Requests
  <2>2. rec \in [status : {"running", "suspended"} \cup Ended, steps : 0..MaxSteps,
                 due : BOOLEAN, stale : [count : 0..Cap, steps : 0..MaxSteps],
                 by : 0..drawn]
    BY <1>1, <2>1 DEF ControlInv, Typed, Records, Statuses, Stales
  <2>3. lock \in [tok : 0..drawn, by : Owners \cup Cancels \cup {None}, live : BOOLEAN]
    BY <1>1, <2>1 DEF ControlInv, Typed, Locks
  <2>4. request \in [tok : 0..drawn, by : Cancels \cup {None}]
    BY <1>1, <2>1 DEF ControlInv, Typed, Requests
  <2>5. TypeOK
    BY <1>1, <2>2, <2>3, <2>4 DEF TypeOK, ControlInv, Exclusive, Busy, Saving
  <2>6. rec.status = "cancelled" /\ rec.by # 0 => \E c \in Cancels : can[c].target = rec.by
    BY <1>1 DEF ControlInv, Bound, Wanted
  <2> QED BY <2>5, <2>6 DEF RequestsAreBound
<1> QED BY <1>1, ControlInvariant, PTL

\* However ticks overlap and whenever they crash, a stale run is recovered at most Cap
\* times in a row without a new step (decideStaleRecovery, ADR 0020).
THEOREM AlwaysCrashLoopsStop == Spec => []CrashLoopsStop
<1>1. ControlInv => CrashLoopsStop
  BY DEF ControlInv, Counted, CrashLoopsStop
<1> QED BY <1>1, ControlInvariant, PTL

\* Where cancel answered that the next tick ends the run, the tick that retires that
\* owner's lock never reaches the body (honourForcedCancel, ADR 0058).
THEOREM AlwaysKilledCancelSticks == Spec => []KilledCancelSticks
<1>1. ControlInv => KilledCancelSticks
  BY DEF ControlInv, Promised, KilledCancelSticks
<1> QED BY <1>1, ControlInvariant, PTL

\* An ended run changes only because a command that holds its lock resumes it: no tick that
\* read it while it was unfinished and no late cancel touches it again (tick.ts, cancel.ts).
THEOREM AlwaysEndedStaysEnded == Spec => EndedStaysEnded
<1>1. ASSUME ControlInv, Next, ~Unfinished, rec' # rec
      PROVE  lock.by \in Runners
  <2>1. Moves
    BY <1>1, EveryStepMoves DEF ControlInv
  <2>2. PICK p \in Owners : proc[p].pc \in {"honour", "execute", "body", "ending"}
    <3>1. ASSUME NEW p \in Owners, OwnerMoves(p)
          PROVE  proc[p].pc \in {"execute", "body", "ending"}
      BY <1>1, <3>1 DEF OwnerMoves, Wanders, OnlyProcs, Killed, Hears, Retires, Opens, Executes,
         Completes, Ends, Saves, Releases
    <3>2. ASSUME NEW t \in Ticks, TickMoves(t)
          PROVE  proc[t].pc = "honour"
      BY <1>1, <3>2 DEF TickMoves, Reads, OnlyProcs, Honours, Cleans, Rechecks, Counts,
         Unfinished, Ended
    <3>3. ASSUME NEW c \in Cancels, CancelMoves(c)
          PROVE  FALSE
      BY <1>1, <3>3 DEF CancelMoves, Turned, Aims, Promises, OnlyCancels, Takes, Cancelled,
         LetsGo, Perishes, Writes, Sends, Clears
    <3>4. ~Due
      BY <1>1 DEF Due, Unfinished, Ended
    <3> QED BY <2>1, <3>1, <3>2, <3>3, <3>4, Parties DEF Moves
  <2>3. p \notin Ticks
    BY <1>1, <2>2 DEF ControlInv, Unended
  <2>4. lock.by = p
    BY <1>1, <2>2 DEF ControlInv, Exclusive, Holding
  <2> QED BY <2>3, <2>4 DEF Owners
<1>2. ControlInv /\ [Next]_vars => [~Unfinished /\ rec' # rec => lock.by \in Runners]_vars
  BY <1>1 DEF vars
<1> QED BY <1>2, ControlInvariant, PTL DEF Spec, EndedStaysEnded
=============================================================================
