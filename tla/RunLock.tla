------------------------------- MODULE RunLock -------------------------------
(***************************************************************************)
(* One lock directory of a run, at the granularity of the file system      *)
(* calls that src/workflow/runtime/lock.ts makes on it.                    *)
(*                                                                         *)
(* Every ownership transition is one rename(2) or link(2): publishLock     *)
(* renames a complete private directory onto the lock path, retire renames *)
(* it away to a tombstone, publishMarker links recovery.json.  Between two *)
(* calls any other process may run, so each call is an action of its own   *)
(* and what a process has read is kept in its locals, where it can grow    *)
(* stale.                                                                  *)
(*                                                                         *)
(* A lock directory is created with its owner's fresh token and carries    *)
(* that token for ever, so the token also identifies the directory: this   *)
(* is how an operation by path is told from one on the directory that the  *)
(* process looked at before.                                               *)
(***************************************************************************)
EXTENDS Naturals, FiniteSets

CONSTANTS
  Procs,         \* processes that acquire, release or unlock
  Corpses,       \* processes that died before the model starts
  None,          \* no token, no marker, no directory
  MaxSessions,   \* bound: commands one process issues
  MaxAttempts,   \* iterations of acquireLock's loop (3 in the code)
  MayCrashAt,    \* program points at which a process may be killed
  Commands,      \* "acquire", "cancel" (reclaimStale: false) and "unlock"
  InitialLocks   \* what is at the lock path when the model starts

Tokens == (Procs \X (1..MaxSessions)) \cup (Corpses \X {0})
Markers == (Procs \X (1..MaxSessions) \X (0..MaxAttempts)) \cup (Corpses \X {0} \X {0})

\* A lock directory: owner.json (token and `released`) and recovery.json.
Dir == [owner : Tokens, released : BOOLEAN, marker : Markers \cup {None}]

\* What processes that are dead may have left at the lock path.
LeftBehind == [owner : Corpses \X {0}, released : BOOLEAN,
               marker : (Corpses \X {0} \X {0}) \cup {None}]

ASSUME RunLockAssumption ==
  /\ MaxSessions \in Nat /\ MaxAttempts \in Nat \ {0}
  /\ Commands \subseteq {"acquire", "cancel", "unlock"}
  /\ Procs \cap Corpses = {}
  /\ InitialLocks \subseteq LeftBehind \cup {None}
  /\ None \notin Dir \cup Tokens \cup Markers

VARIABLES
  lock,    \* the directory at the lock path, or None
  tomb,    \* tomb[p]: the directory under p's `.gone` name, or None
  aside,   \* aside[p]: the recovery.json that p moved aside, or None
  kids,    \* tokens whose recorded harness children are alive
  dead,    \* processes that have died
  pc,      \* pc[p]: the next file system call of p
  my,      \* my[p]: p's locals
  astray   \* history: takeMarker has moved aside a marker that it was not called for

vars == <<lock, tomb, aside, kids, dead, pc, my, astray>>

\* Steps between a successful publish and the first step that gives the lock up.
OwnerSteps == {"sweep", "owned", "relRead", "relKids"}

Steps == {"idle", "publish", "read", "reread", "observe", "precheck",
          "markOpen", "markLink", "readMarker", "take", "readAside", "putAside",
          "verify", "recover", "confirm", "rename", "check", "putBack",
          "relMarkOpen", "relMarkCheck", "relMarkRename"} \cup OwnerSteps

Fresh == [session |-> 0, mode |-> "acquire", attempt |-> 0, looks |-> 0, prev |-> None,
          dir |-> None, round |-> 1, want |-> None, ctx |-> "claim"]

Token(p) == <<p, my[p].session>>
Marker(p) == <<p, my[p].session, my[p].attempt>>
Alive(p) == p \in Procs \ dead

\* ownerState: `released` counts before liveness; both make a lock recoverable.
Recoverable(d) == d.released \/ d.owner[1] \in dead

\* What a read by path finds now: whose directory, and which marker in it.
PathIs(t) == IF lock = None THEN FALSE ELSE lock.owner = t
PathMarker == IF lock = None THEN None ELSE lock.marker
PathKids == IF lock = None THEN FALSE ELSE lock.owner \in kids

At(p, step) == Alive(p) /\ pc[p] = step
Goto(p, step) == pc' = [pc EXCEPT ![p] = step]

\* The command ends, with an error or a result; its locals are gone.
End(p) ==
  /\ Goto(p, "idle")
  /\ my' = [my EXCEPT ![p] = [Fresh EXCEPT !.session = my[p].session]]

AttemptsLeft(p) == my[p].attempt + 1 < MaxAttempts

\* acquireLock's loop goes round again, or gives up after its last attempt;
\* unlock has no loop and reports the lock as changed or vanished.
Again(p) ==
  IF my[p].mode # "unlock" /\ AttemptsLeft(p)
  THEN /\ Goto(p, "publish")
       /\ my' = [my EXCEPT ![p] = [Fresh EXCEPT !.session = my[p].session,
                                                !.mode = my[p].mode,
                                                !.attempt = my[p].attempt + 1]]
  ELSE End(p)

\* takeMarker on `want`, called for the reason `ctx`.
BeginTake(p, ctx, want) ==
  /\ Goto(p, "take")
  /\ my' = [my EXCEPT ![p].ctx = ctx, ![p].want = want]

\* The `finally` of a recovery that did not retire: remove our own marker only.
Abandon(p) == BeginTake(p, "clean", Marker(p))

Init ==
  /\ lock \in InitialLocks
  /\ tomb = [p \in Procs |-> None]
  /\ aside = [p \in Procs |-> None]
  /\ kids \in SUBSET {c \in Corpses \X {0} : lock # None /\ lock.owner = c}
  /\ dead = Corpses
  /\ pc = [p \in Procs |-> "idle"]
  /\ my = [p \in Procs |-> Fresh]
  /\ astray = FALSE
------------------------------------------------------------------------------
(* acquireLock: publish, or look at who is in the way.                     *)

Begin(p) ==
  /\ At(p, "idle") /\ my[p].session < MaxSessions
  /\ \E mode \in Commands :
       /\ Goto(p, IF mode = "unlock" THEN "observe" ELSE "publish")
       /\ my' = [my EXCEPT ![p] = [Fresh EXCEPT !.session = my[p].session + 1,
                                                !.mode = mode]]
  /\ UNCHANGED <<lock, tomb, aside, kids, dead, astray>>

\* publishLock: the rename fails when a (non-empty) lock is there.
Publish(p) ==
  /\ At(p, "publish")
  /\ \/ /\ lock = None
        /\ lock' = [owner |-> Token(p), released |-> FALSE, marker |-> None]
        /\ Goto(p, "sweep")
        /\ UNCHANGED my
     \/ /\ lock # None
        /\ Goto(p, "read")
        /\ UNCHANGED <<lock, my>>
  /\ UNCHANGED <<tomb, aside, kids, dead, astray>>

\* readContended, one readOwner: a live owner refuses; so does a stale one when
\* the caller asked not to reclaim (reclaimStale: false, as `workflow cancel`).
ReadOwner(p) ==
  /\ At(p, "read")
  /\ \/ /\ lock = None
        /\ Goto(p, "reread")
        /\ UNCHANGED my
     \/ /\ lock # None
        /\ IF Recoverable(lock) THEN my[p].mode = "cancel" ELSE TRUE
        /\ End(p)
     \/ /\ lock # None
        /\ IF Recoverable(lock) THEN my[p].mode = "acquire" ELSE FALSE
        /\ Goto(p, "markOpen")
        /\ my' = [my EXCEPT ![p].prev = lock.owner, ![p].round = 1]
  /\ UNCHANGED <<lock, tomb, aside, kids, dead, astray>>

\* readContended after ENOENT: no lock means look again from the top; a lock that
\* is there again is read again, three looks in all.
LookAgain(p) ==
  /\ At(p, "reread")
  /\ \/ /\ lock = None
        /\ Again(p)
     \/ /\ lock # None /\ my[p].looks < 2
        /\ Goto(p, "read")
        /\ my' = [my EXCEPT ![p].looks = @ + 1]
     \/ /\ lock # None /\ my[p].looks = 2
        /\ End(p)
  /\ UNCHANGED <<lock, tomb, aside, kids, dead, astray>>
------------------------------------------------------------------------------
(* claimRecovery: publishMarker, and takeMarker for a dead recoverer's.    *)

\* Open the temporary marker file inside whatever directory is at the path now.
MarkOpen(p) ==
  /\ At(p, "markOpen")
  /\ \/ /\ lock = None
        /\ Again(p)
     \/ /\ lock # None
        /\ Goto(p, "markLink")
        /\ my' = [my EXCEPT ![p].dir = lock.owner]
  /\ UNCHANGED <<lock, tomb, aside, kids, dead, astray>>

\* link() it to recovery.json, by path: the file must still be under the path.
MarkLink(p) ==
  /\ At(p, "markLink")
  /\ \/ /\ ~PathIs(my[p].dir)
        /\ Again(p)
        /\ UNCHANGED lock
     \/ /\ PathIs(my[p].dir) /\ PathMarker = None
        /\ lock' = [lock EXCEPT !.marker = Marker(p)]
        /\ Goto(p, "verify")
        /\ UNCHANGED my
     \/ /\ PathIs(my[p].dir) /\ PathMarker # None
        /\ IF my[p].round = 1 THEN Goto(p, "readMarker") /\ UNCHANGED my ELSE End(p)
        /\ UNCHANGED lock
  /\ UNCHANGED <<tomb, aside, kids, dead, astray>>

\* Someone else's marker: only a dead recoverer's may be taken.
ReadMarker(p) ==
  /\ At(p, "readMarker")
  /\ \/ /\ PathMarker = None
        /\ Again(p)
     \/ /\ PathMarker # None
        /\ IF lock.marker[1] \in dead
           THEN BeginTake(p, "claim", lock.marker)
           ELSE End(p)
  /\ UNCHANGED <<lock, tomb, aside, kids, dead, astray>>

\* What follows a takeMarker that took the marker, or found none.
AfterTake(p, taken) ==
  CASE my[p].ctx = "clean" -> End(p)
    [] my[p].ctx = "unlock" ->
         Goto(p, "markOpen") /\ my' = [my EXCEPT ![p].round = 1]
    [] my[p].ctx = "claim" ->
         IF taken
         THEN Goto(p, "markOpen") /\ my' = [my EXCEPT ![p].round = 2, ![p].want = None]
         ELSE Again(p)

\* takeMarker: rename recovery.json aside, whoever's it is by now.
TakeMarker(p) ==
  /\ At(p, "take")
  /\ \/ /\ PathMarker = None
        /\ AfterTake(p, FALSE)
        /\ UNCHANGED <<lock, aside, astray>>
     \/ /\ PathMarker # None
        /\ aside' = [aside EXCEPT ![p] = [dir |-> lock.owner, marker |-> lock.marker]]
        /\ lock' = [lock EXCEPT !.marker = None]
        /\ astray' = (astray \/ lock.marker # my[p].want)
        /\ Goto(p, "readAside")
        /\ UNCHANGED my
  /\ UNCHANGED <<tomb, kids, dead>>

\* Whether the file p moved aside is still reachable through the lock path.
AsideHere(p) == PathIs(aside[p].dir)

\* Read it back: the wanted marker is removed, any other must go back.
ReadAside(p) ==
  /\ At(p, "readAside")
  /\ IF AsideHere(p) /\ aside[p].marker = my[p].want
     THEN /\ AfterTake(p, TRUE)
          /\ aside' = [aside EXCEPT ![p] = None]
     ELSE /\ Goto(p, "putAside")
          /\ UNCHANGED <<my, aside>>
  /\ UNCHANGED <<lock, tomb, kids, dead, astray>>

\* link() it back; a newer marker keeps the name.  Every outcome refuses.
PutAside(p) ==
  /\ At(p, "putAside")
  /\ lock' = IF AsideHere(p) /\ lock.marker = None
             THEN [lock EXCEPT !.marker = aside[p].marker]
             ELSE lock
  /\ aside' = [aside EXCEPT ![p] = None]
  /\ End(p)
  /\ UNCHANGED <<tomb, kids, dead, astray>>
------------------------------------------------------------------------------
(* The claimed recovery: verify, recover the children, confirm, retire.    *)

\* Mutant of VerifyOwner: the owner is not read again under the marker.
VerifyNothing(p) ==
  /\ At(p, "verify")
  /\ Goto(p, IF my[p].mode = "acquire" THEN "recover" ELSE "confirm")
  /\ UNCHANGED <<lock, tomb, aside, kids, dead, my, astray>>

VerifyOwner(p) ==
  /\ At(p, "verify")
  /\ IF \/ ~PathIs(my[p].prev)
        \/ my[p].mode = "acquire" /\ ~Recoverable(lock)
     THEN Abandon(p)
     ELSE /\ Goto(p, IF my[p].mode = "acquire" THEN "recover" ELSE "confirm")
          /\ UNCHANGED my
  /\ UNCHANGED <<lock, tomb, aside, kids, dead, astray>>

\* Mutant of RecoverProcesses: live children do not hold the recovery up.
RecoverOverChildren(p) ==
  /\ At(p, "recover")
  /\ Goto(p, "confirm")
  /\ UNCHANGED <<lock, tomb, aside, kids, dead, my, astray>>

\* Mutant of RecoverProcesses: a refusal leaves the recoverer's own marker.
RecoverLeavesMarker(p) ==
  /\ At(p, "recover")
  /\ IF PathKids THEN End(p) ELSE Goto(p, "confirm") /\ UNCHANGED my
  /\ UNCHANGED <<lock, tomb, aside, kids, dead, astray>>

\* recoverProcesses: live children refuse, unless --kill-orphans stops them.
RecoverProcesses(p) ==
  /\ At(p, "recover")
  /\ \/ /\ ~PathKids
        /\ Goto(p, "confirm")
        /\ UNCHANGED <<kids, my>>
     \/ /\ PathKids
        /\ Abandon(p)
        /\ UNCHANGED kids
     \/ /\ PathKids /\ PathIs(my[p].prev)
        /\ kids' = kids \ {lock.owner}
        /\ Goto(p, "confirm")
        /\ UNCHANGED my
  /\ UNCHANGED <<lock, tomb, aside, dead, astray>>

\* A reclaimer that judged this recoverer dead may have taken the marker.
ConfirmMarker(p) ==
  /\ At(p, "confirm")
  /\ IF PathMarker = Marker(p)
     THEN Goto(p, "rename") /\ UNCHANGED my
     ELSE Abandon(p)
  /\ UNCHANGED <<lock, tomb, aside, kids, dead, astray>>
------------------------------------------------------------------------------
(* retire: used by recovery, by unlock and by release.                     *)

AfterFailedRetire(p) == IF my[p].mode = "release" THEN End(p) ELSE Abandon(p)

\* Move the directory at the path to a tombstone, whichever directory it is.
RetireRename(p) ==
  /\ At(p, "rename")
  /\ \/ /\ lock = None
        /\ AfterFailedRetire(p)
        /\ UNCHANGED <<lock, tomb>>
     \/ /\ lock # None
        /\ tomb' = [tomb EXCEPT ![p] = lock]
        /\ lock' = None
        /\ Goto(p, "check")
        /\ UNCHANGED my
  /\ UNCHANGED <<aside, kids, dead, astray>>

\* Mutant of Carries: a recovery does not expect its own marker in the tombstone.
CarriesUnmarked(p) == tomb[p] = None \/ (tomb[p].owner = my[p].prev /\ tomb[p].marker = None)

\* Mutant of Carries: only the marker in the tombstone is compared.
CarriesMarker(p) ==
  \/ tomb[p] = None
  \/ my[p].mode # "release" => tomb[p].marker \in {Marker(p), None}

\* Is the tombstone what was verified?  A file that is missing from it counts as
\* matching: a new owner is sweeping it.
Carries(p) ==
  \/ tomb[p] = None
  \/ /\ tomb[p].owner = my[p].prev
     /\ my[p].mode # "release" => tomb[p].marker \in {Marker(p), None}

RetireCheck(p) ==
  /\ At(p, "check")
  /\ IF Carries(p)
     THEN /\ tomb' = [tomb EXCEPT ![p] = None]
          /\ IF my[p].mode = "acquire" THEN Again(p) ELSE End(p)
     ELSE /\ Goto(p, "putBack")
          /\ UNCHANGED <<tomb, my>>
  /\ UNCHANGED <<lock, aside, kids, dead, astray>>

\* Rename it back; this fails, silently, when another lock took the path or when
\* the tombstone has been swept.  A tombstone left behind is never read again.
RetirePutBack(p) ==
  /\ At(p, "putBack")
  /\ lock' = IF lock = None THEN tomb[p] ELSE lock
  /\ tomb' = [tomb EXCEPT ![p] = None]
  /\ AfterFailedRetire(p)
  /\ UNCHANGED <<aside, kids, dead, astray>>
------------------------------------------------------------------------------
(* The owner: sweep strays, track children, release.                       *)

\* sweepStrays removes every tombstone of this lock, in flight or not.
SweepStrays(p) ==
  /\ At(p, "sweep")
  /\ tomb' = [q \in Procs |-> None]
  /\ Goto(p, "owned")
  /\ UNCHANGED <<lock, aside, kids, dead, my, astray>>

\* An error while removing abandoned temporary files: retire our own lock.
PublishFails(p) ==
  /\ At(p, "sweep")
  /\ Goto(p, "rename")
  /\ my' = [my EXCEPT ![p].mode = "release", ![p].prev = Token(p)]
  /\ UNCHANGED <<lock, tomb, aside, kids, dead, astray>>

\* trackProcess records the child under the lock before it is given work.
TrackProcess(p) ==
  /\ At(p, "owned")
  /\ PathIs(Token(p))
  /\ kids' = kids \cup {Token(p)}
  /\ UNCHANGED <<lock, tomb, aside, dead, pc, my, astray>>

ChildExits ==
  /\ \E t \in kids : kids' = kids \ {t}
  /\ UNCHANGED <<lock, tomb, aside, dead, pc, my, astray>>

Release(p) ==
  /\ At(p, "owned")
  /\ Goto(p, "relRead")
  /\ UNCHANGED <<lock, tomb, aside, kids, dead, my, astray>>

\* release: the lock must still carry our token.
ReleaseRead(p) ==
  /\ At(p, "relRead")
  /\ IF PathIs(Token(p))
     THEN Goto(p, "relKids") /\ UNCHANGED my
     ELSE End(p)
  /\ UNCHANGED <<lock, tomb, aside, kids, dead, astray>>

\* Live children keep the lock, marked released; otherwise retire it.
ReleaseKids(p) ==
  /\ At(p, "relKids")
  /\ IF PathKids
     THEN Goto(p, "relMarkOpen") /\ UNCHANGED my
     ELSE /\ Goto(p, "rename")
          /\ my' = [my EXCEPT ![p].mode = "release", ![p].prev = Token(p)]
  /\ UNCHANGED <<lock, tomb, aside, kids, dead, astray>>

\* markOwnerReleased: a unique file in the directory, the token check, the rename.
MarkReleasedOpen(p) ==
  /\ At(p, "relMarkOpen")
  /\ IF lock = None THEN End(p)
     ELSE Goto(p, "relMarkCheck") /\ my' = [my EXCEPT ![p].dir = lock.owner]
  /\ UNCHANGED <<lock, tomb, aside, kids, dead, astray>>

MarkReleasedCheck(p) ==
  /\ At(p, "relMarkCheck")
  /\ IF PathIs(Token(p))
     THEN Goto(p, "relMarkRename") /\ UNCHANGED my
     ELSE End(p)
  /\ UNCHANGED <<lock, tomb, aside, kids, dead, astray>>

\* Replace owner.json by that file, both named by path: if another directory is there
\* now, the file is not.
MarkReleasedRename(p) ==
  /\ At(p, "relMarkRename")
  /\ lock' = IF PathIs(my[p].dir)
             THEN [lock EXCEPT !.owner = Token(p), !.released = TRUE]
             ELSE lock
  /\ End(p)
  /\ UNCHANGED <<tomb, aside, kids, dead, astray>>
------------------------------------------------------------------------------
(* workflow unlock: observeUnlock and decideUnlock, then removeObservedLock. *)

Observe(p) ==
  /\ At(p, "observe")
  /\ IF /\ lock # None
        /\ Recoverable(lock)
        /\ lock.marker = None \/ lock.marker[1] \in dead
        /\ lock.owner \notin kids
     THEN /\ Goto(p, "precheck")
          /\ my' = [my EXCEPT ![p].prev = lock.owner, ![p].want = lock.marker]
     ELSE End(p)
  /\ UNCHANGED <<lock, tomb, aside, kids, dead, astray>>

\* A lock that changed since is refused before unlock touches it.
Precheck(p) ==
  /\ At(p, "precheck")
  /\ IF ~PathIs(my[p].prev) THEN End(p)
     ELSE IF my[p].want # None THEN BeginTake(p, "unlock", my[p].want)
     ELSE Goto(p, "markOpen") /\ UNCHANGED my
  /\ UNCHANGED <<lock, tomb, aside, kids, dead, astray>>
------------------------------------------------------------------------------
\* The process is killed; its files stay where they are.
Crash(p) ==
  /\ Alive(p) /\ pc[p] \in MayCrashAt
  /\ dead' = dead \cup {p}
  /\ UNCHANGED <<lock, tomb, aside, kids, pc, my, astray>>

Acquire(p) == Publish(p) \/ ReadOwner(p) \/ LookAgain(p)
Claim(p) == \/ MarkOpen(p) \/ MarkLink(p) \/ ReadMarker(p)
            \/ TakeMarker(p) \/ ReadAside(p) \/ PutAside(p)
Recover(p) == VerifyOwner(p) \/ RecoverProcesses(p) \/ ConfirmMarker(p)
Retire(p) == RetireRename(p) \/ RetireCheck(p) \/ RetirePutBack(p)
Own(p) == SweepStrays(p) \/ PublishFails(p) \/ Release(p)
GiveUp(p) == \/ ReleaseRead(p) \/ ReleaseKids(p)
             \/ MarkReleasedOpen(p) \/ MarkReleasedCheck(p) \/ MarkReleasedRename(p)
Unlock(p) == Observe(p) \/ Precheck(p)

\* One step of a command that p has begun; the owner's work is not one.
Step(p) == \/ Acquire(p) \/ Claim(p) \/ Recover(p) \/ Retire(p)
           \/ Own(p) \/ GiveUp(p) \/ Unlock(p)

Next ==
  \/ \E p \in Procs : Begin(p) \/ Step(p) \/ TrackProcess(p) \/ Crash(p)
  \/ ChildExits

Spec == Init /\ [][Next]_vars

\* Every process issues its commands and is scheduled: a command's next call is
\* always possible, so the operating system eventually lets it happen.
Fairness == \A p \in Procs : WF_vars(Begin(p)) /\ WF_vars(Step(p))

FairSpec == Spec /\ Fairness
------------------------------------------------------------------------------
Locals == [session : 0..MaxSessions, mode : {"acquire", "cancel", "unlock", "release"},
           attempt : 0..(MaxAttempts - 1), looks : 0..2, prev : Tokens \cup {None},
           dir : Tokens \cup {None}, round : 1..2, want : Markers \cup {None},
           ctx : {"claim", "clean", "unlock"}]

\* The state stays within its types: tokens and markers are ones some process drew,
\* and no command runs more than its three attempts.
TypeOK ==
  /\ lock \in Dir \cup {None}
  /\ tomb \in [Procs -> Dir \cup {None}]
  /\ aside \in [Procs -> [dir : Tokens, marker : Markers] \cup {None}]
  /\ kids \subseteq Tokens
  /\ dead \subseteq Procs \cup Corpses
  /\ pc \in [Procs -> Steps]
  /\ my \in [Procs -> Locals]
  /\ astray \in BOOLEAN

\* A live process that has published its lock and not begun to give it up.
Owns(p) == Alive(p) /\ pc[p] \in OwnerSteps

\* An owner's directory is at the lock path: no retire, put-back or sweep of
\* another process moved it away.  So no two processes own the lock at once.
OwnerHasLock == \A p \in Procs : Owns(p) => PathIs(Token(p))

\* recoverProcesses and release: a harness child that is alive is recorded in the
\* lock at the path, whose owner is the one that started it.  A lock is never
\* recovered, released or unlocked from over a live child.
ChildrenTracked == \A t \in kids : PathIs(t)

\* docs/architecture.md, "exclusive owner": no two processes own one lock at once.
OneOwner == \A p, q \in Procs : Owns(p) /\ Owns(q) => p = q

\* lock.ts, "Only one contender may retire a dead owner's lock": no two processes
\* are both past the last check before the rename of the same dead owner's lock.
Retiring(p) == Alive(p) /\ pc[p] = "rename" /\ my[p].mode # "release"
OneRetirer ==
  \A p, q \in Procs : Retiring(p) /\ Retiring(q) /\ my[p].prev = my[q].prev => p = q

\* markOwnerReleased: the directory whose owner.json is about to be replaced is the
\* releasing owner's own.
ReleasesItsOwn == \A p \in Procs : At(p, "relMarkRename") => my[p].dir = Token(p)

\* As long as takeMarker has moved aside no marker but the one that it was called for:
\* while a process owns the lock, the lock at the path is its own and lists its live
\* children, a release marks no other lock, and at most one process is about to retire a
\* dead owner's.  Once takeMarker has caught a live contender's marker none of it is sure.
LockSafety ==
  TypeOK /\ (~astray => OwnerHasLock /\ ChildrenTracked /\ ReleasesItsOwn /\ OneRetirer)

\* Whatever crashes leave behind is a state that the next acquire recovers: once
\* no command is running, the lock is gone, or its owner is dead or released and no
\* live process's marker holds its recovery.  Here, too, takeMarker must not have caught
\* another contender's marker, since it may put that one back when its owner is through.
Quiet == \A p \in Procs : p \in dead \/ pc[p] = "idle"
QuietRecoverable ==
  Quiet /\ ~astray /\ lock # None =>
    Recoverable(lock) /\ (lock.marker # None => lock.marker[1] \in dead)

\* An owner keeps its lock until the rename that retires it or that marks it released.
Keeps(p) ==
  \/ Owns(p)
  \/ Alive(p) /\ pc[p] \in {"relMarkOpen", "relMarkCheck", "relMarkRename"}
  \/ Alive(p) /\ pc[p] = "rename" /\ my[p].mode = "release"

\* retire: no recovery, unlock or release deletes a directory whose owner keeps it.  So even
\* when two contenders both reach the rename and one of them catches the lock that the
\* other has published, it puts that lock back; whatever takeMarker may have caught.  A new
\* owner's sweep compares nothing, and deletes no such directory until a marker went astray.
DeletesOnlyAbandoned ==
  [][\A p, q, t \in Procs :
       /\ (RetireCheck(p) /\ t = p) \/ (SweepStrays(p) /\ ~astray)
       /\ tomb[t] # None /\ tomb'[t] = None /\ Keeps(q)
       => tomb[t].owner # Token(q)]_vars

\* Contenders never refuse each other into the ground: when nobody is killed and no
\* child of the dead owner is alive, one of the processes that acquire gets the lock.
SomebodyOwns ==
  [](dead = Corpses /\ kids = {}) => <>(\E p \in Procs : Owns(p))
------------------------------------------------------------------------------
\* The lock implements exclusive ownership over the run's children, as long as takeMarker
\* catches no marker but the one that it was called for.
Owner == IF \E p \in Procs : Owns(p) THEN Token(CHOOSE p \in Procs : Owns(p)) ELSE None
Abstract == INSTANCE Ownership WITH Owners <- Tokens, owner <- Owner, children <- kids
AbstractSpec == Abstract!Init /\ [][astray' \/ Abstract!Next]_<<Owner, kids>>
=============================================================================
