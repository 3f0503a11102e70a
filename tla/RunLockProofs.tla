---------------------------- MODULE RunLockProofs ----------------------------
(***************************************************************************)
(* What the run lock promises, for any processes, commands, kills and      *)
(* bounds: an exclusive owner, whose children are the lock's, as long as   *)
(* takeMarker has caught no marker but the one that it was called for, and *)
(* no sweep that deletes the directory of an owner before that; and no     *)
(* recovery, unlock or release that deletes one, ever.                     *)
(*                                                                         *)
(* A directory that has left the path does not come back, so what a        *)
(* process has read of it stays true of it: its owner is dead or released, *)
(* and a marker that is in it stays there until its writer is through.     *)
(***************************************************************************)
EXTENDS RunLock, TLAPS

\* Where a process is on its way to a lock, and where it has one that it has not given up.
Giving == {"relMarkOpen", "relMarkCheck", "relMarkRename"}
Seeking(p) == my[p].mode # "release" /\ pc[p] \in Steps \ (OwnerSteps \cup Giving \cup {"idle"})
Owning(p) ==
  \/ pc[p] \in OwnerSteps \cup Giving
  \/ pc[p] = "rename" /\ my[p].mode = "release"

Claiming == {"verify", "recover", "confirm", "rename"}
Taking == {"take", "readAside", "putAside"}

Notes == [dir : Tokens, marker : Markers]

\* Which locals an operation has set where.
Placed(p) ==
  /\ pc[p] # "idle" => my[p].session # 0
  /\ my[p].mode = "release" => /\ pc[p] \in {"rename", "check", "putBack"}
                               /\ my[p].prev = Token(p)
  /\ pc[p] \in {"publish", "read", "reread", "observe"} => my[p].dir = None
  /\ pc[p] = "observe" => my[p].mode = "unlock"
  /\ my[p].prev # None => my[p].mode # "cancel"
  /\ pc[p] \in {"readAside", "putAside"} => aside[p] \in Notes

Typed == TypeOK /\ \A p \in Procs : Placed(p)

\* A token whose directory has been published, which happens once.
Spent(t) ==
  t[1] \in Procs =>
    t[2] < my[t[1]].session \/ (t[2] = my[t[1]].session /\ ~Seeking(t[1]))

\* What a process remembers is of directories that have been published.
Drawn(p) ==
  /\ my[p].prev # None => Spent(my[p].prev)
  /\ my[p].dir # None => Spent(my[p].dir)
  /\ pc[p] \in {"readAside", "putAside"} => Spent(aside[p].dir)

\* The owner's lock is at the path until it gives it up, and not marked released.
Held(p) ==
  Alive(p) /\ Owning(p) =>
    /\ PathIs(Token(p)) /\ ~lock.released
    /\ pc[p] \in {"relMarkCheck", "relMarkRename"} => my[p].dir = Token(p)

\* Who wants to retire another's lock has seen that its owner is dead or released.
Stale(p) ==
  my[p].prev # None /\ my[p].mode # "release" /\ PathIs(my[p].prev) => Recoverable(lock)

\* A marker that was opened in another directory than the one to retire, was opened when
\* that one had gone.
Gone(p) ==
  /\ my[p].prev # None /\ my[p].dir # None /\ my[p].dir # my[p].prev
  /\ my[p].mode # "release"
  => ~PathIs(my[p].prev)

\* A marker is taken only by its own writer, or when its writer is dead.
Wanted(p) ==
  Alive(p) =>
    /\ pc[p] \in Taking =>
         \/ my[p].ctx = "clean" /\ my[p].want = Marker(p)
         \/ my[p].ctx # "clean" /\ my[p].want # None /\ my[p].want[1] \in dead
    /\ pc[p] \in {"readAside", "putAside"} => aside[p].marker = my[p].want
    /\ pc[p] = "putAside" => ~AsideHere(p)
    /\ pc[p] = "precheck" /\ my[p].want # None => my[p].want[1] \in dead

Claimant(p) == Alive(p) /\ pc[p] \in Claiming /\ my[p].mode # "release"

\* A contender's marker stays in the directory that it was opened in, which after the
\* verification is the one to retire, and after the last check is at the path.
Claimed(p) ==
  Claimant(p) =>
    /\ my[p].dir # None /\ (PathIs(my[p].dir) => lock.marker = Marker(p))
    /\ pc[p] # "verify" => my[p].dir = my[p].prev
    /\ pc[p] = "rename" => PathIs(my[p].prev)

\* No child of a lock that is about to go is alive.
Childless(p) ==
  Alive(p) =>
    /\ pc[p] = "sweep" => Token(p) \notin kids
    /\ /\ my[p].prev # None
       /\ my[p].mode \in {"unlock", "release"} \/ pc[p] \in {"confirm", "rename"}
       => my[p].prev \notin kids

\* So what a rename catches is what was verified.
Caught(p) == Alive(p) => (pc[p] = "check" => Carries(p)) /\ pc[p] # "putBack"

\* The marker of a live process is its present attempt's, and on its way to be used or removed.
Noted(p) ==
  Alive(p) /\ lock # None /\ PathMarker # None /\ PathMarker[1] = p =>
    /\ lock.marker = Marker(p) /\ my[p].mode # "release"
    /\ \/ pc[p] \in Claiming /\ lock.owner = my[p].dir
       \/ pc[p] = "take" /\ my[p].ctx = "clean"

\* A lock that nobody owns is dead or released.
Owned ==
  lock # None =>
    /\ Spent(lock.owner)
    /\ \/ Recoverable(lock)
       \/ \E p \in Procs : Owning(p) /\ lock.owner = Token(p)

Sane(p) ==
  /\ Drawn(p) /\ Held(p) /\ Stale(p) /\ Gone(p) /\ Wanted(p) /\ Claimed(p)
  /\ Childless(p) /\ Caught(p) /\ Noted(p)

Sound == Owned /\ ChildrenTracked /\ \A p \in Procs : Sane(p)

LockInv == Typed /\ (~astray => Sound)
-----------------------------------------------------------------------------
(* What a step does, field by field.                                       *)

Places == Dir \cup {None}
Modes == {"acquire", "cancel", "unlock", "release"}
Numbers == 0..(MaxAttempts - 1)
Reasons == {"claim", "clean", "unlock"}

LEMMA Bounds ==
  /\ MaxSessions \in Nat /\ MaxAttempts \in Nat \ {0} /\ 0 \in Numbers
  /\ Numbers \subseteq 0..MaxAttempts /\ Numbers \subseteq Nat
  /\ \A n \in Numbers : n + 1 < MaxAttempts => n + 1 \in Numbers
PROOF BY RunLockAssumption DEF Numbers

LEMMA NoneIsApart ==
  /\ None \notin Dir /\ None \notin Tokens /\ None \notin Markers
  /\ Procs \cap Corpses = {}
PROOF BY RunLockAssumption

LEMMA LocalFields ==
  ASSUME NEW s \in Locals
  PROVE  /\ s.session \in 0..MaxSessions /\ s.mode \in Modes /\ s.attempt \in Numbers
         /\ s.looks \in 0..2 /\ s.prev \in Tokens \cup {None} /\ s.dir \in Tokens \cup {None}
         /\ s.round \in 1..2 /\ s.want \in Markers \cup {None} /\ s.ctx \in Reasons
PROOF BY DEF Locals, Modes, Numbers, Reasons

LEMMA WriteOne ==
  ASSUME NEW s \in Locals
  PROVE  /\ \A t \in Tokens \cup {None} : [s EXCEPT !.prev = t] \in Locals
         /\ \A t \in Tokens \cup {None} : [s EXCEPT !.dir = t] \in Locals
         /\ \A m \in Markers \cup {None} : [s EXCEPT !.want = m] \in Locals
         /\ \A m \in Modes : [s EXCEPT !.mode = m] \in Locals
         /\ \A n \in 1..2 : [s EXCEPT !.round = n] \in Locals
         /\ \A n \in 0..2 : [s EXCEPT !.looks = n] \in Locals
         /\ \A c \in Reasons : [s EXCEPT !.ctx = c] \in Locals
         /\ \A n \in Numbers : [s EXCEPT !.attempt = n] \in Locals
PROOF BY DEF Locals, Modes, Reasons, Numbers

LEMMA WriteTwo ==
  ASSUME NEW s \in Locals
  PROVE  /\ \A t \in Tokens \cup {None} : [s EXCEPT !.prev = t, !.round = 1] \in Locals
         /\ [s EXCEPT !.round = 2, !.want = None] \in Locals
         /\ \A c \in Reasons, w \in Markers \cup {None} :
              [s EXCEPT !.ctx = c, !.want = w] \in Locals
         /\ \A t \in Tokens \cup {None} :
              [s EXCEPT !.mode = "release", !.prev = t] \in Locals
         /\ \A t \in Tokens \cup {None}, w \in Markers \cup {None} :
              [s EXCEPT !.prev = t, !.want = w] \in Locals
<1>1. /\ 1 \in 1..2 /\ 2 \in 1..2 /\ "release" \in Modes /\ None \in Markers \cup {None}
  BY DEF Modes
<1>2. ASSUME NEW t \in Tokens \cup {None}
      PROVE  /\ [s EXCEPT !.prev = t, !.round = 1] \in Locals
             /\ \A w \in Markers \cup {None} : [s EXCEPT !.prev = t, !.want = w] \in Locals
  <2> DEFINE a == [s EXCEPT !.prev = t]
  <2>1. a \in Locals
    BY WriteOne
  <2>2. /\ [a EXCEPT !.round = 1] \in Locals
        /\ \A w \in Markers \cup {None} : [a EXCEPT !.want = w] \in Locals
    <3> HIDE DEF a
    <3> QED BY <1>1, <2>1, WriteOne
  <2> QED BY <2>2
<1>3. [s EXCEPT !.round = 2, !.want = None] \in Locals
  <2> DEFINE a == [s EXCEPT !.round = 2]
  <2>1. a \in Locals
    BY <1>1, WriteOne
  <2>2. [a EXCEPT !.want = None] \in Locals
    <3> HIDE DEF a
    <3> QED BY <1>1, <2>1, WriteOne
  <2> QED BY <2>2
<1>4. ASSUME NEW c \in Reasons
      PROVE  \A w \in Markers \cup {None} : [s EXCEPT !.ctx = c, !.want = w] \in Locals
  <2> DEFINE a == [s EXCEPT !.ctx = c]
  <2>1. a \in Locals
    BY WriteOne
  <2>2. \A w \in Markers \cup {None} : [a EXCEPT !.want = w] \in Locals
    <3> HIDE DEF a
    <3> QED BY <2>1, WriteOne
  <2> QED BY <2>2
<1>5. ASSUME NEW t \in Tokens \cup {None}
      PROVE  [s EXCEPT !.mode = "release", !.prev = t] \in Locals
  <2> DEFINE a == [s EXCEPT !.mode = "release"]
  <2>1. a \in Locals
    BY <1>1, WriteOne
  <2>2. [a EXCEPT !.prev = t] \in Locals
    <3> HIDE DEF a
    <3> QED BY <2>1, WriteOne
  <2> QED BY <2>2
<1> QED BY <1>2, <1>3, <1>4, <1>5

LEMMA FreshLocals ==
  ASSUME NEW n \in 0..MaxSessions, NEW m \in Modes, NEW k \in Numbers
  PROVE  /\ [Fresh EXCEPT !.session = n] \in Locals
         /\ [Fresh EXCEPT !.session = n, !.mode = m] \in Locals
         /\ [Fresh EXCEPT !.session = n, !.mode = m, !.attempt = k] \in Locals
<1> DEFINE r == [Fresh EXCEPT !.session = n]
           q == [r EXCEPT !.mode = m]
<1>1. r \in Locals
  BY Bounds DEF Fresh, Locals, Numbers
<1>2. q \in Locals
  <2> HIDE DEF r
  <2> QED BY <1>1, WriteOne
<1>3. [q EXCEPT !.attempt = k] \in Locals
  <2> HIDE DEF q
  <2> QED BY <1>2, WriteOne
<1> QED BY <1>1, <1>2, <1>3

-----------------------------------------------------------------------------
(* A process moves, the others do not.                                     *)

Same(p) == pc'[p] = pc[p] /\ my'[p] = my[p]
Moves(p) ==
  /\ pc' \in [Procs -> Steps] /\ my' \in [Procs -> Locals]
  /\ \A q \in Procs : q # p => Same(q)

\* It is still the same attempt of the same command.
Continues(p) ==
  /\ my'[p].session = my[p].session /\ my'[p].mode = my[p].mode
  /\ my'[p].attempt = my[p].attempt
Forgets(p) ==
  /\ my'[p].session = my[p].session /\ my'[p].mode # "release"
  /\ my'[p].prev = None /\ my'[p].dir = None
Ends(p) == pc'[p] = "idle" /\ Forgets(p)
Leaves(p) == pc'[p] \in {"idle", "publish"} /\ Forgets(p)
Remembers(p) == my'[p].prev = my[p].prev /\ my'[p].dir = my[p].dir
Takes(p, ctx, want) ==
  /\ pc'[p] = "take" /\ Continues(p) /\ Remembers(p)
  /\ my'[p].ctx = ctx /\ my'[p].want = want

LEMMA TypesOfStep ==
  ASSUME TypeOK, NEW p \in Procs
  PROVE  /\ my \in [Procs -> Locals] /\ my[p] \in Locals /\ pc \in [Procs -> Steps]
         /\ lock \in Places /\ tomb[p] \in Places /\ aside[p] \in Notes \cup {None}
         /\ tomb \in [Procs -> Places] /\ aside \in [Procs -> Notes \cup {None}]
PROOF BY DEF TypeOK, Places, Notes

LEMMA GoesDoes ==
  ASSUME TypeOK, NEW p \in Procs, NEW step \in Steps, Goto(p, step), UNCHANGED my
  PROVE  Moves(p) /\ pc'[p] = step /\ my'[p] = my[p]
PROOF BY TypesOfStep DEF Goto, Moves, Same

LEMMA WritesDoes ==
  ASSUME TypeOK, NEW p \in Procs, NEW step \in Steps, Goto(p, step), NEW s \in Locals,
         my' = [my EXCEPT ![p] = s]
  PROVE  Moves(p) /\ pc'[p] = step /\ my'[p] = s
PROOF BY TypesOfStep DEF Goto, Moves, Same

LEMMA EndDoes ==
  ASSUME TypeOK, NEW p \in Procs, End(p)
  PROVE  Moves(p) /\ Ends(p)
<1> DEFINE s == [Fresh EXCEPT !.session = my[p].session]
<1>1. s \in Locals /\ "idle" \in Steps /\ Goto(p, "idle") /\ my' = [my EXCEPT ![p] = s]
  BY Bounds, FreshLocals, TypesOfStep, LocalFields DEF End, Modes, Steps
<1>2. /\ s.session = my[p].session /\ s.mode = "acquire" /\ s.prev = None /\ s.dir = None
  BY DEF Fresh
<1>3. Moves(p) /\ pc'[p] = "idle" /\ my'[p] = s
  <2> HIDE DEF s
  <2> QED BY <1>1, WritesDoes
<1> QED BY <1>2, <1>3 DEF Ends, Forgets

LEMMA AgainDoes ==
  ASSUME TypeOK, NEW p \in Procs, my[p].mode # "release", Again(p)
  PROVE  Moves(p) /\ Leaves(p)
<1> DEFINE s == [Fresh EXCEPT !.session = my[p].session, !.mode = my[p].mode,
                              !.attempt = my[p].attempt + 1]
<1>1. CASE my[p].mode # "unlock" /\ AttemptsLeft(p)
  <2>1. my[p].attempt + 1 \in Numbers
    BY <1>1, Bounds, TypesOfStep, LocalFields DEF AttemptsLeft
  <2>2. s \in Locals /\ "publish" \in Steps /\ Goto(p, "publish") /\ my' = [my EXCEPT ![p] = s]
    BY <1>1, <2>1, FreshLocals, TypesOfStep, LocalFields DEF Again, Steps
  <2>3. s.session = my[p].session /\ s.mode = my[p].mode /\ s.prev = None /\ s.dir = None
    BY DEF Fresh
  <2>4. Moves(p) /\ pc'[p] = "publish" /\ my'[p] = s
    <3> HIDE DEF s
    <3> QED BY <2>2, WritesDoes
  <2> QED BY <2>3, <2>4 DEF Leaves, Forgets
<1>2. CASE ~(my[p].mode # "unlock" /\ AttemptsLeft(p))
  BY <1>2, EndDoes DEF Again, Leaves, Ends
<1> QED BY <1>1, <1>2

LEMMA BeginTakeDoes ==
  ASSUME TypeOK, NEW p \in Procs, NEW ctx \in Reasons, NEW want \in Markers \cup {None},
         BeginTake(p, ctx, want)
  PROVE  Moves(p) /\ Takes(p, ctx, want)
<1> DEFINE s == [my[p] EXCEPT !.ctx = ctx, !.want = want]
<1>1. s \in Locals /\ "take" \in Steps /\ Goto(p, "take") /\ my' = [my EXCEPT ![p] = s]
  BY WriteTwo, TypesOfStep DEF BeginTake, Steps
<1>2. /\ s.session = my[p].session /\ s.mode = my[p].mode /\ s.attempt = my[p].attempt
      /\ s.prev = my[p].prev /\ s.dir = my[p].dir /\ s.ctx = ctx /\ s.want = want
  BY TypesOfStep DEF Locals
<1>3. Moves(p) /\ pc'[p] = "take" /\ my'[p] = s
  <2> HIDE DEF s
  <2> QED BY <1>1, WritesDoes
<1> QED BY <1>2, <1>3 DEF Takes, Continues, Remembers

LEMMA AbandonDoes ==
  ASSUME Typed, NEW p \in Procs, pc[p] # "idle", Abandon(p)
  PROVE  Moves(p) /\ Takes(p, "clean", Marker(p))
<1>1. my[p].session \in 1..MaxSessions
  <2>1. my[p].session \in 0..MaxSessions /\ my[p].session # 0
    BY TypesOfStep, LocalFields DEF Typed, Placed
  <2> QED BY <2>1, Bounds
<1>0. my[p].attempt \in 0..MaxAttempts
  BY TypesOfStep, LocalFields, Bounds DEF Typed
<1>2. Marker(p) \in Markers
  BY <1>0, <1>1 DEF Marker, Markers
<1> QED BY <1>2, BeginTakeDoes DEF Abandon, Typed, Reasons

-----------------------------------------------------------------------------
(* Each action, by what it does to the fields that the invariant is about. *)

LEMMA BeginDoes ==
  ASSUME TypeOK, NEW p \in Procs, Begin(p)
  PROVE  /\ Moves(p) /\ pc'[p] \in {"publish", "observe"}
         /\ my'[p].session = my[p].session + 1 /\ my'[p].mode # "release"
         /\ pc'[p] = "observe" => my'[p].mode = "unlock"
         /\ my'[p].prev = None /\ my'[p].dir = None
<1>1. PICK mode \in Commands :
        /\ Goto(p, IF mode = "unlock" THEN "observe" ELSE "publish")
        /\ my' = [my EXCEPT ![p] = [Fresh EXCEPT !.session = my[p].session + 1, !.mode = mode]]
  BY DEF Begin
<1> DEFINE s == [Fresh EXCEPT !.session = my[p].session + 1, !.mode = mode]
           step == IF mode = "unlock" THEN "observe" ELSE "publish"
<1>2. my[p].session + 1 \in 0..MaxSessions
  BY TypesOfStep, LocalFields, Bounds DEF Begin
<1>3. mode \in Modes /\ mode # "release"
  BY RunLockAssumption DEF Modes
<1>4. s \in Locals
  BY <1>2, <1>3, Bounds, FreshLocals
<1>5. s.session = my[p].session + 1 /\ s.mode = mode /\ s.prev = None /\ s.dir = None
  BY DEF Fresh
<1>6. step \in Steps
  BY DEF Steps
<1>7. Moves(p) /\ pc'[p] = step /\ my'[p] = s
  <2> HIDE DEF s, step
  <2>1. Goto(p, step) /\ my' = [my EXCEPT ![p] = s]
    BY <1>1 DEF s, step
  <2> QED BY <1>4, <1>6, <2>1, WritesDoes
<1> QED BY <1>3, <1>5, <1>7

LEMMA PublishDoes ==
  ASSUME TypeOK, NEW p \in Procs, Publish(p)
  PROVE  /\ Moves(p) /\ my'[p] = my[p]
         /\ \/ /\ lock = None /\ pc'[p] = "sweep"
               /\ lock' = [owner |-> Token(p), released |-> FALSE, marker |-> None]
            \/ lock' = lock /\ pc'[p] = "read"
<1>1. "sweep" \in Steps /\ "read" \in Steps
  BY DEF Steps, OwnerSteps
<1> QED BY <1>1, GoesDoes DEF Publish

LEMMA ReadOwnerDoes ==
  ASSUME TypeOK, NEW p \in Procs, ReadOwner(p)
  PROVE  /\ Moves(p)
         /\ \/ pc'[p] = "reread" /\ my'[p] = my[p]
            \/ Ends(p)
            \/ /\ lock # None /\ Recoverable(lock) /\ my[p].mode = "acquire"
               /\ pc'[p] = "markOpen" /\ Continues(p)
               /\ my'[p].prev = lock.owner /\ my'[p].dir = my[p].dir
<1>1. "reread" \in Steps /\ "markOpen" \in Steps
  BY DEF Steps
<1>2. CASE lock = None /\ Goto(p, "reread") /\ UNCHANGED my
  BY <1>1, <1>2, GoesDoes
<1>3. CASE End(p)
  BY <1>3, EndDoes
<1>4. CASE /\ lock # None /\ IF Recoverable(lock) THEN my[p].mode = "acquire" ELSE FALSE
           /\ Goto(p, "markOpen")
           /\ my' = [my EXCEPT ![p].prev = lock.owner, ![p].round = 1]
  <2> DEFINE s == [my[p] EXCEPT !.prev = lock.owner, !.round = 1]
  <2>1. lock.owner \in Tokens
    BY <1>4, TypesOfStep DEF Places, Dir
  <2>2. s \in Locals
    BY <2>1, WriteTwo, TypesOfStep
  <2>5. my' = [my EXCEPT ![p] = s]
    BY <1>4, TypesOfStep
  <2>3. /\ s.session = my[p].session /\ s.mode = my[p].mode /\ s.attempt = my[p].attempt
        /\ s.prev = lock.owner /\ s.dir = my[p].dir
    BY TypesOfStep DEF Locals
  <2>4. Moves(p) /\ pc'[p] = "markOpen" /\ my'[p] = s
    <3> HIDE DEF s
    <3> QED BY <1>1, <1>4, <2>2, <2>5, WritesDoes
  <2> QED BY <1>4, <2>3, <2>4 DEF Continues
<1> QED BY <1>2, <1>3, <1>4 DEF ReadOwner

LEMMA LookAgainDoes ==
  ASSUME TypeOK, NEW p \in Procs, my[p].mode # "release", LookAgain(p)
  PROVE  /\ Moves(p)
         /\ Leaves(p) \/ (pc'[p] = "read" /\ Continues(p) /\ Remembers(p))
<1>1. CASE Again(p)
  BY <1>1, AgainDoes
<1>2. CASE /\ my[p].looks < 2 /\ Goto(p, "read")
           /\ my' = [my EXCEPT ![p].looks = @ + 1]
  <2> DEFINE s == [my[p] EXCEPT !.looks = @ + 1]
  <2>1. my[p].looks + 1 \in 0..2
    BY <1>2, TypesOfStep, LocalFields
  <2>2. s \in Locals /\ my' = [my EXCEPT ![p] = s]
    BY <1>2, <2>1, WriteOne, TypesOfStep
  <2>3. /\ s.session = my[p].session /\ s.mode = my[p].mode /\ s.attempt = my[p].attempt
        /\ s.prev = my[p].prev /\ s.dir = my[p].dir
    BY TypesOfStep DEF Locals
  <2>4. Moves(p) /\ pc'[p] = "read" /\ my'[p] = s
    <3> HIDE DEF s
    <3>1. "read" \in Steps
      BY DEF Steps
    <3> QED BY <1>2, <2>2, <3>1, WritesDoes
  <2> QED BY <2>3, <2>4 DEF Continues, Remembers
<1>3. CASE End(p)
  BY <1>3, EndDoes DEF Leaves, Ends
<1> QED BY <1>1, <1>2, <1>3 DEF LookAgain

LEMMA MarkOpenDoes ==
  ASSUME TypeOK, NEW p \in Procs, my[p].mode # "release", MarkOpen(p)
  PROVE  /\ Moves(p)
         /\ \/ Leaves(p)
            \/ /\ lock # None /\ pc'[p] = "markLink" /\ Continues(p)
               /\ my'[p].dir = lock.owner /\ my'[p].prev = my[p].prev
<1>1. CASE Again(p)
  BY <1>1, AgainDoes
<1>2. CASE lock # None /\ Goto(p, "markLink") /\ my' = [my EXCEPT ![p].dir = lock.owner]
  <2> DEFINE s == [my[p] EXCEPT !.dir = lock.owner]
  <2>1. lock.owner \in Tokens
    BY <1>2, TypesOfStep DEF Places, Dir
  <2>2. s \in Locals /\ my' = [my EXCEPT ![p] = s]
    BY <1>2, <2>1, WriteOne, TypesOfStep
  <2>3. /\ s.session = my[p].session /\ s.mode = my[p].mode /\ s.attempt = my[p].attempt
        /\ s.prev = my[p].prev /\ s.dir = lock.owner
    BY TypesOfStep DEF Locals
  <2>4. Moves(p) /\ pc'[p] = "markLink" /\ my'[p] = s
    <3> HIDE DEF s
    <3>1. "markLink" \in Steps
      BY DEF Steps
    <3> QED BY <1>2, <2>2, <3>1, WritesDoes
  <2> QED BY <1>2, <2>3, <2>4 DEF Continues
<1> QED BY <1>1, <1>2 DEF MarkOpen

LEMMA MarkLinkDoes ==
  ASSUME TypeOK, NEW p \in Procs, my[p].mode # "release", MarkLink(p)
  PROVE  /\ Moves(p)
         /\ \/ lock' = lock /\ Leaves(p)
            \/ lock' = lock /\ pc'[p] = "readMarker" /\ my'[p] = my[p]
            \/ /\ PathIs(my[p].dir) /\ PathMarker = None
               /\ lock' = [lock EXCEPT !.marker = Marker(p)]
               /\ pc'[p] = "verify" /\ my'[p] = my[p]
<1>1. "verify" \in Steps /\ "readMarker" \in Steps
  BY DEF Steps
<1>2. CASE Again(p) /\ UNCHANGED lock
  BY <1>2, AgainDoes
<1>3. CASE End(p) /\ UNCHANGED lock
  BY <1>3, EndDoes DEF Leaves, Ends
<1>4. CASE Goto(p, "readMarker") /\ UNCHANGED <<my, lock>>
  BY <1>1, <1>4, GoesDoes
<1>5. CASE /\ PathIs(my[p].dir) /\ PathMarker = None
           /\ lock' = [lock EXCEPT !.marker = Marker(p)]
           /\ Goto(p, "verify") /\ UNCHANGED my
  BY <1>1, <1>5, GoesDoes
<1> QED BY <1>2, <1>3, <1>4, <1>5 DEF MarkLink

LEMMA ReadMarkerDoes ==
  ASSUME TypeOK, NEW p \in Procs, my[p].mode # "release", ReadMarker(p)
  PROVE  /\ Moves(p)
         /\ \/ Leaves(p)
            \/ /\ lock # None /\ lock.marker # None /\ lock.marker[1] \in dead
               /\ Takes(p, "claim", lock.marker)
<1>1. CASE Again(p)
  BY <1>1, AgainDoes
<1>2. CASE End(p)
  BY <1>2, EndDoes DEF Leaves, Ends
<1>3. CASE /\ PathMarker # None /\ lock.marker[1] \in dead
           /\ BeginTake(p, "claim", lock.marker)
  <2>1. lock # None /\ lock.marker \in Markers /\ lock.marker # None
    BY <1>3, TypesOfStep DEF PathMarker, Places, Dir
  <2>2. "claim" \in Reasons
    BY DEF Reasons
  <2> QED BY <1>3, <2>1, <2>2, BeginTakeDoes
<1> QED BY <1>1, <1>2, <1>3 DEF ReadMarker

\* After a takeMarker the command is over, begins again, or goes on to claim.
Proceeds(p) ==
  Leaves(p) \/ (pc'[p] = "markOpen" /\ Continues(p) /\ Remembers(p))

LEMMA AfterTakeDoes ==
  ASSUME TypeOK, NEW p \in Procs, my[p].mode # "release", NEW taken \in BOOLEAN,
         AfterTake(p, taken)
  PROVE  Moves(p) /\ Proceeds(p)
<1>1. "markOpen" \in Steps
  BY DEF Steps
<1>2. my[p].ctx = "clean" \/ my[p].ctx = "unlock" \/ my[p].ctx = "claim"
  BY TypesOfStep, LocalFields DEF Reasons
<1>3. CASE End(p)
  BY <1>3, EndDoes DEF Leaves, Ends, Proceeds
<1>4. CASE Again(p)
  BY <1>4, AgainDoes DEF Proceeds
<1>5. CASE Goto(p, "markOpen") /\ my' = [my EXCEPT ![p].round = 1]
  <2> DEFINE s == [my[p] EXCEPT !.round = 1]
  <2>0. 1 \in 1..2
    OBVIOUS
  <2>1. s \in Locals
    BY <2>0, WriteOne, TypesOfStep
  <2>4. my' = [my EXCEPT ![p] = s]
    BY <1>5, TypesOfStep
  <2>2. /\ s.session = my[p].session /\ s.mode = my[p].mode /\ s.attempt = my[p].attempt
        /\ s.prev = my[p].prev /\ s.dir = my[p].dir
    BY TypesOfStep DEF Locals
  <2>3. Moves(p) /\ pc'[p] = "markOpen" /\ my'[p] = s
    <3> HIDE DEF s
    <3> QED BY <1>1, <1>5, <2>1, <2>4, WritesDoes
  <2> QED BY <2>2, <2>3 DEF Proceeds, Continues, Remembers
<1>6. CASE Goto(p, "markOpen") /\ my' = [my EXCEPT ![p].round = 2, ![p].want = None]
  <2> DEFINE s == [my[p] EXCEPT !.round = 2, !.want = None]
  <2>1. s \in Locals
    BY WriteTwo, TypesOfStep
  <2>2. my' = [my EXCEPT ![p] = s]
    BY <1>6, TypesOfStep
  <2>3. /\ s.session = my[p].session /\ s.mode = my[p].mode /\ s.attempt = my[p].attempt
        /\ s.prev = my[p].prev /\ s.dir = my[p].dir
    BY TypesOfStep DEF Locals
  <2>4. Moves(p) /\ pc'[p] = "markOpen" /\ my'[p] = s
    <3> HIDE DEF s
    <3> QED BY <1>1, <1>6, <2>1, <2>2, WritesDoes
  <2> QED BY <2>3, <2>4 DEF Proceeds, Continues, Remembers
<1> QED BY <1>2, <1>3, <1>4, <1>5, <1>6 DEF AfterTake

LEMMA TakeMarkerDoes ==
  ASSUME TypeOK, NEW p \in Procs, my[p].mode # "release", TakeMarker(p)
  PROVE  /\ Moves(p)
         /\ \/ /\ PathMarker = None /\ UNCHANGED <<lock, aside, astray>> /\ Proceeds(p)
            \/ /\ lock # None /\ lock.marker # None
               /\ aside' = [aside EXCEPT ![p] = [dir |-> lock.owner, marker |-> lock.marker]]
               /\ lock' = [lock EXCEPT !.marker = None]
               /\ astray' = (astray \/ lock.marker # my[p].want)
               /\ pc'[p] = "readAside" /\ my'[p] = my[p]
<1>1. "readAside" \in Steps
  BY DEF Steps
<1>2. PathMarker # None => lock # None /\ lock.marker # None
  BY DEF PathMarker
<1> QED BY <1>1, <1>2, AfterTakeDoes, GoesDoes DEF TakeMarker

LEMMA ReadAsideDoes ==
  ASSUME TypeOK, NEW p \in Procs, my[p].mode # "release", ReadAside(p)
  PROVE  /\ Moves(p)
         /\ \/ aside' = [aside EXCEPT ![p] = None] /\ Proceeds(p)
            \/ /\ ~(AsideHere(p) /\ aside[p].marker = my[p].want)
               /\ aside' = aside /\ pc'[p] = "putAside" /\ my'[p] = my[p]
<1>1. "putAside" \in Steps
  BY DEF Steps
<1>2. CASE AsideHere(p) /\ aside[p].marker = my[p].want
  BY <1>2, AfterTakeDoes DEF ReadAside
<1>3. CASE ~(AsideHere(p) /\ aside[p].marker = my[p].want)
  BY <1>1, <1>3, GoesDoes DEF ReadAside
<1> QED BY <1>2, <1>3

LEMMA VerifyOwnerDoes ==
  ASSUME Typed, NEW p \in Procs, VerifyOwner(p)
  PROVE  /\ Moves(p)
         /\ \/ Takes(p, "clean", Marker(p))
            \/ /\ PathIs(my[p].prev) /\ my'[p] = my[p]
               /\ \/ my[p].mode = "acquire" /\ pc'[p] = "recover"
                  \/ my[p].mode # "acquire" /\ pc'[p] = "confirm"
<1>1. "recover" \in Steps /\ "confirm" \in Steps /\ pc[p] # "idle" /\ TypeOK
  BY DEF Steps, VerifyOwner, At, Typed
<1>2. CASE Abandon(p)
  BY <1>1, <1>2, AbandonDoes
<1>3. CASE /\ PathIs(my[p].prev)
           /\ Goto(p, IF my[p].mode = "acquire" THEN "recover" ELSE "confirm") /\ UNCHANGED my
  <2>1. CASE my[p].mode = "acquire"
    BY <1>1, <1>3, <2>1, GoesDoes
  <2>2. CASE my[p].mode # "acquire"
    BY <1>1, <1>3, <2>2, GoesDoes
  <2> QED BY <2>1, <2>2
<1> QED BY <1>2, <1>3 DEF VerifyOwner

LEMMA RecoverProcessesDoes ==
  ASSUME Typed, NEW p \in Procs, RecoverProcesses(p)
  PROVE  /\ Moves(p)
         /\ \/ kids' = kids /\ Takes(p, "clean", Marker(p))
            \/ ~PathKids /\ kids' = kids /\ pc'[p] = "confirm" /\ my'[p] = my[p]
            \/ /\ PathKids /\ PathIs(my[p].prev) /\ kids' = kids \ {lock.owner}
               /\ pc'[p] = "confirm" /\ my'[p] = my[p]
<1>1. "confirm" \in Steps /\ pc[p] # "idle" /\ TypeOK
  BY DEF Steps, RecoverProcesses, At, Typed
<1> QED BY <1>1, AbandonDoes, GoesDoes DEF RecoverProcesses

LEMMA ConfirmMarkerDoes ==
  ASSUME Typed, NEW p \in Procs, ConfirmMarker(p)
  PROVE  /\ Moves(p)
         /\ \/ Takes(p, "clean", Marker(p))
            \/ PathMarker = Marker(p) /\ pc'[p] = "rename" /\ my'[p] = my[p]
<1>1. "rename" \in Steps /\ pc[p] # "idle" /\ TypeOK
  BY DEF Steps, ConfirmMarker, At, Typed
<1> QED BY <1>1, AbandonDoes, GoesDoes DEF ConfirmMarker

LEMMA RetireRenameDoes ==
  ASSUME Typed, NEW p \in Procs, RetireRename(p)
  PROVE  /\ Moves(p)
         /\ \/ /\ lock = None /\ UNCHANGED <<lock, tomb>>
               /\ \/ my[p].mode = "release" /\ Ends(p)
                  \/ my[p].mode # "release" /\ Takes(p, "clean", Marker(p))
            \/ /\ lock # None /\ tomb' = [tomb EXCEPT ![p] = lock] /\ lock' = None
               /\ pc'[p] = "check" /\ my'[p] = my[p]
<1>1. "check" \in Steps /\ pc[p] # "idle" /\ TypeOK
  BY DEF Steps, RetireRename, At, Typed
<1>2. CASE lock = None
  BY <1>1, <1>2, AbandonDoes, EndDoes DEF RetireRename, AfterFailedRetire
<1>3. CASE lock # None
  BY <1>1, <1>3, GoesDoes DEF RetireRename
<1> QED BY <1>2, <1>3

LEMMA RetireCheckDoes ==
  ASSUME TypeOK, NEW p \in Procs, RetireCheck(p)
  PROVE  /\ Moves(p)
         /\ \/ /\ Carries(p) /\ tomb' = [tomb EXCEPT ![p] = None]
               /\ Ends(p) \/ (my[p].mode # "release" /\ Leaves(p))
            \/ ~Carries(p) /\ tomb' = tomb /\ pc'[p] = "putBack" /\ my'[p] = my[p]
<1>1. "putBack" \in Steps
  BY DEF Steps
<1>2. CASE Carries(p) /\ my[p].mode = "acquire"
  BY <1>2, AgainDoes DEF RetireCheck
<1>3. CASE Carries(p) /\ my[p].mode # "acquire"
  BY <1>3, EndDoes DEF RetireCheck
<1>4. CASE ~Carries(p)
  BY <1>1, <1>4, GoesDoes DEF RetireCheck
<1> QED BY <1>2, <1>3, <1>4

LEMMA RetirePutBackDoes ==
  ASSUME Typed, NEW p \in Procs, RetirePutBack(p)
  PROVE  /\ Moves(p)
         /\ \/ my[p].mode = "release" /\ Ends(p)
            \/ my[p].mode # "release" /\ Takes(p, "clean", Marker(p))
<1>1. pc[p] # "idle" /\ TypeOK
  BY DEF RetirePutBack, At, Typed
<1> QED BY <1>1, AbandonDoes, EndDoes DEF RetirePutBack, AfterFailedRetire

LEMMA GivesBack ==
  ASSUME Typed, NEW p \in Procs, pc[p] # "idle", Goto(p, "rename"),
         my' = [my EXCEPT ![p].mode = "release", ![p].prev = Token(p)]
  PROVE  /\ Moves(p) /\ pc'[p] = "rename" /\ my'[p].session = my[p].session
         /\ my'[p].mode = "release" /\ my'[p].prev = Token(p) /\ my'[p].dir = my[p].dir
<1> DEFINE s == [my[p] EXCEPT !.mode = "release", !.prev = Token(p)]
<1>1. Token(p) \in Tokens
  <2>1. my[p].session \in 0..MaxSessions /\ my[p].session # 0
    BY TypesOfStep, LocalFields DEF Typed, Placed
  <2>2. my[p].session \in 1..MaxSessions
    BY <2>1, Bounds
  <2> QED BY <2>2 DEF Token, Tokens
<1>2. s \in Locals
  BY <1>1, WriteTwo, TypesOfStep DEF Typed
<1>3. my' = [my EXCEPT ![p] = s]
  BY TypesOfStep DEF Typed
<1>4. /\ s.session = my[p].session /\ s.mode = "release" /\ s.prev = Token(p)
      /\ s.dir = my[p].dir
  BY TypesOfStep DEF Locals, Typed
<1>5. Moves(p) /\ pc'[p] = "rename" /\ my'[p] = s
  <2> HIDE DEF s
  <2>1. "rename" \in Steps /\ TypeOK
    BY DEF Steps, Typed
  <2> QED BY <1>2, <1>3, <2>1, WritesDoes
<1> QED BY <1>4, <1>5

LEMMA ReleaseReadDoes ==
  ASSUME TypeOK, NEW p \in Procs, ReleaseRead(p)
  PROVE  /\ Moves(p)
         /\ \/ PathIs(Token(p)) /\ pc'[p] = "relKids" /\ my'[p] = my[p]
            \/ ~PathIs(Token(p)) /\ Ends(p)
<1>1. "relKids" \in Steps
  BY DEF Steps, OwnerSteps
<1> QED BY <1>1, EndDoes, GoesDoes DEF ReleaseRead

LEMMA ReleaseKidsDoes ==
  ASSUME Typed, NEW p \in Procs, ReleaseKids(p)
  PROVE  /\ Moves(p)
         /\ \/ PathKids /\ pc'[p] = "relMarkOpen" /\ my'[p] = my[p]
            \/ /\ ~PathKids /\ pc'[p] = "rename" /\ my'[p].session = my[p].session
               /\ my'[p].mode = "release" /\ my'[p].prev = Token(p) /\ my'[p].dir = my[p].dir
<1>1. "relMarkOpen" \in Steps /\ pc[p] # "idle" /\ TypeOK
  BY DEF Steps, ReleaseKids, At, Typed
<1>2. CASE PathKids
  BY <1>1, <1>2, GoesDoes DEF ReleaseKids
<1>3. CASE ~PathKids
  BY <1>1, <1>3, GivesBack DEF ReleaseKids
<1> QED BY <1>2, <1>3

LEMMA MarkReleasedOpenDoes ==
  ASSUME TypeOK, NEW p \in Procs, MarkReleasedOpen(p)
  PROVE  /\ Moves(p)
         /\ \/ lock = None /\ Ends(p)
            \/ /\ lock # None /\ pc'[p] = "relMarkCheck" /\ Continues(p)
               /\ my'[p].dir = lock.owner /\ my'[p].prev = my[p].prev
<1>1. CASE lock = None
  BY <1>1, EndDoes DEF MarkReleasedOpen
<1>2. CASE lock # None
  <2> DEFINE s == [my[p] EXCEPT !.dir = lock.owner]
  <2>1. lock.owner \in Tokens
    BY <1>2, TypesOfStep DEF Places, Dir
  <2>2. s \in Locals /\ my' = [my EXCEPT ![p] = s] /\ Goto(p, "relMarkCheck")
    BY <1>2, <2>1, WriteOne, TypesOfStep DEF MarkReleasedOpen
  <2>3. /\ s.session = my[p].session /\ s.mode = my[p].mode /\ s.attempt = my[p].attempt
        /\ s.prev = my[p].prev /\ s.dir = lock.owner
    BY TypesOfStep DEF Locals
  <2>4. Moves(p) /\ pc'[p] = "relMarkCheck" /\ my'[p] = s
    <3> HIDE DEF s
    <3>1. "relMarkCheck" \in Steps
      BY DEF Steps
    <3> QED BY <1>2, <2>2, <3>1, WritesDoes
  <2> QED BY <1>2, <2>3, <2>4 DEF Continues
<1> QED BY <1>1, <1>2

LEMMA MarkReleasedCheckDoes ==
  ASSUME TypeOK, NEW p \in Procs, MarkReleasedCheck(p)
  PROVE  /\ Moves(p)
         /\ \/ PathIs(Token(p)) /\ pc'[p] = "relMarkRename" /\ my'[p] = my[p]
            \/ ~PathIs(Token(p)) /\ Ends(p)
<1>1. "relMarkRename" \in Steps
  BY DEF Steps
<1> QED BY <1>1, EndDoes, GoesDoes DEF MarkReleasedCheck

LEMMA ObserveDoes ==
  ASSUME TypeOK, NEW p \in Procs, Observe(p)
  PROVE  /\ Moves(p)
         /\ \/ Ends(p)
            \/ /\ lock # None /\ Recoverable(lock) /\ lock.owner \notin kids
               /\ lock.marker # None => lock.marker[1] \in dead
               /\ pc'[p] = "precheck" /\ Continues(p) /\ my'[p].dir = my[p].dir
               /\ my'[p].prev = lock.owner /\ my'[p].want = lock.marker
<1>1. CASE End(p)
  BY <1>1, EndDoes
<1>2. CASE /\ lock # None /\ Recoverable(lock) /\ lock.owner \notin kids
           /\ lock.marker = None \/ lock.marker[1] \in dead
           /\ Goto(p, "precheck")
           /\ my' = [my EXCEPT ![p].prev = lock.owner, ![p].want = lock.marker]
  <2> DEFINE s == [my[p] EXCEPT !.prev = lock.owner, !.want = lock.marker]
  <2>1. lock.owner \in Tokens /\ lock.marker \in Markers \cup {None}
    BY <1>2, TypesOfStep DEF Places, Dir
  <2>2. s \in Locals
    BY <2>1, WriteTwo, TypesOfStep
  <2>3. my' = [my EXCEPT ![p] = s]
    BY <1>2, TypesOfStep
  <2>4. /\ s.session = my[p].session /\ s.mode = my[p].mode /\ s.attempt = my[p].attempt
        /\ s.prev = lock.owner /\ s.want = lock.marker /\ s.dir = my[p].dir
    BY TypesOfStep DEF Locals
  <2>5. Moves(p) /\ pc'[p] = "precheck" /\ my'[p] = s
    <3> HIDE DEF s
    <3>1. "precheck" \in Steps
      BY DEF Steps
    <3> QED BY <1>2, <2>2, <2>3, <3>1, WritesDoes
  <2> QED BY <1>2, <2>4, <2>5 DEF Continues
<1> QED BY <1>1, <1>2 DEF Observe

LEMMA PrecheckDoes ==
  ASSUME TypeOK, NEW p \in Procs, Precheck(p)
  PROVE  /\ Moves(p)
         /\ \/ Ends(p)
            \/ my[p].want # None /\ Takes(p, "unlock", my[p].want)
            \/ pc'[p] = "markOpen" /\ my'[p] = my[p]
<1>1. "markOpen" \in Steps /\ "unlock" \in Reasons
  BY DEF Steps, Reasons
<1>2. my[p].want \in Markers \cup {None}
  BY TypesOfStep, LocalFields
<1> QED BY <1>1, <1>2, EndDoes, BeginTakeDoes, GoesDoes DEF Precheck

-----------------------------------------------------------------------------
(* Types.                                                                  *)

LEMMA OwnToken ==
  ASSUME Typed, NEW p \in Procs, pc[p] # "idle"
  PROVE  /\ Token(p) \in Tokens /\ Token(p) # None
         /\ Marker(p) \in Markers /\ Marker(p) # None
<1>1. my[p].session \in 1..MaxSessions
  <2>1. my[p].session \in 0..MaxSessions /\ my[p].session # 0
    BY TypesOfStep, LocalFields DEF Typed, Placed
  <2> QED BY <2>1, Bounds
<1>2. my[p].attempt \in 0..MaxAttempts
  BY TypesOfStep, LocalFields, Bounds DEF Typed
<1>3. Token(p) \in Tokens
  BY <1>1 DEF Token, Tokens
<1>4. Marker(p) \in Markers
  BY <1>1, <1>2 DEF Marker, Markers
<1> QED BY <1>3, <1>4, NoneIsApart

LEMMA DirFields ==
  ASSUME NEW d \in Dir
  PROVE  /\ d.owner \in Tokens /\ d.released \in BOOLEAN /\ d.marker \in Markers \cup {None}
         /\ \A m \in Markers \cup {None} :
              /\ [d EXCEPT !.marker = m] \in Dir /\ [d EXCEPT !.marker = m].marker = m
              /\ [d EXCEPT !.marker = m].owner = d.owner
              /\ [d EXCEPT !.marker = m].released = d.released
         /\ \A t \in Tokens :
              /\ [d EXCEPT !.owner = t, !.released = TRUE] \in Dir
              /\ [d EXCEPT !.owner = t, !.released = TRUE].owner = t
              /\ [d EXCEPT !.owner = t, !.released = TRUE].released = TRUE
              /\ [d EXCEPT !.owner = t, !.released = TRUE].marker = d.marker
PROOF BY DEF Dir

LEMMA PathFields ==
  ASSUME TypeOK
  PROVE  /\ lock # None => /\ lock \in Dir /\ lock.owner \in Tokens /\ lock.owner # None
                           /\ lock.marker \in Markers \cup {None}
         /\ \A t : PathIs(t) <=> lock # None /\ lock.owner = t
         /\ ~PathIs(None)
         /\ PathMarker # None <=> lock # None /\ lock.marker # None
         /\ lock # None => PathMarker = lock.marker
<1>1. lock \in Dir \cup {None}
  BY DEF TypeOK
<1>2. lock # None => /\ lock \in Dir /\ lock.owner \in Tokens /\ lock.owner # None
                     /\ lock.marker \in Markers \cup {None}
  <2> SUFFICES ASSUME lock # None
               PROVE  /\ lock \in Dir /\ lock.owner \in Tokens /\ lock.owner # None
                      /\ lock.marker \in Markers \cup {None}
    OBVIOUS
  <2>1. lock \in Dir
    BY <1>1
  <2>2. lock.owner \in Tokens /\ lock.marker \in Markers \cup {None}
    BY <2>1, DirFields
  <2> QED BY <2>1, <2>2, NoneIsApart
<1> QED BY <1>2 DEF PathIs, PathMarker

\* Nobody but the process that moves is placed elsewhere.
LEMMA StepTyped ==
  ASSUME Typed, NEW p \in Procs, Moves(p), Placed(p)', lock' \in Places,
         tomb' \in [Procs -> Places], aside' \in [Procs -> Notes \cup {None}],
         \A q \in Procs : q # p => aside'[q] = aside[q],
         kids' \subseteq Tokens, dead' = dead, astray' \in BOOLEAN
  PROVE  Typed'
<1>1. TypeOK'
  BY DEF Typed, TypeOK, Moves, Places, Notes
<1>2. ASSUME NEW q \in Procs, q # p PROVE Placed(q)'
  <2>1. Placed(q) /\ Same(q) /\ aside'[q] = aside[q]
    BY <1>2 DEF Typed, Moves
  <2> QED BY <2>1 DEF Placed, Same, Token
<1> QED BY <1>1, <1>2 DEF Typed

LEMMA TypesStay ==
  ASSUME Typed, NEW p \in Procs, Moves(p), Placed(p)', lock' \in Places,
         UNCHANGED <<tomb, aside, kids, dead>>, astray' = astray
  PROVE  Typed'
PROOF BY StepTyped, TypesOfStep DEF Typed, TypeOK

LEMMA PlacedWhere ==
  ASSUME Typed, NEW p \in Procs, pc[p] # "idle"
  PROVE  /\ Ends(p) => Placed(p)'
         /\ Leaves(p) => Placed(p)'
         /\ my[p].mode # "release" /\ Proceeds(p) => Placed(p)'
         /\ my[p].mode # "release" /\ Takes(p, my'[p].ctx, my'[p].want) => Placed(p)'
         /\ my'[p] = my[p] /\ my[p].mode # "release"
              /\ pc'[p] \notin {"publish", "read", "reread", "observe", "readAside", "putAside"}
            => Placed(p)'
<1>1. Placed(p)
  BY DEF Typed
<1> QED BY <1>1 DEF Placed, Ends, Leaves, Forgets, Proceeds, Continues, Remembers, Takes

\* Only a retirement or its put-back can be of a lock that is the process's own.
LEMMA NotReleasing ==
  ASSUME Typed, NEW p \in Procs, pc[p] \notin {"rename", "check", "putBack"}
  PROVE  my[p].mode # "release"
PROOF BY DEF Typed, Placed

LEMMA AcquireTyped ==
  ASSUME Typed, NEW p \in Procs, Begin(p) \/ Acquire(p)
  PROVE  Typed'
<1>0. TypeOK /\ Placed(p)
  BY DEF Typed
<1>1. CASE Begin(p)
  <2>1. my[p].session + 1 # 0
    BY <1>0, TypesOfStep, LocalFields, Bounds
  <2>2. Placed(p)'
    BY <1>0, <1>1, <2>1, BeginDoes DEF Placed
  <2> QED BY <1>0, <1>1, <2>2, BeginDoes, TypesStay, TypesOfStep DEF Begin
<1>2. CASE Publish(p)
  <2>1. pc[p] = "publish" /\ Token(p) \in Tokens
    BY <1>2, OwnToken DEF Publish, At
  <2>2. [owner |-> Token(p), released |-> FALSE, marker |-> None] \in Dir
    BY <2>1 DEF Dir
  <2>3. lock' \in Places
    BY <1>0, <1>2, <2>2, PublishDoes, TypesOfStep DEF Places
  <2>4. Placed(p)'
    BY <1>0, <1>2, <2>1, PublishDoes DEF Placed
  <2> QED BY <1>0, <1>2, <2>3, <2>4, PublishDoes, TypesStay DEF Publish
<1>3. CASE ReadOwner(p)
  <2>1. pc[p] = "read"
    BY <1>3 DEF ReadOwner, At
  <2>2. Placed(p)'
    BY <1>0, <1>3, <2>1, ReadOwnerDoes, PlacedWhere DEF Placed, Continues
  <2> QED BY <1>0, <1>3, <2>2, ReadOwnerDoes, TypesStay, TypesOfStep DEF ReadOwner
<1>4. CASE LookAgain(p)
  <2>1. pc[p] = "reread" /\ my[p].mode # "release"
    BY <1>4, NotReleasing DEF LookAgain, At
  <2>2. Placed(p)'
    BY <1>0, <1>4, <2>1, LookAgainDoes, PlacedWhere DEF Placed, Continues, Remembers
  <2> QED BY <1>0, <1>4, <2>1, <2>2, LookAgainDoes, TypesStay, TypesOfStep DEF LookAgain
<1> QED BY <1>1, <1>2, <1>3, <1>4 DEF Acquire

LEMMA ClaimTyped ==
  ASSUME Typed, NEW p \in Procs, Claim(p)
  PROVE  Typed'
<1>0. TypeOK /\ Placed(p)
  BY DEF Typed
<1>1. pc[p] \in {"markOpen", "markLink", "readMarker", "take", "readAside", "putAside"}
  BY DEF Claim, MarkOpen, MarkLink, ReadMarker, TakeMarker, ReadAside, PutAside, At
<1>2. my[p].mode # "release" /\ pc[p] # "idle"
  BY <1>1, NotReleasing
<1>3. CASE MarkOpen(p)
  <2>1. Placed(p)'
    BY <1>0, <1>2, <1>3, MarkOpenDoes, PlacedWhere DEF Placed, Continues
  <2> QED BY <1>0, <1>2, <1>3, <2>1, MarkOpenDoes, TypesStay, TypesOfStep DEF MarkOpen
<1>4. CASE MarkLink(p)
  <2>1. Marker(p) \in Markers
    BY <1>2, OwnToken
  <2>2. lock' \in Places
    <3>1. CASE lock' = lock
      BY <1>0, <3>1, TypesOfStep
    <3>2. CASE PathIs(my[p].dir) /\ lock' = [lock EXCEPT !.marker = Marker(p)]
      <4>1. lock \in Dir
        BY <1>0, <3>2, PathFields
      <4> QED BY <2>1, <3>2, <4>1, DirFields DEF Places
    <3> QED BY <1>0, <1>2, <1>4, <3>1, <3>2, MarkLinkDoes
  <2>3. Placed(p)'
    BY <1>0, <1>2, <1>4, MarkLinkDoes, PlacedWhere
  <2> QED BY <1>0, <1>2, <1>4, <2>2, <2>3, MarkLinkDoes, TypesStay DEF MarkLink
<1>5. CASE ReadMarker(p)
  <2>1. Placed(p)'
    BY <1>0, <1>2, <1>5, ReadMarkerDoes, PlacedWhere DEF Takes
  <2> QED BY <1>0, <1>2, <1>5, <2>1, ReadMarkerDoes, TypesStay, TypesOfStep DEF ReadMarker
<1>6. CASE TakeMarker(p)
  <2>1. CASE PathMarker = None /\ UNCHANGED <<lock, aside, astray>> /\ Proceeds(p)
    <3>1. Placed(p)'
      BY <1>2, <2>1, PlacedWhere
    <3> QED BY <1>0, <1>2, <1>6, <2>1, <3>1, TakeMarkerDoes, TypesStay, TypesOfStep
            DEF TakeMarker
  <2>2. CASE /\ lock # None /\ lock.marker # None
             /\ aside' = [aside EXCEPT ![p] = [dir |-> lock.owner, marker |-> lock.marker]]
             /\ lock' = [lock EXCEPT !.marker = None]
             /\ astray' = (astray \/ lock.marker # my[p].want)
             /\ pc'[p] = "readAside" /\ my'[p] = my[p]
    <3> DEFINE note == [dir |-> lock.owner, marker |-> lock.marker]
    <3>1. lock \in Dir /\ lock.owner \in Tokens /\ lock.marker \in Markers
      BY <1>0, <2>2, PathFields
    <3>2. note \in Notes
      BY <3>1 DEF Notes
    <3>3. /\ aside' \in [Procs -> Notes \cup {None}] /\ aside'[p] = note
          /\ \A q \in Procs : q # p => aside'[q] = aside[q]
      <4> HIDE DEF note
      <4>1. aside' = [aside EXCEPT ![p] = note]
        BY <2>2 DEF note
      <4> QED BY <1>0, <3>2, <4>1, TypesOfStep
    <3>4. lock' \in Places
      BY <2>2, <3>1, DirFields DEF Places
    <3>5. Placed(p)'
      BY <1>0, <1>2, <2>2, <3>2, <3>3 DEF Placed
    <3>6. UNCHANGED <<tomb, kids, dead>> /\ astray' \in BOOLEAN /\ kids \subseteq Tokens
      BY <1>0, <1>6, <2>2 DEF TakeMarker, TypeOK
    <3> QED BY <1>0, <1>2, <1>6, <3>3, <3>4, <3>5, <3>6, TakeMarkerDoes, StepTyped, TypesOfStep
  <2> QED BY <1>0, <1>2, <1>6, <2>1, <2>2, TakeMarkerDoes
<1>7. CASE ReadAside(p)
  <2>1. UNCHANGED <<lock, tomb, kids, dead, astray>> /\ kids \subseteq Tokens /\ astray \in BOOLEAN
    BY <1>0, <1>7 DEF ReadAside, TypeOK
  <2>2. CASE aside' = [aside EXCEPT ![p] = None] /\ Proceeds(p)
    <3>1. Placed(p)'
      BY <1>2, <2>2, PlacedWhere
    <3>2. /\ aside' \in [Procs -> Notes \cup {None}]
          /\ \A q \in Procs : q # p => aside'[q] = aside[q]
      BY <1>0, <2>2, TypesOfStep
    <3> QED BY <1>0, <1>2, <1>7, <2>1, <3>1, <3>2, ReadAsideDoes, StepTyped, TypesOfStep
  <2>3. CASE aside' = aside /\ pc'[p] = "putAside" /\ my'[p] = my[p]
    <3>1. aside[p] \in Notes
      BY <1>0, <1>7 DEF Placed, ReadAside, At
    <3>2. Placed(p)'
      BY <1>0, <1>2, <2>3, <3>1 DEF Placed
    <3> QED BY <1>0, <1>2, <1>7, <2>1, <2>3, <3>2, ReadAsideDoes, TypesStay, TypesOfStep
  <2> QED BY <1>0, <1>2, <1>7, <2>2, <2>3, ReadAsideDoes
<1>8. CASE PutAside(p)
  <2>1. Moves(p) /\ Ends(p)
    BY <1>0, <1>8, EndDoes DEF PutAside
  <2>2. Placed(p)'
    BY <1>2, <2>1, PlacedWhere
  <2>3. /\ aside' \in [Procs -> Notes \cup {None}]
        /\ \A q \in Procs : q # p => aside'[q] = aside[q]
    BY <1>0, <1>8, TypesOfStep DEF PutAside
  <2>4. UNCHANGED <<tomb, kids, dead, astray>> /\ kids \subseteq Tokens /\ astray \in BOOLEAN
    BY <1>0, <1>8 DEF PutAside, TypeOK
  <2>5. lock' \in Places
    <3>1. aside[p].marker \in Markers
      BY <1>0, <1>8 DEF Placed, PutAside, At, Notes
    <3>2. AsideHere(p) => lock \in Dir
      BY <1>0, PathFields DEF AsideHere
    <3>3. lock \in Places
      BY <1>0, TypesOfStep
    <3> QED BY <1>8, <3>1, <3>2, <3>3, DirFields DEF PutAside, Places
  <2> QED BY <1>0, <2>1, <2>2, <2>3, <2>4, <2>5, StepTyped, TypesOfStep
<1> QED BY <1>3, <1>4, <1>5, <1>6, <1>7, <1>8 DEF Claim

LEMMA RecoverTyped ==
  ASSUME Typed, NEW p \in Procs, Recover(p)
  PROVE  Typed'
<1>0. TypeOK /\ Placed(p)
  BY DEF Typed
<1>1. pc[p] \in {"verify", "recover", "confirm"}
  BY DEF Recover, VerifyOwner, RecoverProcesses, ConfirmMarker, At
<1>2. my[p].mode # "release" /\ pc[p] # "idle"
  BY <1>1, NotReleasing
<1>3. CASE VerifyOwner(p)
  <2>1. Placed(p)'
    BY <1>2, <1>3, VerifyOwnerDoes, PlacedWhere DEF Takes
  <2> QED BY <1>0, <1>3, <2>1, VerifyOwnerDoes, TypesStay, TypesOfStep DEF VerifyOwner
<1>4. CASE RecoverProcesses(p)
  <2>1. Placed(p)'
    BY <1>2, <1>4, RecoverProcessesDoes, PlacedWhere DEF Takes
  <2>2. kids' \subseteq Tokens
    BY <1>0, <1>4, RecoverProcessesDoes DEF TypeOK
  <2>3. UNCHANGED <<lock, tomb, aside, dead, astray>> /\ astray \in BOOLEAN
    BY <1>0, <1>4 DEF RecoverProcesses, TypeOK
  <2> QED BY <1>0, <1>4, <2>1, <2>2, <2>3, RecoverProcessesDoes, StepTyped, TypesOfStep
<1>5. CASE ConfirmMarker(p)
  <2>1. Placed(p)'
    BY <1>2, <1>5, ConfirmMarkerDoes, PlacedWhere DEF Takes
  <2> QED BY <1>0, <1>5, <2>1, ConfirmMarkerDoes, TypesStay, TypesOfStep DEF ConfirmMarker
<1> QED BY <1>3, <1>4, <1>5 DEF Recover

LEMMA RetireTyped ==
  ASSUME Typed, NEW p \in Procs, Retire(p)
  PROVE  Typed'
<1>0. TypeOK /\ Placed(p) /\ lock \in Places /\ tomb[p] \in Places
  BY TypesOfStep DEF Typed
<1>1. pc[p] \in {"rename", "check", "putBack"}
  BY DEF Retire, RetireRename, RetireCheck, RetirePutBack, At
<1>2. pc[p] # "idle"
  BY <1>1
<1>3. UNCHANGED <<aside, kids, dead, astray>> /\ kids \subseteq Tokens /\ astray \in BOOLEAN
  BY <1>0 DEF Retire, RetireRename, RetireCheck, RetirePutBack, TypeOK
<1>4. /\ lock' \in Places /\ tomb' \in [Procs -> Places]
  BY <1>0, TypesOfStep DEF Retire, RetireRename, RetireCheck, RetirePutBack, Places
<1>5. Moves(p) /\ Placed(p)'
  <2>1. CASE RetireRename(p)
    BY <1>0, <1>1, <1>2, <2>1, RetireRenameDoes, PlacedWhere DEF Takes, Placed, Token
  <2>2. CASE RetireCheck(p)
    BY <1>0, <1>1, <1>2, <2>2, RetireCheckDoes, PlacedWhere DEF Placed, Token
  <2>3. CASE RetirePutBack(p)
    BY <1>0, <1>1, <1>2, <2>3, RetirePutBackDoes, PlacedWhere DEF Takes
  <2> QED BY <2>1, <2>2, <2>3 DEF Retire
<1> QED BY <1>0, <1>3, <1>4, <1>5, StepTyped, TypesOfStep

LEMMA OwnTyped ==
  ASSUME Typed, NEW p \in Procs, Own(p) \/ GiveUp(p) \/ TrackProcess(p)
  PROVE  Typed'
<1>0. TypeOK /\ Placed(p)
  BY DEF Typed
<1>1. pc[p] \in OwnerSteps \cup Giving
  BY DEF Own, GiveUp, SweepStrays, PublishFails, Release, ReleaseRead, ReleaseKids, TrackProcess,
         MarkReleasedOpen, MarkReleasedCheck, MarkReleasedRename, At, OwnerSteps, Giving
<1>2. my[p].mode # "release" /\ pc[p] # "idle"
  BY <1>1, NotReleasing DEF OwnerSteps, Giving
<1>3. Token(p) \in Tokens
  BY <1>2, OwnToken
<1>4. UNCHANGED <<aside, dead, astray>> /\ kids \subseteq Tokens /\ astray \in BOOLEAN
  BY <1>0 DEF Own, GiveUp, SweepStrays, PublishFails, Release, ReleaseRead, ReleaseKids, TypeOK,
              TrackProcess, MarkReleasedOpen, MarkReleasedCheck, MarkReleasedRename
<1>5. lock' \in Places /\ tomb' \in [Procs -> Places] /\ kids' \subseteq Tokens
  <2>1. CASE MarkReleasedRename(p)
    <3>1. lock' \in Places
      <4>1. PathIs(my[p].dir) => lock \in Dir
        BY <1>0, PathFields
      <4> QED BY <1>0, <1>3, <2>1, <4>1, DirFields, TypesOfStep DEF MarkReleasedRename, Places
    <3> QED BY <1>0, <1>4, <2>1, <3>1, TypesOfStep DEF MarkReleasedRename
  <2>2. CASE TrackProcess(p)
    BY <1>0, <1>3, <1>4, <2>2, TypesOfStep DEF TrackProcess
  <2>3. CASE SweepStrays(p)
    BY <1>0, <1>4, <2>3, TypesOfStep DEF SweepStrays, Places
  <2>4. CASE \/ PublishFails(p) \/ Release(p) \/ ReleaseRead(p) \/ ReleaseKids(p)
             \/ MarkReleasedOpen(p) \/ MarkReleasedCheck(p)
    BY <1>0, <1>4, <2>4, TypesOfStep
       DEF PublishFails, Release, ReleaseRead, ReleaseKids, MarkReleasedOpen, MarkReleasedCheck
  <2> QED BY <2>1, <2>2, <2>3, <2>4 DEF Own, GiveUp
<1>6. Moves(p) /\ Placed(p)'
  <2>1. CASE SweepStrays(p) \/ Release(p) \/ TrackProcess(p)
    <3>1. /\ "owned" \in Steps /\ "relRead" \in Steps
          /\ pc \in [Procs -> Steps] /\ my \in [Procs -> Locals]
      BY <1>0, TypesOfStep DEF Steps, OwnerSteps
    <3>2. Moves(p) /\ my'[p] = my[p] /\ pc'[p] \in {"owned", "relRead"}
      BY <1>0, <2>1, <3>1, GoesDoes DEF SweepStrays, Release, TrackProcess, Moves, Same, At
    <3> QED BY <1>2, <3>2, PlacedWhere
  <2>2. CASE PublishFails(p)
    BY <1>0, <1>2, <2>2, GivesBack DEF PublishFails, Placed, Token
  <2>3. CASE ReleaseRead(p)
    BY <1>0, <1>2, <2>3, ReleaseReadDoes, PlacedWhere
  <2>4. CASE ReleaseKids(p)
    BY <1>0, <1>2, <2>4, ReleaseKidsDoes, PlacedWhere DEF Placed, Token
  <2>5. CASE MarkReleasedOpen(p)
    BY <1>0, <1>2, <2>5, MarkReleasedOpenDoes, PlacedWhere DEF Placed, Continues
  <2>6. CASE MarkReleasedCheck(p)
    BY <1>0, <1>2, <2>6, MarkReleasedCheckDoes, PlacedWhere
  <2>7. CASE MarkReleasedRename(p)
    BY <1>0, <1>2, <2>7, EndDoes, PlacedWhere DEF MarkReleasedRename
  <2> QED BY <2>1, <2>2, <2>3, <2>4, <2>5, <2>6, <2>7 DEF Own, GiveUp
<1> QED BY <1>0, <1>4, <1>5, <1>6, StepTyped, TypesOfStep

LEMMA UnlockTyped ==
  ASSUME Typed, NEW p \in Procs, Unlock(p)
  PROVE  Typed'
<1>0. TypeOK /\ Placed(p)
  BY DEF Typed
<1>1. pc[p] \in {"observe", "precheck"}
  BY DEF Unlock, Observe, Precheck, At
<1>2. my[p].mode # "release" /\ pc[p] # "idle"
  BY <1>1, NotReleasing
<1>3. CASE Observe(p)
  <2>1. my[p].mode = "unlock"
    BY <1>0, <1>3 DEF Observe, At, Placed
  <2>2. Placed(p)'
    BY <1>0, <1>2, <1>3, <2>1, ObserveDoes, PlacedWhere DEF Placed, Continues
  <2> QED BY <1>0, <1>3, <2>2, ObserveDoes, TypesStay, TypesOfStep DEF Observe
<1>4. CASE Precheck(p)
  <2>1. Placed(p)'
    BY <1>0, <1>2, <1>4, PrecheckDoes, PlacedWhere DEF Takes
  <2> QED BY <1>0, <1>4, <2>1, PrecheckDoes, TypesStay, TypesOfStep DEF Precheck
<1> QED BY <1>3, <1>4 DEF Unlock

LEMMA NextTyped ==
  ASSUME Typed, [Next]_vars
  PROVE  Typed'
<1>1. ASSUME NEW p \in Procs, Begin(p) \/ Step(p) \/ TrackProcess(p) PROVE Typed'
  BY <1>1, AcquireTyped, ClaimTyped, RecoverTyped, RetireTyped, OwnTyped, UnlockTyped DEF Step
<1>2. ASSUME NEW p \in Procs, Crash(p) PROVE Typed'
  BY <1>2 DEF Crash, Typed, TypeOK, Placed, Token
<1>3. CASE ChildExits
  BY <1>3 DEF ChildExits, Typed, TypeOK, Placed, Token
<1>4. CASE UNCHANGED vars
  BY <1>4 DEF vars, Typed, TypeOK, Placed, Token
<1> QED BY <1>1, <1>2, <1>3, <1>4 DEF Next

LEMMA InitTyped == Init => Typed
<1> SUFFICES ASSUME Init PROVE Typed
  OBVIOUS
<1>1. Fresh \in Locals
  BY Bounds DEF Fresh, Locals, Numbers
<1>2. lock \in Dir \cup {None}
  <2>1. LeftBehind \subseteq Dir
    BY DEF LeftBehind, Dir, Tokens, Markers
  <2> QED BY <2>1, RunLockAssumption DEF Init
<1>3. TypeOK
  <2>1. kids \subseteq Tokens /\ dead \subseteq Procs \cup Corpses
    BY DEF Init, Tokens
  <2>2. my \in [Procs -> Locals] /\ pc \in [Procs -> Steps]
    BY <1>1 DEF Init, Steps
  <2> QED BY <1>2, <2>1, <2>2 DEF Init, TypeOK
<1>4. ASSUME NEW p \in Procs PROVE Placed(p)
  BY DEF Init, Placed, Fresh
<1> QED BY <1>3, <1>4 DEF Typed

-----------------------------------------------------------------------------
(* What stays true of a directory, and of the processes that do not move.  *)

SpentStays == \A t \in Tokens : Spent(t) => Spent(t)'

\* No directory that was at the path comes back, or becomes anybody's again.
PathKept ==
  \A t \in Tokens :
    Spent(t) /\ PathIs(t)' => PathIs(t) /\ (Recoverable(lock) => Recoverable(lock)')

\* A child is added only to the lock of an owner, by that owner.
KidsKept(q) ==
  \A t \in Tokens :
    t \in kids' =>
      \/ t \in kids
      \/ PathIs(t) /\ ~Recoverable(lock) /\ (t = Token(q) => pc[q] = "owned")

Unmarked(p) == lock # None /\ lock.marker # None => lock.marker[1] # p

LEMMA TokenIs ==
  ASSUME NEW p \in Procs
  PROVE  Token(p)[1] = p /\ Token(p)[2] = my[p].session /\ Marker(p)[1] = p
PROOF BY DEF Token, Marker

LEMMA TokenParts ==
  ASSUME NEW t \in Tokens, t[1] \in Procs
  PROVE  t[2] \in 1..MaxSessions
<1>1. CASE t \in Procs \X (1..MaxSessions)
  BY <1>1
<1>2. CASE t \in Corpses \X {0}
  BY <1>2, NoneIsApart
<1> QED BY <1>1, <1>2 DEF Tokens

LEMMA SpentStill ==
  ASSUME NEW p \in Procs, Moves(p), my'[p].session = my[p].session, ~Seeking(p) => ~Seeking(p)'
  PROVE  SpentStays
<1> SUFFICES ASSUME NEW t \in Tokens, Spent(t), t[1] \in Procs
             PROVE  t[2] < my'[t[1]].session \/ (t[2] = my'[t[1]].session /\ ~Seeking(t[1])')
  BY DEF SpentStays, Spent
<1>1. CASE t[1] = p
  BY <1>1 DEF Spent
<1>2. CASE t[1] # p
  BY <1>2 DEF Spent, Moves, Same, Seeking
<1> QED BY <1>1, <1>2

LEMMA SpentOfBegin ==
  ASSUME Typed, NEW p \in Procs, Begin(p)
  PROVE  SpentStays
<1>0. Moves(p) /\ my'[p].session = my[p].session + 1
  BY BeginDoes DEF Typed
<1> SUFFICES ASSUME NEW t \in Tokens, Spent(t), t[1] \in Procs
             PROVE  t[2] < my'[t[1]].session \/ (t[2] = my'[t[1]].session /\ ~Seeking(t[1])')
  BY DEF SpentStays, Spent
<1>1. CASE t[1] = p
  <2>1. t[2] \in 1..MaxSessions /\ my[p].session \in 0..MaxSessions
    BY TokenParts, TypesOfStep, LocalFields DEF Typed
  <2>2. t[2] < my[p].session \/ t[2] = my[p].session
    BY <1>1 DEF Spent
  <2> QED BY <1>0, <1>1, <2>1, <2>2, Bounds
<1>2. CASE t[1] # p
  BY <1>0, <1>2 DEF Spent, Moves, Same, Seeking
<1> QED BY <1>1, <1>2

\* The token of a process that has no lock yet is not the token of a published one.
LEMMA OwnIsUnspent ==
  ASSUME Typed, NEW p \in Procs, Seeking(p)
  PROVE  ~Spent(Token(p))
<1>1. my[p].session \in 0..MaxSessions
  BY TypesOfStep, LocalFields DEF Typed
<1>2. ~(my[p].session < my[p].session)
  BY <1>1, Bounds
<1> QED BY <1>2, TokenIs DEF Spent

LEMMA RemembersTokens ==
  ASSUME TypeOK, NEW q \in Procs
  PROVE  /\ my[q].prev \in Tokens \cup {None} /\ my[q].dir \in Tokens \cup {None}
         /\ aside[q] \in Notes => aside[q].dir \in Tokens /\ aside[q].marker \in Markers
<1>1. aside[q] \in Notes => aside[q].dir \in Tokens /\ aside[q].marker \in Markers
  BY DEF Notes
<1> QED BY <1>1, TypesOfStep, LocalFields

\* What a process that does not move knows stays true, whoever moves.
LEMMA OtherSane ==
  ASSUME Typed, Typed', NEW q \in Procs, Same(q), Sane(q), SpentStays, PathKept, KidsKept(q),
         dead \subseteq dead', aside'[q] = aside[q], tomb'[q] \in {tomb[q], None},
         Held(q)', Claimed(q)', Noted(q)'
  PROVE  Sane(q)'
<1>0. /\ pc'[q] = pc[q] /\ my'[q] = my[q] /\ Placed(q) /\ TypeOK /\ TypeOK'
      /\ Alive(q)' => Alive(q)
  BY DEF Same, Typed, Alive
<1>1. /\ my[q].prev # None => my[q].prev \in Tokens
      /\ my[q].dir # None => my[q].dir \in Tokens
  BY <1>0, RemembersTokens
<1>2. pc[q] \in {"readAside", "putAside"} => aside[q].dir \in Tokens
  BY <1>0, RemembersTokens DEF Placed
<1>3. Drawn(q)'
  BY <1>0, <1>1, <1>2 DEF Sane, Drawn, SpentStays
<1>4. Stale(q)'
  BY <1>0, <1>1 DEF Sane, Stale, Drawn, PathKept
<1>5. Gone(q)'
  BY <1>0, <1>1 DEF Sane, Gone, Drawn, PathKept
<1>6. Wanted(q)'
  <2>1. pc[q] = "putAside" /\ ~AsideHere(q) => ~AsideHere(q)'
    BY <1>0, <1>2 DEF Sane, Drawn, PathKept, AsideHere
  <2>2. Marker(q)' = Marker(q)
    BY <1>0 DEF Marker
  <2> QED BY <1>0, <2>1, <2>2 DEF Sane, Wanted
<1>7. Childless(q)'
  <2>1. Token(q)' = Token(q)
    BY <1>0 DEF Token
  <2>2. Alive(q) /\ pc[q] = "sweep" => Token(q) \notin kids'
    <3>1. Token(q) \in kids' => Token(q) \in Tokens
      BY <1>0, <2>1 DEF TypeOK
    <3> QED BY <3>1 DEF Sane, Childless, KidsKept
  <2>3. ASSUME Alive(q), my[q].prev # None, my[q].prev \in kids', my[q].prev \notin kids,
               my[q].mode \in {"unlock", "release"} \/ pc[q] \in {"confirm", "rename"}
        PROVE  FALSE
    <3>1. PathIs(my[q].prev) /\ ~Recoverable(lock) /\ (my[q].prev = Token(q) => pc[q] = "owned")
      BY <1>1, <2>3 DEF KidsKept
    <3>2. my[q].mode = "release"
      BY <2>3, <3>1 DEF Sane, Stale
    <3> QED BY <1>0, <3>1, <3>2 DEF Placed
  <2> QED BY <1>0, <2>1, <2>2, <2>3 DEF Sane, Childless
<1>8. Caught(q)'
  BY <1>0 DEF Sane, Caught, Carries, Marker
<1> QED BY <1>3, <1>4, <1>5, <1>6, <1>7, <1>8 DEF Sane

\* Nothing changes for them when the lock at the path does not.
LEMMA OtherSaneAtRest ==
  ASSUME Typed, Typed', NEW q \in Procs, Same(q), Sane(q), SpentStays, KidsKept(q), lock' = lock,
         dead \subseteq dead', aside'[q] = aside[q], tomb'[q] \in {tomb[q], None}
  PROVE  Sane(q)'
<1>0. pc'[q] = pc[q] /\ my'[q] = my[q] /\ (Alive(q)' => Alive(q))
  BY DEF Same, Alive
<1>1. PathKept
  BY DEF PathKept, PathIs, Recoverable
<1>2. Held(q)'
  BY <1>0 DEF Sane, Held, PathIs, Token, Owning
<1>3. Claimed(q)'
  BY <1>0 DEF Sane, Claimed, Claimant, PathIs, Marker
<1>4. Noted(q)'
  BY <1>0 DEF Sane, Noted, PathMarker, Marker
<1> QED BY <1>1, <1>2, <1>3, <1>4, OtherSane

\* A move that leaves the files alone: what it must see to.
LEMMA MoveSound ==
  ASSUME Typed, Typed', Sound, NEW p \in Procs, Moves(p), lock' = lock, dead' = dead,
         kids' \subseteq kids,
         \A q \in Procs : q # p => aside'[q] = aside[q] /\ tomb'[q] \in {tomb[q], None},
         my'[p].session = my[p].session \/ Begin(p), ~Seeking(p) => ~Seeking(p)' \/ Begin(p),
         Owning(p) => Owning(p)' /\ my'[p].session = my[p].session, Sane(p)'
  PROVE  Sound'
<1>1. SpentStays
  BY SpentStill, SpentOfBegin
<1>2. ASSUME NEW q \in Procs PROVE Sane(q)'
  <2>1. CASE q # p
    <3>1. Same(q) /\ KidsKept(q) /\ Sane(q)
      BY <2>1 DEF Moves, KidsKept, Sound
    <3> QED BY <1>1, <2>1, <3>1, OtherSaneAtRest
  <2> QED BY <2>1
<1>3. ChildrenTracked'
  BY DEF Sound, ChildrenTracked, PathIs
<1>4. Owned'
  <2> SUFFICES ASSUME lock # None
               PROVE  /\ Spent(lock.owner)'
                      /\ \/ Recoverable(lock)'
                         \/ \E q \in Procs : Owning(q)' /\ lock.owner = Token(q)'
    BY DEF Owned
  <2>1. lock.owner \in Tokens
    BY PathFields DEF Typed
  <2>2. Spent(lock.owner)'
    BY <1>1, <2>1 DEF SpentStays, Sound, Owned
  <2>3. CASE Recoverable(lock)
    BY <2>2, <2>3 DEF Recoverable
  <2>4. ASSUME NEW q \in Procs, Owning(q), lock.owner = Token(q)
        PROVE  Owning(q)' /\ lock.owner = Token(q)'
    BY <2>4 DEF Moves, Same, Owning, Token
  <2> QED BY <2>2, <2>3, <2>4 DEF Sound, Owned
<1> QED BY <1>2, <1>3, <1>4 DEF Sound

\* Who starts over, or is through, has nothing to keep but that no marker is its own.
LEMMA StartsSane ==
  ASSUME NEW p \in Procs, pc'[p] \in {"idle", "publish", "observe"},
         my'[p].prev = None, my'[p].dir = None, Unmarked(p)'
  PROVE  Sane(p)'
<1>1. Drawn(p)' /\ Stale(p)' /\ Gone(p)'
  BY DEF Drawn, Stale, Gone
<1>2. Held(p)' /\ Wanted(p)' /\ Claimed(p)'
  BY DEF Held, Wanted, Claimed, Claimant, Owning, OwnerSteps, Giving, Taking, Claiming
<1>3. Childless(p)' /\ Caught(p)'
  BY DEF Childless, Caught
<1>4. Noted(p)'
  BY DEF Noted, PathMarker, Unmarked
<1> QED BY <1>1, <1>2, <1>3, <1>4 DEF Sane

\* A process on its way to a lock that goes on with what it remembers.
LEMMA GoesOnSane ==
  ASSUME Typed, NEW p \in Procs, Sane(p), SpentStays, lock' = lock, dead' = dead,
         Continues(p), Remembers(p), my[p].mode # "release",
         pc'[p] \in Steps \ (OwnerSteps \cup Giving
                              \cup {"check", "putBack", "readAside", "putAside"}),
         kids' \subseteq kids,
         pc'[p] \in {"confirm", "rename"} /\ Alive(p)
           => my[p].prev = None \/ my[p].prev \notin kids',
         Wanted(p)', Claimed(p)', Noted(p)'
  PROVE  Sane(p)'
<1>0. /\ my[p].prev # None => my[p].prev \in Tokens
      /\ my[p].dir # None => my[p].dir \in Tokens
  BY RemembersTokens DEF Typed
<1>1. Drawn(p)'
  BY <1>0 DEF Sane, Drawn, SpentStays, Remembers
<1>2. Stale(p)' /\ Gone(p)'
  BY DEF Sane, Stale, Gone, Remembers, Continues, PathIs, Recoverable
<1>3. Held(p)' /\ Caught(p)'
  BY DEF Held, Owning, Continues, Caught
<1>4. Childless(p)'
  BY DEF Sane, Childless, Continues, Remembers, Alive, OwnerSteps
<1> QED BY <1>1, <1>2, <1>3, <1>4 DEF Sane

-----------------------------------------------------------------------------
(* Each action keeps the invariant: first those that leave the lock alone. *)

LEMMA UnmarkedWhere ==
  ASSUME NEW p \in Procs, Sane(p), Alive(p), pc[p] \notin Claiming,
         ~(pc[p] = "take" /\ my[p].ctx = "clean")
  PROVE  Unmarked(p)
PROOF BY DEF Sane, Noted, Unmarked, PathMarker

LEMMA SaneParts ==
  ASSUME Typed, Sound, NEW p \in Procs
  PROVE  /\ Sane(p) /\ Placed(p) /\ TypeOK /\ Drawn(p) /\ Held(p) /\ Stale(p) /\ Gone(p)
         /\ Wanted(p) /\ Claimed(p) /\ Childless(p) /\ Caught(p) /\ Noted(p)
PROOF BY DEF Typed, Sound, Sane

LEMMA LeavesSound ==
  ASSUME Typed, Typed', Sound, NEW p \in Procs, Moves(p), Leaves(p) \/ Ends(p),
         Seeking(p) \/ (Ends(p) /\ ~Owning(p)), UNCHANGED <<lock, kids, dead>>,
         \A q \in Procs : q # p => aside'[q] = aside[q] /\ tomb'[q] \in {tomb[q], None},
         Unmarked(p)
  PROVE  Sound'
<1>1. Unmarked(p)'
  BY DEF Unmarked
<1>2. Sane(p)'
  BY <1>1, StartsSane DEF Leaves, Ends, Forgets
<1>3. /\ ~Owning(p) /\ my'[p].session = my[p].session
      /\ ~Seeking(p) => ~Seeking(p)'
  BY DEF Seeking, Owning, Leaves, Ends, Forgets
<1> QED BY <1>2, <1>3, MoveSound

LEMMA GoesOnSound ==
  ASSUME Typed, Typed', Sound, NEW p \in Procs, Moves(p), Seeking(p),
         UNCHANGED <<lock, tomb, dead>>, kids' \subseteq kids,
         \A q \in Procs : q # p => aside'[q] = aside[q],
         Continues(p), Remembers(p),
         pc'[p] \in Steps \ (OwnerSteps \cup Giving
                              \cup {"check", "putBack", "readAside", "putAside"}),
         pc'[p] \in {"confirm", "rename"} /\ Alive(p)
           => my[p].prev = None \/ my[p].prev \notin kids',
         Wanted(p)', Claimed(p)', Noted(p)'
  PROVE  Sound'
<1>1. my'[p].session = my[p].session /\ ~Owning(p) /\ my[p].mode # "release"
  BY DEF Continues, Seeking, Owning
<1>2. SpentStays
  BY <1>1, SpentStill
<1>3. Sane(p)'
  BY <1>1, <1>2, SaneParts, GoesOnSane
<1> QED BY <1>1, <1>3, MoveSound

LEMMA BeginSound ==
  ASSUME Typed, Typed', Sound, NEW p \in Procs, Begin(p)
  PROVE  Sound'
<1>1. Unmarked(p)'
  BY UnmarkedWhere, SaneParts DEF Begin, At, Claiming, Unmarked
<1>2. Sane(p)'
  BY <1>1, BeginDoes, StartsSane DEF Typed
<1>3. ~Owning(p)
  BY DEF Begin, At, Owning, OwnerSteps, Giving
<1> QED BY <1>2, <1>3, BeginDoes, MoveSound DEF Begin, Typed

\* Nothing that is only about a recovery concerns a process that is not at one.
LEMMA Elsewhere ==
  ASSUME NEW p \in Procs, pc'[p] \in {"read", "reread", "markOpen", "markLink", "readMarker"},
         Unmarked(p)'
  PROVE  Wanted(p)' /\ Claimed(p)' /\ Noted(p)'
PROOF BY DEF Wanted, Taking, Claimed, Claimant, Claiming, Noted, Unmarked, PathMarker

LEMMA ReadOwnerSound ==
  ASSUME Typed, Typed', Sound, NEW p \in Procs, ReadOwner(p)
  PROVE  Sound'
<1>0. /\ pc[p] = "read" /\ Alive(p) /\ my[p].mode # "release" /\ Seeking(p) /\ ~Owning(p)
      /\ UNCHANGED <<lock, tomb, aside, kids, dead>> /\ Moves(p)
  BY NotReleasing, ReadOwnerDoes
     DEF ReadOwner, At, Seeking, Owning, OwnerSteps, Giving, Steps, Typed
<1>1. Unmarked(p) /\ Unmarked(p)'
  BY <1>0, UnmarkedWhere, SaneParts DEF Claiming, Unmarked
<1>2. CASE Ends(p)
  BY <1>0, <1>1, <1>2, LeavesSound
<1>3. CASE pc'[p] = "reread" /\ my'[p] = my[p]
  BY <1>0, <1>1, <1>3, Elsewhere, GoesOnSound DEF Continues, Remembers, Steps, OwnerSteps, Giving
<1>4. CASE /\ lock # None /\ Recoverable(lock) /\ my[p].mode = "acquire"
           /\ pc'[p] = "markOpen" /\ Continues(p)
           /\ my'[p].prev = lock.owner /\ my'[p].dir = my[p].dir
  <2>1. my[p].dir = None /\ my'[p].mode = "acquire" /\ my'[p].session = my[p].session
    BY <1>0, <1>4, SaneParts DEF Placed, Continues
  <2>2. SpentStays
    BY <1>0, <2>1, SpentStill
  <2>3. Drawn(p)'
    <3>1. lock.owner \in Tokens /\ Spent(lock.owner)
      BY <1>4, PathFields DEF Typed, Sound, Owned
    <3> QED BY <1>4, <2>1, <2>2, <3>1 DEF Drawn, SpentStays
  <2>4. Stale(p)' /\ Gone(p)'
    BY <1>0, <1>4, <2>1 DEF Stale, Gone, Recoverable
  <2>5. Held(p)' /\ Childless(p)' /\ Caught(p)'
    BY <1>4, <2>1 DEF Held, Owning, OwnerSteps, Giving, Childless, Caught
  <2>6. Sane(p)'
    BY <1>1, <1>4, <2>3, <2>4, <2>5, Elsewhere DEF Sane
  <2> QED BY <1>0, <2>1, <2>6, MoveSound
<1> QED BY <1>2, <1>3, <1>4, ReadOwnerDoes DEF Typed

LEMMA LookAgainSound ==
  ASSUME Typed, Typed', Sound, NEW p \in Procs, LookAgain(p)
  PROVE  Sound'
<1>0. /\ pc[p] = "reread" /\ Alive(p) /\ my[p].mode # "release" /\ Seeking(p)
      /\ UNCHANGED <<lock, tomb, aside, kids, dead>>
  BY NotReleasing DEF LookAgain, At, Seeking, OwnerSteps, Giving, Steps
<1>1. Moves(p) /\ (Leaves(p) \/ (pc'[p] = "read" /\ Continues(p) /\ Remembers(p)))
  BY <1>0, LookAgainDoes DEF Typed
<1>2. Unmarked(p) /\ Unmarked(p)'
  BY <1>0, UnmarkedWhere, SaneParts DEF Claiming, Unmarked
<1>3. CASE Leaves(p)
  BY <1>0, <1>1, <1>2, <1>3, LeavesSound
<1>4. CASE pc'[p] = "read" /\ Continues(p) /\ Remembers(p)
  BY <1>0, <1>1, <1>2, <1>4, Elsewhere, GoesOnSound DEF Steps, OwnerSteps, Giving
<1> QED BY <1>1, <1>3, <1>4

LEMMA MarkOpenSound ==
  ASSUME Typed, Typed', Sound, NEW p \in Procs, MarkOpen(p)
  PROVE  Sound'
<1>0. /\ pc[p] = "markOpen" /\ Alive(p) /\ my[p].mode # "release" /\ Seeking(p) /\ ~Owning(p)
      /\ UNCHANGED <<lock, tomb, aside, kids, dead>>
  BY NotReleasing DEF MarkOpen, At, Seeking, Owning, OwnerSteps, Giving, Steps
<1>1. Unmarked(p) /\ Unmarked(p)'
  BY <1>0, UnmarkedWhere, SaneParts DEF Claiming, Unmarked
<1>2. Moves(p)
  BY <1>0, MarkOpenDoes DEF Typed
<1>3. CASE Leaves(p)
  BY <1>0, <1>1, <1>2, <1>3, LeavesSound
<1>4. CASE /\ lock # None /\ pc'[p] = "markLink" /\ Continues(p)
           /\ my'[p].dir = lock.owner /\ my'[p].prev = my[p].prev
  <2>1. my'[p].session = my[p].session /\ my'[p].mode = my[p].mode
    BY <1>4 DEF Continues
  <2>2. SpentStays
    BY <1>0, <1>2, <2>1, SpentStill
  <2>3. Drawn(p)'
    <3>1. lock.owner \in Tokens /\ Spent(lock.owner)
      BY <1>4, PathFields DEF Typed, Sound, Owned
    <3>2. my[p].prev # None => my[p].prev \in Tokens
      BY RemembersTokens DEF Typed
    <3> QED BY <1>4, <2>2, <3>1, <3>2, SaneParts DEF Drawn, SpentStays
  <2>4. Stale(p)' /\ Gone(p)'
    BY <1>0, <1>4, <2>1, SaneParts DEF Stale, Gone, Recoverable, PathIs
  <2>5. Held(p)' /\ Childless(p)' /\ Caught(p)'
    BY <1>0, <1>4, <2>1, SaneParts
       DEF Held, Owning, OwnerSteps, Giving, Childless, Caught, Alive
  <2>6. Sane(p)'
    BY <1>1, <1>4, <2>3, <2>4, <2>5, Elsewhere DEF Sane
  <2> QED BY <1>0, <1>2, <2>1, <2>6, MoveSound
<1> QED BY <1>0, <1>3, <1>4, MarkOpenDoes DEF Typed

LEMMA ReadMarkerSound ==
  ASSUME Typed, Typed', Sound, NEW p \in Procs, ReadMarker(p)
  PROVE  Sound'
<1>0. /\ pc[p] = "readMarker" /\ Alive(p) /\ my[p].mode # "release" /\ Seeking(p)
      /\ UNCHANGED <<lock, tomb, aside, kids, dead>>
  BY NotReleasing DEF ReadMarker, At, Seeking, OwnerSteps, Giving, Steps
<1>1. Unmarked(p) /\ Unmarked(p)'
  BY <1>0, UnmarkedWhere, SaneParts DEF Claiming, Unmarked
<1>2. Moves(p)
  BY <1>0, ReadMarkerDoes DEF Typed
<1>3. CASE Leaves(p)
  BY <1>0, <1>1, <1>2, <1>3, LeavesSound
<1>4. CASE /\ lock # None /\ lock.marker # None /\ lock.marker[1] \in dead
           /\ Takes(p, "claim", lock.marker)
  <2>1. Wanted(p)'
    BY <1>0, <1>4 DEF Wanted, Takes
  <2>2. Claimed(p)' /\ Noted(p)'
    BY <1>1, <1>4 DEF Claimed, Claimant, Claiming, Takes, Noted, Unmarked, PathMarker
  <2> QED BY <1>0, <1>2, <1>4, <2>1, <2>2, GoesOnSound DEF Takes, Steps, OwnerSteps, Giving
<1> QED BY <1>0, <1>3, <1>4, ReadMarkerDoes DEF Typed

LEMMA ProceedsSound ==
  ASSUME Typed, Typed', Sound, NEW p \in Procs, Moves(p), Proceeds(p), Seeking(p),
         UNCHANGED <<lock, tomb, kids, dead>>, Unmarked(p),
         \A q \in Procs : q # p => aside'[q] = aside[q]
  PROVE  Sound'
<1>1. Unmarked(p)'
  BY DEF Unmarked
<1>2. CASE Leaves(p)
  BY <1>2, LeavesSound
<1>3. CASE pc'[p] = "markOpen" /\ Continues(p) /\ Remembers(p)
  BY <1>1, <1>3, Elsewhere, GoesOnSound DEF Steps, OwnerSteps, Giving
<1> QED BY <1>2, <1>3 DEF Proceeds

LEMMA ReadAsideSound ==
  ASSUME Typed, Typed', Sound, NEW p \in Procs, ReadAside(p)
  PROVE  Sound'
<1>0. /\ pc[p] = "readAside" /\ Alive(p) /\ my[p].mode # "release" /\ Seeking(p) /\ ~Owning(p)
      /\ UNCHANGED <<lock, tomb, kids, dead>>
  BY NotReleasing DEF ReadAside, At, Seeking, Owning, OwnerSteps, Giving, Steps
<1>1. Unmarked(p) /\ Unmarked(p)'
  BY <1>0, UnmarkedWhere, SaneParts DEF Claiming, Unmarked
<1>2. Moves(p) /\ aside \in [Procs -> Notes \cup {None}]
  BY <1>0, ReadAsideDoes, TypesOfStep DEF Typed
<1>3. CASE aside' = [aside EXCEPT ![p] = None] /\ Proceeds(p)
  <2>1. \A q \in Procs : q # p => aside'[q] = aside[q]
    BY <1>2, <1>3
  <2> QED BY <1>0, <1>1, <1>2, <1>3, <2>1, ProceedsSound
<1>4. CASE /\ ~(AsideHere(p) /\ aside[p].marker = my[p].want)
           /\ aside' = aside /\ pc'[p] = "putAside" /\ my'[p] = my[p]
  <2>1. SpentStays
    BY <1>0, <1>2, <1>4, SpentStill
  <2>2. aside[p].marker = my[p].want /\ ~AsideHere(p)
    BY <1>0, <1>4, SaneParts DEF Wanted
  <2>3. Drawn(p)'
    <3>1. /\ my[p].prev # None => my[p].prev \in Tokens
          /\ my[p].dir # None => my[p].dir \in Tokens
          /\ aside[p].dir \in Tokens
      BY <1>0, RemembersTokens, SaneParts DEF Placed
    <3> QED BY <1>0, <1>4, <2>1, <3>1, SaneParts DEF Drawn, SpentStays
  <2>4. Stale(p)' /\ Gone(p)'
    BY <1>0, <1>4, SaneParts DEF Stale, Gone, Recoverable, PathIs
  <2>5. Held(p)' /\ Childless(p)' /\ Caught(p)'
    BY <1>0, <1>4, SaneParts DEF Held, Owning, OwnerSteps, Giving, Childless, Caught, Alive
  <2>6. Wanted(p)'
    BY <1>0, <1>4, <2>2, SaneParts DEF Wanted, Taking, AsideHere, PathIs, Alive, Marker
  <2>7. Claimed(p)' /\ Noted(p)'
    BY <1>1, <1>4 DEF Claimed, Claimant, Claiming, Noted, Unmarked, PathMarker
  <2>8. Sane(p)'
    BY <2>3, <2>4, <2>5, <2>6, <2>7 DEF Sane
  <2> QED BY <1>0, <1>2, <1>4, <2>8, MoveSound
<1> QED BY <1>0, <1>3, <1>4, ReadAsideDoes DEF Typed

\* The directory that a marker was taken from is never at the path again, so it stays aside.
LEMMA PutAsideSound ==
  ASSUME Typed, Typed', Sound, NEW p \in Procs, PutAside(p)
  PROVE  Sound'
<1>0. /\ pc[p] = "putAside" /\ Alive(p) /\ my[p].mode # "release" /\ Seeking(p)
      /\ UNCHANGED <<tomb, kids, dead>> /\ Moves(p) /\ Ends(p)
  BY NotReleasing, EndDoes DEF PutAside, At, Seeking, OwnerSteps, Giving, Steps, Typed
<1>1. Unmarked(p)
  BY <1>0, UnmarkedWhere, SaneParts DEF Claiming
<1>2. lock' = lock
  BY <1>0, SaneParts DEF Wanted, PutAside
<1>3. \A q \in Procs : q # p => aside'[q] = aside[q]
  BY TypesOfStep DEF PutAside, Typed
<1> QED BY <1>0, <1>1, <1>2, <1>3, LeavesSound

\* What is removed next is the process's own marker.
LEMMA AbandonSound ==
  ASSUME Typed, Typed', Sound, NEW p \in Procs, Moves(p), Takes(p, "clean", Marker(p)),
         Claimant(p), UNCHANGED <<lock, tomb, aside, kids, dead>>
  PROVE  Sound'
<1>1. Seeking(p) /\ Marker(p)' = Marker(p)
  BY DEF Claimant, Claiming, Seeking, Steps, OwnerSteps, Giving, Takes, Continues, Marker
<1>2. Wanted(p)'
  BY <1>1 DEF Wanted, Takes
<1>3. Claimed(p)'
  BY DEF Claimed, Claimant, Claiming, Takes
<1>4. Noted(p)'
  BY <1>1, SaneParts DEF Noted, Takes, PathMarker, Continues, Alive
<1> QED BY <1>1, <1>2, <1>3, <1>4, GoesOnSound DEF Takes, Steps, OwnerSteps, Giving

LEMMA RecoverSound ==
  ASSUME Typed, Typed', Sound, NEW p \in Procs, Recover(p)
  PROVE  Sound'
<1>0. /\ pc[p] \in {"verify", "recover", "confirm"} /\ Alive(p) /\ my[p].mode # "release"
      /\ Seeking(p) /\ Claimant(p) /\ UNCHANGED <<lock, tomb, aside, dead>>
  BY NotReleasing
     DEF Recover, VerifyOwner, RecoverProcesses, ConfirmMarker, At, Seeking, OwnerSteps, Giving,
         Steps, Claimant, Claiming
<1>1. Drawn(p) /\ Gone(p) /\ Claimed(p) /\ Childless(p) /\ Noted(p) /\ Placed(p)
  BY SaneParts
<1>2. Wanted(p)' \/ pc'[p] \notin {"verify", "recover", "confirm", "rename"}
  BY DEF Wanted, Taking
<1>3. ASSUME my'[p] = my[p], pc'[p] \in {"recover", "confirm", "rename"}
      PROVE  /\ Noted(p)' /\ Continues(p) /\ Remembers(p)
             /\ (my[p].dir = my[p].prev /\ (pc'[p] = "rename" => PathIs(my[p].prev)) => Claimed(p)')
  <2>1. Marker(p)' = Marker(p) /\ (Alive(p)' <=> Alive(p))
    BY <1>0, <1>3 DEF Marker, Alive
  <2>2. Noted(p)'
    BY <1>0, <1>1, <1>3, <2>1 DEF Noted, Claiming, PathMarker
  <2>3. my[p].dir = my[p].prev /\ (pc'[p] = "rename" => PathIs(my[p].prev)) => Claimed(p)'
    BY <1>0, <1>1, <1>3, <2>1 DEF Claimed, Claimant, Claiming, PathIs
  <2> QED BY <1>3, <2>2, <2>3 DEF Continues, Remembers
<1>4. CASE VerifyOwner(p)
  <2>1. Moves(p) /\ UNCHANGED kids
    BY <1>4, VerifyOwnerDoes DEF VerifyOwner
  <2>2. CASE Takes(p, "clean", Marker(p))
    BY <1>0, <2>1, <2>2, AbandonSound
  <2>3. CASE /\ PathIs(my[p].prev) /\ my'[p] = my[p]
             /\ \/ my[p].mode = "acquire" /\ pc'[p] = "recover"
                \/ my[p].mode # "acquire" /\ pc'[p] = "confirm"
    <3>1. my[p].prev # None /\ my[p].dir # None /\ my[p].dir = my[p].prev
      BY <1>0, <1>1, <2>3, PathFields DEF Typed, Gone, Claimed
    <3>2. pc'[p] = "confirm" => my[p].prev \notin kids
      <4>1. my[p].mode \in Modes
        BY TypesOfStep, LocalFields DEF Typed
      <4> QED BY <1>0, <1>1, <2>3, <3>1, <4>1 DEF Placed, Childless, Modes
    <3>3. Claimed(p)' /\ Noted(p)' /\ Wanted(p)' /\ Continues(p) /\ Remembers(p)
      BY <1>2, <1>3, <2>3, <3>1
    <3> QED BY <1>0, <2>1, <2>3, <3>2, <3>3, GoesOnSound DEF Steps, OwnerSteps, Giving
  <2> QED BY <1>4, <2>2, <2>3, VerifyOwnerDoes
<1>5. CASE RecoverProcesses(p)
  <2>1. Moves(p) /\ kids' \subseteq kids /\ pc[p] = "recover" /\ my[p].dir = my[p].prev
    BY <1>0, <1>1, <1>5, RecoverProcessesDoes DEF RecoverProcesses, At, Claimed
  <2>2. CASE kids' = kids /\ Takes(p, "clean", Marker(p))
    BY <1>0, <2>1, <2>2, AbandonSound
  <2>3. CASE /\ pc'[p] = "confirm" /\ my'[p] = my[p]
             /\ \/ ~PathKids /\ kids' = kids
                \/ PathIs(my[p].prev) /\ kids' = kids \ {lock.owner}
    <3>1. my[p].prev \notin kids'
      BY <2>3 DEF Sound, ChildrenTracked, PathKids, PathIs
    <3>2. Claimed(p)' /\ Noted(p)' /\ Wanted(p)' /\ Continues(p) /\ Remembers(p)
      BY <1>2, <1>3, <2>1, <2>3
    <3> QED BY <1>0, <2>1, <2>3, <3>1, <3>2, GoesOnSound DEF Steps, OwnerSteps, Giving
  <2> QED BY <1>5, <2>2, <2>3, RecoverProcessesDoes
<1>6. CASE ConfirmMarker(p)
  <2>1. Moves(p) /\ UNCHANGED kids /\ pc[p] = "confirm" /\ my[p].dir = my[p].prev
    BY <1>0, <1>1, <1>6, ConfirmMarkerDoes DEF ConfirmMarker, At, Claimed
  <2>2. CASE Takes(p, "clean", Marker(p))
    BY <1>0, <2>1, <2>2, AbandonSound
  <2>3. CASE PathMarker = Marker(p) /\ pc'[p] = "rename" /\ my'[p] = my[p]
    <3>1. lock # None /\ PathMarker # None /\ PathMarker[1] = p
      BY <1>0, <2>3, OwnToken, PathFields, TokenIs DEF Typed
    <3>2. PathIs(my[p].prev)
      BY <1>0, <1>1, <2>1, <3>1 DEF Noted, PathIs
    <3>3. my[p].prev = None \/ my[p].prev \notin kids
      BY <1>0, <1>1, <2>1 DEF Childless
    <3>4. Claimed(p)' /\ Noted(p)' /\ Wanted(p)' /\ Continues(p) /\ Remembers(p)
      BY <1>2, <1>3, <2>1, <2>3, <3>2
    <3> QED BY <1>0, <2>1, <2>3, <3>3, <3>4, GoesOnSound DEF Steps, OwnerSteps, Giving
  <2> QED BY <1>6, <2>2, <2>3, ConfirmMarkerDoes
<1> QED BY <1>4, <1>5, <1>6 DEF Recover

LEMMA UnlockSound ==
  ASSUME Typed, Typed', Sound, NEW p \in Procs, Unlock(p)
  PROVE  Sound'
<1>0. /\ pc[p] \in {"observe", "precheck"} /\ Alive(p) /\ my[p].mode # "release"
      /\ Seeking(p) /\ ~Owning(p) /\ UNCHANGED <<lock, tomb, aside, kids, dead>>
  BY NotReleasing
     DEF Unlock, Observe, Precheck, At, Seeking, Owning, OwnerSteps, Giving, Steps
<1>1. Unmarked(p) /\ Unmarked(p)'
  BY <1>0, UnmarkedWhere, SaneParts DEF Claiming, Unmarked
<1>2. pc'[p] \in {"precheck", "take", "markOpen"} => Claimed(p)' /\ Noted(p)'
  BY <1>1 DEF Claimed, Claimant, Claiming, Noted, Unmarked, PathMarker
<1>3. CASE Observe(p)
  <2>0. Moves(p) /\ pc[p] = "observe"
    BY <1>3, ObserveDoes DEF Typed, Observe, At
  <2>1. CASE Ends(p)
    BY <1>0, <1>1, <2>0, <2>1, LeavesSound
  <2>2. CASE /\ lock # None /\ Recoverable(lock) /\ lock.owner \notin kids
             /\ lock.marker # None => lock.marker[1] \in dead
             /\ pc'[p] = "precheck" /\ Continues(p) /\ my'[p].dir = my[p].dir
             /\ my'[p].prev = lock.owner /\ my'[p].want = lock.marker
    <3>1. /\ my[p].dir = None /\ my'[p].mode = my[p].mode /\ my'[p].session = my[p].session
      BY <2>0, <2>2, SaneParts DEF Placed, Continues
    <3>2. SpentStays
      BY <1>0, <2>0, <3>1, SpentStill
    <3>3. Drawn(p)'
      <4>1. lock.owner \in Tokens /\ Spent(lock.owner)
        BY <2>2, PathFields DEF Typed, Sound, Owned
      <4> QED BY <2>2, <3>1, <3>2, <4>1 DEF Drawn, SpentStays
    <3>4. Stale(p)' /\ Gone(p)'
      BY <1>0, <2>2, <3>1 DEF Stale, Gone, Recoverable
    <3>5. Held(p)' /\ Childless(p)' /\ Caught(p)'
      BY <1>0, <2>2, <3>1 DEF Held, Owning, OwnerSteps, Giving, Childless, Caught
    <3>6. Wanted(p)'
      BY <1>0, <2>2 DEF Wanted, Taking
    <3>7. Sane(p)'
      BY <1>2, <2>2, <3>3, <3>4, <3>5, <3>6 DEF Sane
    <3> QED BY <1>0, <2>0, <3>1, <3>7, MoveSound
  <2> QED BY <1>3, <2>1, <2>2, ObserveDoes DEF Typed
<1>4. CASE Precheck(p)
  <2>0. Moves(p) /\ pc[p] = "precheck"
    BY <1>4, PrecheckDoes DEF Typed, Precheck, At
  <2>1. CASE Ends(p)
    BY <1>0, <1>1, <2>0, <2>1, LeavesSound
  <2>2. CASE my[p].want # None /\ Takes(p, "unlock", my[p].want)
    <3>1. my[p].want[1] \in dead
      BY <1>0, <2>0, <2>2, SaneParts DEF Wanted
    <3>2. Wanted(p)'
      BY <1>0, <2>2, <3>1 DEF Wanted, Takes
    <3> QED BY <1>0, <1>2, <2>0, <2>2, <3>2, GoesOnSound DEF Takes, Steps, OwnerSteps, Giving
  <2>3. CASE pc'[p] = "markOpen" /\ my'[p] = my[p]
    <3>1. Wanted(p)' /\ Continues(p) /\ Remembers(p)
      BY <2>3 DEF Wanted, Taking, Continues, Remembers
    <3> QED BY <1>0, <1>2, <2>0, <2>3, <3>1, GoesOnSound DEF Steps, OwnerSteps, Giving
  <2> QED BY <1>4, <2>1, <2>2, <2>3, PrecheckDoes DEF Typed
<1> QED BY <1>3, <1>4 DEF Unlock

\* An owner that goes on to use its lock, or to give it up.
LEMMA OwnerSane ==
  ASSUME Typed, Sound, NEW p \in Procs, Alive(p), SpentStays, UNCHANGED <<lock, kids, dead>>,
         pc[p] \in OwnerSteps \cup Giving, pc'[p] \in (OwnerSteps \cup Giving) \ {"sweep"},
         my'[p] = my[p],
         pc'[p] \in {"relMarkCheck", "relMarkRename"} => my[p].dir = Token(p)
  PROVE  Sane(p)'
<1>1. my[p].mode # "release"
  BY NotReleasing DEF OwnerSteps, Giving
<1>2. Drawn(p)'
  <2>1. /\ my[p].prev # None => my[p].prev \in Tokens
        /\ my[p].dir # None => my[p].dir \in Tokens
    BY RemembersTokens DEF Typed
  <2> QED BY <2>1, SaneParts DEF Drawn, SpentStays, OwnerSteps, Giving
<1>3. Held(p)'
  BY SaneParts DEF Held, Owning, Token, PathIs, Alive
<1>4. Stale(p)' /\ Gone(p)'
  BY SaneParts DEF Stale, Gone, PathIs, Recoverable
<1>5. Wanted(p)' /\ Claimed(p)' /\ Caught(p)'
  BY DEF Wanted, Taking, Claimed, Claimant, Claiming, Caught, OwnerSteps, Giving
<1>6. Childless(p)'
  BY SaneParts DEF Childless, Alive, OwnerSteps, Giving
<1>7. Noted(p)'
  <2>1. Unmarked(p)
    BY UnmarkedWhere, SaneParts DEF OwnerSteps, Giving, Claiming
  <2> QED BY <2>1 DEF Noted, Unmarked, PathMarker
<1> QED BY <1>2, <1>3, <1>4, <1>5, <1>6, <1>7 DEF Sane

LEMMA GivesBackSound ==
  ASSUME Typed, Typed', Sound, NEW p \in Procs, Alive(p), Moves(p),
         UNCHANGED <<lock, tomb, aside, kids, dead>>, pc[p] \in OwnerSteps, Token(p) \notin kids,
         pc'[p] = "rename", my'[p].session = my[p].session, my'[p].mode = "release",
         my'[p].prev = Token(p), my'[p].dir = my[p].dir
  PROVE  Sound'
<1>1. SpentStays
  BY SpentStill DEF Seeking
<1>2. Token(p)' = Token(p) /\ Owning(p) /\ Owning(p)' /\ ~Seeking(p)'
  BY DEF Token, Owning, Seeking
<1>3. Drawn(p)'
  <2>1. my[p].dir # None => my[p].dir \in Tokens
    BY RemembersTokens DEF Typed
  <2>2. Spent(Token(p))'
    BY <1>2, TokenIs DEF Spent, Token
  <2> QED BY <1>1, <1>2, <2>1, <2>2, SaneParts DEF Drawn, SpentStays
<1>4. Held(p)'
  BY <1>2, SaneParts DEF Held, PathIs, Alive
<1>5. Stale(p)' /\ Gone(p)' /\ Wanted(p)' /\ Claimed(p)' /\ Caught(p)'
  BY DEF Stale, Gone, Wanted, Taking, Claimed, Claimant, Caught
<1>6. Childless(p)'
  BY DEF Childless
<1>7. Noted(p)'
  <2>1. Unmarked(p)
    BY UnmarkedWhere, SaneParts DEF OwnerSteps, Claiming
  <2> QED BY <2>1 DEF Noted, Unmarked, PathMarker
<1>8. Sane(p)'
  BY <1>3, <1>4, <1>5, <1>6, <1>7 DEF Sane
<1> QED BY <1>2, <1>8, MoveSound

LEMMA OwnSound ==
  ASSUME Typed, Typed', Sound, NEW p \in Procs, Own(p)
  PROVE  Sound'
<1>0. /\ pc[p] \in OwnerSteps /\ Alive(p) /\ pc[p] # "idle" /\ Owning(p) /\ ~Seeking(p)
      /\ UNCHANGED <<lock, aside, kids, dead>>
  BY DEF Own, SweepStrays, PublishFails, Release, At, OwnerSteps, Owning, Seeking
<1>1. CASE SweepStrays(p) \/ Release(p)
  <2>1. Moves(p) /\ my'[p] = my[p] /\ pc'[p] \in {"owned", "relRead"}
    BY <1>1, GoesDoes DEF SweepStrays, Release, Typed, Steps, OwnerSteps
  <2>2. \A q \in Procs : tomb'[q] \in {tomb[q], None}
    BY <1>1 DEF SweepStrays, Release
  <2>3. /\ Owning(p)' /\ ~Seeking(p)' /\ my'[p].session = my[p].session
    BY <2>1 DEF Owning, Seeking, OwnerSteps
  <2>4. SpentStays
    BY <2>1, <2>3, SpentStill
  <2>5. Sane(p)'
    BY <1>0, <2>1, <2>4, OwnerSane DEF OwnerSteps, Giving
  <2> QED BY <1>0, <2>1, <2>2, <2>3, <2>5, MoveSound
<1>2. CASE PublishFails(p)
  <2>1. Token(p) \notin kids
    BY <1>0, <1>2, SaneParts DEF Childless, PublishFails, At
  <2> QED BY <1>0, <1>2, <2>1, GivesBack, GivesBackSound DEF PublishFails
<1> QED BY <1>1, <1>2 DEF Own

\* Nobody takes the lock away while its owner gives it up, so each look finds it there.
LEMMA GiveUpSound ==
  ASSUME Typed, Typed', Sound, NEW p \in Procs, GiveUp(p), ~MarkReleasedRename(p)
  PROVE  Sound'
<1>0. /\ pc[p] \in {"relRead", "relKids", "relMarkOpen", "relMarkCheck"} /\ Alive(p)
      /\ pc[p] \in OwnerSteps \cup Giving
      /\ pc[p] # "idle" /\ Owning(p) /\ ~Seeking(p) /\ UNCHANGED <<lock, tomb, aside, kids, dead>>
  BY DEF GiveUp, ReleaseRead, ReleaseKids, MarkReleasedOpen, MarkReleasedCheck, At,
         OwnerSteps, Giving, Owning, Seeking
<1>1. PathIs(Token(p)) /\ lock # None /\ lock.owner = Token(p)
  BY <1>0, SaneParts, PathFields DEF Held, Typed
<1>2. ASSUME Moves(p), my'[p] = my[p], pc'[p] \in {"relKids", "relMarkOpen", "relMarkRename"},
             pc'[p] = "relMarkRename" => my[p].dir = Token(p)
      PROVE  Sound'
  <2>1. Owning(p)' /\ ~Seeking(p)' /\ my'[p].session = my[p].session
    BY <1>2 DEF Owning, Seeking, OwnerSteps, Giving
  <2>2. SpentStays
    BY <1>2, <2>1, SpentStill
  <2>3. Sane(p)'
    BY <1>0, <1>2, <2>2, OwnerSane DEF OwnerSteps, Giving
  <2> QED BY <1>0, <1>2, <2>1, <2>3, MoveSound
<1>3. CASE ReleaseRead(p)
  BY <1>1, <1>2, <1>3, ReleaseReadDoes DEF Typed
<1>4. CASE ReleaseKids(p)
  <2>1. CASE PathKids /\ pc'[p] = "relMarkOpen" /\ my'[p] = my[p]
    BY <1>2, <1>4, <2>1, ReleaseKidsDoes
  <2>2. CASE ~PathKids /\ pc'[p] = "rename"
    <3>1. Token(p) \notin kids /\ pc[p] \in OwnerSteps
      BY <1>1, <1>4, <2>2 DEF PathKids, ReleaseKids, At, OwnerSteps
    <3> QED BY <1>0, <1>4, <2>2, <3>1, ReleaseKidsDoes, GivesBackSound
  <2> QED BY <1>4, <2>1, <2>2, ReleaseKidsDoes
<1>5. CASE MarkReleasedOpen(p)
  <2>1. /\ Moves(p) /\ pc'[p] = "relMarkCheck" /\ Continues(p)
        /\ my'[p].dir = lock.owner /\ my'[p].prev = my[p].prev
    BY <1>1, <1>5, MarkReleasedOpenDoes DEF Typed
  <2>2. /\ my'[p].session = my[p].session /\ my'[p].mode = my[p].mode /\ Token(p)' = Token(p)
        /\ Owning(p)' /\ ~Seeking(p)'
    BY <2>1 DEF Continues, Token, Owning, Seeking, Giving
  <2>3. SpentStays
    BY <2>1, <2>2, SpentStill
  <2>4. Drawn(p)'
    <3>1. lock.owner \in Tokens /\ Spent(lock.owner)
      BY <1>1, PathFields DEF Typed, Sound, Owned
    <3>2. my[p].prev # None => my[p].prev \in Tokens
      BY RemembersTokens DEF Typed
    <3> QED BY <2>1, <2>3, <3>1, <3>2, SaneParts DEF Drawn, SpentStays
  <2>5. Held(p)' /\ Stale(p)' /\ Gone(p)'
    BY <1>0, <1>1, <2>1, <2>2, SaneParts DEF Held, Stale, Gone, PathIs, Recoverable, Alive
  <2>6. Wanted(p)' /\ Claimed(p)' /\ Caught(p)' /\ Childless(p)'
    BY <1>0, <2>1, <2>2, SaneParts
       DEF Wanted, Taking, Claimed, Claimant, Claiming, Caught, Childless, Alive
  <2>7. Noted(p)'
    <3>1. Unmarked(p)
      BY <1>0, UnmarkedWhere, SaneParts DEF Claiming
    <3> QED BY <1>0, <3>1 DEF Noted, Unmarked, PathMarker
  <2>8. Sane(p)'
    BY <2>4, <2>5, <2>6, <2>7 DEF Sane
  <2> QED BY <1>0, <2>1, <2>2, <2>8, MoveSound
<1>6. CASE MarkReleasedCheck(p)
  <2>1. my[p].dir = Token(p)
    BY <1>0, <1>6, SaneParts DEF Held, MarkReleasedCheck, At
  <2> QED BY <1>1, <1>2, <1>6, <2>1, MarkReleasedCheckDoes DEF Typed
<1> QED BY <1>3, <1>4, <1>5, <1>6 DEF GiveUp

LEMMA RetireCheckSound ==
  ASSUME Typed, Typed', Sound, NEW p \in Procs, RetireCheck(p)
  PROVE  Sound'
<1>0. /\ pc[p] = "check" /\ Alive(p) /\ ~Owning(p) /\ UNCHANGED <<lock, aside, kids, dead>>
      /\ my[p].mode # "release" => Seeking(p)
  BY DEF RetireCheck, At, Owning, OwnerSteps, Giving, Seeking, Steps
<1>1. Carries(p)
  BY <1>0, SaneParts DEF Caught
<1>2. /\ Moves(p) /\ tomb' = [tomb EXCEPT ![p] = None]
      /\ Ends(p) \/ (my[p].mode # "release" /\ Leaves(p))
  BY <1>1, RetireCheckDoes DEF Typed
<1>3. \A q \in Procs : q # p => tomb'[q] \in {tomb[q], None}
  BY <1>2, TypesOfStep DEF Typed
<1>4. Unmarked(p)
  BY <1>0, UnmarkedWhere, SaneParts DEF Claiming
<1> QED BY <1>0, <1>2, <1>3, <1>4, LeavesSound

-----------------------------------------------------------------------------
(* The steps that change the lock at the path, its owners or its children. *)

\* Whose lock is at the path: nobody else owns it, and nobody is to retire it unseen.
LEMMA OnlyOwner ==
  ASSUME Typed, Sound, NEW p \in Procs, Alive(p), Owning(p)
  PROVE  /\ lock # None /\ lock.owner = Token(p) /\ PathIs(Token(p)) /\ ~Recoverable(lock)
         /\ \A q \in Procs : Alive(q) /\ Owning(q) => q = p
         /\ \A q \in Procs : PathIs(my[q].prev) /\ my[q].prev # None => my[q].mode = "release"
<1>1. PathIs(Token(p)) /\ ~lock.released
  BY SaneParts DEF Held
<1>2. lock # None /\ lock.owner = Token(p)
  BY <1>1, PathFields DEF Typed
<1>3. ~Recoverable(lock)
  BY <1>1, <1>2, TokenIs DEF Recoverable, Alive
<1>4. ASSUME NEW q \in Procs, Alive(q), Owning(q) PROVE q = p
  <2>1. PathIs(Token(q))
    BY <1>4, SaneParts DEF Held
  <2> QED BY <1>2, <2>1, TokenIs, PathFields DEF Typed
<1>5. ASSUME NEW q \in Procs, PathIs(my[q].prev), my[q].prev # None PROVE my[q].mode = "release"
  BY <1>3, <1>5, SaneParts DEF Stale
<1> QED BY <1>1, <1>2, <1>3, <1>4, <1>5

LEMMA PublishSound ==
  ASSUME Typed, Typed', Sound, NEW p \in Procs, Publish(p)
  PROVE  Sound'
<1>0. /\ pc[p] = "publish" /\ Alive(p) /\ my[p].mode # "release" /\ Seeking(p) /\ ~Owning(p)
      /\ UNCHANGED <<tomb, aside, kids, dead>> /\ Moves(p) /\ my'[p] = my[p]
  BY NotReleasing, PublishDoes
     DEF Publish, At, Seeking, Owning, OwnerSteps, Giving, Steps, Typed
<1>1. Unmarked(p)
  BY <1>0, UnmarkedWhere, SaneParts DEF Claiming
<1>2. CASE lock' = lock /\ pc'[p] = "read"
  <2>1. Unmarked(p)' /\ Continues(p) /\ Remembers(p)
    BY <1>0, <1>1, <1>2 DEF Unmarked, Continues, Remembers
  <2> QED BY <1>0, <1>2, <2>1, Elsewhere, GoesOnSound DEF Steps, OwnerSteps, Giving
<1>3. CASE /\ lock = None /\ pc'[p] = "sweep"
           /\ lock' = [owner |-> Token(p), released |-> FALSE, marker |-> None]
  <2>1. /\ lock' # None /\ lock'.owner = Token(p) /\ ~lock'.released /\ lock'.marker = None
        /\ \A t : PathIs(t)' <=> t = Token(p)
        /\ \A t : ~PathIs(t)
    <3>1. Token(p) \in Tokens
      BY <1>0, OwnToken
    <3>2. lock' \in Dir
      BY <1>3, <3>1 DEF Dir
    <3>3. lock' # None
      BY <3>2, NoneIsApart
    <3>4. lock'.owner = Token(p) /\ lock'.released = FALSE /\ lock'.marker = None
      BY <1>3
    <3>5. \A t : PathIs(t)' <=> t = Token(p)
      BY <3>3, <3>4 DEF PathIs
    <3>6. \A t : ~PathIs(t)
      BY <1>3 DEF PathIs
    <3> QED BY <3>3, <3>4, <3>5, <3>6
  <2>2. ~Spent(Token(p)) /\ Owning(p)' /\ ~Seeking(p)' /\ Token(p)' = Token(p)
    BY <1>0, <1>3, OwnIsUnspent DEF Owning, Seeking, OwnerSteps, Token
  <2>3. SpentStays
    BY <1>0, <2>2, SpentStill
  <2>4. PathKept
    BY <2>1, <2>2 DEF PathKept
  <2>5. kids = {}
    BY <2>1 DEF Sound, ChildrenTracked
  <2>6. ASSUME NEW q \in Procs, q # p PROVE Sane(q)'
    <3>1. Same(q) /\ Sane(q) /\ KidsKept(q) /\ pc'[q] = pc[q] /\ my'[q] = my[q]
      BY <1>0, <2>6, SaneParts DEF Moves, KidsKept, Same
    <3>2. Held(q)'
      BY <1>0, <2>1, <3>1, SaneParts DEF Held, Owning, Alive
    <3>3. Claimed(q)'
      BY <1>0, <2>1, <2>2, <3>1, SaneParts DEF Claimed, Claimant, Alive, Drawn
    <3>4. Noted(q)'
      BY <2>1 DEF Noted, PathMarker
    <3> QED BY <1>0, <2>3, <2>4, <3>1, <3>2, <3>3, <3>4, OtherSane
  <2>7. Sane(p)'
    <3>1. Drawn(p)'
      <4>1. /\ my[p].prev # None => my[p].prev \in Tokens
            /\ my[p].dir # None => my[p].dir \in Tokens
        BY RemembersTokens DEF Typed
      <4> QED BY <1>0, <1>3, <2>3, <4>1, SaneParts DEF Drawn, SpentStays
    <3>2. Held(p)'
      BY <1>0, <1>3, <2>1, <2>2 DEF Held
    <3>3. Stale(p)' /\ Gone(p)'
      BY <1>0, <2>1, <2>2, SaneParts DEF Stale, Gone, Drawn
    <3>4. Wanted(p)' /\ Claimed(p)' /\ Caught(p)' /\ Noted(p)'
      BY <1>3, <2>1
         DEF Wanted, Taking, Claimed, Claimant, Claiming, Caught, Noted, PathMarker
    <3>5. Childless(p)'
      BY <1>0, <2>5 DEF Childless
    <3> QED BY <3>1, <3>2, <3>3, <3>4, <3>5 DEF Sane
  <2>8. Owned'
    <3>1. Spent(Token(p))'
      BY <1>0, <2>2, TokenIs DEF Spent, Token
    <3> QED BY <2>1, <2>2, <3>1 DEF Owned
  <2>9. ChildrenTracked'
    BY <1>0, <2>5 DEF ChildrenTracked
  <2> QED BY <2>6, <2>7, <2>8, <2>9 DEF Sound
<1> QED BY <1>2, <1>3, PublishDoes DEF Typed

\* A step on the lock that leaves its owner as it is, and children alone.
LEMMA SameOwnerSound ==
  ASSUME Typed, Typed', Sound, NEW p \in Procs, Moves(p), my'[p].session = my[p].session,
         ~Seeking(p) => ~Seeking(p)', UNCHANGED <<tomb, kids, dead>>,
         lock # None, lock' # None, lock'.owner = lock.owner,
         Recoverable(lock) => Recoverable(lock)',
         Recoverable(lock)' \/ (Owning(p) => Owning(p)'),
         \A q \in Procs : q # p => /\ aside'[q] = aside[q] /\ Held(q)' /\ Claimed(q)' /\ Noted(q)',
         Sane(p)'
  PROVE  Sound'
<1>1. SpentStays
  BY SpentStill
<1>2. \A t : PathIs(t)' <=> PathIs(t)
  BY DEF PathIs
<1>3. ASSUME NEW q \in Procs, q # p PROVE Sane(q)'
  <2>1. Same(q) /\ Sane(q) /\ KidsKept(q) /\ PathKept
    BY <1>2, <1>3, SaneParts DEF Moves, KidsKept, PathKept
  <2> QED BY <1>1, <1>3, <2>1, OtherSane
<1>4. ChildrenTracked'
  BY <1>2 DEF Sound, ChildrenTracked
<1>5. Owned'
  <2>1. Spent(lock.owner)'
    BY <1>1, PathFields DEF SpentStays, Sound, Owned, Typed
  <2>2. CASE Recoverable(lock)'
    BY <2>1, <2>2 DEF Owned
  <2>3. CASE ~Recoverable(lock)' /\ (Owning(p) => Owning(p)')
    <3>1. PICK q \in Procs : Owning(q) /\ lock.owner = Token(q)
      BY <2>3 DEF Sound, Owned
    <3>2. Owning(q)' /\ Token(q)' = Token(q)
      BY <2>3, <3>1 DEF Moves, Same, Owning, Token
    <3> QED BY <2>1, <3>1, <3>2 DEF Owned
  <2> QED BY <2>2, <2>3
<1> QED BY <1>3, <1>4, <1>5 DEF Sound

LEMMA MarkLinkSound ==
  ASSUME Typed, Typed', Sound, NEW p \in Procs, MarkLink(p)
  PROVE  Sound'
<1>0. /\ pc[p] = "markLink" /\ Alive(p) /\ my[p].mode # "release" /\ Seeking(p) /\ ~Owning(p)
      /\ UNCHANGED <<tomb, aside, kids, dead>>
  BY NotReleasing DEF MarkLink, At, Seeking, Owning, OwnerSteps, Giving, Steps
<1>1. Unmarked(p) /\ Moves(p)
  BY <1>0, UnmarkedWhere, SaneParts, MarkLinkDoes DEF Claiming, Typed
<1>2. CASE lock' = lock /\ Leaves(p)
  BY <1>0, <1>1, <1>2, LeavesSound
<1>3. CASE lock' = lock /\ pc'[p] = "readMarker" /\ my'[p] = my[p]
  <2>1. Unmarked(p)' /\ Continues(p) /\ Remembers(p)
    BY <1>1, <1>3 DEF Unmarked, Continues, Remembers
  <2> QED BY <1>0, <1>1, <1>3, <2>1, Elsewhere, GoesOnSound DEF Steps, OwnerSteps, Giving
<1>4. CASE /\ PathIs(my[p].dir) /\ PathMarker = None
           /\ lock' = [lock EXCEPT !.marker = Marker(p)]
           /\ pc'[p] = "verify" /\ my'[p] = my[p]
  <2>1. lock # None /\ lock \in Dir /\ lock.owner = my[p].dir /\ lock.marker = None
    BY <1>4, PathFields DEF Typed
  <2>2. Marker(p) \in Markers /\ Marker(p) # None
    BY <1>0, OwnToken
  <2>3. /\ lock' # None /\ lock'.owner = lock.owner /\ lock'.released = lock.released
        /\ lock'.marker = Marker(p) /\ (\A t : PathIs(t)' <=> PathIs(t))
    <3>1. /\ lock' \in Dir /\ lock'.owner = lock.owner /\ lock'.released = lock.released
          /\ lock'.marker = Marker(p)
      BY <1>4, <2>1, <2>2, DirFields
    <3> QED BY <2>1, <3>1, NoneIsApart DEF PathIs
  <2>4. /\ my'[p].session = my[p].session /\ Marker(p)' = Marker(p) /\ Seeking(p)
        /\ (Recoverable(lock) <=> Recoverable(lock)')
    BY <1>0, <1>4, <2>3 DEF Marker, Recoverable
  <2>5. ASSUME NEW q \in Procs, q # p
        PROVE  aside'[q] = aside[q] /\ Held(q)' /\ Claimed(q)' /\ Noted(q)'
    <3>1. pc'[q] = pc[q] /\ my'[q] = my[q] /\ (Alive(q)' <=> Alive(q))
      BY <1>0, <1>1, <2>5 DEF Moves, Same, Alive
    <3>2. Held(q)'
      BY <2>3, <3>1, SaneParts DEF Held, Owning, Token
    <3>3. Claimed(q)'
      <4>1. Claimant(q) => Marker(q) # None
        BY OwnToken DEF Claimant, Claiming
      <4> QED BY <2>1, <2>3, <3>1, <4>1, SaneParts DEF Claimed, Claimant
    <3>4. Noted(q)'
      BY <2>2, <2>3, <2>5, TokenIs DEF Noted, PathMarker
    <3> QED BY <1>0, <3>2, <3>3, <3>4
  <2>6. Sane(p)'
    <3>1. SpentStays
      BY <1>1, <2>4, SpentStill
    <3>2. Drawn(p)'
      <4>1. /\ my[p].prev # None => my[p].prev \in Tokens
            /\ my[p].dir # None => my[p].dir \in Tokens
        BY RemembersTokens DEF Typed
      <4> QED BY <1>4, <3>1, <4>1, SaneParts DEF Drawn, SpentStays
    <3>3. Stale(p)' /\ Gone(p)'
      BY <1>4, <2>3, <2>4, SaneParts DEF Stale, Gone
    <3>4. Claimed(p)'
      BY <1>4, <2>1, <2>3, <2>4, PathFields DEF Claimed, Typed
    <3>5. Noted(p)'
      BY <1>0, <1>4, <2>1, <2>3, <2>4 DEF Noted, Claiming
    <3>6. Held(p)' /\ Wanted(p)' /\ Caught(p)' /\ Childless(p)'
      BY <1>0, <1>4, SaneParts
         DEF Held, Owning, OwnerSteps, Giving, Wanted, Taking, Caught, Childless, Alive
    <3> QED BY <3>2, <3>3, <3>4, <3>5, <3>6 DEF Sane
  <2> QED BY <1>0, <1>1, <2>1, <2>3, <2>4, <2>5, <2>6, SameOwnerSound
<1> QED BY <1>0, <1>2, <1>3, <1>4, MarkLinkDoes DEF Typed

\* The marker that is taken is the process's own or a dead contender's.
LEMMA TakeMarkerSound ==
  ASSUME Typed, Typed', Sound, NEW p \in Procs, TakeMarker(p), ~astray'
  PROVE  Sound'
<1>0. /\ pc[p] = "take" /\ Alive(p) /\ my[p].mode # "release" /\ Seeking(p) /\ ~Owning(p)
      /\ UNCHANGED <<tomb, kids, dead>>
  BY NotReleasing DEF TakeMarker, At, Seeking, Owning, OwnerSteps, Giving, Steps
<1>1. Moves(p) /\ aside \in [Procs -> Notes \cup {None}]
  BY <1>0, TakeMarkerDoes, TypesOfStep DEF Typed
<1>2. CASE PathMarker = None /\ UNCHANGED <<lock, aside, astray>> /\ Proceeds(p)
  <2>1. Unmarked(p)
    BY <1>2, PathFields DEF Unmarked, Typed
  <2> QED BY <1>0, <1>1, <1>2, <2>1, ProceedsSound
<1>3. CASE /\ lock # None /\ lock.marker # None
           /\ aside' = [aside EXCEPT ![p] = [dir |-> lock.owner, marker |-> lock.marker]]
           /\ lock' = [lock EXCEPT !.marker = None]
           /\ astray' = (astray \/ lock.marker # my[p].want)
           /\ pc'[p] = "readAside" /\ my'[p] = my[p]
  <2>1. lock \in Dir /\ lock.owner \in Tokens /\ Spent(lock.owner) /\ lock.marker = my[p].want
    BY <1>3, PathFields DEF Typed, Sound, Owned
  <2>2. /\ lock' # None /\ lock'.owner = lock.owner /\ lock'.released = lock.released
        /\ lock'.marker = None /\ (\A t : PathIs(t)' <=> PathIs(t))
    <3>1. /\ lock' \in Dir /\ lock'.owner = lock.owner /\ lock'.released = lock.released
          /\ lock'.marker = None
      BY <1>3, <2>1, DirFields
    <3> QED BY <1>3, <3>1, NoneIsApart DEF PathIs
  <2>3. /\ my'[p].session = my[p].session /\ Marker(p)' = Marker(p)
        /\ (Recoverable(lock) <=> Recoverable(lock)')
    BY <1>0, <1>3, <2>2 DEF Marker, Recoverable
  <2>4. aside'[p].dir = lock.owner /\ aside'[p].marker = lock.marker
    BY <1>1, <1>3
  <2>5. ASSUME NEW q \in Procs, q # p
        PROVE  aside'[q] = aside[q] /\ Held(q)' /\ Claimed(q)' /\ Noted(q)'
    <3>0. aside'[q] = aside[q]
      BY <1>1, <1>3, <2>5
    <3>1. pc'[q] = pc[q] /\ my'[q] = my[q] /\ (Alive(q)' <=> Alive(q))
      BY <1>0, <1>1, <2>5 DEF Moves, Same, Alive
    <3>2. Held(q)'
      BY <2>2, <3>1, SaneParts DEF Held, Owning, Token
    <3>3. Claimed(q)'
      <4>1. Claimant(q) => lock.marker # Marker(q)
        <5>1. lock.marker = Marker(p) \/ lock.marker[1] \in dead
          BY <1>0, <2>1, SaneParts DEF Wanted, Taking
        <5> QED BY <2>5, <5>1, TokenIs DEF Claimant, Alive
      <4> QED BY <2>2, <3>1, <4>1, SaneParts DEF Claimed, Claimant
    <3>4. Noted(q)'
      BY <2>2 DEF Noted, PathMarker
    <3> QED BY <3>0, <3>2, <3>3, <3>4
  <2>6. Sane(p)'
    <3>1. SpentStays
      BY <1>0, <1>1, <2>3, SpentStill
    <3>2. Drawn(p)'
      <4>1. /\ my[p].prev # None => my[p].prev \in Tokens
            /\ my[p].dir # None => my[p].dir \in Tokens
        BY RemembersTokens DEF Typed
      <4> QED BY <1>3, <2>1, <2>4, <3>1, <4>1, SaneParts DEF Drawn, SpentStays
    <3>3. Stale(p)' /\ Gone(p)'
      BY <1>3, <2>2, <2>3, SaneParts DEF Stale, Gone
    <3>4. Wanted(p)'
      BY <1>0, <1>3, <2>1, <2>3, <2>4, SaneParts DEF Wanted, Taking
    <3>5. Claimed(p)' /\ Noted(p)'
      BY <1>3, <2>2 DEF Claimed, Claimant, Claiming, Noted, PathMarker
    <3>6. Held(p)' /\ Caught(p)' /\ Childless(p)'
      BY <1>0, <1>3, SaneParts DEF Held, Owning, OwnerSteps, Giving, Caught, Childless, Alive
    <3> QED BY <3>2, <3>3, <3>4, <3>5, <3>6 DEF Sane
  <2> QED BY <1>0, <1>1, <1>3, <2>2, <2>3, <2>5, <2>6, SameOwnerSound
<1> QED BY <1>0, <1>2, <1>3, TakeMarkerDoes DEF Typed

LEMMA MarkReleasedRenameSound ==
  ASSUME Typed, Typed', Sound, NEW p \in Procs, MarkReleasedRename(p)
  PROVE  Sound'
<1>0. /\ pc[p] = "relMarkRename" /\ Alive(p) /\ Owning(p) /\ ~Seeking(p)
      /\ UNCHANGED <<tomb, aside, kids, dead>> /\ Moves(p) /\ Ends(p)
  BY EndDoes DEF MarkReleasedRename, At, Owning, Seeking, Giving, Typed
<1>1. lock # None /\ lock.owner = Token(p) /\ lock \in Dir /\ my[p].dir = Token(p)
  BY <1>0, OnlyOwner, PathFields, SaneParts DEF Held, Typed
<1>2. /\ lock' # None /\ lock'.owner = lock.owner /\ lock'.released /\ lock'.marker = lock.marker
      /\ \A t : PathIs(t)' <=> PathIs(t)
  <2>1. lock' = [lock EXCEPT !.owner = Token(p), !.released = TRUE]
    BY <1>1 DEF MarkReleasedRename, PathIs
  <2>2. /\ lock' \in Dir /\ lock'.owner = Token(p) /\ lock'.released = TRUE
        /\ lock'.marker = lock.marker
    <3>1. Token(p) \in Tokens
      BY <1>0, OwnToken
    <3> QED BY <1>1, <2>1, <3>1, DirFields
  <2> QED BY <1>1, <2>2, NoneIsApart DEF PathIs
<1>3. Recoverable(lock)' /\ my'[p].session = my[p].session /\ ~Seeking(p)'
  BY <1>0, <1>2 DEF Recoverable, Ends, Forgets, Seeking
<1>4. ASSUME NEW q \in Procs, q # p
      PROVE  aside'[q] = aside[q] /\ Held(q)' /\ Claimed(q)' /\ Noted(q)'
  <2>1. pc'[q] = pc[q] /\ my'[q] = my[q] /\ (Alive(q)' <=> Alive(q))
    BY <1>0, <1>4 DEF Moves, Same, Alive
  <2>2. Held(q)'
    BY <1>0, <1>4, <2>1, OnlyOwner DEF Held, Owning
  <2>3. Claimed(q)' /\ Noted(q)'
    BY <1>1, <1>2, <2>1, SaneParts DEF Claimed, Claimant, Noted, PathMarker, Marker
  <2> QED BY <1>0, <2>2, <2>3
<1>5. Sane(p)'
  <2>1. Unmarked(p)'
    BY <1>0, <1>1, <1>2, UnmarkedWhere, SaneParts DEF Unmarked, Claiming
  <2> QED BY <1>0, <2>1, StartsSane DEF Ends, Forgets
<1> QED BY <1>0, <1>1, <1>2, <1>3, <1>4, <1>5, SameOwnerSound

\* What is at the path when a process retires is what it verified.
LEMMA RetireRenameSound ==
  ASSUME Typed, Typed', Sound, NEW p \in Procs, RetireRename(p)
  PROVE  Sound'
<1>0. /\ pc[p] = "rename" /\ Alive(p) /\ UNCHANGED <<aside, kids, dead>> /\ Moves(p)
      /\ my[p].mode = "release" => Owning(p) /\ my[p].prev = Token(p)
      /\ my[p].mode # "release" => Claimant(p) /\ Seeking(p)
  BY RetireRenameDoes, SaneParts
     DEF RetireRename, At, Owning, Claimant, Claiming, Seeking, Steps, OwnerSteps, Giving, Placed
<1>1. PathIs(my[p].prev)
  BY <1>0, OnlyOwner, SaneParts DEF Claimed
<1>2. lock # None /\ lock.owner = my[p].prev /\ my[p].prev # None
  BY <1>1, PathFields DEF Typed
<1>3. my[p].mode # "release" => lock.marker = Marker(p) /\ Recoverable(lock)
  BY <1>0, <1>1, <1>2, SaneParts DEF Claimed, Stale
<1>4. /\ tomb' = [tomb EXCEPT ![p] = lock] /\ lock' = None
      /\ pc'[p] = "check" /\ my'[p] = my[p]
  BY <1>2, RetireRenameDoes
<1>5. /\ ~Owning(p)' /\ (~Seeking(p) => ~Seeking(p)') /\ (\A t : ~PathIs(t)')
      /\ Marker(p)' = Marker(p)
  BY <1>0, <1>4 DEF Owning, Seeking, OwnerSteps, Giving, PathIs, Marker
<1>6. SpentStays
  BY <1>0, <1>4, <1>5, SpentStill
<1>7. ASSUME NEW q \in Procs, q # p PROVE Sane(q)'
  <2>1. Same(q) /\ Sane(q) /\ KidsKept(q) /\ PathKept
    BY <1>0, <1>5, <1>7, SaneParts DEF Moves, KidsKept, PathKept
  <2>2. pc'[q] = pc[q] /\ my'[q] = my[q] /\ (Alive(q)' <=> Alive(q)) /\ tomb'[q] = tomb[q]
    BY <1>0, <1>4, <1>7, <2>1, TypesOfStep DEF Same, Alive, Typed
  <2>3. Held(q)'
    <3>1. ~(Alive(q) /\ Owning(q))
      BY <1>0, <1>3, <1>7, OnlyOwner
    <3> QED BY <2>2, <3>1 DEF Held, Owning
  <2>4. Claimed(q)'
    <3>1. ~(Claimant(q) /\ pc[q] = "rename")
      <4> SUFFICES ASSUME Claimant(q), pc[q] = "rename" PROVE FALSE
        OBVIOUS
      <4>1. PathIs(my[q].prev) /\ my[q].dir = my[q].prev /\ my[q].mode # "release"
            /\ my[q].prev # None /\ lock.marker = Marker(q)
        BY <2>1, SaneParts, PathFields DEF Claimed, Claimant, Typed
      <4>2. my[p].mode # "release"
        BY <1>0, <4>1, OnlyOwner
      <4> QED BY <1>3, <1>7, <4>1, <4>2, TokenIs
    <3> QED BY <1>5, <2>2, <3>1, SaneParts DEF Claimed, Claimant
  <2>5. Noted(q)'
    BY <1>4 DEF Noted
  <2> QED BY <1>0, <1>6, <2>1, <2>2, <2>3, <2>4, <2>5, OtherSane
<1>8. Sane(p)'
  <2>1. Drawn(p)'
    <3>1. /\ my[p].prev # None => my[p].prev \in Tokens
          /\ my[p].dir # None => my[p].dir \in Tokens
      BY RemembersTokens DEF Typed
    <3> QED BY <1>4, <1>6, <3>1, SaneParts DEF Drawn, SpentStays
  <2>2. Held(p)' /\ Stale(p)' /\ Gone(p)'
    BY <1>5 DEF Held, Stale, Gone
  <2>3. Wanted(p)' /\ Claimed(p)' /\ Noted(p)'
    BY <1>4 DEF Wanted, Taking, Claimed, Claimant, Claiming, Noted
  <2>4. Childless(p)'
    BY <1>0, <1>4, SaneParts DEF Childless, Alive
  <2>5. Caught(p)'
    <3>1. tomb'[p] = lock
      BY <1>4, TypesOfStep DEF Typed
    <3>2. Carries(p)'
      BY <1>2, <1>3, <1>4, <1>5, <3>1 DEF Carries
    <3> QED BY <1>4, <3>2 DEF Caught
  <2> QED BY <2>1, <2>2, <2>3, <2>4, <2>5 DEF Sane
<1>9. kids = {}
  <2> SUFFICES ASSUME NEW t \in kids PROVE FALSE
    OBVIOUS
  <2>1. t = my[p].prev
    BY <1>2, PathFields DEF Sound, ChildrenTracked, Typed
  <2> QED BY <1>0, <1>2, <2>1, SaneParts DEF Childless
<1> QED BY <1>0, <1>4, <1>7, <1>8, <1>9 DEF Sound, Owned, ChildrenTracked

\* A kill, and what a child does, move no process.
LEMMA RestSound ==
  ASSUME Typed, Typed', Sound,
         (\E p \in Procs : Crash(p) \/ TrackProcess(p)) \/ ChildExits \/ UNCHANGED vars
  PROVE  Sound'
<1>0. /\ UNCHANGED <<lock, tomb, aside, pc, my>> /\ dead \subseteq dead'
      /\ Owned
  BY DEF Crash, TrackProcess, ChildExits, vars, Sound
<1>1. SpentStays
  BY <1>0 DEF SpentStays, Spent, Seeking
<1>2. /\ \A q \in Procs : KidsKept(q)
      /\ \A t \in kids' : PathIs(t)
  <2>1. CASE kids' \subseteq kids
    BY <2>1 DEF KidsKept, Sound, ChildrenTracked
  <2>2. ASSUME NEW p \in Procs, TrackProcess(p)
        PROVE  /\ \A q \in Procs : KidsKept(q)
               /\ \A t \in kids' : PathIs(t)
    <3>1. pc[p] = "owned" /\ Alive(p) /\ Owning(p) /\ kids' = kids \cup {Token(p)}
      BY <2>2 DEF TrackProcess, At, Owning, OwnerSteps
    <3>2. PathIs(Token(p)) /\ ~Recoverable(lock)
      BY <3>1, OnlyOwner
    <3>3. \A q \in Procs : Token(p) = Token(q) => pc[q] = "owned"
      BY <3>1, TokenIs
    <3> QED BY <3>1, <3>2, <3>3 DEF KidsKept, Sound, ChildrenTracked
  <2> QED BY <2>1, <2>2 DEF Crash, ChildExits, vars
<1>3. ASSUME NEW q \in Procs PROVE Sane(q)'
  BY <1>0, <1>1, <1>2, SaneParts, OtherSaneAtRest DEF Same
<1>4. ChildrenTracked'
  BY <1>0, <1>2 DEF ChildrenTracked, PathIs
<1>5. Owned'
  <2> SUFFICES ASSUME lock # None
               PROVE  /\ Spent(lock.owner)'
                      /\ \/ Recoverable(lock)'
                         \/ \E q \in Procs : Owning(q)' /\ lock.owner = Token(q)'
    BY <1>0 DEF Owned
  <2>1. Spent(lock.owner)'
    BY <1>0, <1>1, PathFields DEF SpentStays, Owned, Typed
  <2> QED BY <1>0, <2>1 DEF Owned, Recoverable, Owning, Token
<1> QED BY <1>3, <1>4, <1>5 DEF Sound

-----------------------------------------------------------------------------
(* The invariant of the lock, and what follows from it.                    *)

LEMMA NextSound ==
  ASSUME Typed, Typed', Sound, [Next]_vars, ~astray'
  PROVE  Sound'
<1>1. ASSUME NEW p \in Procs, Step(p) PROVE Sound'
  <2>1. ~RetirePutBack(p)
    BY SaneParts DEF RetirePutBack, At, Caught
  <2>2. CASE Acquire(p)
    BY <2>2, PublishSound, ReadOwnerSound, LookAgainSound DEF Acquire
  <2>3. CASE Claim(p)
    BY <2>3, MarkOpenSound, MarkLinkSound, ReadMarkerSound, TakeMarkerSound,
       ReadAsideSound, PutAsideSound DEF Claim
  <2>4. CASE Recover(p) \/ Unlock(p) \/ Own(p)
    BY <2>4, RecoverSound, UnlockSound, OwnSound
  <2>5. CASE Retire(p)
    BY <2>1, <2>5, RetireRenameSound, RetireCheckSound DEF Retire
  <2>6. CASE GiveUp(p)
    BY <2>6, GiveUpSound, MarkReleasedRenameSound
  <2> QED BY <1>1, <2>2, <2>3, <2>4, <2>5, <2>6 DEF Step
<1>2. ASSUME NEW p \in Procs, Begin(p) PROVE Sound'
  BY <1>2, BeginSound
<1>3. CASE (\E p \in Procs : Crash(p) \/ TrackProcess(p)) \/ ChildExits \/ UNCHANGED vars
  BY <1>3, RestSound
<1> QED BY <1>1, <1>2, <1>3 DEF Next

\* A step never forgets that takeMarker has caught another contender's marker.
LEMMA AstrayStays ==
  ASSUME [Next]_vars, astray
  PROVE  astray'
<1>1. ASSUME NEW p \in Procs, Step(p) PROVE astray'
  <2>1. CASE TakeMarker(p)
    BY <2>1 DEF TakeMarker
  <2>2. CASE ~TakeMarker(p)
    BY <1>1, <2>2
       DEF Step, Acquire, Publish, ReadOwner, LookAgain, Claim, MarkOpen, MarkLink, ReadMarker,
           ReadAside, PutAside, Recover, VerifyOwner, RecoverProcesses, ConfirmMarker,
           Retire, RetireRename, RetireCheck, RetirePutBack, Own, SweepStrays, PublishFails,
           Release, GiveUp, ReleaseRead, ReleaseKids, MarkReleasedOpen, MarkReleasedCheck,
           MarkReleasedRename, Unlock, Observe, Precheck
  <2> QED BY <2>1, <2>2
<1> QED BY <1>1 DEF Next, Begin, TrackProcess, Crash, ChildExits, vars

LEMMA InitSound == Init => Sound
<1> SUFFICES ASSUME Init PROVE Sound
  OBVIOUS
<1>1. lock # None => /\ lock.owner[1] \in Corpses /\ dead = Corpses
                     /\ lock.marker # None => lock.marker[1] \in Corpses
  <2>0. dead = Corpses
    BY DEF Init
  <2> SUFFICES ASSUME lock # None
               PROVE  /\ lock.owner[1] \in Corpses
                      /\ lock.marker # None => lock.marker[1] \in Corpses
    BY <2>0
  <2>1. lock \in LeftBehind
    BY RunLockAssumption DEF Init
  <2>2. lock.owner \in Corpses \X {0} /\ lock.marker \in (Corpses \X {0} \X {0}) \cup {None}
    BY <2>1 DEF LeftBehind
  <2> QED BY <2>2
<1>2. Owned
  BY <1>1, NoneIsApart DEF Owned, Spent, Recoverable
<1>3. ChildrenTracked
  BY DEF ChildrenTracked, Init, PathIs
<1>4. ASSUME NEW p \in Procs PROVE Sane(p)
  <2>1. /\ pc[p] = "idle" /\ my[p].prev = None /\ my[p].dir = None /\ my[p].mode = "acquire"
    BY DEF Init, Fresh
  <2>2. Noted(p)
    BY <1>1, NoneIsApart DEF Noted, PathMarker
  <2> QED BY <2>1, <2>2
          DEF Sane, Drawn, Held, Owning, OwnerSteps, Giving, Stale, Gone, Wanted, Taking, Claimed,
              Claimant, Claiming, Childless, Caught
<1> QED BY <1>2, <1>3, <1>4 DEF Sound

\* The inductive invariant holds whatever processes there are and wherever they die.
THEOREM LockInvariant == Spec => []LockInv
<1>1. Init => LockInv
  BY InitTyped, InitSound DEF LockInv
<1>2. LockInv /\ [Next]_vars => LockInv'
  BY NextTyped, NextSound, AstrayStays DEF LockInv
<1> QED BY <1>1, <1>2, PTL DEF Spec

\* No two contenders are past their last check of one dead owner's lock: both would have
\* their marker in it.
LEMMA OneRetirerOfSound ==
  ASSUME Typed, Sound
  PROVE  OneRetirer
<1> SUFFICES ASSUME NEW p \in Procs, NEW q \in Procs, Retiring(p), Retiring(q)
             PROVE  p = q
  BY DEF OneRetirer
<1>1. \A r \in {p, q} : PathIs(my[r].dir) /\ lock.marker = Marker(r)
  BY SaneParts DEF Retiring, Claimed, Claimant, Claiming
<1> QED BY <1>1, TokenIs

\* While a process owns the lock, the lock at the path is its own and lists its live
\* children, a release marks no other lock, and at most one process is about to retire a
\* dead owner's: for every set of processes, every kill and every order of their calls in
\* which takeMarker catches no marker but the one that it was called for.
THEOREM AlwaysLockSafety == Spec => []LockSafety
<1>1. LockInv => LockSafety
  <2> SUFFICES ASSUME Typed, Sound
               PROVE  OwnerHasLock /\ ChildrenTracked /\ ReleasesItsOwn /\ OneRetirer
    BY DEF LockInv, LockSafety, Typed
  <2>1. OwnerHasLock
    BY SaneParts DEF OwnerHasLock, Owns, Held, Owning
  <2>2. ReleasesItsOwn
    BY SaneParts DEF ReleasesItsOwn, At, Held, Owning, Giving
  <2> QED BY <2>1, <2>2, OneRetirerOfSound DEF Sound
<1> QED BY <1>1, LockInvariant, PTL

LEMMA NobodyRises ==
  ASSUME [Next]_vars
  PROVE  dead \subseteq dead'
BY DEF Next, Begin, Step, Acquire, Publish, ReadOwner, LookAgain, Claim, MarkOpen, MarkLink,
       ReadMarker, TakeMarker, ReadAside, PutAside, Recover, VerifyOwner, RecoverProcesses,
       ConfirmMarker, Retire, RetireRename, RetireCheck, RetirePutBack, Own, SweepStrays,
       PublishFails, Release, GiveUp, ReleaseRead, ReleaseKids, MarkReleasedOpen,
       MarkReleasedCheck, MarkReleasedRename, Unlock, Observe, Precheck, TrackProcess, Crash,
       ChildExits, vars

CorpsesDead == Corpses \subseteq dead

LEMMA CorpsesStayDead == Spec => []CorpsesDead
<1>1. Init => CorpsesDead
  BY DEF Init, CorpsesDead
<1>2. CorpsesDead /\ [Next]_vars => CorpsesDead'
  BY NobodyRises DEF CorpsesDead
<1> QED BY <1>1, <1>2, PTL DEF Spec

\* Once no command runs, the lock is gone or the next acquire recovers it.
THEOREM AlwaysQuietRecoverable == Spec => []QuietRecoverable
<1>1. LockInv /\ CorpsesDead => QuietRecoverable
  <2> SUFFICES ASSUME Typed, Sound, CorpsesDead, Quiet, lock # None
               PROVE  Recoverable(lock) /\ (lock.marker # None => lock.marker[1] \in dead)
    BY DEF LockInv, QuietRecoverable
  <2>1. Recoverable(lock)
    <3>1. ASSUME NEW p \in Procs, Owning(p), lock.owner = Token(p) PROVE p \in dead
      BY <3>1 DEF Quiet, Owning, OwnerSteps, Giving
    <3> QED BY <3>1, TokenIs DEF Sound, Owned, Recoverable
  <2>2. ASSUME lock.marker # None PROVE lock.marker[1] \in dead
    <3>1. CASE lock.marker[1] \in Procs
      BY <2>2, <3>1, SaneParts DEF Noted, PathMarker, Claiming, Quiet, Alive
    <3>2. CASE lock.marker[1] \notin Procs
      <4>1. lock.marker[1] \in Corpses
        BY <2>2, <3>2, PathFields DEF Typed, Markers
      <4> QED BY <4>1 DEF CorpsesDead
    <3> QED BY <3>1, <3>2
  <2> QED BY <2>1, <2>2
<1> QED BY <1>1, LockInvariant, CorpsesStayDead, PTL

-----------------------------------------------------------------------------
(* Who deletes a directory: what holds whatever takeMarker catches.        *)

\* A token of an owner that keeps its lock.
Kept(t) == \E q \in Procs : Keeps(q) /\ t = Token(q)

\* A directory that was published, and whose owner gave it up if it is marked released.
Apart(d) == Spent(d.owner) /\ (d.released => ~Kept(d.owner))

\* What a process has read of a directory that it is to retire, and that is not its own.
Read(p) ==
  my[p].prev # None => Spent(my[p].prev) /\ (my[p].mode # "release" => ~Kept(my[p].prev))

KeepInv ==
  /\ Typed
  /\ lock # None => Apart(lock)
  /\ \A p \in Procs : (tomb[p] # None => Apart(tomb[p])) /\ Read(p)

\* What a step of a command does to its process: it comes to keep a lock only by publishing
\* it, and to mean to retire one only when that can be recovered or is its own.
Meaning(p) ==
  \/ my'[p].prev = None
  \/ my'[p].prev = my[p].prev /\ my'[p].mode = my[p].mode
  \/ lock # None /\ Recoverable(lock) /\ my'[p].prev = lock.owner
  \/ my'[p].mode = "release" /\ my'[p].prev = Token(p) /\ ~Seeking(p)
Orderly(p) ==
  /\ Moves(p) /\ my'[p].session = my[p].session /\ UNCHANGED dead
  /\ Keeps(p)' => Keeps(p) \/ (lock = None /\ Publish(p))
  /\ Owns(p)' => Owns(p) \/ (lock = None /\ Publish(p))
  /\ ~Seeking(p) => ~Seeking(p)'
  /\ Meaning(p)

KeepSteps == OwnerSteps \cup Giving

LEMMA KeepsWhere ==
  ASSUME NEW p \in Procs
  PROVE  /\ Keeps(p) <=> /\ Alive(p)
                         /\ \/ pc[p] \in KeepSteps
                            \/ pc[p] = "rename" /\ my[p].mode = "release"
         /\ pc[p] \in KeepSteps => ~Seeking(p)
<1>1. pc[p] \in KeepSteps <=> pc[p] \in OwnerSteps \/ pc[p] \in Giving
  BY DEF KeepSteps
<1>2. pc[p] \in {"relMarkOpen", "relMarkCheck", "relMarkRename"} <=> pc[p] \in Giving
  BY DEF Giving
<1>3. Keeps(p) <=> \/ Alive(p) /\ pc[p] \in OwnerSteps
                   \/ Alive(p) /\ pc[p] \in Giving
                   \/ Alive(p) /\ pc[p] = "rename" /\ my[p].mode = "release"
  BY <1>2 DEF Keeps, Owns
<1>4. pc[p] \in KeepSteps => ~Seeking(p)
  BY <1>1 DEF Seeking
<1> QED BY <1>1, <1>3, <1>4

\* A command that ends, goes round or asks for a marker keeps and means nothing new.
LEMMA ModestOrderly ==
  ASSUME NEW p \in Procs, Moves(p), UNCHANGED dead, my'[p].session = my[p].session,
         pc'[p] \notin KeepSteps, pc'[p] = "rename" => my'[p].mode # "release",
         Seeking(p) \/ pc'[p] = "idle" \/ my'[p].mode = "release", Meaning(p)
  PROVE  Orderly(p)
<1>1. ~Keeps(p)' /\ ~Owns(p)'
  BY KeepsWhere DEF Keeps, Owns, KeepSteps, Giving
<1>2. pc'[p] = "idle" => ~Seeking(p)'
  BY DEF Seeking
<1> QED BY <1>1, <1>2 DEF Orderly, Seeking

LEMMA SeekerOrderly ==
  ASSUME Typed, NEW p \in Procs,
         Acquire(p) \/ Claim(p) \/ Recover(p) \/ Unlock(p)
  PROVE  Orderly(p)
<1>0. /\ Seeking(p) /\ my[p].mode # "release" /\ UNCHANGED dead /\ TypeOK
  <2>1. pc[p] \in {"publish", "read", "reread", "markOpen", "markLink", "readMarker", "take",
                   "readAside", "putAside", "verify", "recover", "confirm", "observe", "precheck"}
    BY DEF Acquire, Publish, ReadOwner, LookAgain, Claim, MarkOpen, MarkLink, ReadMarker,
           TakeMarker, ReadAside, PutAside, Recover, VerifyOwner, RecoverProcesses,
           ConfirmMarker, Unlock, Observe, Precheck, At
  <2>2. UNCHANGED dead
    BY DEF Acquire, Publish, ReadOwner, LookAgain, Claim, MarkOpen, MarkLink, ReadMarker,
           TakeMarker, ReadAside, PutAside, Recover, VerifyOwner, RecoverProcesses,
           ConfirmMarker, Unlock, Observe, Precheck
  <2> QED BY <2>1, <2>2, NotReleasing DEF Seeking, Steps, OwnerSteps, Giving, Typed
<1>1. CASE Leaves(p) /\ Moves(p)
  BY <1>0, <1>1, ModestOrderly DEF Leaves, Forgets, Meaning, KeepSteps, OwnerSteps, Giving
<1>2. CASE Ends(p) /\ Moves(p)
  BY <1>1, <1>2 DEF Leaves, Ends
<1>3. ASSUME Moves(p), Continues(p), Remembers(p), pc'[p] \in Steps \ KeepSteps
      PROVE  Orderly(p)
  BY <1>0, <1>3, ModestOrderly DEF Continues, Remembers, Meaning
<1>4. ASSUME Moves(p), my'[p] = my[p], pc'[p] \in Steps \ KeepSteps
      PROVE  Orderly(p)
  BY <1>3, <1>4 DEF Continues, Remembers
<1>5. ASSUME Moves(p), Continues(p), lock # None, Recoverable(lock), my'[p].prev = lock.owner,
             pc'[p] \in {"markOpen", "precheck"}
      PROVE  Orderly(p)
  BY <1>0, <1>5, ModestOrderly DEF Continues, Meaning, KeepSteps, OwnerSteps, Giving
<1>6. {"read", "reread", "markOpen", "markLink", "readMarker", "take", "readAside", "putAside",
       "verify", "recover", "confirm", "rename"} \subseteq Steps \ KeepSteps
  BY DEF Steps, KeepSteps, OwnerSteps, Giving
<1>7. CASE Publish(p)
  <2>1. CASE pc'[p] = "read" /\ my'[p] = my[p]
    BY <1>4, <1>6, <1>7, <2>1, PublishDoes DEF Typed
  <2>2. CASE pc'[p] = "sweep" /\ my'[p] = my[p] /\ lock = None /\ Moves(p)
    BY <1>0, <1>7, <2>2 DEF Orderly, Seeking, OwnerSteps, Meaning
  <2> QED BY <1>7, <2>1, <2>2, PublishDoes DEF Typed
<1>8. CASE ReadOwner(p) \/ LookAgain(p)
  BY <1>0, <1>1, <1>2, <1>3, <1>4, <1>5, <1>6, <1>8, ReadOwnerDoes, LookAgainDoes
<1>9. CASE MarkOpen(p)
  <2>1. CASE /\ pc'[p] = "markLink" /\ Continues(p) /\ my'[p].prev = my[p].prev /\ Moves(p)
    BY <1>0, <1>6, <2>1, ModestOrderly DEF Continues, Meaning
  <2> QED BY <1>0, <1>1, <1>9, <2>1, MarkOpenDoes
<1>10. CASE MarkLink(p) \/ ReadMarker(p)
  BY <1>0, <1>1, <1>3, <1>4, <1>6, <1>10, MarkLinkDoes, ReadMarkerDoes DEF Takes
<1>11. CASE TakeMarker(p) \/ ReadAside(p)
  BY <1>0, <1>1, <1>3, <1>4, <1>6, <1>11, TakeMarkerDoes, ReadAsideDoes DEF Proceeds
<1>12. CASE PutAside(p)
  BY <1>0, <1>2, <1>12, EndDoes DEF PutAside
<1>13. CASE Recover(p)
  BY <1>3, <1>4, <1>6, <1>13, VerifyOwnerDoes, RecoverProcessesDoes, ConfirmMarkerDoes
     DEF Recover, Takes
<1>14. CASE Unlock(p)
  BY <1>0, <1>2, <1>3, <1>4, <1>5, <1>6, <1>14, ObserveDoes, PrecheckDoes DEF Unlock, Takes
<1> QED BY <1>7, <1>8, <1>9, <1>10, <1>11, <1>12, <1>13, <1>14 DEF Acquire, Claim

LEMMA OwnerOrderly ==
  ASSUME Typed, NEW p \in Procs, Retire(p) \/ Own(p) \/ GiveUp(p)
  PROVE  Orderly(p)
<1>0. UNCHANGED dead /\ TypeOK
  BY DEF Retire, RetireRename, RetireCheck, RetirePutBack, Own, SweepStrays, PublishFails,
         Release, GiveUp, ReleaseRead, ReleaseKids, MarkReleasedOpen, MarkReleasedCheck,
         MarkReleasedRename, Typed
<1>1. CASE Ends(p) /\ Moves(p)
  BY <1>0, <1>1, ModestOrderly DEF Ends, Forgets, Meaning, KeepSteps, OwnerSteps, Giving
<1>2. CASE Retire(p)
  <2>1. pc[p] \in {"rename", "check", "putBack"} /\ (my[p].mode # "release" => Seeking(p))
    BY <1>2 DEF Retire, RetireRename, RetireCheck, RetirePutBack, At, Seeking, Steps,
                OwnerSteps, Giving
  <2>2. CASE Leaves(p) /\ Moves(p) /\ my[p].mode # "release"
    BY <1>0, <2>1, <2>2, ModestOrderly
       DEF Leaves, Forgets, Meaning, KeepSteps, OwnerSteps, Giving
  <2>3. CASE Takes(p, "clean", Marker(p)) /\ Moves(p) /\ my[p].mode # "release"
    BY <1>0, <2>1, <2>3, ModestOrderly
       DEF Takes, Continues, Remembers, Meaning, KeepSteps, OwnerSteps, Giving
  <2>4. CASE Moves(p) /\ pc'[p] \in {"check", "putBack"} /\ my'[p] = my[p]
    BY <1>0, <2>1, <2>4, ModestOrderly DEF Meaning, KeepSteps, OwnerSteps, Giving
  <2> QED BY <1>0, <1>1, <1>2, <2>2, <2>3, <2>4, RetireRenameDoes, RetireCheckDoes,
             RetirePutBackDoes DEF Retire
<1>3. ASSUME pc[p] \in KeepSteps, Alive(p), Moves(p), my'[p].session = my[p].session,
             pc'[p] \in OwnerSteps => pc[p] \in OwnerSteps,
             \/ pc'[p] \in KeepSteps /\ my'[p].prev = my[p].prev /\ my'[p].mode = my[p].mode
             \/ pc'[p] = "rename" /\ my'[p].mode = "release" /\ my'[p].prev = Token(p)
      PROVE  Orderly(p)
  <2>1. Keeps(p) /\ ~Seeking(p)
    BY <1>3, KeepsWhere
  <2>2. ~Seeking(p)' /\ Meaning(p)
    BY <1>3, <2>1 DEF Seeking, Meaning, KeepSteps
  <2>3. UNCHANGED dead /\ (Owns(p)' => Owns(p))
    BY <1>0, <1>3 DEF Owns
  <2> QED BY <1>3, <2>1, <2>2, <2>3 DEF Orderly
<1>4. CASE Own(p) \/ GiveUp(p)
  <2>1. pc[p] \in KeepSteps /\ Alive(p) /\ pc[p] # "idle"
    BY <1>4 DEF Own, SweepStrays, PublishFails, Release, GiveUp, ReleaseRead, ReleaseKids,
                MarkReleasedOpen, MarkReleasedCheck, MarkReleasedRename, At, KeepSteps,
                OwnerSteps, Giving
  <2>2. {"owned", "relRead", "relKids", "relMarkOpen", "relMarkCheck", "relMarkRename"}
          \subseteq Steps \cap KeepSteps
    BY DEF Steps, KeepSteps, OwnerSteps, Giving
  <2>7. /\ Own(p) \/ ReleaseRead(p) \/ ReleaseKids(p) => pc[p] \in OwnerSteps
        /\ "relMarkOpen" \notin OwnerSteps /\ "relMarkCheck" \notin OwnerSteps
        /\ "relMarkRename" \notin OwnerSteps /\ "rename" \notin OwnerSteps
    BY DEF Own, SweepStrays, PublishFails, Release, ReleaseRead, ReleaseKids, At, OwnerSteps
  <2>3. CASE Own(p)
    BY <1>0, <1>3, <2>1, <2>2, <2>3, <2>7, GoesDoes, GivesBack
       DEF Own, SweepStrays, PublishFails, Release
  <2>4. CASE ReleaseRead(p) \/ ReleaseKids(p)
    BY <1>0, <1>1, <1>3, <2>1, <2>2, <2>4, <2>7, ReleaseReadDoes, ReleaseKidsDoes
  <2>5. CASE MarkReleasedOpen(p) \/ MarkReleasedCheck(p)
    BY <1>0, <1>1, <1>3, <2>1, <2>2, <2>5, <2>7, MarkReleasedOpenDoes, MarkReleasedCheckDoes
       DEF Continues
  <2>6. CASE MarkReleasedRename(p)
    BY <1>0, <1>1, <2>6, EndDoes DEF MarkReleasedRename
  <2> QED BY <1>4, <2>3, <2>4, <2>5, <2>6 DEF GiveUp
<1> QED BY <1>2, <1>4

\* No published token comes to be kept by a step of another kind.
KeptOnly == \A t \in Tokens : Spent(t) /\ Kept(t)' => Kept(t)

LEMMA OrderlyKeeps ==
  ASSUME Typed, NEW p \in Procs, Orderly(p)
  PROVE  SpentStays /\ KeptOnly
<1>1. SpentStays
  BY SpentStill DEF Orderly
<1>2. ASSUME NEW t \in Tokens, Spent(t), NEW q \in Procs, Keeps(q)', t = Token(q)'
      PROVE  Kept(t)
  <2>1. Token(q)' = Token(q) /\ (q # p => (Keeps(q)' <=> Keeps(q)))
    BY DEF Orderly, Moves, Same, Token, Keeps, Owns, Alive
  <2>2. ~(q = p /\ Publish(p) /\ lock = None)
    <3> SUFFICES ASSUME Publish(p) PROVE ~Spent(Token(p))
      BY <1>2, <2>1
    <3>1. Seeking(p)
      BY NotReleasing DEF Publish, At, Seeking, Steps, OwnerSteps, Giving
    <3> QED BY <3>1, OwnIsUnspent
  <2>3. Keeps(q)
    BY <1>2, <2>1, <2>2 DEF Orderly
  <2> QED BY <1>2, <2>1, <2>3 DEF Kept
<1>3. KeptOnly
  BY <1>2 DEF KeptOnly, Kept
<1> QED BY <1>1, <1>3

LEMMA RecoverableIsNotKept ==
  ASSUME KeepInv, lock # None, Recoverable(lock)
  PROVE  ~Kept(lock.owner)
<1>1. lock.released => ~Kept(lock.owner)
  BY DEF KeepInv, Apart
<1>2. lock.owner[1] \in dead => ~Kept(lock.owner)
  BY TokenIs DEF Kept, Keeps, Owns, Alive
<1> QED BY <1>1, <1>2 DEF Recoverable

LEMMA ReadStays ==
  ASSUME KeepInv, Typed', NEW p \in Procs, Orderly(p), NEW q \in Procs
  PROVE  Read(q)'
<1>0. SpentStays /\ KeptOnly /\ Read(q) /\ Typed
  BY OrderlyKeeps DEF KeepInv
<1>1. ASSUME NEW t \in Tokens, my'[q].prev = t, Spent(t), my'[q].mode # "release" => ~Kept(t)
      PROVE  Read(q)'
  BY <1>0, <1>1 DEF Read, SpentStays, KeptOnly
<1>2. my'[q].prev # None => my'[q].prev \in Tokens
  <2>1. my'[q] \in Locals
    BY DEF Typed, TypeOK
  <2> QED BY <2>1, LocalFields
<1>3. CASE my'[q].prev = None
  BY <1>3 DEF Read
<1>4. CASE my'[q].prev # None /\ my'[q].prev = my[q].prev /\ my'[q].mode = my[q].mode
  BY <1>0, <1>1, <1>2, <1>4 DEF Read
<1>5. CASE my'[q].prev # None /\ lock # None /\ Recoverable(lock) /\ my'[q].prev = lock.owner
  BY <1>1, <1>2, <1>5, RecoverableIsNotKept DEF KeepInv, Apart
<1>6. CASE my'[q].prev # None /\ q = p /\ my'[p].mode = "release" /\ my'[p].prev = Token(p)
           /\ ~Seeking(p)
  <2>1. Spent(Token(p))
    BY <1>6, TokenIs DEF Spent
  <2> QED BY <1>1, <1>2, <1>6, <2>1
<1>7. q # p => my'[q] = my[q]
  BY DEF Orderly, Moves, Same
<1> QED BY <1>3, <1>4, <1>5, <1>6, <1>7 DEF Orderly, Meaning

LEMMA ApartStays ==
  ASSUME Typed, SpentStays, KeptOnly, NEW d \in Dir, Apart(d)
  PROVE  Apart(d)'
PROOF BY DirFields DEF Apart, SpentStays, KeptOnly

\* A directory by its two fields that matter here.
LEMMA ApartFields ==
  ASSUME NEW d \in Dir, NEW e \in Dir, e.owner = d.owner, e.released = d.released, Apart(d)
  PROVE  Apart(e)
PROOF BY DEF Apart

LEMMA StepKeepInv ==
  ASSUME KeepInv, Typed', NEW p \in Procs, Step(p)
  PROVE  KeepInv'
<1>0. Typed /\ Orderly(p) /\ TypeOK /\ TypeOK'
  BY SeekerOrderly, OwnerOrderly DEF Step, KeepInv, Typed
<1>1. SpentStays /\ KeptOnly /\ \A q \in Procs : Read(q)'
  BY <1>0, OrderlyKeeps, ReadStays
<1>2. ASSUME NEW d \in Dir, Apart(d) PROVE Apart(d)'
  BY <1>0, <1>1, <1>2, ApartStays
<1>3. /\ lock # None => lock \in Dir /\ Apart(lock)
      /\ \A q \in Procs : tomb[q] # None => tomb[q] \in Dir /\ Apart(tomb[q])
      /\ lock' # None => lock' \in Dir
      /\ \A q \in Procs : tomb'[q] # None => tomb'[q] \in Dir
  BY <1>0, TypesOfStep, PathFields DEF KeepInv, Places, TypeOK
<1>4. ASSUME lock' = lock \/ (\E q \in Procs : lock' = tomb[q]) \/ lock' = None
      PROVE  lock' # None => Apart(lock)'
  <2> SUFFICES ASSUME NEW d \in Dir, lock' = d, Apart(d) PROVE Apart(lock)'
    BY <1>3, <1>4
  <2>1. Apart(d)'
    BY <1>2
  <2> QED BY <2>1 DEF Apart
<1>5. ASSUME lock # None, lock' # None, lock'.owner = lock.owner, lock'.released = lock.released
      PROVE  Apart(lock)'
  <2>1. Apart(lock')
    BY <1>3, <1>5, ApartFields
  <2> SUFFICES ASSUME NEW d \in Dir, lock' = d, Apart(d) PROVE Apart(lock)'
    BY <1>3, <1>5, <2>1
  <2>2. Apart(d)'
    BY <1>2
  <2> QED BY <2>2 DEF Apart
<1>6. ASSUME \A q \in Procs : tomb'[q] \in {tomb[q], lock, None}
      PROVE  \A q \in Procs : tomb'[q] # None => Apart(tomb[q])'
  <2> SUFFICES ASSUME NEW q \in Procs, NEW d \in Dir, tomb'[q] = d, Apart(d)
               PROVE  Apart(tomb[q])'
    BY <1>3, <1>6
  <2>1. Apart(d)'
    BY <1>2
  <2> QED BY <2>1 DEF Apart
<1>7. \A q \in Procs : tomb'[q] \in {tomb[q], lock, None}
  <2>1. tomb \in [Procs -> Places]
    BY <1>0, TypesOfStep
  <2> QED BY <2>1
      DEF Step, Acquire, Publish, ReadOwner, LookAgain, Claim, MarkOpen, MarkLink, ReadMarker,
          TakeMarker, ReadAside, PutAside, Recover, VerifyOwner, RecoverProcesses, ConfirmMarker,
          Retire, RetireRename, RetireCheck, RetirePutBack, Own, SweepStrays, PublishFails,
          Release, GiveUp, ReleaseRead, ReleaseKids, MarkReleasedOpen, MarkReleasedCheck,
          MarkReleasedRename, Unlock, Observe, Precheck
<1>8. lock' # None => Apart(lock)'
  <2>1. CASE Publish(p)
    <3>1. CASE lock' = [owner |-> Token(p), released |-> FALSE, marker |-> None]
               /\ pc'[p] = "sweep"
      <4>1. Spent(Token(p))'
        BY <1>0, <3>1, TokenIs DEF Spent, Seeking, OwnerSteps, Orderly, Token
      <4>2. Token(p)' = Token(p) /\ lock'.owner = Token(p) /\ lock'.released = FALSE
        BY <1>0, <3>1 DEF Orderly, Token
      <4> QED BY <4>1, <4>2 DEF Apart
    <3> QED BY <1>0, <1>4, <2>1, <3>1, PublishDoes
  <2>2. CASE MarkReleasedRename(p)
    <3>1. CASE lock # None /\ lock' = [lock EXCEPT !.owner = Token(p), !.released = TRUE]
      <4>0. pc[p] = "relMarkRename" /\ Ends(p)
        BY <1>0, <2>2, EndDoes DEF MarkReleasedRename, At
      <4>1. Token(p) \in Tokens /\ Token(p)' = Token(p) /\ Spent(Token(p))'
        BY <1>0, <4>0, OwnToken, TokenIs DEF Orderly, Token, Ends, Forgets, Spent, Seeking
      <4>2. lock'.owner = Token(p)
        BY <1>3, <3>1, <4>1, DirFields
      <4>3. ~Kept(Token(p))'
        <5>1. ~Keeps(p)'
          BY <4>0 DEF Keeps, Owns, OwnerSteps, Ends
        <5>2. \A q \in Procs : Token(p)' = Token(q)' => q = p
          BY DEF Token
        <5> QED BY <4>1, <5>1, <5>2 DEF Kept
      <4> QED BY <4>1, <4>2, <4>3 DEF Apart
    <3> QED BY <1>4, <2>2, <3>1 DEF MarkReleasedRename, PathIs
  <2>3. CASE TakeMarker(p) \/ PutAside(p) \/ MarkLink(p)
    <3>1. \/ lock' = lock
          \/ lock # None /\ \E m \in Markers \cup {None} : lock' = [lock EXCEPT !.marker = m]
      <4>1. CASE MarkLink(p)
        <5>1. Marker(p) \in Markers
          BY <1>0, <4>1, OwnToken DEF MarkLink, At
        <5> QED BY <4>1, <5>1 DEF MarkLink, PathIs
      <4>2. CASE PutAside(p)
        <5>1. aside[p].marker \in Markers
          BY <1>0, <4>2, RemembersTokens DEF PutAside, At, Typed, Placed
        <5> QED BY <4>2, <5>1 DEF PutAside, AsideHere, PathIs
      <4>3. CASE TakeMarker(p)
        BY <4>3 DEF TakeMarker, PathMarker
      <4> QED BY <2>3, <4>1, <4>2, <4>3
    <3>2. CASE lock' = lock
      BY <1>4, <3>2
    <3>3. ASSUME lock # None, NEW m \in Markers \cup {None}, lock' = [lock EXCEPT !.marker = m]
          PROVE  lock'.owner = lock.owner /\ lock'.released = lock.released
      <4>1. lock \in Dir
        BY <1>3, <3>3
      <4>2. /\ [lock EXCEPT !.marker = m].owner = lock.owner
            /\ [lock EXCEPT !.marker = m].released = lock.released
        BY <3>3, <4>1, DirFields
      <4> QED BY <3>3, <4>2
    <3> QED BY <1>5, <3>1, <3>2, <3>3
  <2>4. CASE Retire(p)
    BY <1>4, <2>4 DEF Retire, RetireRename, RetireCheck, RetirePutBack
  <2>5. CASE ~(Publish(p) \/ MarkReleasedRename(p) \/ TakeMarker(p) \/ PutAside(p)
               \/ MarkLink(p) \/ Retire(p))
    <3>1. lock' = lock
      BY <2>5
         DEF Step, Acquire, ReadOwner, LookAgain, Claim, MarkOpen, ReadMarker, ReadAside,
             Recover, VerifyOwner, RecoverProcesses, ConfirmMarker, Own, SweepStrays,
             PublishFails, Release, GiveUp, ReleaseRead, ReleaseKids, MarkReleasedOpen,
             MarkReleasedCheck, Unlock, Observe, Precheck
    <3> QED BY <1>4, <3>1
  <2> QED BY <2>1, <2>2, <2>3, <2>4, <2>5
<1> QED BY <1>0, <1>1, <1>6, <1>7, <1>8 DEF KeepInv

LEMMA BeginKeepInv ==
  ASSUME KeepInv, Typed', NEW p \in Procs, Begin(p)
  PROVE  KeepInv'
<1>0. Typed /\ Moves(p) /\ UNCHANGED <<lock, tomb, dead>> /\ my'[p].prev = None
      /\ pc'[p] \in {"publish", "observe"}
  BY BeginDoes DEF KeepInv, Typed, Begin
<1>1. SpentStays
  BY <1>0, SpentOfBegin
<1>2. KeptOnly
  <2>1. ASSUME NEW q \in Procs, Keeps(q)' PROVE Keeps(q) /\ Token(q)' = Token(q)
    BY <1>0, <2>1 DEF Moves, Same, Keeps, Owns, OwnerSteps, Alive, Token
  <2> QED BY <2>1 DEF KeptOnly, Kept
<1>3. ASSUME NEW d \in Dir, Apart(d) PROVE Apart(d)'
  BY <1>0, <1>1, <1>2, <1>3, ApartStays
<1>4. lock # None => lock \in Dir
  BY <1>0, PathFields DEF Typed
<1>5. \A q \in Procs : tomb[q] # None => tomb[q] \in Dir
  BY <1>0 DEF Typed, TypeOK
<1>6. ASSUME NEW q \in Procs PROVE Read(q)'
  <2>1. CASE q = p
    BY <1>0, <2>1 DEF Read
  <2>2. CASE q # p
    <3>1. Read(q) /\ my'[q] = my[q] /\ my[q].prev \in Tokens \cup {None}
      BY <1>0, <2>2, RemembersTokens DEF KeepInv, Moves, Same, Typed
    <3> QED BY <1>1, <1>2, <3>1 DEF Read, SpentStays, KeptOnly
  <2> QED BY <2>1, <2>2
<1>7. (lock # None => Apart(lock)') /\ \A q \in Procs : tomb[q] # None => Apart(tomb[q])'
  <2>1. lock # None => Apart(lock)'
    <3> SUFFICES ASSUME NEW d \in Dir, lock = d, Apart(d) PROVE Apart(lock)'
      BY <1>4 DEF KeepInv
    <3> QED BY <1>0, <1>3 DEF Apart
  <2>2. ASSUME NEW q \in Procs, tomb[q] # None PROVE Apart(tomb[q])'
    <3> SUFFICES ASSUME NEW d \in Dir, tomb[q] = d, Apart(d) PROVE Apart(tomb[q])'
      BY <1>5, <2>2 DEF KeepInv
    <3> QED BY <1>0, <1>3 DEF Apart
  <2> QED BY <2>1, <2>2
<1> QED BY <1>0, <1>6, <1>7 DEF KeepInv

LEMMA RestKeepInv ==
  ASSUME KeepInv, Typed',
         (\E p \in Procs : Crash(p) \/ TrackProcess(p)) \/ ChildExits \/ UNCHANGED vars
  PROVE  KeepInv'
<1>0. UNCHANGED <<lock, tomb, pc, my>> /\ dead \subseteq dead'
  BY DEF Crash, TrackProcess, ChildExits, vars
<1>1. \A t : Spent(t) <=> Spent(t)'
  BY <1>0 DEF Spent, Seeking
<1>2. \A t : Kept(t)' => Kept(t)
  BY <1>0 DEF Kept, Keeps, Owns, Alive, Token
<1> QED BY <1>0, <1>1, <1>2 DEF KeepInv, Apart, Read

THEOREM KeepInvariant == Spec => []KeepInv
<1>1. Init => KeepInv
  <2> SUFFICES ASSUME Init PROVE KeepInv
    OBVIOUS
  <2>1. /\ Typed /\ Sound /\ \A p \in Procs : tomb[p] = None /\ my[p].prev = None /\ pc[p] = "idle"
    BY InitTyped, InitSound DEF Init, Fresh
  <2>2. \A t : ~Kept(t)
    BY <2>1 DEF Kept, Keeps, Owns, OwnerSteps
  <2> QED BY <2>1, <2>2 DEF KeepInv, Apart, Read, Sound, Owned
<1>2. KeepInv /\ [Next]_vars => KeepInv'
  <2> SUFFICES ASSUME KeepInv, [Next]_vars PROVE KeepInv'
    OBVIOUS
  <2>1. Typed'
    BY NextTyped DEF KeepInv
  <2> QED BY <2>1, StepKeepInv, BeginKeepInv, RestKeepInv DEF Next
<1> QED BY <1>1, <1>2, PTL DEF Spec

\* Until a marker went astray, nobody keeps a directory that has left the path: it was the
\* verified one, or its owner's that released it.
Left == ~astray => \A t \in Procs : tomb[t] # None => ~Kept(tomb[t].owner)

LEMMA LeftByStep ==
  ASSUME KeepInv, KeepInv', Sound, Left, ~astray, NEW p \in Procs, Step(p)
  PROVE  Left'
<1>0. Typed /\ TypeOK /\ Orderly(p) /\ KeptOnly
  BY SeekerOrderly, OwnerOrderly, OrderlyKeeps DEF Step, KeepInv, Typed
<1>1. \A t \in Procs : tomb[t] # None => tomb[t] \in Dir /\ Spent(tomb[t].owner)
  BY <1>0 DEF KeepInv, Apart, TypeOK
<1>2. SUFFICES ASSUME NEW t \in Procs, NEW d \in Dir, tomb'[t] = d PROVE ~Kept(d.owner)'
  <2>1. \A t \in Procs : tomb'[t] # None => tomb'[t] \in Dir
    BY DEF KeepInv, Typed, TypeOK
  <2>2. ASSUME NEW t \in Procs, tomb'[t] # None PROVE ~Kept(tomb[t].owner)'
    <3>1. tomb'[t] \in Dir
      BY <2>1, <2>2
    <3> QED BY <1>2, <3>1 DEF Kept
  <2> QED BY <2>2 DEF Left
<1>3. d.owner \in Tokens
  BY DirFields
<1>4. CASE tomb'[t] = tomb[t]
  <2>1. Spent(d.owner) /\ ~Kept(d.owner)
    BY <1>1, <1>2, <1>4, NoneIsApart DEF Left
  <2> QED BY <1>0, <1>3, <2>1 DEF KeptOnly
<1>5. CASE RetireRename(p) /\ lock # None /\ t = p /\ tomb'[t] = lock
  <2>1. Alive(p) /\ pc[p] = "rename" /\ pc'[p] = "check" /\ my'[p] = my[p]
    BY <1>0, <1>5, RetireRenameDoes DEF RetireRename, At
  <2>2. Spent(d.owner)
    BY <1>2, <1>5 DEF KeepInv, Apart
  <2>3. CASE my[p].mode # "release"
    <3>1. lock.owner = my[p].prev /\ my[p].prev # None
      BY <1>0, <2>1, <2>3, PathFields DEF Sound, Sane, Claimed, Claimant, Claiming
    <3>2. ~Kept(d.owner)
      BY <1>2, <1>5, <2>3, <3>1 DEF KeepInv, Read
    <3> QED BY <1>0, <1>3, <2>2, <3>2 DEF KeptOnly
  <2>4. CASE my[p].mode = "release"
    <3>1. lock.owner = Token(p)
      BY <1>0, <2>1, <2>4, PathFields DEF Sound, Sane, Held, Owning
    <3>2. Token(p)' = Token(p) /\ ~Keeps(p)'
      BY <2>1 DEF Token, Keeps, Owns, OwnerSteps
    <3>3. \A q \in Procs : Token(p)' = Token(q)' => q = p
      BY DEF Token
    <3> QED BY <1>2, <1>5, <3>1, <3>2, <3>3 DEF Kept
  <2> QED BY <2>3, <2>4
<1>6. \/ tomb'[t] \in {tomb[t], None}
      \/ RetireRename(p) /\ lock # None /\ t = p /\ tomb'[t] = lock
  <2>1. tomb \in [Procs -> Places]
    BY <1>0, TypesOfStep
  <2>2. CASE RetireRename(p)
    BY <2>1, <2>2 DEF RetireRename
  <2>3. CASE ~RetireRename(p)
    BY <2>1, <2>3
      DEF Step, Acquire, Publish, ReadOwner, LookAgain, Claim, MarkOpen, MarkLink, ReadMarker,
          TakeMarker, ReadAside, PutAside, Recover, VerifyOwner, RecoverProcesses, ConfirmMarker,
          Retire, RetireCheck, RetirePutBack, Own, SweepStrays, PublishFails,
          Release, GiveUp, ReleaseRead, ReleaseKids, MarkReleasedOpen, MarkReleasedCheck,
          MarkReleasedRename, Unlock, Observe, Precheck
  <2> QED BY <2>2, <2>3
<1> QED BY <1>2, <1>4, <1>5, <1>6, NoneIsApart

LEMMA LeftStays ==
  ASSUME LockInv, KeepInv, KeepInv', Left, [Next]_vars
  PROVE  Left'
<1>1. CASE astray
  BY <1>1, AstrayStays DEF Left
<1>2. ASSUME ~astray, NEW p \in Procs, Step(p) PROVE Left'
  BY <1>2, LeftByStep DEF LockInv
<1>3. ASSUME UNCHANGED <<tomb, astray>>,
             \A q \in Procs : Keeps(q)' => Keeps(q) /\ Token(q)' = Token(q)
      PROVE  Left'
  BY <1>3 DEF Left, Kept
<1>4. ASSUME NEW p \in Procs, Begin(p) PROVE Left'
  <2>1. Moves(p) /\ UNCHANGED <<tomb, dead, astray>> /\ pc'[p] \in {"publish", "observe"}
    BY <1>4, BeginDoes DEF KeepInv, Typed, Begin
  <2> QED BY <1>3, <2>1 DEF Moves, Same, Keeps, Owns, OwnerSteps, Alive, Token
<1>5. CASE (\E p \in Procs : Crash(p) \/ TrackProcess(p)) \/ ChildExits \/ UNCHANGED vars
  <2>1. UNCHANGED <<tomb, pc, my, astray>> /\ dead \subseteq dead'
    BY <1>5 DEF Crash, TrackProcess, ChildExits, vars
  <2> QED BY <1>3, <2>1 DEF Keeps, Owns, Alive, Token
<1> QED BY <1>1, <1>2, <1>4, <1>5 DEF Next

\* Whatever takeMarker has caught, no recovery, unlock or release deletes the directory of
\* an owner that keeps it: what a process is to retire was released, or its owner dead, when
\* it was read, and it is compared with that before it is deleted (retire).  And as long as
\* no marker went astray, no such directory is there for the sweep of a new owner to delete
\* (sweepStrays, which compares nothing).
THEOREM AlwaysDeletesOnlyAbandoned == Spec => DeletesOnlyAbandoned
<1>1. ASSUME KeepInv, NEW p \in Procs, NEW q \in Procs, RetireCheck(p), tomb[p] # None,
             tomb'[p] = None, Keeps(q)
      PROVE  tomb[p].owner # Token(q)
  <2>1. tomb[p].owner = my[p].prev
    BY <1>1, RetireCheckDoes DEF KeepInv, Typed, Carries
  <2>2. pc[p] = "check" /\ Read(p) /\ Placed(p) /\ tomb[p].owner # None
    <3>1. tomb[p] \in Dir
      BY <1>1, TypesOfStep DEF KeepInv, Typed, Places
    <3> QED BY <1>1, <3>1, DirFields, NoneIsApart DEF RetireCheck, At, KeepInv, Typed
  <2>3. CASE my[p].mode # "release"
    BY <1>1, <2>1, <2>2, <2>3 DEF Read, Kept
  <2>4. CASE my[p].mode = "release"
    <3>1. tomb[p].owner = Token(p) /\ ~Keeps(p)
      BY <2>1, <2>2, <2>4 DEF Placed, Keeps, Owns, OwnerSteps
    <3> QED BY <1>1, <3>1, TokenIs
  <2> QED BY <2>3, <2>4
<1>2. KeepInv /\ Left => [\A p, q, t \in Procs :
                            /\ (RetireCheck(p) /\ t = p) \/ (SweepStrays(p) /\ ~astray)
                            /\ tomb[t] # None /\ tomb'[t] = None /\ Keeps(q)
                            => tomb[t].owner # Token(q)]_vars
  BY <1>1 DEF Left, Kept
<1>3. Init => Left
  BY DEF Init, Left
<1>4. LockInv /\ KeepInv /\ KeepInv' /\ Left /\ [Next]_vars => Left'
  BY LeftStays
<1> QED BY <1>2, <1>3, <1>4, LockInvariant, KeepInvariant, PTL DEF Spec, DeletesOnlyAbandoned

-----------------------------------------------------------------------------
(* The lock implements exclusive ownership.                                *)

LEMMA OneOwnerOfSound ==
  ASSUME Typed, Sound
  PROVE  OneOwner
<1> SUFFICES ASSUME NEW p \in Procs, NEW q \in Procs, Owns(p), Owns(q) PROVE p = q
  BY DEF OneOwner
<1>1. Alive(p) /\ Owning(p) /\ Alive(q) /\ Owning(q)
  BY DEF Owns, Owning
<1> QED BY <1>1, OnlyOwner

\* The owner is the one process that owns the lock.
OwnerIs ==
  /\ \A p \in Procs : Owns(p) => Owner = Token(p)
  /\ (\A p \in Procs : ~Owns(p)) => Owner = None

LEMMA OwnerOfOne ==
  ASSUME OneOwner
  PROVE  OwnerIs
<1>1. ASSUME NEW p \in Procs, Owns(p) PROVE Owner = Token(p)
  <2>1. (CHOOSE q \in Procs : Owns(q)) = p
    BY <1>1 DEF OneOwner
  <2> QED BY <1>1, <2>1 DEF Owner
<1>2. (\A p \in Procs : ~Owns(p)) => Owner = None
  BY DEF Owner
<1> QED BY <1>1, <1>2 DEF OwnerIs

\* No step in which nobody publishes makes anybody the owner.
NoneGains ==
  /\ \A q \in Procs : Owns(q)' => Owns(q) /\ Token(q)' = Token(q)
  /\ UNCHANGED kids

LEMMA NoneGainsStep ==
  ASSUME Typed, OneOwner, OwnerIs, OwnerIs', NoneGains
  PROVE  Abstract!Next \/ UNCHANGED <<Owner, kids>>
<1>1. CASE \E p \in Procs : Owns(p)'
  <2>1. PICK p \in Procs : Owns(p)'
    BY <1>1
  <2>2. Owner' = Owner
    BY <2>1 DEF NoneGains, OwnerIs
  <2> QED BY <2>2 DEF NoneGains
<1>2. CASE (\E p \in Procs : Owns(p)) /\ ~\E p \in Procs : Owns(p)'
  <2>1. PICK p \in Procs : Owns(p)
    BY <1>2
  <2>2. Owner # None
    <3>1. pc[p] # "idle"
      BY <2>1 DEF Owns, OwnerSteps
    <3> QED BY <2>1, <3>1, OwnToken DEF OwnerIs
  <2>3. Owner' = None /\ UNCHANGED kids
    BY <1>2 DEF OwnerIs, NoneGains
  <2> QED BY <2>2, <2>3 DEF Abstract!Next, Abstract!GiveUp
<1>3. CASE ~(\E p \in Procs : Owns(p)) /\ ~\E p \in Procs : Owns(p)'
  <2>1. Owner' = None /\ Owner = None
    BY <1>3 DEF OwnerIs
  <2> QED BY <2>1 DEF NoneGains
<1> QED BY <1>1, <1>2, <1>3

\* Nobody becomes the owner or stops to be it.
LEMMA SameOwners ==
  ASSUME OwnerIs, OwnerIs',
         \A q \in Procs : (Owns(q)' <=> Owns(q)) /\ (Owns(q) => Token(q)' = Token(q))
  PROVE  Owner' = Owner
<1>1. CASE \E p \in Procs : Owns(p)
  BY <1>1 DEF OwnerIs
<1>2. CASE \A p \in Procs : ~Owns(p)
  BY <1>2 DEF OwnerIs
<1> QED BY <1>1, <1>2

LEMMA RefinesOwnership ==
  ASSUME Typed, Typed', Sound, OneOwner, OwnerIs, OwnerIs', [Next]_vars
  PROVE  Abstract!Next \/ UNCHANGED <<Owner, kids>>
<1>1. ASSUME NEW p \in Procs, Step(p) PROVE Abstract!Next \/ UNCHANGED <<Owner, kids>>
  <2>1. /\ Orderly(p) /\ Token(p)' = Token(p)
        /\ \A q \in Procs : q # p => (Owns(q)' <=> Owns(q)) /\ Token(q)' = Token(q)
    <3>1. Orderly(p)
      BY <1>1, SeekerOrderly, OwnerOrderly DEF Step
    <3> QED BY <3>1 DEF Orderly, Moves, Same, Owns, Alive, Token
  <2>2. CASE lock = None /\ Publish(p)
    <3>1. \A q \in Procs : ~Owns(q)
      BY <2>2, SaneParts DEF Owns, Held, Owning, PathIs
    <3>2. kids = {} /\ UNCHANGED kids
      BY <2>2 DEF Sound, ChildrenTracked, PathIs, Publish
    <3>3. Owns(p)' /\ Token(p) \in Tokens
      <4>1. pc[p] # "idle" /\ Alive(p)' /\ pc'[p] = "sweep"
        BY <2>2, TypesOfStep DEF Publish, At, Alive, Goto, Typed
      <4> QED BY <4>1, OwnToken DEF Owns, OwnerSteps
    <3>4. Owner = None /\ Owner' = Token(p)
      BY <2>1, <3>1, <3>3 DEF OwnerIs
    <3> QED BY <3>2, <3>3, <3>4 DEF Abstract!Next, Abstract!Acquire
  <2>3. CASE ~(lock = None /\ Publish(p)) /\ UNCHANGED kids
    <3>1. NoneGains
      BY <2>1, <2>3 DEF NoneGains, Orderly
    <3> QED BY <3>1, NoneGainsStep
  <2>4. CASE RecoverProcesses(p) /\ ~UNCHANGED kids
    <3>1. lock.owner \in kids /\ kids' = kids \ {lock.owner}
      BY <2>4 DEF RecoverProcesses, PathKids
    <3>2. ~Owns(p) /\ ~Owns(p)'
      <4>1. ~Owns(p) /\ ~Publish(p)
        BY <2>4 DEF RecoverProcesses, At, Owns, OwnerSteps, Publish
      <4> QED BY <2>1, <4>1 DEF Orderly
    <3>3. Owner' = Owner
      BY <2>1, <3>2, SameOwners
    <3> QED BY <3>1, <3>3 DEF Abstract!Next, Abstract!Stop
  <2>5. RecoverProcesses(p) \/ UNCHANGED kids
    BY <1>1
       DEF Step, Acquire, Publish, ReadOwner, LookAgain, Claim, MarkOpen, MarkLink, ReadMarker,
           TakeMarker, ReadAside, PutAside, Recover, VerifyOwner, ConfirmMarker, Retire,
           RetireRename, RetireCheck, RetirePutBack, Own, SweepStrays, PublishFails, Release,
           GiveUp, ReleaseRead, ReleaseKids, MarkReleasedOpen, MarkReleasedCheck,
           MarkReleasedRename, Unlock, Observe, Precheck
  <2> QED BY <2>2, <2>3, <2>4, <2>5 DEF Publish
<1>2. ASSUME NEW p \in Procs, Begin(p) PROVE Abstract!Next \/ UNCHANGED <<Owner, kids>>
  <2>1. /\ Moves(p) /\ pc'[p] \in {"publish", "observe"} /\ UNCHANGED <<dead, kids>>
    BY <1>2, BeginDoes DEF Typed, Begin
  <2>2. NoneGains
    BY <2>1 DEF NoneGains, Moves, Same, Owns, OwnerSteps, Alive, Token
  <2> QED BY <2>2, NoneGainsStep
<1>3. ASSUME NEW p \in Procs, TrackProcess(p) PROVE Abstract!Next \/ UNCHANGED <<Owner, kids>>
  <2>1. Owns(p) /\ UNCHANGED <<pc, my, dead>> /\ kids' = kids \cup {Token(p)} /\ pc[p] # "idle"
    BY <1>3 DEF TrackProcess, At, Owns, OwnerSteps
  <2>2. Owner' = Owner
    BY <2>1, SameOwners DEF Owns, Alive, Token
  <2>3. Owner = Token(p) /\ Owner # None
    BY <2>1, OwnToken DEF OwnerIs
  <2> QED BY <2>1, <2>2, <2>3 DEF Abstract!Next, Abstract!Start
<1>4. CASE ChildExits
  <2>1. UNCHANGED <<pc, my, dead>> /\ \E t \in kids : kids' = kids \ {t}
    BY <1>4 DEF ChildExits
  <2>2. Owner' = Owner
    BY <2>1, SameOwners DEF Owns, Alive, Token
  <2> QED BY <2>1, <2>2 DEF Abstract!Next, Abstract!Stop
<1>5. CASE (\E p \in Procs : Crash(p)) \/ UNCHANGED vars
  <2>1. UNCHANGED <<pc, my, kids>> /\ dead \subseteq dead'
    BY <1>5 DEF Crash, vars
  <2>2. NoneGains
    BY <2>1 DEF NoneGains, Owns, Alive, Token
  <2> QED BY <2>2, NoneGainsStep
<1> QED BY <1>1, <1>2, <1>3, <1>4, <1>5 DEF Next

\* Every step of the lock in which takeMarker has caught no other contender's marker takes or
\* gives up the ownership, starts or stops a child, or leaves both as they are.
THEOREM LockImplementsOwnership == Spec => AbstractSpec
<1>1. Init => Abstract!Init
  <2> SUFFICES ASSUME Init PROVE Abstract!Init
    OBVIOUS
  <2>1. \A p \in Procs : ~Owns(p)
    BY DEF Init, Owns, OwnerSteps
  <2>2. Owner = None
    BY <2>1 DEF Owner
  <2>3. kids \subseteq Tokens
    BY DEF Init, Tokens
  <2> QED BY <2>2, <2>3 DEF Abstract!Init
<1>2. LockInv => (~astray => OneOwner /\ OwnerIs)
  BY OneOwnerOfSound, OwnerOfOne DEF LockInv
<1>3. LockInv /\ LockInv' /\ (~astray => OneOwner /\ OwnerIs) /\ (~astray => OneOwner /\ OwnerIs)'
        /\ [Next]_vars
      => [astray' \/ Abstract!Next]_<<Owner, kids>>
  BY RefinesOwnership, AstrayStays DEF LockInv
<1> QED BY <1>1, <1>2, <1>3, LockInvariant, PTL DEF Spec, AbstractSpec
=============================================================================
