---------------------------- MODULE InboxProofs ----------------------------
(***************************************************************************)
(* What a question and its answers promise, for any number of writers that *)
(* answer without a lock, any number of kills and failed saves, and a      *)
(* removal after which another run takes the ID.                           *)
(*                                                                         *)
(* An outcome is judged once, by the owner alone, and is kept by the       *)
(* record; a delivery has one of two places, from which only a rejection,  *)
(* the removal and a withdrawal of another generation take it.             *)
(***************************************************************************)
EXTENDS Inbox, TLAPS

\* What a writer found at its path when it withdrew its own delivery.
Findings == [mine : Envelopes, caught : Envelopes]

Writing ==
  [pc : WriterSteps, env : Envelopes \cup {None} \cup Findings, path : Places \cup {None}]

Owning ==
  [pc : OwnerSteps, seen : Places \cup {None}, next : {None, "clock", "finish"},
   outcome : Outcomes \cup {None}, result : {None, "last", "done", "not yet"}]

Records ==
  [run : {"running", "suspended", "completed", "failed"}, question : Questions]

Disks == [flat : BOOLEAN, dir : BOOLEAN]
Removals == [pc : RemovalSteps, gen : 0..MaxGenerations]

Typed ==
  /\ disk \in Disks /\ gen \in Generations /\ late \in BOOLEAN
  /\ saved \in Records /\ place \in [Places -> Envelopes \cup {None}]
  /\ holder \in {"none", "owner", "rm"} /\ own \in Owning /\ got \in Outcomes \cup {None}
  /\ wr \in [Writers -> Writing] /\ rm \in Removals
Bounded == faults \in 0..MaxFaults

\* The owner and the removal hold the lock while they are at work.
Removing == {"siblings", "flat", "rename", "sweep"}
Held ==
  /\ holder = "owner" <=> own.pc # "out"
  /\ holder = "rm" <=> rm.pc \in Removing

\* What a writer carries: nothing, its delivery, or what it caught in its place.
Carrying == {"look", "link", "reread", "claim", "queued"}
Carried ==
  \A w \in Writers :
    /\ wr[w].pc = "idle" => wr[w].env = None
    /\ wr[w].pc \in Carrying => wr[w].env \in Envelopes
    /\ wr[w].pc = "examine" => wr[w].env \in Findings
    /\ wr[w].pc = "refused" => wr[w].env \in Envelopes \cup {None}
    /\ wr[w].pc \in {"link", "reread", "claim", "examine"} => wr[w].path \in Places

\* No delivery is of a generation still to come.
Born(e) == e.gen <= gen
Dated ==
  /\ \A p \in Places : place[p] # None => Born(place[p])
  /\ \A w \in Writers :
       /\ wr[w].pc # "examine" /\ wr[w].env # None => Born(wr[w].env)
       /\ wr[w].pc = "examine" => Born(wr[w].env.mine) /\ Born(wr[w].env.caught)

\* A run goes only through the removal, and another one comes only after it.
Numbered ==
  /\ rm.pc \in Removing => rm.gen = gen
  /\ rm.pc = "rename" => ~disk.flat
  /\ rm.pc = "sweep" => ~Exists
  /\ ~Exists => rm.gen = gen /\ rm.pc \in {"rename", "sweep", "removed", "refused"}
  /\ gen > 1 => Exists /\ rm.pc \in {"removed", "refused"} /\ rm.gen < gen

\* The owner works at a question that waits, and has an outcome only before it is saved.
Judging == {"scan", "clock", "observing", "rescan", "finish", "reject", "saving", "idle"}
Asked ==
  /\ own.pc \in Judging => Waiting
  /\ own.pc = "failing" => saved.question.by \notin Decided
  /\ own.pc = "saving" => own.outcome \in Outcomes
  /\ own.pc \notin {"saving", "failing"} => own.outcome = None
  /\ own.pc = "reject" => own.seen \in Places /\ own.next \in {"clock", "finish"}

\* What resolves a question was written for this run and is accepted by its rules.
Accepted(o) == o.by = "signal" => o.env \in Envelopes /\ o.env.gen = gen /\ o.env.ok /\ ~o.env.late
Judged ==
  /\ saved.question.by \in Decided => Accepted(saved.question)
  /\ own.pc = "saving" \/ own.outcome # None => Accepted(own.outcome)
  /\ got # None => got = saved.question /\ saved.question.by \in Decided

\* A writer of this generation withdraws only from its removal.
RemovalBegun == rm.gen = gen /\ rm.pc \notin {"idle", "inspected"}
Withdrawn ==
  \A w \in Writers :
    /\ wr[w].pc = "claim" /\ wr[w].env.gen = gen => RemovalBegun
    /\ wr[w].pc = "examine" /\ wr[w].env.mine.gen = gen => RemovalBegun

\* What the owner is about to reject is still the delivery that it read.
Rejected ==
  own.pc = "reject" /\ ~Disturbed =>
    place[own.seen] # None /\ ~Acceptable(place[own.seen])

\* A delivery that was linked lies at its place until somebody is told to withdraw it.
Kept ==
  \A w \in Writers :
    wr[w].pc \in {"reread", "queued"} /\ Acceptable(wr[w].env) /\ ~Disturbed =>
      \E p \in Places : place[p] = wr[w].env

\* What is put where the removal has been is withdrawn by its writer.
Covered(p) ==
  place[p] # None => \E w \in Writers : wr[w].pc \in {"reread", "claim"} /\ wr[w].path = p
Swept ==
  /\ rm.pc = "sweep" => Covered("inside")
  /\ rm.pc = "removed" /\ ~Exists => \A p \in Places : Covered(p)

InboxInv ==
  /\ Typed /\ Bounded /\ Held /\ Carried /\ Dated /\ Numbered /\ Asked /\ Judged
  /\ Withdrawn /\ Rejected /\ Kept /\ Swept

-----------------------------------------------------------------------------
(* What the changes of a variable do, field by field.                      *)

LEMMA Numbers == MaxGenerations \in Nat \ {0} /\ MaxFaults \in Nat
PROOF BY InboxAssumption

LEMMA NobodyWrote == None \notin Envelopes /\ None \notin Findings
PROOF BY NoneAssumption DEF Findings

\* The owner moves; with no outcome, at nothing, unless the step says so.
Moves(S) == own' \in Owning /\ own'.pc \in S /\ own'.outcome = None

LEMMA OutIs ==
  Out \in Owning /\ Out.pc = "out" /\ Out.outcome = None
PROOF BY DEF Out, Owning, OwnerSteps

LEMMA GoesMoves ==
  ASSUME NEW pc \in OwnerSteps, Goes(pc)
  PROVE  Moves({pc})
PROOF BY DEF Goes, Moves, Out, Owning, OwnerSteps

LEMMA ObservedMoves ==
  ASSUME NEW pc \in OwnerSteps, NEW r \in {None, "last", "done", "not yet"}, Observed(pc, r)
  PROVE  Moves({pc})
PROOF BY DEF Observed, Moves, Out, Owning, OwnerSteps

LEMMA DecidesDoes ==
  ASSUME NEW by \in Decided, NEW e \in Envelopes \cup {None}, Decides(by, e)
  PROVE  /\ own' \in Owning /\ own'.pc = "saving"
         /\ own'.outcome \in Outcomes /\ own'.outcome.by = by /\ own'.outcome.env = e
<1> DEFINE o == [by |-> by, env |-> e]
<1>1. o \in Outcomes /\ o.by = by /\ o.env = e
  BY DEF Outcomes
<1>2. own' = [[Out EXCEPT !.pc = "saving"] EXCEPT !.outcome = o]
  BY DEF Decides
<1> HIDE DEF o
<1> QED BY <1>1, <1>2 DEF Out, Owning, OwnerSteps

LEMMA UndecidedIs ==
  ASSUME NEW s \in {"none", "waiting", "withdrawn"}
  PROVE  Undecided(s) \in Questions /\ Undecided(s).by = s
PROOF BY DEF Undecided, Questions

LEMMA OutcomesAnswer ==
  ASSUME NEW o \in Outcomes
  PROVE  o \in Questions /\ o.by \in Decided
PROOF BY DEF Outcomes, Questions, Decided

LEMMA DecidedIs ==
  ASSUME NEW q \in Questions, q.by \in Decided
  PROVE  q \in Outcomes
PROOF BY DEF Outcomes, Questions

LEMMA WithQuestion ==
  ASSUME NEW r \in Records, NEW q \in Questions
  PROVE  [r EXCEPT !.question = q] \in Records /\ [r EXCEPT !.question = q].question = q
PROOF BY DEF Records

LEMMA WithRun ==
  ASSUME NEW r \in Records, NEW run \in {"running", "suspended", "completed", "failed"}
  PROVE  [r EXCEPT !.run = run] \in Records /\ [r EXCEPT !.run = run].question = r.question
PROOF BY DEF Records

LEMMA WithBoth ==
  ASSUME NEW r \in Records, NEW q \in Questions,
         NEW run \in {"running", "suspended", "completed", "failed"}
  PROVE  /\ [r EXCEPT !.run = run, !.question = q] \in Records
         /\ [r EXCEPT !.run = run, !.question = q].question = q
PROOF BY DEF Records

LEMMA RemovalFields ==
  ASSUME NEW r \in Removals, NEW pc \in RemovalSteps
  PROVE  LET s == [r EXCEPT !.pc = pc] IN s \in Removals /\ s.pc = pc /\ s.gen = r.gen
PROOF BY DEF Removals

LEMMA PlaceFields ==
  ASSUME NEW f \in [Places -> Envelopes \cup {None}], NEW p \in Places,
         NEW e \in Envelopes \cup {None}
  PROVE  LET g == [f EXCEPT ![p] = e]
         IN  /\ g \in [Places -> Envelopes \cup {None}] /\ g[p] = e
             /\ \A q \in Places \ {p} : g[q] = f[q]
OBVIOUS

\* A writer moves, another one does not.
Writes(w, S) ==
  /\ wr' \in [Writers -> Writing] /\ wr'[w].pc \in S
  /\ \A v \in Writers \ {w} : wr'[v] = wr[v]

\* Only where the writer is changes.
LEMMA WriterStepsOnly ==
  ASSUME Typed, NEW w \in Writers, NEW pc \in WriterSteps, wr' = [wr EXCEPT ![w].pc = pc]
  PROVE  Writes(w, {pc}) /\ wr'[w].path = wr[w].path /\ wr'[w].env = wr[w].env
<1> DEFINE s == [wr[w] EXCEPT !.pc = pc]
<1>1. wr[w] \in Writing /\ wr' = [wr EXCEPT ![w] = s]
  BY DEF Typed
<1>2. s \in Writing /\ s.pc = pc /\ s.path = wr[w].path /\ s.env = wr[w].env
  BY <1>1 DEF Writing
<1> HIDE DEF s
<1> QED BY <1>1, <1>2 DEF Typed, Writes

\* Where the writer is and its path change.
LEMMA WriterStepsPath ==
  ASSUME Typed, NEW w \in Writers, NEW pc \in WriterSteps, NEW path \in Places \cup {None},
         wr' = [wr EXCEPT ![w].pc = pc, ![w].path = path]
  PROVE  Writes(w, {pc}) /\ wr'[w].path = path /\ wr'[w].env = wr[w].env
<1> DEFINE r == [wr[w] EXCEPT !.pc = pc]
           s == [r EXCEPT !.path = path]
<1>1. wr[w] \in Writing /\ wr' = [wr EXCEPT ![w] = s]
  BY DEF Typed
<1>2. r \in Writing /\ r.pc = pc /\ r.env = wr[w].env
  BY <1>1 DEF Writing
<1>3. s \in Writing /\ s.pc = pc /\ s.path = path /\ s.env = wr[w].env
  BY <1>2 DEF Writing
<1> HIDE DEF s
<1> QED BY <1>1, <1>3 DEF Typed, Writes

LEMMA RefuseDoes ==
  ASSUME Typed, NEW w \in Writers, Refuse(w)
  PROVE  Writes(w, {"refused"}) /\ wr'[w].env = wr[w].env
PROOF BY WriterStepsPath DEF Refuse, WriterSteps

\* All of what the writer has is new.
LEMMA WriterAnew ==
  ASSUME Typed, NEW w \in Writers, NEW s \in Writing, wr' = [wr EXCEPT ![w] = s]
  PROVE  Writes(w, {s.pc}) /\ wr'[w] = s
PROOF BY DEF Typed, Writes
-----------------------------------------------------------------------------
(* What each step amounts to.                                              *)

OnlyOwner == UNCHANGED <<disk, gen, saved, late, got, place, holder, wr, rm>>
OnlyWriters == UNCHANGED <<disk, gen, saved, late, got, place, holder, own, rm>>
\* A place is emptied, or nothing is done to it.
Emptied(p) ==
  /\ place' \in [Places -> Envelopes \cup {None}]
  /\ place'[p] = None /\ \A q \in Places \ {p} : place'[q] = place[q]

\* WriterReads
Starts(w) ==
  /\ wr[w].pc = "idle" /\ OnlyWriters
  /\ \/ Writes(w, {"look"}) /\ wr'[w].env \in Envelopes /\ wr'[w].env.gen = gen
     \/ Writes(w, {"refused"}) /\ wr'[w].env = wr[w].env

\* WriterLooks, and WriterRereads where the run is there
Proceeds(w) ==
  /\ OnlyWriters /\ wr'[w].env = wr[w].env
  /\ \/ wr[w].pc = "look" /\ Writes(w, {"link"}) /\ wr'[w].path \in Places
     \/ wr[w].pc = "look" /\ Writes(w, {"refused"})
     \/ wr[w].pc = "link" /\ Writes(w, {"refused"})
     \/ wr[w].pc = "reread" /\ Writes(w, {"queued"}) /\ Exists /\ gen = wr[w].env.gen

\* WriterLinks
Links(w) ==
  /\ wr[w].pc = "link" /\ Writes(w, {"reread"})
  /\ wr'[w].env = wr[w].env /\ wr'[w].path = wr[w].path
  /\ place' \in [Places -> Envelopes \cup {None}]
  /\ place[wr[w].path] = None /\ place'[wr[w].path] = wr[w].env
  /\ \A q \in Places \ {wr[w].path} : place'[q] = place[q]
  /\ UNCHANGED <<disk, gen, saved, late, got, holder, own, rm>>

\* WriterRereads: the run has gone
Retreats(w) ==
  /\ wr[w].pc = "reread" /\ Writes(w, {"claim"})
  /\ wr'[w].env = wr[w].env /\ wr'[w].path = wr[w].path
  /\ ~(Exists /\ gen = wr[w].env.gen) /\ OnlyWriters

\* WriterClaims
Claims(w) ==
  /\ wr[w].pc = "claim"
  /\ \/ Writes(w, {"refused"}) /\ wr'[w].env = wr[w].env /\ UNCHANGED place
        /\ place[wr[w].path] = None
     \/ Writes(w, {"examine"}) /\ wr'[w].env \in Findings /\ wr'[w].path = wr[w].path
        /\ wr'[w].env.mine = wr[w].env /\ wr'[w].env.caught = place[wr[w].path]
        /\ Emptied(wr[w].path)
  /\ UNCHANGED <<disk, gen, saved, late, got, holder, own, rm>>

\* WriterExamines
Examines(w) ==
  /\ wr[w].pc = "examine" /\ Writes(w, {"refused"}) /\ wr'[w].env = wr[w].env.mine
  /\ \/ UNCHANGED place
     \/ /\ wr[w].env.caught.gen # wr[w].env.mine.gen
        /\ place' \in [Places -> Envelopes \cup {None}]
        /\ place'[wr[w].path] = wr[w].env.caught
        /\ \A q \in Places \ {wr[w].path} : place'[q] = place[q]
  /\ UNCHANGED <<disk, gen, saved, late, got, holder, own, rm>>

\* Scan, Rescan, Clock, Observe, Finish, Pump: nothing is decided yet
Considers ==
  /\ own.pc \in Judging \ {"saving", "reject"} /\ OnlyOwner
  /\ Moves({"scan", "clock", "observing", "rescan", "finish", "idle", "failing"})

\* Scan, Rescan, Clock, Observe, Finish: the outcome is decided
Settles ==
  /\ own.pc \in Judging \ {"saving", "reject"} /\ OnlyOwner
  /\ own' \in Owning /\ own'.pc = "saving" /\ own'.outcome \in Outcomes
  /\ own'.outcome.by = "signal" =>
       own'.outcome.env \in Envelopes /\ Acceptable(own'.outcome.env)

\* Scan, Rescan: the delivery is to be rejected
Spots ==
  /\ own.pc \in Judging \ {"saving", "reject"} /\ OnlyOwner /\ Moves({"reject"})
  /\ own'.seen \in Places /\ own'.next \in {"clock", "finish"}
  /\ place[own'.seen] # None /\ ~Acceptable(place[own'.seen])

Rejects ==
  /\ own.pc = "reject" /\ Moves({"clock", "finish", "failing"})
  /\ UNCHANGED place \/ Emptied(own.seen)
  /\ UNCHANGED <<disk, gen, saved, late, got, holder, wr, rm>>

Falters ==
  /\ own.pc = "saving" /\ own' \in Owning /\ own'.pc = "failing"
  /\ own'.outcome = own.outcome /\ OnlyOwner

Opens ==
  /\ holder = "none" /\ holder' = "owner" /\ Moves({"register"}) /\ Exists
  /\ disk' \in Disks /\ disk'.flat = disk.flat /\ disk'.dir
  /\ saved' \in Records /\ saved'.question = saved.question
  /\ UNCHANGED <<gen, late, place, got, wr, rm>>

Begins ==
  /\ holder = "none" /\ holder' = "owner" /\ Moves({"register"}) /\ ~Exists
  /\ disk' \in Disks /\ disk'.dir
  /\ gen' = gen + 1 /\ gen' \in Generations /\ late' \in BOOLEAN
  /\ saved' \in Records /\ saved'.question.by = "none" /\ got' = None
  /\ UNCHANGED <<place, wr, rm>>

Registers ==
  /\ own.pc = "register" /\ saved' \in Records
  /\ \/ UNCHANGED saved /\ saved.question.by \in Decided
        /\ got' = saved.question /\ Moves({"done"})
     \/ UNCHANGED <<saved, got>> /\ saved.question.by = "withdrawn" /\ Moves({"failing"})
     \/ saved.question.by \in {"none", "waiting"} /\ saved'.question.by = "waiting"
        /\ UNCHANGED got /\ Moves({"scan"})
  /\ UNCHANGED <<disk, gen, late, place, holder, wr, rm>>

Completes ==
  /\ own.pc = "saving" /\ saved' \in Records /\ saved'.question = own.outcome
  /\ got' = own.outcome /\ Moves({"done"})
  /\ UNCHANGED <<disk, gen, late, place, holder, wr, rm>>

\* Suspend, EndWithout, FailRun, EndWith, OwnerCrash
Stops ==
  /\ own.pc # "out" /\ holder' = "none" /\ Moves({"out"}) /\ saved' \in Records
  /\ \/ saved'.question = saved.question
     \/ own.pc \in Judging /\ saved'.question.by = "withdrawn"
     \/ own.pc = "failing" /\ own.outcome # None /\ saved'.question = own.outcome
  /\ UNCHANGED <<disk, gen, late, place, got, wr, rm>>

Passes == late' \in BOOLEAN /\ UNCHANGED <<disk, gen, saved, got, place, holder, own, wr, rm>>

Inspects ==
  /\ rm.pc = "idle" /\ Exists /\ rm' \in Removals /\ rm'.pc = "inspected" /\ rm'.gen = gen
  /\ UNCHANGED <<disk, gen, saved, late, got, place, holder, own, wr>>

Begun(S) == rm' \in Removals /\ rm'.pc \in S /\ rm'.gen = rm.gen
Locks ==
  /\ rm.pc = "inspected" /\ holder = "none"
  /\ \/ Exists /\ gen = rm.gen /\ Begun({"siblings"}) /\ holder' = "rm"
     \/ ~(Exists /\ gen = rm.gen) /\ Begun({"refused"}) /\ UNCHANGED holder
  /\ UNCHANGED <<disk, gen, saved, late, got, place, own, wr>>

Empties ==
  /\ rm.pc = "siblings" /\ Begun({"flat"}) /\ Emptied("outside")
  /\ UNCHANGED <<disk, gen, saved, late, got, holder, own, wr>>

\* RmStops, RmCrash
Quits ==
  /\ rm.pc \in Removing /\ Begun({"refused"}) /\ holder' = "none"
  /\ UNCHANGED <<disk, gen, saved, late, got, place, own, wr>>

Unmarks ==
  /\ rm.pc = "flat" /\ Begun({"rename"})
  /\ disk' \in Disks /\ ~disk'.flat /\ disk'.dir = disk.dir
  /\ UNCHANGED <<gen, saved, late, got, place, holder, own, wr>>

Buries ==
  /\ rm.pc = "rename" /\ Begun({"sweep"}) /\ Emptied("inside")
  /\ disk' \in Disks /\ disk'.flat = disk.flat /\ ~disk'.dir
  /\ UNCHANGED <<gen, saved, late, got, holder, own, wr>>

Sweeps ==
  /\ rm.pc = "sweep" /\ Begun({"removed"}) /\ Emptied("outside") /\ holder' = "none"
  /\ UNCHANGED <<disk, gen, saved, late, got, own, wr>>

LEMMA EmptiedIs ==
  ASSUME Typed, NEW p \in Places, place' = [place EXCEPT ![p] = None]
  PROVE  Emptied(p)
PROOF BY DEF Typed, Emptied

LEMMA PathIs ==
  /\ Path \in Places /\ {"inside", "outside"} = Places
  /\ Delivered # None => Delivered \in Places /\ place[Delivered] # None
PROOF BY DEF Path, Delivered, Other, Places

LEMMA StartsIs ==
  ASSUME Typed, NEW w \in Writers, WriterReads(w)
  PROVE  Starts(w)
<1>1. wr[w].pc = "idle" /\ OnlyWriters
  BY DEF WriterReads, runVars, OnlyWriters
<1>2. CASE Refuse(w)
  BY <1>1, <1>2, RefuseDoes DEF Starts
<1>3. ASSUME NEW ok \in BOOLEAN,
             wr' = [wr EXCEPT ![w] = [pc |-> "look", path |-> None,
                      env |-> [by |-> w, gen |-> gen, ok |-> ok, late |-> late]]]
      PROVE  Starts(w)
  <2> DEFINE e == [by |-> w, gen |-> gen, ok |-> ok, late |-> late]
  <2>1. e \in Envelopes /\ e.gen = gen
    BY DEF Typed, Envelopes
  <2> HIDE DEF e
  <2> DEFINE s == [pc |-> "look", path |-> None, env |-> e]
  <2>2. s \in Writing /\ s.pc = "look" /\ s.env = e
    BY <2>1 DEF Writing, WriterSteps
  <2>3. wr' = [wr EXCEPT ![w] = s]
    BY <1>3 DEF e
  <2> HIDE DEF s
  <2>4. Writes(w, {s.pc}) /\ wr'[w] = s
    BY <2>2, <2>3, WriterAnew
  <2> QED BY <1>1, <2>1, <2>2, <2>4 DEF Starts
<1> QED BY <1>2, <1>3 DEF WriterReads

LEMMA LooksIs ==
  ASSUME Typed, NEW w \in Writers, WriterLooks(w)
  PROVE  Proceeds(w)
<1>1. wr[w].pc = "look" /\ OnlyWriters
  BY DEF WriterLooks, runVars, OnlyWriters
<1>2. CASE Refuse(w)
  BY <1>1, <1>2, RefuseDoes DEF Proceeds
<1>3. CASE wr' = [wr EXCEPT ![w].path = Path, ![w].pc = "link"]
  <2>1. wr[w] \in Writing /\ Path \in Places
    BY PathIs DEF Typed
  <2> DEFINE r == [wr[w] EXCEPT !.path = Path]
             s == [r EXCEPT !.pc = "link"]
  <2>2. r \in Writing /\ r.path \in Places /\ r.env = wr[w].env
    BY <2>1 DEF Writing
  <2>3. s \in Writing /\ s.pc = "link" /\ s.path \in Places /\ s.env = wr[w].env
    BY <2>2 DEF Writing, WriterSteps
  <2>4. wr' = [wr EXCEPT ![w] = s]
    BY <1>3, <2>1 DEF Typed
  <2> HIDE DEF s
  <2>5. Writes(w, {s.pc}) /\ wr'[w] = s
    BY <2>3, <2>4, WriterAnew
  <2> QED BY <1>1, <2>3, <2>5 DEF Proceeds
<1> QED BY <1>2, <1>3 DEF WriterLooks

LEMMA LinksIs ==
  ASSUME Typed, Carried, NEW w \in Writers, WriterLinks(w)
  PROVE  Links(w) \/ Proceeds(w)
<1>1. wr[w].pc = "link" /\ UNCHANGED <<disk, gen, saved, late, got, holder, own, rm>>
      /\ wr[w].path \in Places /\ wr[w].env \in Envelopes
  BY DEF WriterLinks, runVars, Carried, Carrying
<1>2. CASE Refuse(w) /\ UNCHANGED place
  BY <1>1, <1>2, RefuseDoes DEF Proceeds, OnlyWriters
<1>3. CASE /\ place[wr[w].path] = None /\ wr' = [wr EXCEPT ![w].pc = "reread"]
           /\ place' = [place EXCEPT ![wr[w].path] = wr[w].env]
  <2>1. Writes(w, {"reread"}) /\ wr'[w].env = wr[w].env /\ wr'[w].path = wr[w].path
    BY <1>3, WriterStepsOnly DEF WriterSteps
  <2>2. /\ place' \in [Places -> Envelopes \cup {None}] /\ place'[wr[w].path] = wr[w].env
        /\ \A q \in Places \ {wr[w].path} : place'[q] = place[q]
    BY <1>1, <1>3 DEF Typed
  <2> QED BY <1>1, <1>3, <2>1, <2>2 DEF Links
<1> QED BY <1>2, <1>3 DEF WriterLinks, Publishes

LEMMA RereadsIs ==
  ASSUME Typed, NEW w \in Writers, WriterRereads(w)
  PROVE  Proceeds(w) \/ Retreats(w)
<1>1. wr[w].pc = "reread" /\ OnlyWriters
  BY DEF WriterRereads, runVars, OnlyWriters
<1>2. CASE StillThere(w) /\ wr' = [wr EXCEPT ![w].pc = "queued"]
  BY <1>1, <1>2, WriterStepsOnly DEF Proceeds, StillThere, WriterSteps
<1>3. CASE ~StillThere(w) /\ wr' = [wr EXCEPT ![w].pc = "claim"]
  BY <1>1, <1>3, WriterStepsOnly DEF Retreats, StillThere, WriterSteps
<1> QED BY <1>2, <1>3 DEF WriterRereads

LEMMA ClaimsIs ==
  ASSUME Typed, Carried, NEW w \in Writers, WriterClaims(w)
  PROVE  Claims(w)
<1> DEFINE caught == place[wr[w].path]
<1>1. wr[w].pc = "claim" /\ UNCHANGED <<disk, gen, saved, late, got, holder, own, rm>>
      /\ wr[w].path \in Places /\ wr[w].env \in Envelopes /\ caught \in Envelopes \cup {None}
  BY DEF WriterClaims, runVars, Carried, Carrying, Typed
<1>2. CASE Refuse(w) /\ UNCHANGED place /\ caught = None
  BY <1>1, <1>2, RefuseDoes DEF Claims
<1>3. CASE /\ caught # None /\ place' = [place EXCEPT ![wr[w].path] = None]
           /\ wr' = [wr EXCEPT ![w] = [pc |-> "examine", path |-> wr[w].path,
                                       env |-> [mine |-> wr[w].env, caught |-> caught]]]
  <2> DEFINE e == [mine |-> wr[w].env, caught |-> caught]
             s == [pc |-> "examine", path |-> wr[w].path, env |-> e]
  <2>1. e \in Findings /\ e.mine = wr[w].env /\ e.caught = caught
    BY <1>1, <1>3 DEF Findings
  <2>2. wr' = [wr EXCEPT ![w] = s]
    BY <1>3
  <2> HIDE DEF e
  <2>3. s \in Writing /\ s.pc = "examine" /\ s.path = wr[w].path /\ s.env = e
    BY <1>1, <2>1 DEF Writing, WriterSteps
  <2> HIDE DEF s
  <2>4. Writes(w, {s.pc}) /\ wr'[w] = s
    BY <2>2, <2>3, WriterAnew
  <2> QED BY <1>1, <1>3, <2>1, <2>3, <2>4, EmptiedIs DEF Claims
<1> QED BY <1>2, <1>3 DEF WriterClaims

LEMMA ExaminesIs ==
  ASSUME Typed, Carried, NEW w \in Writers, WriterExamines(w)
  PROVE  Examines(w)
<1> DEFINE mine == wr[w].env.mine
           caught == wr[w].env.caught
<1>1. /\ wr[w] \in Writing /\ wr[w].pc = "examine" /\ wr[w].path \in Places
      /\ mine \in Envelopes /\ caught \in Envelopes
      /\ UNCHANGED <<disk, gen, saved, late, got, holder, own, rm>>
  BY DEF WriterExamines, runVars, Carried, Findings, Typed
<1>2. Writes(w, {"refused"}) /\ wr'[w].env = mine
  <2> DEFINE r == [wr[w] EXCEPT !.pc = "refused"]
             q == [r EXCEPT !.path = None]
             s == [q EXCEPT !.env = mine]
  <2>1. wr' = [wr EXCEPT ![w] = s]
    BY <1>1 DEF WriterExamines, Typed
  <2> HIDE DEF mine
  <2>2. r \in Writing /\ r.pc = "refused"
    BY <1>1 DEF Writing, WriterSteps
  <2>3. q \in Writing /\ q.pc = "refused"
    BY <2>2 DEF Writing
  <2>4. s \in Writing /\ s.pc = "refused" /\ s.env = mine
    BY <1>1, <2>3 DEF Writing
  <2> HIDE DEF s
  <2>5. Writes(w, {s.pc}) /\ wr'[w] = s
    BY <2>1, <2>4, WriterAnew
  <2> QED BY <2>4, <2>5
<1>3. CASE UNCHANGED place
  BY <1>1, <1>2, <1>3 DEF Examines
<1>4. CASE ~Bound(caught, mine.gen) /\ place' = [place EXCEPT ![wr[w].path] = caught]
  <2>1. /\ place' \in [Places -> Envelopes \cup {None}] /\ place'[wr[w].path] = caught
        /\ \A q \in Places \ {wr[w].path} : place'[q] = place[q]
    BY <1>1, <1>4 DEF Typed
  <2> QED BY <1>1, <1>2, <1>4, <2>1 DEF Examines, Bound
<1> QED BY <1>3, <1>4 DEF WriterExamines

\* The steps of the owner between two awaits.
OwnerActs == Considers \/ Settles \/ Spots

LEMMA ReadActs ==
  ASSUME Typed, Asked, NEW here \in {"scan", "rescan"}, NEW next \in {"clock", "finish"},
         Read(here, next)
  PROVE  OwnerActs
<1>1. own.pc = here /\ here \in Judging \ {"saving", "reject"} /\ OnlyOwner
  BY DEF Read, Judging, runVars, OnlyOwner
<1>2. CASE Observed(next, own.result)
  <2>1. own.result \in {None, "last", "done", "not yet"} /\ next \in OwnerSteps
    BY DEF Typed, Owning, OwnerSteps
  <2>2. Moves({next})
    BY <1>2, <2>1, ObservedMoves
  <2> QED BY <1>1, <2>2 DEF OwnerActs, Considers, Moves
<1> DEFINE e == place[Delivered]
<1>3. CASE Delivered # None /\ Acceptable(e) /\ Decides("signal", e)
  <2>1. e \in Envelopes
    BY <1>3, PathIs DEF Typed
  <2> HIDE DEF e
  <2>2. /\ own' \in Owning /\ own'.pc = "saving" /\ own'.outcome \in Outcomes
        /\ own'.outcome.env = e
    BY <1>3, <2>1, DecidesDoes DEF Decided
  <2> QED BY <1>1, <1>3, <2>1, <2>2 DEF OwnerActs, Settles
<1>4. CASE /\ Delivered # None /\ ~Acceptable(e)
           /\ own' = [own EXCEPT !.pc = "reject", !.seen = Delivered, !.next = next]
  <2> DEFINE p == Delivered
  <2>1. p \in Places /\ place[p] # None /\ own \in Owning
    BY <1>4, PathIs DEF Typed
  <2>2. own.outcome = None
    BY <1>1 DEF Asked
  <2> HIDE DEF p
  <2> DEFINE r == [own EXCEPT !.pc = "reject"]
             q == [r EXCEPT !.seen = p]
             s == [q EXCEPT !.next = next]
  <2>3. r \in Owning /\ r.pc = "reject" /\ r.outcome = None
    BY <2>1, <2>2 DEF Owning, OwnerSteps
  <2>4. q \in Owning /\ q.pc = "reject" /\ q.outcome = None /\ q.seen = p
    BY <2>1, <2>3 DEF Owning
  <2>5. s \in Owning /\ s.pc = "reject" /\ s.outcome = None /\ s.seen = p /\ s.next = next
    BY <2>4 DEF Owning
  <2>6. own' = s
    BY <1>4 DEF p
  <2> HIDE DEF s
  <2>7. own'.seen = p /\ own'.next = next /\ own' \in Owning /\ Moves({"reject"})
    BY <2>5, <2>6 DEF Moves
  <2>8. place[p] # None /\ ~Acceptable(place[p])
    BY <1>4, <2>1 DEF p
  <2>9. ~Acceptable(place[own'.seen])
    BY <2>7, <2>8
  <2> QED BY <1>1, <2>1, <2>7, <2>8, <2>9 DEF OwnerActs, Spots
<1> QED BY <1>2, <1>3, <1>4 DEF Read

LEMMA ActsIs ==
  ASSUME Typed, Asked, Scan \/ Rescan \/ Clock \/ Observe \/ Finish \/ Pump
  PROVE  OwnerActs
<1>1. CASE Scan \/ Rescan
  BY <1>1, ReadActs DEF Scan, Rescan
<1> DEFINE Acting == own.pc \in Judging \ {"saving", "reject"} /\ OnlyOwner
<1>2. ASSUME Acting, NEW pc \in {"observing", "rescan"},
             NEW r \in {None, "last", "done", "not yet"}, Observed(pc, r)
      PROVE  OwnerActs
  <2>1. Moves({pc})
    BY <1>2, ObservedMoves DEF OwnerSteps
  <2> QED BY <1>2, <2>1 DEF OwnerActs, Considers, Moves
<1>3. ASSUME Acting, NEW pc \in {"idle", "scan", "failing"}, Goes(pc)
      PROVE  OwnerActs
  <2>1. Moves({pc})
    BY <1>3, GoesMoves DEF OwnerSteps
  <2> QED BY <1>3, <2>1 DEF OwnerActs, Considers, Moves
<1>4. ASSUME Acting, NEW by \in {"deadline", "poll"}, Decides(by, None)
      PROVE  OwnerActs
  BY <1>4, DecidesDoes DEF OwnerActs, Settles, Decided
<1>5. CASE Clock
  <2>1. Acting
    BY <1>5 DEF Clock, Judging, runVars, OnlyOwner
  <2> QED BY <1>2, <1>3, <1>4, <1>5, <2>1 DEF Clock
<1>6. CASE Observe
  <2>1. Acting
    BY <1>6 DEF Observe, Judging, runVars, OnlyOwner
  <2> QED BY <1>2, <1>3, <1>4, <1>6, <2>1 DEF Observe
<1>7. CASE Finish
  <2>1. Acting
    BY <1>7 DEF Finish, Judging, runVars, OnlyOwner
  <2> QED BY <1>3, <1>4, <1>7, <2>1 DEF Finish
<1>8. CASE Pump
  <2>1. Acting
    BY <1>8 DEF Pump, Judging, runVars, OnlyOwner
  <2> QED BY <1>3, <1>8, <2>1 DEF Pump
<1> QED BY <1>1, <1>5, <1>6, <1>7, <1>8

LEMMA RejectsIs ==
  ASSUME Typed, Asked, Reject
  PROVE  Rejects
<1>1. /\ own.pc = "reject" /\ UNCHANGED <<disk, gen, saved, late, got, holder, wr, rm>>
      /\ own.seen \in Places /\ own.next \in {"clock", "finish"}
  BY DEF Reject, runVars, Asked
<1>2. CASE Goes("failing") /\ UNCHANGED place
  BY <1>1, <1>2, GoesMoves DEF Rejects, Moves, OwnerSteps
<1>3. CASE Observed(own.next, own.result) /\ place' = [place EXCEPT ![own.seen] = None]
  <2>1. own.result \in {None, "last", "done", "not yet"} /\ own.next \in OwnerSteps
    BY <1>1 DEF Typed, Owning, OwnerSteps
  <2>2. Moves({own.next})
    BY <1>3, <2>1, ObservedMoves
  <2> QED BY <1>1, <1>3, <2>2, EmptiedIs DEF Rejects, Moves
<1> QED BY <1>2, <1>3 DEF Reject

LEMMA FaltersIs ==
  ASSUME Typed, SaveOutcomeFails
  PROVE  Falters
<1> DEFINE s == [own EXCEPT !.pc = "failing"]
<1>1. own \in Owning /\ own.pc = "saving" /\ OnlyOwner /\ own' = s
  BY DEF SaveOutcomeFails, Typed, runVars, OnlyOwner
<1>2. s \in Owning /\ s.pc = "failing" /\ s.outcome = own.outcome
  BY <1>1 DEF Owning, OwnerSteps
<1> HIDE DEF s
<1> QED BY <1>1, <1>2 DEF Falters

LEMMA OpensIs ==
  ASSUME Typed, OpenRun
  PROVE  Opens
<1>1. saved' \in Records /\ saved'.question = saved.question
  BY WithRun DEF OpenRun, Typed
<1>2. disk' \in Disks /\ disk'.flat = disk.flat /\ disk'.dir
  BY DEF OpenRun, Typed, Disks
<1>3. Moves({"register"})
  BY GoesMoves DEF OpenRun, OwnerSteps
<1> QED BY <1>1, <1>2, <1>3 DEF OpenRun, Opens

LEMMA BeginsIs ==
  ASSUME Typed, StartNew
  PROVE  Begins
<1>1. saved' \in Records /\ saved'.question.by = "none"
  <2> DEFINE q == Undecided("none")
  <2>1. q \in Questions /\ q.by = "none" /\ saved' = [run |-> "running", question |-> q]
    BY UndecidedIs DEF StartNew
  <2> HIDE DEF q
  <2> QED BY <2>1 DEF Records
<1>2. disk' \in Disks /\ disk'.dir
  BY DEF StartNew, Disks
<1>3. Moves({"register"})
  BY GoesMoves DEF StartNew, OwnerSteps
<1>4. gen' = gen + 1 /\ gen' \in Generations
  BY Numbers DEF StartNew, Typed, Generations
<1> QED BY <1>1, <1>2, <1>3, <1>4 DEF StartNew, Begins

LEMMA RegistersIs ==
  ASSUME Typed, Register
  PROVE  Registers
<1>1. own.pc = "register" /\ UNCHANGED <<disk, gen, late, place, holder, wr, rm>>
  BY DEF Register
<1>2. CASE saved.question.by \in Decided /\ got' = saved.question /\ Goes("done")
           /\ UNCHANGED saved
  BY <1>1, <1>2, GoesMoves DEF Registers, OwnerSteps, Typed
<1>3. CASE saved.question.by = "withdrawn" /\ Goes("failing") /\ UNCHANGED <<saved, got>>
  BY <1>1, <1>3, GoesMoves DEF Registers, OwnerSteps, Typed
<1>4. CASE /\ saved.question.by \in {"none", "waiting"} /\ Goes("scan") /\ UNCHANGED got
           /\ saved' = [saved EXCEPT !.question = Undecided("waiting")]
  <2>1. saved' \in Records /\ saved'.question.by = "waiting"
    BY <1>4, UndecidedIs, WithQuestion DEF Typed
  <2> QED BY <1>1, <1>4, <2>1, GoesMoves DEF Registers, OwnerSteps
<1> QED BY <1>2, <1>3, <1>4 DEF Register

LEMMA CompletesIs ==
  ASSUME Typed, Asked, SaveOutcome
  PROVE  Completes
<1>1. own.outcome \in Outcomes
  BY DEF SaveOutcome, Asked
<1>2. saved' \in Records /\ saved'.question = own.outcome
  BY <1>1, OutcomesAnswer, WithQuestion DEF SaveOutcome, Typed
<1> QED BY <1>2, GoesMoves DEF SaveOutcome, Completes, OwnerSteps

LEMMA StopsIs ==
  ASSUME Typed, Held, Asked, Suspend \/ EndWithout \/ FailRun \/ EndWith \/ OwnerCrash
  PROVE  Stops
<1> DEFINE Stay == /\ own.pc # "out" /\ Leaves
                   /\ UNCHANGED <<disk, gen, late, place, got, wr, rm>>
<1>1. ASSUME Stay, saved' \in Records,
             \/ saved'.question = saved.question
             \/ own.pc \in Judging /\ saved'.question.by = "withdrawn"
             \/ own.pc = "failing" /\ own.outcome # None /\ saved'.question = own.outcome
      PROVE  Stops
  BY <1>1, OutIs DEF Stops, Leaves, Moves
<1>2. ASSUME Stay, NEW run \in {"running", "suspended", "completed", "failed"},
             saved' = [saved EXCEPT !.run = run]
      PROVE  Stops
  <2>1. saved' \in Records /\ saved'.question = saved.question
    BY <1>2, WithRun DEF Typed
  <2> QED BY <1>1, <1>2, <2>1
<1>3. CASE Suspend
  BY <1>2, <1>3 DEF Suspend
<1>4. CASE EndWith
  BY <1>2, <1>4 DEF EndWith
<1>5. CASE OwnerCrash
  BY <1>1, <1>5 DEF OwnerCrash, runVars, Held, Typed
<1>6. CASE EndWithout
  <2>1. Stay /\ own.pc \in Judging
    BY <1>6 DEF EndWithout, Judging
  <2>2. PICK s \in {"completed", "failed"} :
          saved' = [saved EXCEPT !.run = s,
                      !.question = IF s = "completed" THEN Undecided("withdrawn") ELSE @]
    BY <1>6 DEF EndWithout
  <2> DEFINE q == IF s = "completed" THEN Undecided("withdrawn") ELSE saved.question
  <2>3. q \in Questions /\ (q = saved.question \/ q.by = "withdrawn")
    BY UndecidedIs DEF Typed, Records
  <2>4. saved' = [saved EXCEPT !.run = s, !.question = q]
    BY <2>2 DEF Typed, Records
  <2> HIDE DEF q
  <2>5. saved' \in Records /\ saved'.question = q
    <3>1. saved \in Records /\ s \in {"running", "suspended", "completed", "failed"}
      BY DEF Typed
    <3> QED BY <2>3, <2>4, <3>1 DEF Records
  <2> QED BY <1>1, <2>1, <2>3, <2>5
<1>7. CASE FailRun
  <2>1. Stay /\ own.pc = "failing"
    BY <1>7 DEF FailRun
  <2> DEFINE q == IF own.outcome # None THEN own.outcome ELSE saved.question
  <2>2. q \in Questions
    BY OutcomesAnswer DEF Typed, Owning, Records
  <2>3. saved' = [saved EXCEPT !.run = "failed", !.question = q]
    BY <1>7 DEF FailRun, Typed, Records
  <2>4. q = saved.question \/ (own.outcome # None /\ q = own.outcome)
    OBVIOUS
  <2> HIDE DEF q
  <2>5. saved' \in Records /\ saved'.question = q
    BY <2>2, <2>3, WithBoth DEF Typed
  <2> QED BY <1>1, <2>1, <2>4, <2>5
<1> QED BY <1>3, <1>4, <1>5, <1>6, <1>7

LEMMA RemovalIs ==
  ASSUME Typed, Held, RmInspects \/ RmLocks \/ RmSiblings \/ RmStops \/ RmFlat \/ RmRename
                      \/ RmSweep \/ RmCrash
  PROVE  Inspects \/ Locks \/ Empties \/ Quits \/ Unmarks \/ Buries \/ Sweeps
<1>1. ASSUME NEW pc \in RemovalSteps, RmGoes(pc)
      PROVE  Begun({pc})
  BY <1>1, RemovalFields DEF RmGoes, Typed, Begun
<1>2. {"siblings", "flat", "rename", "sweep", "removed", "refused"} \subseteq RemovalSteps
  BY DEF RemovalSteps
<1>3. CASE RmInspects
  BY <1>3, Numbers DEF RmInspects, runVars, Inspects, Typed, Removals, RemovalSteps, Generations
<1>4. CASE RmLocks
  BY <1>1, <1>2, <1>4 DEF RmLocks, runVars, Locks
<1>5. CASE RmSiblings
  BY <1>1, <1>2, <1>5, EmptiedIs, PathIs DEF RmSiblings, SweepOutside, runVars, Empties
<1>6. CASE RmStops
  BY <1>1, <1>2, <1>6 DEF RmStops, runVars, Quits, Removing
<1>7. CASE RmFlat
  <2>1. disk' \in Disks /\ ~disk'.flat /\ disk'.dir = disk.dir
    BY <1>7 DEF RmFlat, Typed, Disks
  <2> QED BY <1>1, <1>2, <1>7, <2>1 DEF RmFlat, Unmarks
<1>8. CASE RmRename
  <2>1. disk' \in Disks /\ disk'.flat = disk.flat /\ ~disk'.dir
    BY <1>8 DEF RmRename, Typed, Disks
  <2> QED BY <1>1, <1>2, <1>8, <2>1, EmptiedIs, PathIs DEF RmRename, Buries
<1>9. CASE RmSweep
  BY <1>1, <1>2, <1>9, EmptiedIs, PathIs DEF RmSweep, SweepOutside, runVars, Sweeps
<1>10. CASE RmCrash
  BY <1>1, <1>2, <1>10 DEF RmCrash, runVars, Quits, Held
<1> QED BY <1>3, <1>4, <1>5, <1>6, <1>7, <1>8, <1>9, <1>10

LEMMA PassesIs ==
  ASSUME DeadlinePasses
  PROVE  Passes
PROOF BY DEF DeadlinePasses, Passes

-----------------------------------------------------------------------------
(* The invariant is inductive: a step is of one of these kinds, and each   *)
(* kind keeps every part.                                                  *)

WriterKinds(w) ==
  \/ Starts(w) \/ Proceeds(w) \/ Links(w) \/ Retreats(w) \/ Claims(w) \/ Examines(w)
OwnerKinds ==
  \/ Considers \/ Settles \/ Spots \/ Rejects \/ Falters \/ Opens \/ Begins \/ Registers
  \/ Completes \/ Stops
RemovalKinds ==
  \/ Inspects \/ Locks \/ Empties \/ Quits \/ Unmarks \/ Buries \/ Sweeps
Kinds == (\E w \in Writers : WriterKinds(w)) \/ OwnerKinds \/ RemovalKinds \/ Passes

LEMMA EveryStepHasAKind ==
  ASSUME Typed, Held, Carried, Asked, Next
  PROVE  Kinds
<1>1. ASSUME NEW w \in Writers, WriterStep(w)
      PROVE  WriterKinds(w)
  BY <1>1, StartsIs, LooksIs, LinksIs, RereadsIs, ClaimsIs, ExaminesIs DEF WriterStep, WriterKinds
<1>2. CASE OwnerStep
  BY <1>2, ActsIs, RejectsIs, RegistersIs, CompletesIs, StopsIs
     DEF OwnerStep, OwnerKinds, OwnerActs, Kinds
<1>3. CASE OpenRun \/ StartNew \/ SaveOutcomeFails \/ Suspend \/ EndWithout \/ OwnerCrash
  BY <1>3, OpensIs, BeginsIs, FaltersIs, StopsIs DEF OwnerKinds, Kinds
<1>4. CASE RemovalStep \/ RmInspects \/ RmStops \/ RmCrash
  BY <1>4, RemovalIs DEF RemovalStep, RemovalKinds, Kinds
<1>5. CASE DeadlinePasses
  BY <1>5, PassesIs DEF Kinds
<1> QED BY <1>1, <1>2, <1>3, <1>4, <1>5 DEF Next, Kinds

\* Whatever bounds the faults stays within its bound.
LEMMA BoundedKept ==
  ASSUME Bounded, Next
  PROVE  Bounded'
<1>1. faults' = faults \/ (faults < MaxFaults /\ faults' = faults + 1)
  BY DEF Next, WriterStep, WriterReads, WriterLooks, WriterLinks, WriterRereads, WriterClaims,
     WriterExamines, OwnerStep, Register, Scan, Rescan, Read, Reject, Clock, Observe, Finish,
     SaveOutcome, FailRun, EndWith, Pump, OpenRun, StartNew, SaveOutcomeFails, Suspend,
     EndWithout, OwnerCrash, DeadlinePasses, RemovalStep, RmLocks, RmSiblings, RmFlat,
     RmRename, RmSweep, RmInspects, RmStops, RmCrash
<1> QED BY <1>1, Numbers DEF Bounded

\* The types.
LEMMA TypedKept ==
  ASSUME InboxInv, Kinds
  PROVE  Typed'
<1>1. ASSUME NEW w \in Writers, WriterKinds(w)
      PROVE  Typed'
  <2>1. CASE Starts(w)
    BY <2>1 DEF InboxInv, Typed, Starts, Writes, OnlyWriters
  <2>2. CASE Proceeds(w)
    BY <2>2 DEF InboxInv, Typed, Proceeds, Writes, OnlyWriters, Exists
  <2>3. CASE Links(w)
    BY <2>3 DEF InboxInv, Typed, Links, Writes
  <2>4. CASE Retreats(w)
    BY <2>4 DEF InboxInv, Typed, Retreats, Writes, OnlyWriters, Exists
  <2>5. CASE Claims(w)
    BY <2>5 DEF InboxInv, Typed, Claims, Writes, Emptied
  <2>6. CASE Examines(w)
    BY <2>6 DEF InboxInv, Typed, Examines, Writes
  <2> QED BY <1>1, <2>1, <2>2, <2>3, <2>4, <2>5, <2>6 DEF WriterKinds
<1>2. CASE OwnerKinds
  <2>1. CASE Considers
    BY <2>1 DEF InboxInv, Typed, Considers, Moves, OnlyOwner
  <2>2. CASE Settles
    BY <2>2 DEF InboxInv, Typed, Settles, OnlyOwner
  <2>3. CASE Spots
    BY <2>3 DEF InboxInv, Typed, Spots, Moves, OnlyOwner
  <2>4. CASE Rejects
    BY <2>4 DEF InboxInv, Typed, Rejects, Moves, Emptied
  <2>5. CASE Falters
    BY <2>5 DEF InboxInv, Typed, Falters, OnlyOwner
  <2>6. CASE Opens
    BY <2>6 DEF InboxInv, Typed, Opens, Moves, Exists
  <2>7. CASE Begins
    BY <2>7 DEF InboxInv, Typed, Begins, Moves, Exists
  <2>8. CASE Registers
    BY <2>8, DecidedIs DEF InboxInv, Typed, Registers, Moves, Records
  <2>9. CASE Completes
    BY <2>9 DEF InboxInv, Typed, Completes, Moves, Asked
  <2>10. CASE Stops
    BY <2>10 DEF InboxInv, Typed, Stops, Moves
  <2> QED BY <1>2, <2>1, <2>2, <2>3, <2>4, <2>5, <2>6, <2>7, <2>8, <2>9, <2>10 DEF OwnerKinds
<1>3. CASE RemovalKinds
  <2>1. CASE Inspects
    BY <2>1 DEF InboxInv, Typed, Inspects, Exists
  <2>2. CASE Locks
    BY <2>2 DEF InboxInv, Typed, Locks, Begun, Exists
  <2>3. CASE Empties
    BY <2>3 DEF InboxInv, Typed, Empties, Emptied, Begun
  <2>4. CASE Quits
    BY <2>4 DEF InboxInv, Typed, Quits, Begun
  <2>5. CASE Unmarks
    BY <2>5 DEF InboxInv, Typed, Unmarks, Begun
  <2>6. CASE Buries
    BY <2>6 DEF InboxInv, Typed, Buries, Emptied, Begun
  <2>7. CASE Sweeps
    BY <2>7 DEF InboxInv, Typed, Sweeps, Emptied, Begun
  <2> QED BY <1>3, <2>1, <2>2, <2>3, <2>4, <2>5, <2>6, <2>7 DEF RemovalKinds
<1>4. CASE Passes
  BY <1>4 DEF InboxInv, Typed, Passes
<1> QED BY <1>1, <1>2, <1>3, <1>4 DEF Kinds

\* The lock: who opens takes it, who leaves drops it.
LEMMA HeldKept ==
  ASSUME InboxInv, Kinds
  PROVE  Held'
<1>1. ASSUME NEW w \in Writers, WriterKinds(w)
      PROVE  Held'
  <2>1. CASE Starts(w)
    BY <2>1 DEF InboxInv, Held, Starts, Writes, OnlyWriters, Removing, Typed
  <2>2. CASE Proceeds(w)
    BY <2>2 DEF InboxInv, Held, Proceeds, Writes, OnlyWriters, Exists, Removing, Typed
  <2>3. CASE Links(w)
    BY <2>3 DEF InboxInv, Held, Links, Writes, Removing, Typed
  <2>4. CASE Retreats(w)
    BY <2>4 DEF InboxInv, Held, Retreats, Writes, OnlyWriters, Exists, Removing, Typed
  <2>5. CASE Claims(w)
    BY <2>5 DEF InboxInv, Held, Claims, Writes, Emptied, Removing, Typed
  <2>6. CASE Examines(w)
    BY <2>6 DEF InboxInv, Held, Examines, Writes, Removing, Typed
  <2> QED BY <1>1, <2>1, <2>2, <2>3, <2>4, <2>5, <2>6 DEF WriterKinds
<1>2. CASE OwnerKinds
  <2>1. CASE Considers
    BY <2>1 DEF InboxInv, Held, Considers, Moves, OnlyOwner, Removing, Judging, Typed
  <2>2. CASE Settles
    BY <2>2 DEF InboxInv, Held, Settles, OnlyOwner, Removing, Judging, Typed
  <2>3. CASE Spots
    BY <2>3 DEF InboxInv, Held, Spots, Moves, OnlyOwner, Removing, Judging, Typed
  <2>4. CASE Rejects
    BY <2>4 DEF InboxInv, Held, Rejects, Moves, Emptied, Removing, Typed
  <2>5. CASE Falters
    BY <2>5 DEF InboxInv, Held, Falters, OnlyOwner, Removing, Typed
  <2>6. CASE Opens
    BY <2>6 DEF InboxInv, Held, Opens, Moves, Exists, Removing, Typed
  <2>7. CASE Begins
    BY <2>7 DEF InboxInv, Held, Begins, Moves, Exists, Removing, Typed
  <2>8. CASE Registers
    BY <2>8 DEF InboxInv, Held, Registers, Moves, Removing, Typed
  <2>9. CASE Completes
    BY <2>9 DEF InboxInv, Held, Completes, Moves, Removing, Typed
  <2>10. CASE Stops
    BY <2>10 DEF InboxInv, Held, Stops, Moves, Removing, Judging, Typed
  <2> QED BY <1>2, <2>1, <2>2, <2>3, <2>4, <2>5, <2>6, <2>7, <2>8, <2>9, <2>10 DEF OwnerKinds
<1>3. CASE RemovalKinds
  <2>1. CASE Inspects
    BY <2>1 DEF InboxInv, Held, Inspects, Exists, Removing, Typed
  <2>2. CASE Locks
    BY <2>2 DEF InboxInv, Held, Locks, Begun, Exists, Removing, Typed
  <2>3. CASE Empties
    BY <2>3 DEF InboxInv, Held, Empties, Emptied, Begun, Removing, Typed
  <2>4. CASE Quits
    BY <2>4 DEF InboxInv, Held, Quits, Begun, Removing, Typed
  <2>5. CASE Unmarks
    BY <2>5 DEF InboxInv, Held, Unmarks, Begun, Removing, Typed
  <2>6. CASE Buries
    BY <2>6 DEF InboxInv, Held, Buries, Emptied, Begun, Removing, Typed
  <2>7. CASE Sweeps
    BY <2>7 DEF InboxInv, Held, Sweeps, Emptied, Begun, Removing, Typed
  <2> QED BY <1>3, <2>1, <2>2, <2>3, <2>4, <2>5, <2>6, <2>7 DEF RemovalKinds
<1>4. CASE Passes
  BY <1>4 DEF InboxInv, Held, Passes, Removing, Typed
<1> QED BY <1>1, <1>2, <1>3, <1>4 DEF Kinds

\* What a writer carries fits where it is.
LEMMA CarriedKept ==
  ASSUME InboxInv, Kinds
  PROVE  Carried'
<1>1. ASSUME NEW w \in Writers, WriterKinds(w)
      PROVE  Carried'
  <2>1. CASE Starts(w)
    BY <2>1, NobodyWrote DEF InboxInv, Carried, Starts, Writes, OnlyWriters, Carrying
  <2>2. CASE Proceeds(w)
    BY <2>2, NobodyWrote DEF InboxInv, Carried, Proceeds, Writes, OnlyWriters, Exists, Carrying
  <2>3. CASE Links(w)
    BY <2>3, NobodyWrote DEF InboxInv, Carried, Links, Writes, Carrying
  <2>4. CASE Retreats(w)
    BY <2>4, NobodyWrote DEF InboxInv, Carried, Retreats, Writes, OnlyWriters, Exists, Carrying
  <2>5. CASE Claims(w)
    BY <2>5, NobodyWrote DEF InboxInv, Carried, Claims, Writes, Emptied, Carrying
  <2>6. CASE Examines(w)
    BY <2>6, NobodyWrote DEF InboxInv, Carried, Examines, Writes, Carrying, Findings
  <2> QED BY <1>1, <2>1, <2>2, <2>3, <2>4, <2>5, <2>6 DEF WriterKinds
<1>2. CASE OwnerKinds
  <2>1. CASE Considers
    BY <2>1, NobodyWrote DEF InboxInv, Carried, Considers, Moves, OnlyOwner, Carrying
  <2>2. CASE Settles
    BY <2>2, NobodyWrote DEF InboxInv, Carried, Settles, OnlyOwner, Carrying
  <2>3. CASE Spots
    BY <2>3, NobodyWrote DEF InboxInv, Carried, Spots, Moves, OnlyOwner, Carrying
  <2>4. CASE Rejects
    BY <2>4, NobodyWrote DEF InboxInv, Carried, Rejects, Moves, Emptied, Carrying
  <2>5. CASE Falters
    BY <2>5, NobodyWrote DEF InboxInv, Carried, Falters, OnlyOwner, Carrying
  <2>6. CASE Opens
    BY <2>6, NobodyWrote DEF InboxInv, Carried, Opens, Moves, Exists, Carrying
  <2>7. CASE Begins
    BY <2>7, NobodyWrote DEF InboxInv, Carried, Begins, Moves, Exists, Carrying
  <2>8. CASE Registers
    BY <2>8, NobodyWrote DEF InboxInv, Carried, Registers, Moves, Carrying
  <2>9. CASE Completes
    BY <2>9, NobodyWrote DEF InboxInv, Carried, Completes, Moves, Carrying
  <2>10. CASE Stops
    BY <2>10, NobodyWrote DEF InboxInv, Carried, Stops, Moves, Carrying
  <2> QED BY <1>2, <2>1, <2>2, <2>3, <2>4, <2>5, <2>6, <2>7, <2>8, <2>9, <2>10 DEF OwnerKinds
<1>3. CASE RemovalKinds
  <2>1. CASE Inspects
    BY <2>1, NobodyWrote DEF InboxInv, Carried, Inspects, Exists, Carrying
  <2>2. CASE Locks
    BY <2>2, NobodyWrote DEF InboxInv, Carried, Locks, Begun, Exists, Carrying
  <2>3. CASE Empties
    BY <2>3, NobodyWrote DEF InboxInv, Carried, Empties, Emptied, Begun, Carrying
  <2>4. CASE Quits
    BY <2>4, NobodyWrote DEF InboxInv, Carried, Quits, Begun, Carrying
  <2>5. CASE Unmarks
    BY <2>5, NobodyWrote DEF InboxInv, Carried, Unmarks, Begun, Carrying
  <2>6. CASE Buries
    BY <2>6, NobodyWrote DEF InboxInv, Carried, Buries, Emptied, Begun, Carrying
  <2>7. CASE Sweeps
    BY <2>7, NobodyWrote DEF InboxInv, Carried, Sweeps, Emptied, Begun, Carrying
  <2> QED BY <1>3, <2>1, <2>2, <2>3, <2>4, <2>5, <2>6, <2>7 DEF RemovalKinds
<1>4. CASE Passes
  BY <1>4, NobodyWrote DEF InboxInv, Carried, Passes, Carrying
<1> QED BY <1>1, <1>2, <1>3, <1>4 DEF Kinds

\* Deliveries are of generations that were.
LEMMA DatedKept ==
  ASSUME InboxInv, Kinds
  PROVE  Dated'
<1>1. ASSUME NEW w \in Writers, WriterKinds(w)
      PROVE  Dated'
  <2>1. CASE Starts(w)
    BY <2>1, Numbers, NobodyWrote DEF InboxInv, Dated, Starts, Writes, OnlyWriters, Born, Typed,
       Carried, Carrying, Generations, Findings
  <2>2. CASE Proceeds(w)
    BY <2>2, Numbers, NobodyWrote DEF InboxInv, Dated, Proceeds, Writes, OnlyWriters, Exists,
       Born, Typed, Carried, Carrying, Generations, Findings
  <2>3. CASE Links(w)
    BY <2>3, Numbers, NobodyWrote DEF InboxInv, Dated, Links, Writes, Born, Typed, Carried,
       Carrying, Generations, Findings
  <2>4. CASE Retreats(w)
    BY <2>4, Numbers, NobodyWrote DEF InboxInv, Dated, Retreats, Writes, OnlyWriters, Exists,
       Born, Typed, Carried, Carrying, Generations, Findings
  <2>5. CASE Claims(w)
    BY <2>5, Numbers, NobodyWrote DEF InboxInv, Dated, Claims, Writes, Emptied, Born, Typed,
       Carried, Carrying, Generations, Findings
  <2>6. CASE Examines(w)
    BY <2>6, Numbers, NobodyWrote DEF InboxInv, Dated, Examines, Writes, Born, Typed, Carried,
       Carrying, Generations, Findings
  <2> QED BY <1>1, <2>1, <2>2, <2>3, <2>4, <2>5, <2>6 DEF WriterKinds
<1>2. CASE OwnerKinds
  <2>1. CASE Considers
    BY <2>1, Numbers, NobodyWrote DEF InboxInv, Dated, Considers, Moves, OnlyOwner, Born, Typed,
       Carried, Carrying, Generations, Findings
  <2>2. CASE Settles
    BY <2>2, Numbers, NobodyWrote DEF InboxInv, Dated, Settles, OnlyOwner, Born, Typed, Carried,
       Carrying, Generations, Findings
  <2>3. CASE Spots
    BY <2>3, Numbers, NobodyWrote DEF InboxInv, Dated, Spots, Moves, OnlyOwner, Born, Typed,
       Carried, Carrying, Generations, Findings
  <2>4. CASE Rejects
    BY <2>4, Numbers, NobodyWrote DEF InboxInv, Dated, Rejects, Moves, Emptied, Born, Typed,
       Carried, Carrying, Generations, Findings
  <2>5. CASE Falters
    BY <2>5, Numbers, NobodyWrote DEF InboxInv, Dated, Falters, OnlyOwner, Born, Typed, Carried,
       Carrying, Generations, Findings
  <2>6. CASE Opens
    BY <2>6, Numbers, NobodyWrote DEF InboxInv, Dated, Opens, Moves, Exists, Born, Typed,
       Carried, Carrying, Generations, Findings
  <2>7. CASE Begins
    <3>1. \A e \in Envelopes : e.gen <= gen => e.gen <= gen'
      BY <2>7 DEF InboxInv, Typed, Generations, Begins, Envelopes
    <3>2. \A p \in Places : place[p] # None => place[p] \in Envelopes
      BY DEF InboxInv, Typed
    <3>3. \A w \in Writers : wr[w].pc = "examine" =>
            wr[w].env.mine \in Envelopes /\ wr[w].env.caught \in Envelopes
      BY DEF InboxInv, Carried, Findings
    <3>4. UNCHANGED <<place, wr>>
      BY <2>7 DEF Begins
    <3>5. \A p \in Places : place'[p] # None => place'[p].gen <= gen'
      BY <3>1, <3>2, <3>4 DEF InboxInv, Dated, Born
    <3>6. ASSUME NEW w \in Writers, wr[w].pc # "examine", wr[w].env # None
          PROVE  wr[w].env.gen <= gen'
      <4>1. wr[w].env \in Envelopes
        BY <3>6 DEF InboxInv, Typed, Writing, WriterSteps, Carried, Carrying
      <4>2. wr[w].env.gen <= gen
        BY <3>6 DEF InboxInv, Dated, Born
      <4> QED BY <3>1, <4>1, <4>2
    <3>7. ASSUME NEW w \in Writers, wr[w].pc = "examine"
          PROVE  wr[w].env.mine.gen <= gen' /\ wr[w].env.caught.gen <= gen'
      BY <3>1, <3>3, <3>7 DEF InboxInv, Dated, Born
    <3> QED BY <3>4, <3>5, <3>6, <3>7 DEF Dated, Born
  <2>8. CASE Registers
    BY <2>8, Numbers, NobodyWrote DEF InboxInv, Dated, Registers, Moves, Born, Typed, Carried,
       Carrying, Generations, Findings
  <2>9. CASE Completes
    BY <2>9, Numbers, NobodyWrote DEF InboxInv, Dated, Completes, Moves, Born, Typed, Carried,
       Carrying, Generations, Findings
  <2>10. CASE Stops
    BY <2>10, Numbers, NobodyWrote DEF InboxInv, Dated, Stops, Moves, Born, Typed, Carried,
       Carrying, Generations, Findings
  <2> QED BY <1>2, <2>1, <2>2, <2>3, <2>4, <2>5, <2>6, <2>7, <2>8, <2>9, <2>10 DEF OwnerKinds
<1>3. CASE RemovalKinds
  <2>1. CASE Inspects
    BY <2>1, Numbers, NobodyWrote DEF InboxInv, Dated, Inspects, Exists, Born, Typed, Carried,
       Carrying, Generations, Findings
  <2>2. CASE Locks
    BY <2>2, Numbers, NobodyWrote DEF InboxInv, Dated, Locks, Begun, Exists, Born, Typed,
       Carried, Carrying, Generations, Findings
  <2>3. CASE Empties
    BY <2>3, Numbers, NobodyWrote DEF InboxInv, Dated, Empties, Emptied, Begun, Born, Typed,
       Carried, Carrying, Generations, Findings
  <2>4. CASE Quits
    BY <2>4, Numbers, NobodyWrote DEF InboxInv, Dated, Quits, Begun, Born, Typed, Carried,
       Carrying, Generations, Findings
  <2>5. CASE Unmarks
    BY <2>5, Numbers, NobodyWrote DEF InboxInv, Dated, Unmarks, Begun, Born, Typed, Carried,
       Carrying, Generations, Findings
  <2>6. CASE Buries
    BY <2>6, Numbers, NobodyWrote DEF InboxInv, Dated, Buries, Emptied, Begun, Born, Typed,
       Carried, Carrying, Generations, Findings
  <2>7. CASE Sweeps
    BY <2>7, Numbers, NobodyWrote DEF InboxInv, Dated, Sweeps, Emptied, Begun, Born, Typed,
       Carried, Carrying, Generations, Findings
  <2> QED BY <1>3, <2>1, <2>2, <2>3, <2>4, <2>5, <2>6, <2>7 DEF RemovalKinds
<1>4. CASE Passes
  BY <1>4, Numbers, NobodyWrote DEF InboxInv, Dated, Passes, Born, Typed, Carried, Carrying,
     Generations, Findings
<1> QED BY <1>1, <1>2, <1>3, <1>4 DEF Kinds

\* A run goes through its removal only, and the next comes after it.
LEMMA NumberedKept ==
  ASSUME InboxInv, Kinds
  PROVE  Numbered'
<1>1. ASSUME NEW w \in Writers, WriterKinds(w)
      PROVE  Numbered'
  <2>1. CASE Starts(w)
    BY <2>1, Numbers DEF InboxInv, Numbered, Starts, Writes, OnlyWriters, Exists, Removing,
       Typed, Held, Disks, Removals, Generations
  <2>2. CASE Proceeds(w)
    BY <2>2, Numbers DEF InboxInv, Numbered, Proceeds, Writes, OnlyWriters, Exists, Removing,
       Typed, Held, Disks, Removals, Generations
  <2>3. CASE Links(w)
    BY <2>3, Numbers DEF InboxInv, Numbered, Links, Writes, Exists, Removing, Typed, Held,
       Disks, Removals, Generations
  <2>4. CASE Retreats(w)
    BY <2>4, Numbers DEF InboxInv, Numbered, Retreats, Writes, OnlyWriters, Exists, Removing,
       Typed, Held, Disks, Removals, Generations
  <2>5. CASE Claims(w)
    BY <2>5, Numbers DEF InboxInv, Numbered, Claims, Writes, Emptied, Exists, Removing, Typed,
       Held, Disks, Removals, Generations
  <2>6. CASE Examines(w)
    BY <2>6, Numbers DEF InboxInv, Numbered, Examines, Writes, Exists, Removing, Typed, Held,
       Disks, Removals, Generations
  <2> QED BY <1>1, <2>1, <2>2, <2>3, <2>4, <2>5, <2>6 DEF WriterKinds
<1>2. CASE OwnerKinds
  <2>1. CASE Considers
    BY <2>1, Numbers DEF InboxInv, Numbered, Considers, Moves, OnlyOwner, Exists, Removing,
       Typed, Held, Disks, Removals, Generations
  <2>2. CASE Settles
    BY <2>2, Numbers DEF InboxInv, Numbered, Settles, OnlyOwner, Exists, Removing, Typed, Held,
       Disks, Removals, Generations
  <2>3. CASE Spots
    BY <2>3, Numbers DEF InboxInv, Numbered, Spots, Moves, OnlyOwner, Exists, Removing, Typed,
       Held, Disks, Removals, Generations
  <2>4. CASE Rejects
    BY <2>4, Numbers DEF InboxInv, Numbered, Rejects, Moves, Emptied, Exists, Removing, Typed,
       Held, Disks, Removals, Generations
  <2>5. CASE Falters
    BY <2>5, Numbers DEF InboxInv, Numbered, Falters, OnlyOwner, Exists, Removing, Typed, Held,
       Disks, Removals, Generations
  <2>6. CASE Opens
    BY <2>6, Numbers DEF InboxInv, Numbered, Opens, Moves, Exists, Removing, Typed, Held, Disks,
       Removals, Generations
  <2>7. CASE Begins
    BY <2>7, Numbers DEF InboxInv, Numbered, Begins, Moves, Exists, Removing, Typed, Held,
       Disks, Removals, Generations
  <2>8. CASE Registers
    BY <2>8, Numbers DEF InboxInv, Numbered, Registers, Moves, Exists, Removing, Typed, Held,
       Disks, Removals, Generations
  <2>9. CASE Completes
    BY <2>9, Numbers DEF InboxInv, Numbered, Completes, Moves, Exists, Removing, Typed, Held,
       Disks, Removals, Generations
  <2>10. CASE Stops
    BY <2>10, Numbers DEF InboxInv, Numbered, Stops, Moves, Exists, Removing, Typed, Held,
       Disks, Removals, Generations
  <2> QED BY <1>2, <2>1, <2>2, <2>3, <2>4, <2>5, <2>6, <2>7, <2>8, <2>9, <2>10 DEF OwnerKinds
<1>3. CASE RemovalKinds
  <2>1. CASE Inspects
    BY <2>1, Numbers DEF InboxInv, Numbered, Inspects, Exists, Removing, Typed, Held, Disks,
       Removals, Generations
  <2>2. CASE Locks
    BY <2>2, Numbers DEF InboxInv, Numbered, Locks, Begun, Exists, Removing, Typed, Held, Disks,
       Removals, Generations
  <2>3. CASE Empties
    BY <2>3, Numbers DEF InboxInv, Numbered, Empties, Emptied, Begun, Exists, Removing, Typed,
       Held, Disks, Removals, Generations
  <2>4. CASE Quits
    BY <2>4, Numbers DEF InboxInv, Numbered, Quits, Begun, Exists, Removing, Typed, Held, Disks,
       Removals, Generations
  <2>5. CASE Unmarks
    BY <2>5, Numbers DEF InboxInv, Numbered, Unmarks, Begun, Exists, Removing, Typed, Held,
       Disks, Removals, Generations
  <2>6. CASE Buries
    BY <2>6, Numbers DEF InboxInv, Numbered, Buries, Emptied, Begun, Exists, Removing, Typed,
       Held, Disks, Removals, Generations
  <2>7. CASE Sweeps
    BY <2>7, Numbers DEF InboxInv, Numbered, Sweeps, Emptied, Begun, Exists, Removing, Typed,
       Held, Disks, Removals, Generations
  <2> QED BY <1>3, <2>1, <2>2, <2>3, <2>4, <2>5, <2>6, <2>7 DEF RemovalKinds
<1>4. CASE Passes
  BY <1>4, Numbers DEF InboxInv, Numbered, Passes, Exists, Removing, Typed, Held, Disks,
     Removals, Generations
<1> QED BY <1>1, <1>2, <1>3, <1>4 DEF Kinds

\* The owner works at a waiting question, and loses its outcome when it stops.
LEMMA AskedKept ==
  ASSUME InboxInv, Kinds
  PROVE  Asked'
<1>1. ASSUME NEW w \in Writers, WriterKinds(w)
      PROVE  Asked'
  <2>1. CASE Starts(w)
    BY <2>1 DEF InboxInv, Asked, Starts, Writes, OnlyWriters, Judging, Decided, Typed, Owning,
       Waiting, Held
  <2>2. CASE Proceeds(w)
    BY <2>2 DEF InboxInv, Asked, Proceeds, Writes, OnlyWriters, Exists, Judging, Decided, Typed,
       Owning, Waiting, Held
  <2>3. CASE Links(w)
    BY <2>3 DEF InboxInv, Asked, Links, Writes, Judging, Decided, Typed, Owning, Waiting, Held
  <2>4. CASE Retreats(w)
    BY <2>4 DEF InboxInv, Asked, Retreats, Writes, OnlyWriters, Exists, Judging, Decided, Typed,
       Owning, Waiting, Held
  <2>5. CASE Claims(w)
    BY <2>5 DEF InboxInv, Asked, Claims, Writes, Emptied, Judging, Decided, Typed, Owning,
       Waiting, Held
  <2>6. CASE Examines(w)
    BY <2>6 DEF InboxInv, Asked, Examines, Writes, Judging, Decided, Typed, Owning, Waiting, Held
  <2> QED BY <1>1, <2>1, <2>2, <2>3, <2>4, <2>5, <2>6 DEF WriterKinds
<1>2. CASE OwnerKinds
  <2>1. CASE Considers
    BY <2>1 DEF InboxInv, Asked, Considers, Moves, OnlyOwner, Judging, Decided, Typed, Owning,
       Waiting, Held
  <2>2. CASE Settles
    BY <2>2 DEF InboxInv, Asked, Settles, OnlyOwner, Judging, Decided, Typed, Owning, Waiting,
       Held
  <2>3. CASE Spots
    BY <2>3 DEF InboxInv, Asked, Spots, Moves, OnlyOwner, Judging, Decided, Typed, Owning,
       Waiting, Held
  <2>4. CASE Rejects
    BY <2>4 DEF InboxInv, Asked, Rejects, Moves, Emptied, Judging, Decided, Typed, Owning,
       Waiting, Held
  <2>5. CASE Falters
    BY <2>5 DEF InboxInv, Asked, Falters, OnlyOwner, Judging, Decided, Typed, Owning, Waiting,
       Held
  <2>6. CASE Opens
    BY <2>6 DEF InboxInv, Asked, Opens, Moves, Exists, Judging, Decided, Typed, Owning, Waiting,
       Held
  <2>7. CASE Begins
    BY <2>7 DEF InboxInv, Asked, Begins, Moves, Exists, Judging, Decided, Typed, Owning,
       Waiting, Held
  <2>8. CASE Registers
    BY <2>8 DEF InboxInv, Asked, Registers, Moves, Judging, Decided, Typed, Owning, Waiting, Held
  <2>9. CASE Completes
    BY <2>9 DEF InboxInv, Asked, Completes, Moves, Judging, Decided, Typed, Owning, Waiting, Held
  <2>10. CASE Stops
    BY <2>10 DEF InboxInv, Asked, Stops, Moves, Judging, Decided, Typed, Owning, Waiting, Held
  <2> QED BY <1>2, <2>1, <2>2, <2>3, <2>4, <2>5, <2>6, <2>7, <2>8, <2>9, <2>10 DEF OwnerKinds
<1>3. CASE RemovalKinds
  <2>1. CASE Inspects
    BY <2>1 DEF InboxInv, Asked, Inspects, Exists, Judging, Decided, Typed, Owning, Waiting, Held
  <2>2. CASE Locks
    BY <2>2 DEF InboxInv, Asked, Locks, Begun, Exists, Judging, Decided, Typed, Owning, Waiting,
       Held
  <2>3. CASE Empties
    BY <2>3 DEF InboxInv, Asked, Empties, Emptied, Begun, Judging, Decided, Typed, Owning,
       Waiting, Held
  <2>4. CASE Quits
    BY <2>4 DEF InboxInv, Asked, Quits, Begun, Judging, Decided, Typed, Owning, Waiting, Held
  <2>5. CASE Unmarks
    BY <2>5 DEF InboxInv, Asked, Unmarks, Begun, Judging, Decided, Typed, Owning, Waiting, Held
  <2>6. CASE Buries
    BY <2>6 DEF InboxInv, Asked, Buries, Emptied, Begun, Judging, Decided, Typed, Owning,
       Waiting, Held
  <2>7. CASE Sweeps
    BY <2>7 DEF InboxInv, Asked, Sweeps, Emptied, Begun, Judging, Decided, Typed, Owning,
       Waiting, Held
  <2> QED BY <1>3, <2>1, <2>2, <2>3, <2>4, <2>5, <2>6, <2>7 DEF RemovalKinds
<1>4. CASE Passes
  BY <1>4 DEF InboxInv, Asked, Passes, Judging, Decided, Typed, Owning, Waiting, Held
<1> QED BY <1>1, <1>2, <1>3, <1>4 DEF Kinds

\* An outcome is decided once, of a delivery that was read and accepted.
LEMMA JudgedKept ==
  ASSUME InboxInv, Kinds
  PROVE  Judged'
<1>1. ASSUME NEW w \in Writers, WriterKinds(w)
      PROVE  Judged'
  <2>1. CASE Starts(w)
    BY <2>1, OutcomesAnswer DEF InboxInv, Judged, Starts, Writes, OnlyWriters, Accepted, Asked,
       Waiting, Judging, Decided, Typed, Outcomes, Held
  <2>2. CASE Proceeds(w)
    BY <2>2, OutcomesAnswer DEF InboxInv, Judged, Proceeds, Writes, OnlyWriters, Exists,
       Accepted, Asked, Waiting, Judging, Decided, Typed, Outcomes, Held
  <2>3. CASE Links(w)
    BY <2>3, OutcomesAnswer DEF InboxInv, Judged, Links, Writes, Accepted, Asked, Waiting,
       Judging, Decided, Typed, Outcomes, Held
  <2>4. CASE Retreats(w)
    BY <2>4, OutcomesAnswer DEF InboxInv, Judged, Retreats, Writes, OnlyWriters, Exists,
       Accepted, Asked, Waiting, Judging, Decided, Typed, Outcomes, Held
  <2>5. CASE Claims(w)
    BY <2>5, OutcomesAnswer DEF InboxInv, Judged, Claims, Writes, Emptied, Accepted, Asked,
       Waiting, Judging, Decided, Typed, Outcomes, Held
  <2>6. CASE Examines(w)
    BY <2>6, OutcomesAnswer DEF InboxInv, Judged, Examines, Writes, Accepted, Asked, Waiting,
       Judging, Decided, Typed, Outcomes, Held
  <2> QED BY <1>1, <2>1, <2>2, <2>3, <2>4, <2>5, <2>6 DEF WriterKinds
<1>2. CASE OwnerKinds
  <2>1. CASE Considers
    BY <2>1, OutcomesAnswer DEF InboxInv, Judged, Considers, Moves, OnlyOwner, Accepted, Asked,
       Waiting, Judging, Decided, Typed, Outcomes, Held
  <2>2. CASE Settles
    BY <2>2, OutcomesAnswer DEF InboxInv, Judged, Settles, OnlyOwner, Accepted, Acceptable,
       Bound, Asked, Waiting, Judging, Decided, Typed, Outcomes, Held
  <2>3. CASE Spots
    BY <2>3, OutcomesAnswer DEF InboxInv, Judged, Spots, Moves, OnlyOwner, Accepted, Acceptable,
       Bound, Asked, Waiting, Judging, Decided, Typed, Outcomes, Held
  <2>4. CASE Rejects
    BY <2>4, OutcomesAnswer DEF InboxInv, Judged, Rejects, Moves, Emptied, Accepted, Asked,
       Waiting, Judging, Decided, Typed, Outcomes, Held
  <2>5. CASE Falters
    BY <2>5, OutcomesAnswer DEF InboxInv, Judged, Falters, OnlyOwner, Accepted, Asked, Waiting,
       Judging, Decided, Typed, Outcomes, Held
  <2>6. CASE Opens
    BY <2>6, OutcomesAnswer DEF InboxInv, Judged, Opens, Moves, Exists, Accepted, Asked,
       Waiting, Judging, Decided, Typed, Outcomes, Held
  <2>7. CASE Begins
    BY <2>7, OutcomesAnswer DEF InboxInv, Judged, Begins, Moves, Exists, Accepted, Asked,
       Waiting, Judging, Decided, Typed, Outcomes, Held
  <2>8. CASE Registers
    BY <2>8, OutcomesAnswer DEF InboxInv, Judged, Registers, Moves, Accepted, Asked, Waiting,
       Judging, Decided, Typed, Outcomes, Held
  <2>9. CASE Completes
    BY <2>9, OutcomesAnswer DEF InboxInv, Judged, Completes, Moves, Accepted, Asked, Waiting,
       Judging, Decided, Typed, Outcomes, Held
  <2>10. CASE Stops
    BY <2>10, OutcomesAnswer DEF InboxInv, Judged, Stops, Moves, Accepted, Asked, Waiting,
       Judging, Decided, Typed, Outcomes, Held
  <2> QED BY <1>2, <2>1, <2>2, <2>3, <2>4, <2>5, <2>6, <2>7, <2>8, <2>9, <2>10 DEF OwnerKinds
<1>3. CASE RemovalKinds
  <2>1. CASE Inspects
    BY <2>1, OutcomesAnswer DEF InboxInv, Judged, Inspects, Exists, Accepted, Asked, Waiting,
       Judging, Decided, Typed, Outcomes, Held
  <2>2. CASE Locks
    BY <2>2, OutcomesAnswer DEF InboxInv, Judged, Locks, Begun, Exists, Accepted, Asked,
       Waiting, Judging, Decided, Typed, Outcomes, Held
  <2>3. CASE Empties
    BY <2>3, OutcomesAnswer DEF InboxInv, Judged, Empties, Emptied, Begun, Accepted, Asked,
       Waiting, Judging, Decided, Typed, Outcomes, Held
  <2>4. CASE Quits
    BY <2>4, OutcomesAnswer DEF InboxInv, Judged, Quits, Begun, Accepted, Asked, Waiting,
       Judging, Decided, Typed, Outcomes, Held
  <2>5. CASE Unmarks
    BY <2>5, OutcomesAnswer DEF InboxInv, Judged, Unmarks, Begun, Accepted, Asked, Waiting,
       Judging, Decided, Typed, Outcomes, Held
  <2>6. CASE Buries
    BY <2>6, OutcomesAnswer DEF InboxInv, Judged, Buries, Emptied, Begun, Accepted, Asked,
       Waiting, Judging, Decided, Typed, Outcomes, Held
  <2>7. CASE Sweeps
    BY <2>7, OutcomesAnswer DEF InboxInv, Judged, Sweeps, Emptied, Begun, Accepted, Asked,
       Waiting, Judging, Decided, Typed, Outcomes, Held
  <2> QED BY <1>3, <2>1, <2>2, <2>3, <2>4, <2>5, <2>6, <2>7 DEF RemovalKinds
<1>4. CASE Passes
  BY <1>4, OutcomesAnswer DEF InboxInv, Judged, Passes, Accepted, Asked, Waiting, Judging,
     Decided, Typed, Outcomes, Held
<1> QED BY <1>1, <1>2, <1>3, <1>4 DEF Kinds

\* Whoever withdraws a delivery disturbs, and so does a removal at work.
LEMMA WithdrawalDisturbs ==
  ASSUME InboxInv, NEW w \in Writers, wr[w].pc \in {"claim", "examine"}
  PROVE  Disturbed
<1>1. wr[w].env # None
  BY NobodyWrote DEF InboxInv, Carried, Carrying
<1>2. CASE wr[w].pc = "claim"
  BY <1>1, <1>2 DEF InboxInv, Withdrawn, RemovalBegun, Disturbed
<1>3. CASE wr[w].pc = "examine"
  BY <1>1, <1>3 DEF Disturbed
<1> QED BY <1>2, <1>3

LEMMA RemovalDisturbs ==
  ASSUME InboxInv, rm.pc \in Removing
  PROVE  Disturbed
PROOF BY DEF InboxInv, Numbered, Removing, Disturbed

\* What disturbs a run goes on to disturb it.
LEMMA DisturbanceLasts ==
  ASSUME InboxInv, Kinds
  PROVE  gen' = gen /\ Disturbed => Disturbed'
<1>1. ASSUME NEW w \in Writers, WriterKinds(w)
      PROVE  gen' = gen /\ Disturbed => Disturbed'
  <2>1. CASE Starts(w)
    BY <2>1, NobodyWrote DEF InboxInv, Disturbed, Starts, Writes, OnlyWriters, RemovalBegun,
       Carried, Carrying, Withdrawn
  <2>2. CASE Proceeds(w)
    BY <2>2, NobodyWrote DEF InboxInv, Disturbed, Proceeds, Writes, OnlyWriters, Exists,
       RemovalBegun, Carried, Carrying, Withdrawn
  <2>3. CASE Links(w)
    BY <2>3, NobodyWrote DEF InboxInv, Disturbed, Links, Writes, RemovalBegun, Carried,
       Carrying, Withdrawn
  <2>4. CASE Retreats(w)
    BY <2>4, NobodyWrote DEF InboxInv, Disturbed, Retreats, Writes, OnlyWriters, Exists,
       RemovalBegun, Carried, Carrying, Withdrawn
  <2>5. CASE Claims(w)
    BY <2>5, NobodyWrote DEF InboxInv, Disturbed, Claims, Writes, Emptied, RemovalBegun,
       Carried, Carrying, Withdrawn
  <2>6. CASE Examines(w)
    <3>1. wr[w].env.mine # None /\ wr[w].pc = "examine"
      BY <2>6, NobodyWrote DEF InboxInv, Carried, Findings, Examines
    <3>2. wr'[w].pc = "refused" /\ wr'[w].env = wr[w].env.mine /\ UNCHANGED <<rm, gen>>
      BY <2>6 DEF Examines, Writes
    <3>3. CASE wr[w].env.mine.gen = gen
      BY <3>1, <3>2, <3>3 DEF InboxInv, Withdrawn, RemovalBegun, Disturbed
    <3>4. CASE wr[w].env.mine.gen # gen
      BY <3>1, <3>2, <3>4 DEF Disturbed
    <3> QED BY <3>3, <3>4
  <2> QED BY <1>1, <2>1, <2>2, <2>3, <2>4, <2>5, <2>6 DEF WriterKinds
<1>2. CASE OwnerKinds
  <2>1. CASE Considers
    BY <2>1, NobodyWrote DEF InboxInv, Disturbed, Considers, Moves, OnlyOwner, RemovalBegun,
       Carried, Carrying, Withdrawn
  <2>2. CASE Settles
    BY <2>2, NobodyWrote DEF InboxInv, Disturbed, Settles, OnlyOwner, RemovalBegun, Carried,
       Carrying, Withdrawn
  <2>3. CASE Spots
    BY <2>3, NobodyWrote DEF InboxInv, Disturbed, Spots, Moves, OnlyOwner, RemovalBegun,
       Carried, Carrying, Withdrawn
  <2>4. CASE Rejects
    BY <2>4, NobodyWrote DEF InboxInv, Disturbed, Rejects, Moves, Emptied, RemovalBegun,
       Carried, Carrying, Withdrawn
  <2>5. CASE Falters
    BY <2>5, NobodyWrote DEF InboxInv, Disturbed, Falters, OnlyOwner, RemovalBegun, Carried,
       Carrying, Withdrawn
  <2>6. CASE Opens
    BY <2>6, NobodyWrote DEF InboxInv, Disturbed, Opens, Moves, Exists, RemovalBegun, Carried,
       Carrying, Withdrawn
  <2>7. CASE Begins
    BY <2>7, NobodyWrote DEF InboxInv, Disturbed, Begins, Moves, Exists, RemovalBegun, Carried,
       Carrying, Withdrawn
  <2>8. CASE Registers
    BY <2>8, NobodyWrote DEF InboxInv, Disturbed, Registers, Moves, RemovalBegun, Carried,
       Carrying, Withdrawn
  <2>9. CASE Completes
    BY <2>9, NobodyWrote DEF InboxInv, Disturbed, Completes, Moves, RemovalBegun, Carried,
       Carrying, Withdrawn
  <2>10. CASE Stops
    BY <2>10, NobodyWrote DEF InboxInv, Disturbed, Stops, Moves, RemovalBegun, Carried,
       Carrying, Withdrawn
  <2> QED BY <1>2, <2>1, <2>2, <2>3, <2>4, <2>5, <2>6, <2>7, <2>8, <2>9, <2>10 DEF OwnerKinds
<1>3. CASE RemovalKinds
  <2>1. CASE Inspects
    BY <2>1, NobodyWrote DEF InboxInv, Disturbed, Inspects, Exists, RemovalBegun, Carried,
       Carrying, Withdrawn
  <2>2. CASE Locks
    BY <2>2, NobodyWrote DEF InboxInv, Disturbed, Locks, Begun, Exists, RemovalBegun, Carried,
       Carrying, Withdrawn
  <2>3. CASE Empties
    BY <2>3, NobodyWrote DEF InboxInv, Disturbed, Empties, Emptied, Begun, RemovalBegun,
       Carried, Carrying, Withdrawn
  <2>4. CASE Quits
    BY <2>4, NobodyWrote DEF InboxInv, Disturbed, Quits, Begun, RemovalBegun, Carried, Carrying,
       Withdrawn, Removing
  <2>5. CASE Unmarks
    BY <2>5, NobodyWrote DEF InboxInv, Disturbed, Unmarks, Begun, RemovalBegun, Carried,
       Carrying, Withdrawn
  <2>6. CASE Buries
    BY <2>6, NobodyWrote DEF InboxInv, Disturbed, Buries, Emptied, Begun, RemovalBegun, Carried,
       Carrying, Withdrawn
  <2>7. CASE Sweeps
    BY <2>7, NobodyWrote DEF InboxInv, Disturbed, Sweeps, Emptied, Begun, RemovalBegun, Carried,
       Carrying, Withdrawn
  <2> QED BY <1>3, <2>1, <2>2, <2>3, <2>4, <2>5, <2>6, <2>7 DEF RemovalKinds
<1>4. CASE Passes
  BY <1>4, NobodyWrote DEF InboxInv, Disturbed, Passes, RemovalBegun, Carried, Carrying, Withdrawn
<1> QED BY <1>1, <1>2, <1>3, <1>4 DEF Kinds

\* A writer of this generation withdraws only from its removal.
LEMMA WithdrawnKept ==
  ASSUME InboxInv, Kinds
  PROVE  Withdrawn'
<1>1. ASSUME NEW w \in Writers, WriterKinds(w)
      PROVE  Withdrawn'
  <2>1. CASE Starts(w)
    BY <2>1, NobodyWrote, Numbers DEF InboxInv, Withdrawn, Starts, Writes, OnlyWriters, Exists,
       RemovalBegun, Numbered, Dated, Born, Typed, Generations, Removing, Carried, Carrying,
       Envelopes, Findings
  <2>2. CASE Proceeds(w)
    BY <2>2, NobodyWrote, Numbers DEF InboxInv, Withdrawn, Proceeds, Writes, OnlyWriters,
       Exists, RemovalBegun, Numbered, Dated, Born, Typed, Generations, Removing, Carried,
       Carrying, Envelopes, Findings
  <2>3. CASE Links(w)
    BY <2>3, NobodyWrote, Numbers DEF InboxInv, Withdrawn, Links, Writes, Exists, RemovalBegun,
       Numbered, Dated, Born, Typed, Generations, Removing, Carried, Carrying, Envelopes, Findings
  <2>4. CASE Retreats(w)
    BY <2>4, NobodyWrote, Numbers DEF InboxInv, Withdrawn, Retreats, Writes, OnlyWriters,
       Exists, RemovalBegun, Numbered, Dated, Born, Typed, Generations, Removing, Carried,
       Carrying, Envelopes, Findings
  <2>5. CASE Claims(w)
    BY <2>5, NobodyWrote, Numbers DEF InboxInv, Withdrawn, Claims, Writes, Emptied, Exists,
       RemovalBegun, Numbered, Dated, Born, Typed, Generations, Removing, Carried, Carrying,
       Envelopes, Findings
  <2>6. CASE Examines(w)
    BY <2>6, NobodyWrote, Numbers DEF InboxInv, Withdrawn, Examines, Writes, Exists,
       RemovalBegun, Numbered, Dated, Born, Typed, Generations, Removing, Carried, Carrying,
       Envelopes, Findings
  <2> QED BY <1>1, <2>1, <2>2, <2>3, <2>4, <2>5, <2>6 DEF WriterKinds
<1>2. CASE OwnerKinds
  <2>1. CASE Considers
    BY <2>1, NobodyWrote, Numbers DEF InboxInv, Withdrawn, Considers, Moves, OnlyOwner, Exists,
       RemovalBegun, Numbered, Dated, Born, Typed, Generations, Removing, Carried, Carrying,
       Envelopes, Findings
  <2>2. CASE Settles
    BY <2>2, NobodyWrote, Numbers DEF InboxInv, Withdrawn, Settles, OnlyOwner, Exists,
       RemovalBegun, Numbered, Dated, Born, Typed, Generations, Removing, Carried, Carrying,
       Envelopes, Findings
  <2>3. CASE Spots
    BY <2>3, NobodyWrote, Numbers DEF InboxInv, Withdrawn, Spots, Moves, OnlyOwner, Exists,
       RemovalBegun, Numbered, Dated, Born, Typed, Generations, Removing, Carried, Carrying,
       Envelopes, Findings
  <2>4. CASE Rejects
    BY <2>4, NobodyWrote, Numbers DEF InboxInv, Withdrawn, Rejects, Moves, Emptied, Exists,
       RemovalBegun, Numbered, Dated, Born, Typed, Generations, Removing, Carried, Carrying,
       Envelopes, Findings
  <2>5. CASE Falters
    BY <2>5, NobodyWrote, Numbers DEF InboxInv, Withdrawn, Falters, OnlyOwner, Exists,
       RemovalBegun, Numbered, Dated, Born, Typed, Generations, Removing, Carried, Carrying,
       Envelopes, Findings
  <2>6. CASE Opens
    BY <2>6, NobodyWrote, Numbers DEF InboxInv, Withdrawn, Opens, Moves, Exists, RemovalBegun,
       Numbered, Dated, Born, Typed, Generations, Removing, Carried, Carrying, Envelopes, Findings
  <2>7. CASE Begins
    BY <2>7, NobodyWrote, Numbers DEF InboxInv, Withdrawn, Begins, Moves, Exists, RemovalBegun,
       Numbered, Dated, Born, Typed, Generations, Removing, Carried, Carrying, Envelopes, Findings
  <2>8. CASE Registers
    BY <2>8, NobodyWrote, Numbers DEF InboxInv, Withdrawn, Registers, Moves, Exists,
       RemovalBegun, Numbered, Dated, Born, Typed, Generations, Removing, Carried, Carrying,
       Envelopes, Findings
  <2>9. CASE Completes
    BY <2>9, NobodyWrote, Numbers DEF InboxInv, Withdrawn, Completes, Moves, Exists,
       RemovalBegun, Numbered, Dated, Born, Typed, Generations, Removing, Carried, Carrying,
       Envelopes, Findings
  <2>10. CASE Stops
    BY <2>10, NobodyWrote, Numbers DEF InboxInv, Withdrawn, Stops, Moves, Exists, RemovalBegun,
       Numbered, Dated, Born, Typed, Generations, Removing, Carried, Carrying, Envelopes, Findings
  <2> QED BY <1>2, <2>1, <2>2, <2>3, <2>4, <2>5, <2>6, <2>7, <2>8, <2>9, <2>10 DEF OwnerKinds
<1>3. CASE RemovalKinds
  <2>1. CASE Inspects
    BY <2>1, NobodyWrote, Numbers DEF InboxInv, Withdrawn, Inspects, Exists, RemovalBegun,
       Numbered, Dated, Born, Typed, Generations, Removing, Carried, Carrying, Envelopes, Findings
  <2>2. CASE Locks
    BY <2>2, NobodyWrote, Numbers DEF InboxInv, Withdrawn, Locks, Begun, Exists, RemovalBegun,
       Numbered, Dated, Born, Typed, Generations, Removing, Carried, Carrying, Envelopes, Findings
  <2>3. CASE Empties
    BY <2>3, NobodyWrote, Numbers DEF InboxInv, Withdrawn, Empties, Emptied, Begun, Exists,
       RemovalBegun, Numbered, Dated, Born, Typed, Generations, Removing, Carried, Carrying,
       Envelopes, Findings
  <2>4. CASE Quits
    BY <2>4, NobodyWrote, Numbers DEF InboxInv, Withdrawn, Quits, Begun, Exists, RemovalBegun,
       Numbered, Dated, Born, Typed, Generations, Removing, Carried, Carrying, Envelopes, Findings
  <2>5. CASE Unmarks
    BY <2>5, NobodyWrote, Numbers DEF InboxInv, Withdrawn, Unmarks, Begun, Exists, RemovalBegun,
       Numbered, Dated, Born, Typed, Generations, Removing, Carried, Carrying, Envelopes, Findings
  <2>6. CASE Buries
    BY <2>6, NobodyWrote, Numbers DEF InboxInv, Withdrawn, Buries, Emptied, Begun, Exists,
       RemovalBegun, Numbered, Dated, Born, Typed, Generations, Removing, Carried, Carrying,
       Envelopes, Findings
  <2>7. CASE Sweeps
    BY <2>7, NobodyWrote, Numbers DEF InboxInv, Withdrawn, Sweeps, Emptied, Begun, Exists,
       RemovalBegun, Numbered, Dated, Born, Typed, Generations, Removing, Carried, Carrying,
       Envelopes, Findings
  <2> QED BY <1>3, <2>1, <2>2, <2>3, <2>4, <2>5, <2>6, <2>7 DEF RemovalKinds
<1>4. CASE Passes
  BY <1>4, NobodyWrote, Numbers DEF InboxInv, Withdrawn, Passes, Exists, RemovalBegun, Numbered,
     Dated, Born, Typed, Generations, Removing, Carried, Carrying, Envelopes, Findings
<1> QED BY <1>1, <1>2, <1>3, <1>4 DEF Kinds

\* A delivery that was read stays where it is.
LEMMA RejectedKept ==
  ASSUME InboxInv, Kinds
  PROVE  Rejected'
<1>1. ASSUME NEW w \in Writers, WriterKinds(w)
      PROVE  Rejected'
  <2>1. CASE Starts(w)
    BY <2>1, DisturbanceLasts, WithdrawalDisturbs, RemovalDisturbs DEF InboxInv, Rejected,
       Starts, Writes, OnlyWriters, Carried, Typed, Acceptable, Bound
  <2>2. CASE Proceeds(w)
    BY <2>2, DisturbanceLasts, WithdrawalDisturbs, RemovalDisturbs DEF InboxInv, Rejected,
       Proceeds, Writes, OnlyWriters, Exists, Carried, Typed, Acceptable, Bound
  <2>3. CASE Links(w)
    BY <2>3, DisturbanceLasts, WithdrawalDisturbs, RemovalDisturbs DEF InboxInv, Rejected,
       Links, Writes, Carried, Typed, Acceptable, Bound, Asked
  <2>4. CASE Retreats(w)
    BY <2>4, DisturbanceLasts, WithdrawalDisturbs, RemovalDisturbs DEF InboxInv, Rejected,
       Retreats, Writes, OnlyWriters, Exists, Carried, Typed, Acceptable, Bound
  <2>5. CASE Claims(w)
    BY <2>5, DisturbanceLasts, WithdrawalDisturbs, RemovalDisturbs DEF InboxInv, Rejected,
       Claims, Writes, Emptied, Carried, Typed, Acceptable, Bound
  <2>6. CASE Examines(w)
    BY <2>6, DisturbanceLasts, WithdrawalDisturbs, RemovalDisturbs DEF InboxInv, Rejected,
       Examines, Writes, Carried, Typed, Acceptable, Bound
  <2> QED BY <1>1, <2>1, <2>2, <2>3, <2>4, <2>5, <2>6 DEF WriterKinds
<1>2. CASE OwnerKinds
  <2>1. CASE Considers
    BY <2>1, DisturbanceLasts, WithdrawalDisturbs, RemovalDisturbs DEF InboxInv, Rejected,
       Considers, Moves, OnlyOwner, Carried, Typed, Acceptable, Bound
  <2>2. CASE Settles
    BY <2>2, DisturbanceLasts, WithdrawalDisturbs, RemovalDisturbs DEF InboxInv, Rejected,
       Settles, OnlyOwner, Carried, Typed, Acceptable, Bound
  <2>3. CASE Spots
    BY <2>3, DisturbanceLasts, WithdrawalDisturbs, RemovalDisturbs DEF InboxInv, Rejected,
       Spots, Moves, OnlyOwner, Carried, Typed, Acceptable, Bound
  <2>4. CASE Rejects
    BY <2>4, DisturbanceLasts, WithdrawalDisturbs, RemovalDisturbs DEF InboxInv, Rejected,
       Rejects, Moves, Emptied, Carried, Typed, Acceptable, Bound
  <2>5. CASE Falters
    BY <2>5, DisturbanceLasts, WithdrawalDisturbs, RemovalDisturbs DEF InboxInv, Rejected,
       Falters, OnlyOwner, Carried, Typed, Acceptable, Bound
  <2>6. CASE Opens
    BY <2>6, DisturbanceLasts, WithdrawalDisturbs, RemovalDisturbs DEF InboxInv, Rejected,
       Opens, Moves, Exists, Carried, Typed, Acceptable, Bound
  <2>7. CASE Begins
    BY <2>7, DisturbanceLasts, WithdrawalDisturbs, RemovalDisturbs DEF InboxInv, Rejected,
       Begins, Moves, Exists, Carried, Typed, Acceptable, Bound
  <2>8. CASE Registers
    BY <2>8, DisturbanceLasts, WithdrawalDisturbs, RemovalDisturbs DEF InboxInv, Rejected,
       Registers, Moves, Carried, Typed, Acceptable, Bound
  <2>9. CASE Completes
    BY <2>9, DisturbanceLasts, WithdrawalDisturbs, RemovalDisturbs DEF InboxInv, Rejected,
       Completes, Moves, Carried, Typed, Acceptable, Bound
  <2>10. CASE Stops
    BY <2>10, DisturbanceLasts, WithdrawalDisturbs, RemovalDisturbs DEF InboxInv, Rejected,
       Stops, Moves, Carried, Typed, Acceptable, Bound
  <2> QED BY <1>2, <2>1, <2>2, <2>3, <2>4, <2>5, <2>6, <2>7, <2>8, <2>9, <2>10 DEF OwnerKinds
<1>3. CASE RemovalKinds
  <2>1. CASE Inspects
    BY <2>1, DisturbanceLasts, WithdrawalDisturbs, RemovalDisturbs DEF InboxInv, Rejected,
       Inspects, Exists, Carried, Typed, Acceptable, Bound
  <2>2. CASE Locks
    BY <2>2, DisturbanceLasts, WithdrawalDisturbs, RemovalDisturbs DEF InboxInv, Rejected,
       Locks, Begun, Exists, Carried, Typed, Acceptable, Bound
  <2>3. CASE Empties
    BY <2>3, DisturbanceLasts, WithdrawalDisturbs, RemovalDisturbs DEF InboxInv, Rejected,
       Empties, Emptied, Begun, Carried, Typed, Acceptable, Bound, Removing
  <2>4. CASE Quits
    BY <2>4, DisturbanceLasts, WithdrawalDisturbs, RemovalDisturbs DEF InboxInv, Rejected,
       Quits, Begun, Carried, Typed, Acceptable, Bound
  <2>5. CASE Unmarks
    BY <2>5, DisturbanceLasts, WithdrawalDisturbs, RemovalDisturbs DEF InboxInv, Rejected,
       Unmarks, Begun, Carried, Typed, Acceptable, Bound
  <2>6. CASE Buries
    BY <2>6, DisturbanceLasts, WithdrawalDisturbs, RemovalDisturbs DEF InboxInv, Rejected,
       Buries, Emptied, Begun, Carried, Typed, Acceptable, Bound, Removing
  <2>7. CASE Sweeps
    BY <2>7, DisturbanceLasts, WithdrawalDisturbs, RemovalDisturbs DEF InboxInv, Rejected,
       Sweeps, Emptied, Begun, Carried, Typed, Acceptable, Bound, Removing
  <2> QED BY <1>3, <2>1, <2>2, <2>3, <2>4, <2>5, <2>6, <2>7 DEF RemovalKinds
<1>4. CASE Passes
  BY <1>4, DisturbanceLasts, WithdrawalDisturbs, RemovalDisturbs DEF InboxInv, Rejected, Passes,
     Carried, Typed, Acceptable, Bound
<1> QED BY <1>1, <1>2, <1>3, <1>4 DEF Kinds

\* A delivery that was linked stays where it is.
LEMMA KeptKept ==
  ASSUME InboxInv, Kinds
  PROVE  Kept'
<1>1. ASSUME NEW w \in Writers, WriterKinds(w)
      PROVE  Kept'
  <2>1. CASE Starts(w)
    BY <2>1, DisturbanceLasts, WithdrawalDisturbs, RemovalDisturbs, NobodyWrote DEF InboxInv,
       Kept, Starts, Writes, OnlyWriters, Carried, Carrying, Typed, Acceptable, Bound, Dated,
       Born, Generations, Rejected, Asked
  <2>2. CASE Proceeds(w)
    BY <2>2, DisturbanceLasts, WithdrawalDisturbs, RemovalDisturbs, NobodyWrote DEF InboxInv,
       Kept, Proceeds, Writes, OnlyWriters, Exists, Carried, Carrying, Typed, Acceptable, Bound,
       Dated, Born, Generations, Rejected, Asked
  <2>3. CASE Links(w)
    BY <2>3, DisturbanceLasts, WithdrawalDisturbs, RemovalDisturbs, NobodyWrote DEF InboxInv,
       Kept, Links, Writes, Carried, Carrying, Typed, Acceptable, Bound, Dated, Born,
       Generations, Rejected, Asked
  <2>4. CASE Retreats(w)
    BY <2>4, DisturbanceLasts, WithdrawalDisturbs, RemovalDisturbs, NobodyWrote DEF InboxInv,
       Kept, Retreats, Writes, OnlyWriters, Exists, Carried, Carrying, Typed, Acceptable, Bound,
       Dated, Born, Generations, Rejected, Asked
  <2>5. CASE Claims(w)
    BY <2>5, DisturbanceLasts, WithdrawalDisturbs, RemovalDisturbs, NobodyWrote DEF InboxInv,
       Kept, Claims, Writes, Emptied, Carried, Carrying, Typed, Acceptable, Bound, Dated, Born,
       Generations, Rejected, Asked
  <2>6. CASE Examines(w)
    BY <2>6, DisturbanceLasts, WithdrawalDisturbs, RemovalDisturbs, NobodyWrote DEF InboxInv,
       Kept, Examines, Writes, Carried, Carrying, Typed, Acceptable, Bound, Dated, Born,
       Generations, Rejected, Asked
  <2> QED BY <1>1, <2>1, <2>2, <2>3, <2>4, <2>5, <2>6 DEF WriterKinds
<1>2. CASE OwnerKinds
  <2>1. CASE Considers
    BY <2>1, DisturbanceLasts, WithdrawalDisturbs, RemovalDisturbs, NobodyWrote DEF InboxInv,
       Kept, Considers, Moves, OnlyOwner, Carried, Carrying, Typed, Acceptable, Bound, Dated,
       Born, Generations, Rejected, Asked
  <2>2. CASE Settles
    BY <2>2, DisturbanceLasts, WithdrawalDisturbs, RemovalDisturbs, NobodyWrote DEF InboxInv,
       Kept, Settles, OnlyOwner, Carried, Carrying, Typed, Acceptable, Bound, Dated, Born,
       Generations, Rejected, Asked
  <2>3. CASE Spots
    BY <2>3, DisturbanceLasts, WithdrawalDisturbs, RemovalDisturbs, NobodyWrote DEF InboxInv,
       Kept, Spots, Moves, OnlyOwner, Carried, Carrying, Typed, Acceptable, Bound, Dated, Born,
       Generations, Rejected, Asked
  <2>4. CASE Rejects
    BY <2>4, DisturbanceLasts, WithdrawalDisturbs, RemovalDisturbs, NobodyWrote DEF InboxInv,
       Kept, Rejects, Moves, Emptied, Carried, Carrying, Typed, Acceptable, Bound, Dated, Born,
       Generations, Rejected, Asked
  <2>5. CASE Falters
    BY <2>5, DisturbanceLasts, WithdrawalDisturbs, RemovalDisturbs, NobodyWrote DEF InboxInv,
       Kept, Falters, OnlyOwner, Carried, Carrying, Typed, Acceptable, Bound, Dated, Born,
       Generations, Rejected, Asked
  <2>6. CASE Opens
    BY <2>6, DisturbanceLasts, WithdrawalDisturbs, RemovalDisturbs, NobodyWrote DEF InboxInv,
       Kept, Opens, Moves, Exists, Carried, Carrying, Typed, Acceptable, Bound, Dated, Born,
       Generations, Rejected, Asked
  <2>7. CASE Begins
    BY <2>7, DisturbanceLasts, WithdrawalDisturbs, RemovalDisturbs, NobodyWrote DEF InboxInv,
       Kept, Begins, Moves, Exists, Carried, Carrying, Typed, Acceptable, Bound, Dated, Born,
       Generations, Rejected, Asked
  <2>8. CASE Registers
    BY <2>8, DisturbanceLasts, WithdrawalDisturbs, RemovalDisturbs, NobodyWrote DEF InboxInv,
       Kept, Registers, Moves, Carried, Carrying, Typed, Acceptable, Bound, Dated, Born,
       Generations, Rejected, Asked
  <2>9. CASE Completes
    BY <2>9, DisturbanceLasts, WithdrawalDisturbs, RemovalDisturbs, NobodyWrote DEF InboxInv,
       Kept, Completes, Moves, Carried, Carrying, Typed, Acceptable, Bound, Dated, Born,
       Generations, Rejected, Asked
  <2>10. CASE Stops
    BY <2>10, DisturbanceLasts, WithdrawalDisturbs, RemovalDisturbs, NobodyWrote DEF InboxInv,
       Kept, Stops, Moves, Carried, Carrying, Typed, Acceptable, Bound, Dated, Born,
       Generations, Rejected, Asked
  <2> QED BY <1>2, <2>1, <2>2, <2>3, <2>4, <2>5, <2>6, <2>7, <2>8, <2>9, <2>10 DEF OwnerKinds
<1>3. CASE RemovalKinds
  <2>1. CASE Inspects
    BY <2>1, DisturbanceLasts, WithdrawalDisturbs, RemovalDisturbs, NobodyWrote DEF InboxInv,
       Kept, Inspects, Exists, Carried, Carrying, Typed, Acceptable, Bound, Dated, Born,
       Generations, Rejected, Asked
  <2>2. CASE Locks
    BY <2>2, DisturbanceLasts, WithdrawalDisturbs, RemovalDisturbs, NobodyWrote DEF InboxInv,
       Kept, Locks, Begun, Exists, Carried, Carrying, Typed, Acceptable, Bound, Dated, Born,
       Generations, Rejected, Asked
  <2>3. CASE Empties
    BY <2>3, DisturbanceLasts, WithdrawalDisturbs, RemovalDisturbs, NobodyWrote DEF InboxInv,
       Kept, Empties, Emptied, Begun, Carried, Carrying, Typed, Acceptable, Bound, Dated, Born,
       Generations, Rejected, Asked, Removing
  <2>4. CASE Quits
    BY <2>4, DisturbanceLasts, WithdrawalDisturbs, RemovalDisturbs, NobodyWrote DEF InboxInv,
       Kept, Quits, Begun, Carried, Carrying, Typed, Acceptable, Bound, Dated, Born,
       Generations, Rejected, Asked
  <2>5. CASE Unmarks
    BY <2>5, DisturbanceLasts, WithdrawalDisturbs, RemovalDisturbs, NobodyWrote DEF InboxInv,
       Kept, Unmarks, Begun, Carried, Carrying, Typed, Acceptable, Bound, Dated, Born,
       Generations, Rejected, Asked
  <2>6. CASE Buries
    BY <2>6, DisturbanceLasts, WithdrawalDisturbs, RemovalDisturbs, NobodyWrote DEF InboxInv,
       Kept, Buries, Emptied, Begun, Carried, Carrying, Typed, Acceptable, Bound, Dated, Born,
       Generations, Rejected, Asked, Removing
  <2>7. CASE Sweeps
    BY <2>7, DisturbanceLasts, WithdrawalDisturbs, RemovalDisturbs, NobodyWrote DEF InboxInv,
       Kept, Sweeps, Emptied, Begun, Carried, Carrying, Typed, Acceptable, Bound, Dated, Born,
       Generations, Rejected, Asked, Removing
  <2> QED BY <1>3, <2>1, <2>2, <2>3, <2>4, <2>5, <2>6, <2>7 DEF RemovalKinds
<1>4. CASE Passes
  BY <1>4, DisturbanceLasts, WithdrawalDisturbs, RemovalDisturbs, NobodyWrote DEF InboxInv,
     Kept, Passes, Carried, Carrying, Typed, Acceptable, Bound, Dated, Born, Generations,
     Rejected, Asked
<1> QED BY <1>1, <1>2, <1>3, <1>4 DEF Kinds

\* What is linked after the sweep is withdrawn.
LEMMA SweptKept ==
  ASSUME InboxInv, Kinds
  PROVE  Swept'
<1>1. ASSUME NEW w \in Writers, WriterKinds(w)
      PROVE  Swept'
  <2>1. CASE Starts(w)
    BY <2>1, NobodyWrote DEF InboxInv, Swept, Starts, Writes, OnlyWriters, Exists, Covered,
       Carried, Numbered, Removing, Dated, Born, Typed, Held, Generations, Findings, Envelopes
  <2>2. CASE Proceeds(w)
    BY <2>2, NobodyWrote DEF InboxInv, Swept, Proceeds, Writes, OnlyWriters, Exists, Covered,
       Carried, Numbered, Removing, Dated, Born, Typed, Held, Generations, Findings, Envelopes
  <2>3. CASE Links(w)
    <3>1. ASSUME NEW p \in Places, Covered(p), place'[p] # None
          PROVE  \E v \in Writers : wr'[v].pc \in {"reread", "claim"} /\ wr'[v].path = p
      <4>1. CASE p = wr[w].path
        BY <2>3, <3>1, <4>1 DEF Links, Writes
      <4>2. CASE p # wr[w].path
        <5>1. place'[p] = place[p]
          BY <2>3, <4>2 DEF Links
        <5>2. PICK v \in Writers : wr[v].pc \in {"reread", "claim"} /\ wr[v].path = p
          BY <3>1, <5>1 DEF Covered
        <5>3. v # w
          BY <2>3, <4>2, <5>2 DEF Links
        <5> QED BY <2>3, <5>2, <5>3 DEF Links, Writes
      <4> QED BY <4>1, <4>2
    <3>2. UNCHANGED <<rm, disk>> /\ "inside" \in Places
      BY <2>3 DEF Links, Places
    <3> QED BY <3>1, <3>2 DEF InboxInv, Swept, Covered, Exists
  <2>4. CASE Retreats(w)
    BY <2>4, NobodyWrote DEF InboxInv, Swept, Retreats, Writes, OnlyWriters, Exists, Covered,
       Carried, Numbered, Removing, Dated, Born, Typed, Held, Generations, Findings, Envelopes
  <2>5. CASE Claims(w)
    <3>1. ASSUME NEW p \in Places, Covered(p), place'[p] # None
          PROVE  \E v \in Writers : wr'[v].pc \in {"reread", "claim"} /\ wr'[v].path = p
      <4>1. CASE p = wr[w].path
        BY <2>5, <3>1, <4>1 DEF Claims, Writes, Emptied
      <4>2. CASE p # wr[w].path
        <5>1. place'[p] = place[p]
          BY <2>5, <4>2 DEF Claims, Emptied
        <5>2. PICK v \in Writers : wr[v].pc \in {"reread", "claim"} /\ wr[v].path = p
          BY <3>1, <5>1 DEF Covered
        <5>3. v # w
          BY <2>5, <4>2, <5>2 DEF Claims
        <5> QED BY <2>5, <5>2, <5>3 DEF Claims, Writes
      <4> QED BY <4>1, <4>2
    <3>2. UNCHANGED <<rm, disk>> /\ "inside" \in Places
      BY <2>5 DEF Claims, Places
    <3> QED BY <3>1, <3>2 DEF InboxInv, Swept, Covered, Exists
  <2>6. CASE Examines(w)
    BY <2>6, NobodyWrote DEF InboxInv, Swept, Examines, Writes, Exists, Covered, Carried,
       Numbered, Removing, Dated, Born, Typed, Held, Generations, Findings, Envelopes
  <2> QED BY <1>1, <2>1, <2>2, <2>3, <2>4, <2>5, <2>6 DEF WriterKinds
<1>2. CASE OwnerKinds
  <2>1. CASE Considers
    BY <2>1, NobodyWrote DEF InboxInv, Swept, Considers, Moves, OnlyOwner, Exists, Covered,
       Carried, Numbered, Removing, Dated, Born, Typed, Held, Generations, Findings, Envelopes
  <2>2. CASE Settles
    BY <2>2, NobodyWrote DEF InboxInv, Swept, Settles, OnlyOwner, Exists, Covered, Carried,
       Numbered, Removing, Dated, Born, Typed, Held, Generations, Findings, Envelopes
  <2>3. CASE Spots
    BY <2>3, NobodyWrote DEF InboxInv, Swept, Spots, Moves, OnlyOwner, Exists, Covered, Carried,
       Numbered, Removing, Dated, Born, Typed, Held, Generations, Findings, Envelopes
  <2>4. CASE Rejects
    BY <2>4, NobodyWrote DEF InboxInv, Swept, Rejects, Moves, Emptied, Exists, Covered, Carried,
       Numbered, Removing, Dated, Born, Typed, Held, Generations, Findings, Envelopes
  <2>5. CASE Falters
    BY <2>5, NobodyWrote DEF InboxInv, Swept, Falters, OnlyOwner, Exists, Covered, Carried,
       Numbered, Removing, Dated, Born, Typed, Held, Generations, Findings, Envelopes
  <2>6. CASE Opens
    BY <2>6, NobodyWrote DEF InboxInv, Swept, Opens, Moves, Exists, Covered, Carried, Numbered,
       Removing, Dated, Born, Typed, Held, Generations, Findings, Envelopes
  <2>7. CASE Begins
    BY <2>7, NobodyWrote DEF InboxInv, Swept, Begins, Moves, Exists, Covered, Carried, Numbered,
       Removing, Dated, Born, Typed, Held, Generations, Findings, Envelopes
  <2>8. CASE Registers
    BY <2>8, NobodyWrote DEF InboxInv, Swept, Registers, Moves, Exists, Covered, Carried,
       Numbered, Removing, Dated, Born, Typed, Held, Generations, Findings, Envelopes
  <2>9. CASE Completes
    BY <2>9, NobodyWrote DEF InboxInv, Swept, Completes, Moves, Exists, Covered, Carried,
       Numbered, Removing, Dated, Born, Typed, Held, Generations, Findings, Envelopes
  <2>10. CASE Stops
    BY <2>10, NobodyWrote DEF InboxInv, Swept, Stops, Moves, Exists, Covered, Carried, Numbered,
       Removing, Dated, Born, Typed, Held, Generations, Findings, Envelopes
  <2> QED BY <1>2, <2>1, <2>2, <2>3, <2>4, <2>5, <2>6, <2>7, <2>8, <2>9, <2>10 DEF OwnerKinds
<1>3. CASE RemovalKinds
  <2>1. CASE Inspects
    BY <2>1, NobodyWrote DEF InboxInv, Swept, Inspects, Exists, Covered, Carried, Numbered,
       Removing, Dated, Born, Typed, Held, Generations, Findings, Envelopes
  <2>2. CASE Locks
    BY <2>2, NobodyWrote DEF InboxInv, Swept, Locks, Begun, Exists, Covered, Carried, Numbered,
       Removing, Dated, Born, Typed, Held, Generations, Findings, Envelopes
  <2>3. CASE Empties
    BY <2>3, NobodyWrote DEF InboxInv, Swept, Empties, Emptied, Begun, Exists, Covered, Carried,
       Numbered, Removing, Dated, Born, Typed, Held, Generations, Findings, Envelopes
  <2>4. CASE Quits
    BY <2>4, NobodyWrote DEF InboxInv, Swept, Quits, Begun, Exists, Covered, Carried, Numbered,
       Removing, Dated, Born, Typed, Held, Generations, Findings, Envelopes
  <2>5. CASE Unmarks
    BY <2>5, NobodyWrote DEF InboxInv, Swept, Unmarks, Begun, Exists, Covered, Carried,
       Numbered, Removing, Dated, Born, Typed, Held, Generations, Findings, Envelopes
  <2>6. CASE Buries
    BY <2>6, NobodyWrote DEF InboxInv, Swept, Buries, Emptied, Begun, Exists, Covered, Carried,
       Numbered, Removing, Dated, Born, Typed, Held, Generations, Findings, Envelopes
  <2>7. CASE Sweeps
    BY <2>7, NobodyWrote DEF InboxInv, Swept, Sweeps, Emptied, Begun, Exists, Covered, Carried,
       Numbered, Removing, Dated, Born, Typed, Held, Generations, Findings, Envelopes, Places
  <2> QED BY <1>3, <2>1, <2>2, <2>3, <2>4, <2>5, <2>6, <2>7 DEF RemovalKinds
<1>4. CASE Passes
  BY <1>4, NobodyWrote DEF InboxInv, Swept, Passes, Exists, Covered, Carried, Numbered,
     Removing, Dated, Born, Typed, Held, Generations, Findings, Envelopes
<1> QED BY <1>1, <1>2, <1>3, <1>4 DEF Kinds

LEMMA InitKept ==
  ASSUME Init
  PROVE  InboxInv
<1>1. own = Out /\ got = None /\ gen = 1 /\ holder = "none" /\ rm = [pc |-> "idle", gen |-> 0]
      /\ faults = 0 /\ late = FALSE /\ place = [p \in Places |-> None]
      /\ saved = [run |-> "suspended", question |-> Undecided("waiting")]
      /\ wr = [w \in Writers |-> [pc |-> "idle", env |-> None, path |-> None]]
  BY DEF Init
<1>2. Exists /\ disk \in Disks
  <2>1. PICK l \in Layouts : disk = [flat |-> l # "directory", dir |-> l # "flat"]
    BY DEF Init
  <2> DEFINE flat == l # "directory"
             dir == l # "flat"
  <2>2. flat \in BOOLEAN /\ dir \in BOOLEAN /\ (flat \/ dir)
    OBVIOUS
  <2> HIDE DEF flat, dir
  <2>3. disk = [flat |-> flat, dir |-> dir]
    BY <2>1 DEF flat, dir
  <2> QED BY <2>2, <2>3 DEF Exists, Disks
<1>3. saved \in Records /\ saved.question.by = "waiting"
  BY <1>1, UndecidedIs DEF Records
<1>4. wr \in [Writers -> Writing]
  BY <1>1 DEF Writing, WriterSteps
<1>5. rm \in Removals /\ gen \in Generations
  BY <1>1, Numbers DEF Removals, RemovalSteps, Generations
<1>6. \A w \in Writers : wr[w].pc = "idle" /\ wr[w].env = None
  BY <1>1
<1>7. Typed
  BY <1>1, <1>2, <1>3, <1>4, <1>5, OutIs DEF Typed
<1>8. Bounded /\ Held /\ Carried /\ Dated
  BY <1>1, <1>6, OutIs, Numbers DEF Bounded, Held, Removing, Carried, Carrying, Dated
<1>9. Numbered
  BY <1>1, <1>2 DEF Numbered, Removing
<1>10. Asked /\ Judged
  BY <1>1, <1>3, OutIs DEF Asked, Judging, Judged, Decided
<1>11. Withdrawn /\ Rejected /\ Kept /\ Swept
  BY <1>1, <1>6, OutIs DEF Withdrawn, Rejected, Kept, Swept
<1> QED BY <1>7, <1>8, <1>9, <1>10, <1>11 DEF InboxInv

LEMMA StepKept ==
  ASSUME InboxInv, [Next]_vars
  PROVE  InboxInv'
<1>1. CASE Next
  <2>1. Kinds /\ Bounded'
    BY <1>1, EveryStepHasAKind, BoundedKept DEF InboxInv
  <2> QED BY <2>1, TypedKept, HeldKept, CarriedKept, DatedKept, NumberedKept, AskedKept,
             JudgedKept, WithdrawnKept, RejectedKept, KeptKept, SweptKept DEF InboxInv
<1>2. CASE UNCHANGED vars
  <2>1. UNCHANGED <<disk, gen, saved, late, place, holder, own, got, wr, rm, faults>>
    BY <1>2 DEF vars
  <2>2. Typed' /\ Bounded' /\ Held' /\ Carried' /\ Dated' /\ Numbered'
    BY <2>1 DEF InboxInv, Typed, Bounded, Held, Carried, Dated, Born, Numbered, Exists
  <2>3. Asked' /\ Judged' /\ Withdrawn' /\ Swept'
    BY <2>1 DEF InboxInv, Asked, Waiting, Judged, Accepted, Withdrawn, RemovalBegun, Swept,
       Covered, Exists
  <2>4. Rejected' /\ Kept'
    BY <2>1 DEF InboxInv, Rejected, Kept, Disturbed, Acceptable, Bound
  <2> QED BY <2>2, <2>3, <2>4 DEF InboxInv
<1> QED BY <1>1, <1>2

\* In every reachable state: who holds the run's lock, where each delivery is and whose it is,
\* that the owner works at a question that waits, and that whoever withdraws a
\* delivery has a removal of its run to withdraw it from (inbox.ts, questions.ts).
THEOREM InboxInvariant == Spec => []InboxInv
PROOF BY InitKept, StepKept, PTL DEF Spec
-----------------------------------------------------------------------------
(* What the runs check.                                                    *)

\* An answer resolves only the run that it was written for, and only when the schema, the
\* author and its recorded time let it (#signal in questions.ts, envelopeBinding).
THEOREM AlwaysAnswersAreAddressed == Spec => []AnswersAreAddressed
<1>1. ASSUME InboxInv
      PROVE  AnswersAreAddressed
  <2>1. TypeOK
    BY <1>1 DEF InboxInv, Typed, Bounded, Held, TypeOK, Disks, Records, Owning, Writing, Removals
  <2>2. got # None /\ got.by = "signal" => got.env.gen = gen /\ got.env.ok /\ ~got.env.late
    BY <1>1 DEF InboxInv, Judged, Accepted
  <2> QED BY <2>1, <2>2 DEF AnswersAreAddressed
<1> QED BY <1>1, InboxInvariant, PTL

\* A delivery whose writer was told that it is queued, and that the owner would accept, lies
\* where the owner looks, unless the run's removal or a writer for an earlier run
\* with the ID disturbs it (writeAnswer and withdrawOwnDelivery in inbox.ts).
THEOREM AlwaysQueuedIsKept == Spec => []QueuedIsKept
<1>1. InboxInv => QueuedIsKept
  BY DEF InboxInv, Kept, QueuedIsKept, Valid, Acceptable, Bound
<1> QED BY <1>1, InboxInvariant, PTL

\* Once a removal is through and the writers are done, no delivery is left under the removed
\* run's ID, however they interleaved (run-removal.ts, withdrawDeliveryIfRunRemoved).
THEOREM AlwaysRemovedLeavesNothing == Spec => []RemovedLeavesNothing
<1>1. InboxInv => RemovedLeavesNothing
  BY DEF InboxInv, Swept, Covered, RemovedLeavesNothing
<1> QED BY <1>1, InboxInvariant, PTL

\* A body is never given another outcome than it was given first, through kills, failed saves,
\* resumes and answers that are still in the inbox (#register and #complete).
THEOREM AlwaysOneOutcome == Spec => OneOutcome
<1>1. ASSUME InboxInv, Next, got # None, gen' = gen
      PROVE  got' = got
  <2>1. Kinds
    BY <1>1, EveryStepHasAKind DEF InboxInv
  <2>2. got = saved.question /\ saved.question.by \in Decided
    BY <1>1 DEF InboxInv, Judged
  <2>3. own.pc # "saving"
    BY <2>2, <1>1 DEF InboxInv, Asked, Judging, Waiting, Decided
  <2>4. ASSUME NEW w \in Writers, WriterKinds(w)
        PROVE  got' = got
    BY <2>4 DEF WriterKinds, Starts, Proceeds, Links, Retreats, Claims, Examines, OnlyWriters
  <2>5. CASE OwnerKinds
    <3>1. ~Begins
      BY <1>1 DEF Begins, InboxInv, Typed, Generations
    <3> QED BY <2>2, <2>3, <2>5, <3>1 DEF OwnerKinds, Considers, Settles, Spots, OnlyOwner,
               Rejects, Falters, Opens, Registers, Completes, Stops
  <2>6. CASE RemovalKinds
    BY <2>6 DEF RemovalKinds, Inspects, Locks, Empties, Quits, Unmarks, Buries, Sweeps
  <2> QED BY <2>1, <2>4, <2>5, <2>6 DEF Kinds, Passes
<1>2. InboxInv /\ [Next]_vars => [got # None /\ gen' = gen => got' = got]_vars
  BY <1>1 DEF vars
<1> QED BY <1>2, InboxInvariant, PTL DEF Spec, OneOutcome
=============================================================================
