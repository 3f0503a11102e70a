------------------------------- MODULE Inbox -------------------------------
(* One waiting question of a run, the writers that answer it without a lock  *)
(* (inbox.ts), the owner that alone ingests answers (questions.ts), and the  *)
(* removal of the run, after which another run may take the same ID          *)
(* (run-removal.ts).  A run with a flat checkpoint keeps its inbox outside   *)
(* its directory; every other run keeps it inside.                           *)
(* One action is one call to the file system, or what the owner does between *)
(* two awaits.                                                               *)
EXTENDS Naturals, FiniteSets

CONSTANTS
    Writers,          \* processes that each answer the question once
    None,             \* a model value: no file, no outcome
    MaxGenerations,   \* bound: runs that have had this ID
    MaxFaults,        \* bound: kills of an owner or a removal, and saves of an outcome that fail
    Polled,           \* generations whose wait has a poll besides its signal
    Layouts           \* initial storage of the first run: "flat", "migrated", "directory"

ASSUME InboxAssumption ==
    /\ MaxGenerations \in Nat \ {0} /\ MaxFaults \in Nat
    /\ Layouts \subseteq {"flat", "migrated", "directory"}
    /\ Polled \subseteq 1..MaxGenerations /\ None \notin Writers

VARIABLES
    disk,      \* which of the run's records exist: the flat file, the directory's run.json
    gen,       \* number of runs that have had this ID; the last one's generation
    saved,     \* its durable record: status of the run, state of the question
    late,      \* the wait's deadline has passed
    place,     \* the delivery in the inbox inside and outside the directory
    holder,    \* who holds the run lock and its guard: "none", "owner", "rm"
    own,       \* the owner: where it is, the delivery it read, the outcome it decided
    got,       \* outcome that the body of this generation was given
    wr,        \* each writer: where it is, its envelope, the path it chose
    rm,        \* the removal: where it is and the generation it inspected
    faults     \* kills and failed saves so far

vars == <<disk, gen, saved, late, place, holder, own, got, wr, rm, faults>>
runVars == <<disk, gen, saved, late, got>>

Places == {"inside", "outside"}
Decided == {"signal", "poll", "deadline"}
Generations == 1..MaxGenerations
Envelopes == [by: Writers, gen: Generations, ok: BOOLEAN, late: BOOLEAN]
ASSUME NoneAssumption == None \notin Envelopes \cup [mine: Envelopes, caught: Envelopes]
Outcomes == [by: Decided, env: Envelopes \cup {None}]
\* The question as the record has it: without an outcome, or with its outcome
Undecided(s) == [by |-> s, env |-> None]
Questions == [by: {"none", "waiting", "withdrawn"} \cup Decided, env: Envelopes \cup {None}]
Waiting == saved.question.by = "waiting"
OwnerSteps == {"out", "register", "scan", "clock", "observing", "rescan", "finish",
               "reject", "saving", "idle", "failing", "done"}
WriterSteps == {"idle", "look", "link", "reread", "claim", "examine", "queued", "refused"}
RemovalSteps == {"idle", "inspected", "siblings", "flat", "rename", "sweep", "removed", "refused"}

\* readRun: the directory's record, or an unmigrated flat one
Exists == disk.flat \/ disk.dir
\* answerPath: a flat checkpoint or marker keeps the inbox beside it
Path == IF disk.flat THEN "outside" ELSE "inside"
\* answerCandidates: the current path first, then the other layout's
Other(p) == IF p = "inside" THEN "outside" ELSE "inside"
Delivered == IF place[Path] # None THEN Path
             ELSE IF place[Other(Path)] # None THEN Other(Path) ELSE None

\* Mutant of Bound: a delivery is not tied to a run.
BoundToAny(e, g) == TRUE

\* envelopeBinding: the delivery names the run it was addressed to
Bound(e, g) == e.gen = g
\* What #signal accepts: the binding, the author and the schema, the recorded time
Acceptable(e) == Bound(e, gen) /\ e.ok /\ ~e.late

Out == [pc |-> "out", seen |-> None, next |-> None, outcome |-> None, result |-> None]
Goes(pc) == own' = [Out EXCEPT !.pc = pc]
Observed(pc, r) == own' = [Out EXCEPT !.pc = pc, !.result = r]
Decides(by, e) == own' = [Out EXCEPT !.pc = "saving", !.outcome = [by |-> by, env |-> e]]

Init ==
    /\ \E l \in Layouts: disk = [flat |-> l # "directory", dir |-> l # "flat"]
    /\ gen = 1
    /\ saved = [run |-> "suspended", question |-> Undecided("waiting")]
    /\ late = FALSE
    /\ place = [p \in Places |-> None]
    /\ holder = "none"
    /\ own = Out
    /\ got = None
    /\ wr = [w \in Writers |-> [pc |-> "idle", env |-> None, path |-> None]]
    /\ rm = [pc |-> "idle", gen |-> 0]
    /\ faults = 0

-----------------------------------------------------------------------------
\* writeAnswer

Refuse(w) == wr' = [wr EXCEPT ![w].pc = "refused", ![w].path = None]

\* It reads the record without a lock, and validates the value and the author.
\* ok: whether the owner's own schema, with its refinements, will accept it too.
WriterReads(w) ==
    /\ wr[w].pc = "idle"
    /\ IF Exists /\ Waiting
       THEN \E ok \in IF late THEN {TRUE} ELSE BOOLEAN:
              wr' = [wr EXCEPT ![w] = [pc |-> "look", path |-> None,
                       env |-> [by |-> w, gen |-> gen, ok |-> ok, late |-> late]]]
       ELSE Refuse(w)
    /\ UNCHANGED <<runVars, place, holder, own, rm, faults>>

\* The path follows the layout of this moment; a delivery under the other one conflicts
WriterLooks(w) ==
    /\ wr[w].pc = "look"
    /\ IF place[Other(Path)] = None
       THEN wr' = [wr EXCEPT ![w].path = Path, ![w].pc = "link"]
       ELSE Refuse(w)
    /\ UNCHANGED <<runVars, place, holder, own, rm, faults>>

\* Mutant of Publishes: rename(temporary, path) in place of the exclusive link.
PublishesOver(w, p) ==
    /\ place' = [place EXCEPT ![p] = wr[w].env]
    /\ wr' = [wr EXCEPT ![w].pc = "reread"]

\* link(temporary, path) never replaces: EEXIST is the conflict
Publishes(w, p) ==
    IF place[p] = None
    THEN /\ place' = [place EXCEPT ![p] = wr[w].env]
         /\ wr' = [wr EXCEPT ![w].pc = "reread"]
    ELSE Refuse(w) /\ UNCHANGED place

WriterLinks(w) ==
    /\ wr[w].pc = "link"
    /\ Publishes(w, wr[w].path)
    /\ UNCHANGED <<runVars, holder, own, rm, faults>>

\* Mutant of StillThere: the run is not read again after the link.
StillThereAssumed(w) == TRUE

\* withdrawDeliveryIfRunRemoved: the run is still the one that was addressed
StillThere(w) == Exists /\ gen = wr[w].env.gen

WriterRereads(w) ==
    /\ wr[w].pc = "reread"
    /\ wr' = [wr EXCEPT ![w].pc = IF StillThere(w) THEN "queued" ELSE "claim"]
    /\ UNCHANGED <<runVars, place, holder, own, rm, faults>>

\* withdrawOwnDelivery: rename to a private name; from here wr[w].env is what was caught
WriterClaims(w) ==
    LET caught == place[wr[w].path] IN
    /\ wr[w].pc = "claim"
    /\ IF caught = None
       THEN Refuse(w) /\ UNCHANGED place
       ELSE /\ wr' = [wr EXCEPT ![w] = [pc |-> "examine", path |-> wr[w].path,
                                        env |-> [mine |-> wr[w].env, caught |-> caught]]]
            /\ place' = [place EXCEPT ![wr[w].path] = None]
    /\ UNCHANGED <<runVars, holder, own, rm, faults>>

\* Another generation's delivery is linked back, or left at the private name
WriterExamines(w) ==
    LET e == wr[w].env IN
    /\ wr[w].pc = "examine"
    /\ wr' = [wr EXCEPT ![w].pc = "refused", ![w].path = None, ![w].env = e.mine]
    /\ place' = IF ~Bound(e.caught, e.mine.gen) /\ place[wr[w].path] = None
                THEN [place EXCEPT ![wr[w].path] = e.caught] ELSE place
    /\ UNCHANGED <<runVars, holder, own, rm, faults>>

-----------------------------------------------------------------------------
\* The owner

\* Open or resume the run; opening migrates an unmigrated flat run and keeps its marker
OpenRun ==
    /\ holder = "none" /\ Exists /\ saved.run # "completed"
    /\ holder' = "owner"
    /\ disk' = [disk EXCEPT !.dir = TRUE]
    /\ saved' = [saved EXCEPT !.run = "running"]
    /\ Goes("register")
    /\ UNCHANGED <<gen, late, place, got, wr, rm, faults>>

\* A new run takes the ID: always in a directory, of a new generation
StartNew ==
    /\ holder = "none" /\ ~Exists /\ gen < MaxGenerations
    /\ holder' = "owner"
    /\ disk' = [flat |-> FALSE, dir |-> TRUE]
    /\ gen' = gen + 1
    /\ late' = FALSE
    /\ saved' = [run |-> "running", question |-> Undecided("none")]
    /\ got' = None
    /\ Goes("register")
    /\ UNCHANGED <<place, wr, rm, faults>>

\* #register: a settled wait is replayed, a withdrawn one refused, another saved and scanned
Register ==
    /\ own.pc = "register"
    /\ \/ /\ saved.question.by \in Decided
          /\ got' = saved.question
          /\ Goes("done") /\ UNCHANGED saved
       \/ /\ saved.question.by = "withdrawn"
          /\ Goes("failing") /\ UNCHANGED <<saved, got>>
       \/ /\ saved.question.by \in {"none", "waiting"}
          /\ saved' = [saved EXCEPT !.question = Undecided("waiting")]
          /\ Goes("scan") /\ UNCHANGED got
    /\ UNCHANGED <<disk, gen, late, place, holder, wr, rm, faults>>

\* #signal: the first candidate is read and judged
Read(here, next) ==
    /\ own.pc = here
    /\ LET p == Delivered IN
       IF p = None THEN Observed(next, own.result)
       ELSE IF Acceptable(place[p]) THEN Decides("signal", place[p])
       ELSE own' = [own EXCEPT !.pc = "reject", !.seen = p, !.next = next]
    /\ UNCHANGED <<runVars, place, holder, wr, rm, faults>>

Scan == Read("scan", "clock")
Rescan == Read("rescan", "finish")

\* The rename to .rejected takes whatever is at the path by now; nothing there fails the wait
Reject ==
    /\ own.pc = "reject"
    /\ IF place[own.seen] = None
       THEN Goes("failing") /\ UNCHANGED place
       ELSE /\ Observed(own.next, own.result)
            /\ place' = [place EXCEPT ![own.seen] = None]
    /\ UNCHANGED <<runVars, holder, wr, rm, faults>>

\* No signal: a poll that is due, or always once the deadline has passed, is observed;
\* without a poll the deadline decides
Clock ==
    /\ own.pc = "clock"
    /\ \/ gen \in Polled /\ Observed("observing", IF late THEN "last" ELSE None)
       \/ gen \in Polled /\ ~late /\ Goes("idle")
       \/ gen \notin Polled /\ late /\ Decides("deadline", None)
       \/ gen \notin Polled /\ ~late /\ Goes("idle")
    /\ UNCHANGED <<runVars, place, holder, wr, rm, faults>>

\* #observe: settled (done or not, or an error that is tolerated), an error that is not
\* tolerated, or cut short by a deadline that was still ahead when it began
Observe ==
    /\ own.pc = "observing"
    /\ \/ \E r \in {"done", "not yet"}: Observed("rescan", r)
       \/ Goes("failing")
       \/ late /\ own.result # "last" /\ Decides("deadline", None)
    /\ UNCHANGED <<runVars, place, holder, wr, rm, faults>>

\* After the second look at the inbox: poll, then deadline, then the next check
Finish ==
    /\ own.pc = "finish"
    /\ IF own.result = "done" THEN Decides("poll", None)
       ELSE IF late THEN Decides("deadline", None) ELSE Goes("idle")
    /\ UNCHANGED <<runVars, place, holder, wr, rm, faults>>

\* Mutant of SaveOutcome: the body goes on before the save is through, and it is lost.
SaveOutcomeLater ==
    /\ own.pc = "saving"
    /\ got' = own.outcome
    /\ Goes("done")
    /\ UNCHANGED <<disk, gen, saved, late, place, holder, wr, rm, faults>>

\* #complete: the outcome is saved, and only then given to the body
SaveOutcome ==
    /\ own.pc = "saving"
    /\ saved' = [saved EXCEPT !.question = own.outcome]
    /\ got' = own.outcome
    /\ Goes("done")
    /\ UNCHANGED <<disk, gen, late, place, holder, wr, rm, faults>>

SaveOutcomeFails ==
    /\ own.pc = "saving" /\ faults < MaxFaults
    /\ own' = [own EXCEPT !.pc = "failing"]
    /\ faults' = faults + 1
    /\ UNCHANGED <<runVars, place, holder, wr, rm>>

\* The pump sleeps between two scans
Pump ==
    /\ own.pc = "idle" /\ Goes("scan")
    /\ UNCHANGED <<runVars, place, holder, wr, rm, faults>>

Leaves == holder' = "none" /\ own' = Out

\* Quiescence: the wait is external, and the inbox was scanned
Suspend ==
    /\ own.pc = "idle"
    /\ Leaves
    /\ saved' = [saved EXCEPT !.run = "suspended"]
    /\ UNCHANGED <<disk, gen, late, place, got, wr, rm, faults>>

\* The body ends without the answer: completed withdraws the question; failed leaves it.
\* close() makes a check in progress return at its next step.
EndWithout ==
    /\ own.pc \in {"idle", "scan", "clock", "observing", "rescan", "finish"}
    /\ Leaves
    /\ \E s \in {"completed", "failed"}:
         saved' = [saved EXCEPT !.run = s,
                     !.question = IF s = "completed" THEN Undecided("withdrawn") ELSE @]
    /\ UNCHANGED <<disk, gen, late, place, got, wr, rm, faults>>

\* The wait was rejected: the run fails; the last save keeps an outcome already decided
FailRun ==
    /\ own.pc = "failing"
    /\ Leaves
    /\ saved' = [saved EXCEPT !.run = "failed",
                   !.question = IF own.outcome # None THEN own.outcome ELSE @]
    /\ UNCHANGED <<disk, gen, late, place, got, wr, rm, faults>>

\* The body has its outcome and goes on to its end, or waits for something else
EndWith ==
    /\ own.pc = "done"
    /\ Leaves
    /\ \E s \in {"completed", "failed", "suspended"}: saved' = [saved EXCEPT !.run = s]
    /\ UNCHANGED <<disk, gen, late, place, got, wr, rm, faults>>

OwnerCrash ==
    /\ holder = "owner" /\ faults < MaxFaults
    /\ Leaves
    /\ faults' = faults + 1
    /\ UNCHANGED <<runVars, place, wr, rm>>

DeadlinePasses ==
    /\ ~late /\ Exists /\ Waiting
    /\ late' = TRUE
    /\ UNCHANGED <<disk, gen, saved, place, holder, own, got, wr, rm, faults>>

-----------------------------------------------------------------------------
\* workflow rm --force

RmGoes(pc) == rm' = [rm EXCEPT !.pc = pc]

RmInspects ==
    /\ rm.pc = "idle" /\ Exists
    /\ rm' = [pc |-> "inspected", gen |-> gen]
    /\ UNCHANGED <<runVars, place, holder, own, wr, faults>>

\* Under the lock the record must still be the inspected run
RmLocks ==
    /\ rm.pc = "inspected" /\ holder = "none"
    /\ IF Exists /\ gen = rm.gen
       THEN RmGoes("siblings") /\ holder' = "rm"
       ELSE RmGoes("refused") /\ UNCHANGED holder
    /\ UNCHANGED <<runVars, place, own, wr, faults>>

\* removeSiblings: <runId>.inbox and <runId>.cancel.json
SweepOutside == place' = [place EXCEPT !["outside"] = None]

RmSiblings ==
    /\ rm.pc = "siblings"
    /\ SweepOutside /\ RmGoes("flat")
    /\ UNCHANGED <<runVars, holder, own, wr, faults>>

\* The signal is honoured only before the flat file goes
RmStops ==
    /\ rm.pc = "flat"
    /\ RmGoes("refused") /\ holder' = "none"
    /\ UNCHANGED <<runVars, place, own, wr, faults>>

RmFlat ==
    /\ rm.pc = "flat"
    /\ disk' = [disk EXCEPT !.flat = FALSE] /\ RmGoes("rename")
    /\ UNCHANGED <<gen, saved, late, place, holder, own, got, wr, faults>>

\* The directory becomes a tombstone, with the inbox inside it
RmRename ==
    /\ rm.pc = "rename"
    /\ disk' = [disk EXCEPT !.dir = FALSE]
    /\ place' = [place EXCEPT !["inside"] = None]
    /\ RmGoes("sweep")
    /\ UNCHANGED <<gen, saved, late, holder, own, got, wr, faults>>

\* The siblings again, the tombstone, and last the guard
RmSweep ==
    /\ rm.pc = "sweep"
    /\ SweepOutside /\ RmGoes("removed") /\ holder' = "none"
    /\ UNCHANGED <<runVars, own, wr, faults>>

RmCrash ==
    /\ holder = "rm" /\ faults < MaxFaults
    /\ holder' = "none" /\ RmGoes("refused")
    /\ faults' = faults + 1
    /\ UNCHANGED <<runVars, place, own, wr>>

-----------------------------------------------------------------------------
WriterStep(w) == \/ WriterReads(w) \/ WriterLooks(w) \/ WriterLinks(w) \/ WriterRereads(w)
                   \/ WriterClaims(w) \/ WriterExamines(w)
OwnerStep == \/ Register \/ Scan \/ Rescan \/ Reject \/ Clock \/ Observe \/ Finish
             \/ SaveOutcome \/ FailRun \/ EndWith \/ Pump
RemovalStep == RmLocks \/ RmSiblings \/ RmFlat \/ RmRename \/ RmSweep

Next ==
    \/ \E w \in Writers: WriterStep(w)
    \/ OwnerStep \/ OpenRun \/ StartNew \/ SaveOutcomeFails \/ Suspend \/ EndWithout \/ OwnerCrash
    \/ DeadlinePasses
    \/ RemovalStep \/ RmInspects \/ RmStops \/ RmCrash

Spec == Init /\ [][Next]_vars

\* Mutant of Due: tick looks at the times alone.
DueByTime == late

\* tick's due: a delivery lies in either inbox, or the saved wake time has come
Due == Delivered # None \/ late

\* An owner that runs goes on, and so does a removal; a writer may stop anywhere; tick resumes what is due:
\* a suspended run with a delivery or a passed deadline, and a running one without an owner.
ResumeDue == OpenRun /\ (saved.run = "running" \/ (saved.run = "suspended" /\ Due))

Fairness == WF_vars(OwnerStep) /\ WF_vars(RemovalStep) /\ WF_vars(ResumeDue)

FairSpec == Spec /\ Fairness

-----------------------------------------------------------------------------
\* What each part may hold.
TypeOK ==
    /\ disk \in [flat: BOOLEAN, dir: BOOLEAN]
    /\ gen \in Generations /\ late \in BOOLEAN
    /\ saved \in [run: {"running", "suspended", "completed", "failed"},
                  question: Questions]
    /\ place \in [Places -> Envelopes \cup {None}]
    /\ holder \in {"none", "owner", "rm"} /\ (holder = "owner" <=> own.pc # "out")
    /\ own \in [pc: OwnerSteps, seen: Places \cup {None}, next: {None, "clock", "finish"},
                outcome: Outcomes \cup {None}, result: {None, "last", "done", "not yet"}]
    /\ got \in Outcomes \cup {None}
    /\ \A w \in Writers: wr[w].pc \in WriterSteps /\ wr[w].path \in Places \cup {None}
    /\ rm \in [pc: RemovalSteps, gen: 0..MaxGenerations]
    /\ faults \in 0..MaxFaults

\* Beside the types: an answer meant for a removed run never resolves a later run with its
\* ID, nor does one that its schema refuses or that was recorded after the deadline. Whatever
\* the body of a generation was given as a signal was written for that generation and is
\* accepted by its rules.
AnswersAreAddressed ==
    /\ TypeOK
    /\ got # None /\ got.by = "signal" => got.env.gen = gen /\ got.env.ok /\ ~got.env.late

\* One outcome per wait, for good: through kills, failed saves, resumes and answers that are
\* still in the inbox, a body is never given another outcome than it was given first.
OneOutcome == [][got # None /\ gen' = gen => got' = got]_vars

\* A delivery that its writer was told is queued, and that its owner would accept
Valid(w) ==
    /\ wr[w].pc = "queued" /\ Exists
    /\ wr[w].env.gen = gen /\ wr[w].env.ok /\ ~wr[w].env.late
\* A removal of this run has begun, or a writer for an earlier run of the ID has interfered
Disturbed ==
    \/ rm.gen = gen /\ rm.pc \notin {"idle", "inspected"}
    \/ \E w \in Writers: wr[w].pc # "idle" /\ wr[w].env # None
                         /\ ~(wr[w].pc # "examine" /\ wr[w].env.gen = gen)

\* Of concurrent deliveries one is queued, and it stays: as long as the question waits, a
\* delivery whose writer was told it is queued lies where the owner looks, unless the run's
\* removal took it or a writer for an earlier run with the ID moved it.
QueuedIsKept ==
    \A w \in Writers:
        Valid(w) /\ Waiting /\ ~Disturbed =>
            \E p \in Places: place[p] = wr[w].env

\* The handshake of writers and rm: once a removal is through and the writers are done, no
\* delivery is left beside or under the removed run's ID.
RemovedLeavesNothing ==
    rm.pc = "removed" /\ ~Exists
    /\ (\A w \in Writers: wr[w].pc \in {"idle", "queued", "refused"})
        => \A p \in Places: place[p] = None

\* A question with a queued answer, or past its deadline, does not wait for ever: tick
\* resumes its run, whoever is killed, and the owner decides it.
Answerable ==
    /\ Exists /\ Waiting /\ saved.run \in {"running", "suspended"} /\ ~Disturbed
    /\ late \/ \E w \in Writers: Valid(w)
WaitsEnd == []<>~Answerable
=============================================================================
