---------------------------- MODULE FanOutProofs ----------------------------
(***************************************************************************)
(* What FanOut promises, for every number of items and workers, every set  *)
(* of edits and every number of executions and of failed saves.            *)
(*                                                                         *)
(* The safety properties follow from FanOutInv, whose parts say where the  *)
(* workers are, how the copies of the record (on disk, in the batch, in    *)
(* memory) relate, and what a journal may hold.                            *)
(***************************************************************************)
EXTENDS FanOut, FiniteSetTheorems, TLAPS

Flying == batch # NoBatch

Hows == {"ok", "failed", "fatal", "cancelled", "checkpoint"}
Kinds == {"pending", "ok", "failed", "cancelled"}
DefType == [{"items", "mapper"} -> 1 .. MaxExecutions]
Entry == [kind : Kinds, items : {None} \cup 1 .. MaxExecutions, owns : BOOLEAN]
JournalType == [status : {"none", "running", "completed"}, def : {None} \cup DefType,
                items : [Items -> Entry]]
RecordType == [journal : JournalType, steps : [Items -> Statuses]]

\* The types, and how many edits there can have been.
TypedRecords ==
  /\ disk \in RecordType /\ mem \in RecordType /\ before \in JournalType
  /\ Flying => batch.record \in RecordType

TypedMap ==
  /\ map \in {"idle", "opening", "opened", "running", "closing", "returned", "threw"}
  /\ opts \in [settle : BOOLEAN, cancel : BOOLEAN]
  /\ item \in [Items -> {"unscheduled", "mapping", "draining", "saving", "saved", "unsaved",
                         "done"}]
  /\ result \in [Items -> {"none"} \cup Hows]
  /\ op \in [Items -> {"none", "running", "recording", "ok", "failed", "cancelled",
                       "checkpoint"}]
  /\ free \in Nat /\ next \in 1 .. N + 1 /\ failures \subseteq Items
  /\ fatal \in BOOLEAN /\ controller \in BOOLEAN /\ parent \in BOOLEAN
  /\ executions \in 0 .. MaxExecutions
  /\ executions = 0 => map = "idle" /\ def["items"] = 1 /\ def["mapper"] = 1
  /\ executions > 0 =>
       def \in DefType /\ def["items"] <= executions /\ def["mapper"] <= executions

\* Where the call of the map is, and what its items and its batch may be doing.
Staged ==
  /\ map = "idle" => mem = disk /\ ~Flying /\ next = 1
  /\ map # "running" => free = 0 /\ \A i \in Items : ~Busy(i)
  /\ Flying => batch.waiters # {} /\ batch.waiters \subseteq Waiters
  /\ \A i \in Items :
       /\ InFlight(i) => item[i] \in {"mapping", "draining"}
       /\ item[i] = "unscheduled" => op[i] = "none"
       /\ item[i] = "draining" => result[i] # "none"
       /\ item[i] # "unscheduled" <=> i < next

\* Workers are at the head of their loop, at one item, or have left for a reason that
\* lasts.
BusyItems == {i \in Items : Busy(i)}
Staffed ==
  /\ free + Cardinality(BusyItems) <= Workers
  /\ map = "running" /\ free + Cardinality(BusyItems) < Workers => Stops

\* What the older journal has recorded, the younger one records alike.
Keeps(older, younger) ==
  \A i \in Items : Completed(older, i) => younger.items[i] = older.items[i]

\* A recorded outcome is in every later copy; the map's own saves are of all there is.
Copied ==
  /\ Keeps(disk.journal, mem.journal)
  /\ Flying => /\ Keeps(disk.journal, batch.record.journal)
               /\ Keeps(batch.record.journal, mem.journal)
               /\ Self \in batch.waiters => batch.record = mem
  /\ map = "returned" /\ opts.settle => disk = mem

\* Which items are committed in memory, and that they own what their mappers left.
Committing ==
  /\ ~opts.settle => map # "closing" /\ \A i \in Items : ~Completed(mem.journal, i)
  /\ opts.settle => \A i \in Items :
       /\ item[i] \in {"mapping", "draining"} => ~Completed(mem.journal, i)
       /\ item[i] \in {"saving", "saved", "unsaved"} => Completed(mem.journal, i)
       /\ item[i] = "done" => fatal \/ Completed(mem.journal, i)
  /\ map \in {"closing", "returned"} => \A i \in Items :
       item[i] = "done" /\ (opts.settle => Completed(mem.journal, i))
  /\ \A i \in Items : Completed(mem.journal, i) => (owns(i) => mem.journal.items[i].owns)

\* Outcomes are of the items that their journal was made for, in every copy.
MadeFor(j) ==
  \A i \in Items :
    Completed(j, i) => j.status # "none" /\ j.items[i].items = j.def["items"]
Made ==
  /\ MadeFor(disk.journal) /\ MadeFor(mem.journal)
  /\ Flying => MadeFor(batch.record.journal)
  /\ opts.settle /\ map \notin {"idle", "threw"} =>
       mem.journal.status # "none" /\ mem.journal.def["items"] = def["items"]

\* A cancellation has its cause, in every copy.
CausedIn(j) == (\E i \in Items : j.items[i].kind = "cancelled") => Failed(j)
Caused ==
  /\ CausedIn(disk.journal) /\ CausedIn(mem.journal)
  /\ Flying => CausedIn(batch.record.journal)
  /\ opts.settle /\ controller => Failed(mem.journal)

\* What this execution found is still recorded, and a failure among it decides.
Decided ==
  /\ Keeps(before, disk.journal)
  /\ opts.settle /\ opts.cancel /\ Failed(before) =>
       /\ map = "running" => controller
       /\ \A i \in Items :
            /\ item[i] \notin {"mapping", "draining"}
            /\ map # "idle" /\ Completed(mem.journal, i) /\ ~Completed(before, i) =>
                 mem.journal.items[i].kind = "cancelled"

FanOutInv ==
  TypedRecords /\ TypedMap /\ Staged /\ Staffed /\ Copied /\ Committing /\ Made /\ Caused
    /\ Decided
-----------------------------------------------------------------------------
(* What the changes of the record do, field by field.                      *)

LEMMA WorkersPositive == Workers \in Nat \ {0}
PROOF BY FanOutAssumption DEF Workers

LEMMA RecordParts ==
  ASSUME NEW r \in RecordType
  PROVE  r.journal \in JournalType /\ r.steps \in [Items -> Statuses]
PROOF BY DEF RecordType

LEMMA EmptyJournal ==
  /\ NoJournal \in JournalType
  /\ NoJournal.status = "none"
  /\ \A i \in Items : NoJournal.items[i] = Pending /\ ~Completed(NoJournal, i)
PROOF BY DEF NoJournal, JournalType, Entry, Pending, Kinds, Completed

LEMMA FreshJournal ==
  ASSUME NEW d \in DefType
  PROVE  /\ NewJournal(d) \in JournalType
         /\ NewJournal(d).status = "running" /\ NewJournal(d).def = d
         /\ \A i \in Items : NewJournal(d).items[i] = Pending /\ ~Completed(NewJournal(d), i)
PROOF BY DEF NewJournal, NoJournal, JournalType, Entry, Pending, Kinds, Completed

\* A journal is replaced.
LEMMA WithJournal ==
  ASSUME NEW r \in RecordType, NEW j \in JournalType
  PROVE  LET s == [r EXCEPT !.journal = j]
         IN  s \in RecordType /\ s.journal = j /\ s.steps = r.steps
PROOF BY DEF RecordType

LEMMA WithDef ==
  ASSUME NEW r \in RecordType, NEW d \in DefType
  PROVE  LET s == [r EXCEPT !.journal.def = d]
         IN  /\ s \in RecordType /\ s.steps = r.steps
             /\ s.journal.status = r.journal.status
             /\ s.journal.items = r.journal.items /\ s.journal.def = d
PROOF BY DEF RecordType, JournalType

LEMMA WithStatus ==
  ASSUME NEW r \in RecordType
  PROVE  LET s == [r EXCEPT !.journal.status = "completed"]
         IN  /\ s \in RecordType /\ s.steps = r.steps
             /\ s.journal.status = "completed"
             /\ s.journal.items = r.journal.items /\ s.journal.def = r.journal.def
PROOF BY DEF RecordType, JournalType

LEMMA WithItem ==
  ASSUME NEW r \in RecordType, NEW i \in Items, NEW e \in Entry
  PROVE  LET s == [r EXCEPT !.journal.items[i] = e]
         IN  /\ s \in RecordType /\ s.steps = r.steps
             /\ s.journal.status = r.journal.status /\ s.journal.def = r.journal.def
             /\ \A k \in Items :
                  s.journal.items[k] = IF k = i THEN e ELSE r.journal.items[k]
PROOF BY DEF RecordType, JournalType

LEMMA WithStep ==
  ASSUME NEW r \in RecordType, NEW i \in Items, NEW status \in Statuses
  PROVE  LET s == [r EXCEPT !.steps[i] = status]
         IN  /\ s \in RecordType /\ s.journal = r.journal
             /\ \A k \in Items \ {i} : s.steps[k] = r.steps[k]
PROOF BY DEF RecordType

\* One item becomes busy, or ceases to be.
LEMMA OneMore ==
  ASSUME NEW S \in SUBSET Items, NEW i \in Items
  PROVE  /\ Cardinality(S) \in Nat
         /\ i \notin S => Cardinality(S \cup {i}) = Cardinality(S) + 1
         /\ i \in S => Cardinality(S \ {i}) = Cardinality(S) - 1
<1>1. IsFiniteSet(Items)
  BY FS_Interval, FanOutAssumption DEF Items
<1>2. IsFiniteSet(S)
  BY <1>1, FS_Subset
<1> QED BY <1>2, FS_CardinalityType, FS_AddElement, FS_RemoveElement

\* An outcome is committed: only this entry of the journal in memory changes.
LEMMA Committed ==
  ASSUME TypedRecords, TypedMap, executions > 0,
         NEW i \in Items, NEW kind \in Kinds, NEW o \in BOOLEAN, Commit(i, kind, o)
  PROVE  /\ mem' \in RecordType /\ mem'.steps = mem.steps
         /\ mem'.journal.status = mem.journal.status /\ mem'.journal.def = mem.journal.def
         /\ mem'.journal.items[i] = [kind |-> kind, items |-> def["items"], owns |-> o]
         /\ \A k \in Items \ {i} : mem'.journal.items[k] = mem.journal.items[k]
<1> DEFINE e == [kind |-> kind, items |-> def.items, owns |-> o]
<1>1. def.items = def["items"]
  OBVIOUS
<1>2. e \in Entry
  BY <1>1 DEF TypedMap, Entry, DefType
<1>3. mem' = [mem EXCEPT !.journal.items[i] = e]
  BY DEF Commit
<1> HIDE DEF e
<1>4. /\ mem' \in RecordType /\ mem'.steps = mem.steps
      /\ mem'.journal.status = mem.journal.status /\ mem'.journal.def = mem.journal.def
      /\ \A k \in Items : mem'.journal.items[k] = IF k = i THEN e ELSE mem.journal.items[k]
  BY <1>2, <1>3, WithItem DEF TypedRecords
<1> QED BY <1>1, <1>4 DEF e

\* An effect's step changes, and the journal does not.
LEMMA Stepped ==
  ASSUME TypedRecords, NEW i \in Items, NEW status \in Statuses, Step(i, status)
  PROVE  /\ mem' \in RecordType /\ mem'.journal = mem.journal
         /\ \A k \in Items \ {i} : mem'.steps[k] = mem.steps[k]
PROOF BY WithStep DEF TypedRecords, Step

\* The definition that a call of the map brings.
LEMMA CallDefines ==
  ASSUME FanOutInv, NEW edit \in SUBSET Edits, NEW accepted \in BOOLEAN, Call(edit, accepted)
  PROVE  /\ executions' = executions + 1 /\ executions' \in 1 .. MaxExecutions
         /\ def' \in DefType
         /\ def'["items"] <= executions' /\ def'["mapper"] <= executions'
<1>1. executions' = executions + 1 /\ executions' \in 1 .. MaxExecutions
  BY FanOutAssumption DEF FanOutInv, TypedMap, Call
<1>2. def' = [c \in {"items", "mapper"} |-> IF c \in edit THEN def[c] + 1 ELSE def[c]]
  BY DEF Call
<1>3. CASE executions = 0
  <2>1. edit = {} /\ def["items"] = 1 /\ def["mapper"] = 1
    BY <1>3 DEF FanOutInv, TypedMap, Call
  <2>2. def' \in [{"items", "mapper"} -> {1}]
    BY <1>2, <2>1
  <2> QED BY <1>1, <1>3, <2>2, FanOutAssumption DEF DefType
<1>4. CASE executions > 0
  <2>1. \A c \in {"items", "mapper"} : def[c] \in 1 .. MaxExecutions /\ def[c] <= executions
    BY <1>4 DEF FanOutInv, TypedMap, DefType
  <2>2. \A c \in {"items", "mapper"} : def'[c] \in 1 .. MaxExecutions /\ def'[c] <= executions'
    BY <1>1, <1>2, <2>1, FanOutAssumption DEF FanOutInv, TypedMap
  <2> QED BY <1>1, <1>2, <2>2 DEF DefType
<1> QED BY <1>3, <1>4 DEF FanOutInv, TypedMap

\* The four ways in which a map that returns its outcomes starts, and the one of a map
\* that throws.
LEMMA CallStarts ==
  ASSUME FanOutInv, NEW edit \in SUBSET Edits, NEW accepted \in BOOLEAN, Call(edit, accepted)
  PROVE  /\ mem' \in RecordType /\ mem'.steps = mem.steps
         /\ before' = mem.journal
         /\ \/ mem' = mem
            \/ mem'.journal = NewJournal(def') /\ \A i \in Items : ~Completed(mem.journal, i)
            \/ /\ mem'.journal.items = mem.journal.items
               /\ mem'.journal.status = mem.journal.status
               /\ mem'.journal.def = def'
               /\ mem.journal.def["items"] = def'["items"]
         /\ \/ ~opts.settle /\ map' = "running" /\ free' = Workers /\ mem' = mem
            \/ opts.settle /\ map' = "threw" /\ free' = 0 /\ mem' = mem
            \/ /\ opts.settle /\ map' = "opening" /\ free' = 0
               /\ mem'.journal.status # "none" /\ mem'.journal.def["items"] = def'["items"]
<1>1. mem \in RecordType /\ before' = mem.journal
  BY DEF FanOutInv, TypedRecords, Call
<1>2. /\ def' \in DefType /\ def'.items = def'["items"]
      /\ mem.journal.def.items = mem.journal.def["items"]
  BY CallDefines
<1>3. CASE ~opts.settle
  BY <1>1, <1>3 DEF Call
<1>4. CASE opts.settle /\ reuse(mem.journal, def')
  BY <1>1, <1>4 DEF Call, reuse, reset, accept
<1>5. CASE opts.settle /\ reset(mem.journal, def')
  <2>1. mem' = [mem EXCEPT !.journal = NewJournal(def')] /\ map' = "opening" /\ free' = 0
    BY <1>5 DEF Call, reuse, reset, accept
  <2>2. mem' \in RecordType /\ mem'.steps = mem.steps /\ mem'.journal = NewJournal(def')
    BY <1>1, <1>2, <2>1, WithJournal, FreshJournal
  <2>3. \A i \in Items : ~Completed(mem.journal, i)
    BY <1>5 DEF reset, committed
  <2> QED BY <1>1, <1>2, <1>5, <2>1, <2>2, <2>3, FreshJournal
<1>6. CASE opts.settle /\ accept(mem.journal, def', accepted)
  <2>1. mem' = [mem EXCEPT !.journal.def = def'] /\ map' = "opening" /\ free' = 0
    BY <1>6 DEF Call, reuse, reset, accept
  <2>2. /\ mem' \in RecordType /\ mem'.steps = mem.steps
        /\ mem'.journal.status = mem.journal.status
        /\ mem'.journal.items = mem.journal.items /\ mem'.journal.def = def'
    BY <1>1, <1>2, <2>1, WithDef
  <2>3. mem.journal.def["items"] = def'["items"]
    BY <1>2, <1>6 DEF accept
  <2>4. mem.journal.status # "none"
    BY <1>6 DEF accept, reset, committed, FanOutInv, Made, MadeFor
  <2> QED BY <1>1, <1>2, <1>6, <2>1, <2>2, <2>3, <2>4
<1>7. CASE /\ opts.settle /\ ~reuse(mem.journal, def') /\ ~reset(mem.journal, def')
           /\ ~accept(mem.journal, def', accepted)
  BY <1>1, <1>7 DEF Call
<1> QED BY <1>3, <1>4, <1>5, <1>6, <1>7

\* What a drained item may be recorded as.
LEMMA DrainedHow ==
  ASSUME FanOutInv, NEW i \in Items, item[i] = "draining", NEW how \in {Judged(e) : e \in Ends(i)},
         how = "ok" \/ settlesFailure(how)
  PROVE  how \in {"ok", "failed", "cancelled"}
<1>1. PICK e \in Ends(i) : how = Judged(e)
  OBVIOUS
<1>2. result[i] \in Hows
  BY DEF FanOutInv, TypedMap, Staged
<1> QED BY <1>1, <1>2 DEF Ends, Judged, settlesFailure, Hows

\* A drained item either commits its outcome and waits for its save, or is left.
LEMMA DrainedEnds ==
  ASSUME FanOutInv, NEW i \in Items, Drained(i)
  PROVE  /\ map = "running" /\ executions > 0 /\ ~InFlight(i) /\ item[i] = "draining"
         /\ UNCHANGED <<map, op, next, disk, batch, opts, def, parent, executions, before>>
         /\ result' = [result EXCEPT ![i] = "none"]
         /\ item' = [item EXCEPT ![i] = item'[i]]
         /\ \A k \in Items \ {i} : item'[k] = item[k]
         /\ mem' \in RecordType /\ mem'.steps = mem.steps
         /\ mem'.journal.status = mem.journal.status /\ mem'.journal.def = mem.journal.def
         /\ \A k \in Items \ {i} : mem'.journal.items[k] = mem.journal.items[k]
         /\ \/ /\ opts.settle /\ item'[i] = "saving"
               /\ mem'.journal.items[i].kind \in {"ok", "failed", "cancelled"}
               /\ mem'.journal.items[i].kind = "cancelled" => controller
               /\ mem'.journal.items[i].items = def["items"]
               /\ mem'.journal.items[i].owns = owns(i)
               /\ UNCHANGED <<free, failures, fatal, controller>>
            \/ /\ opts.settle /\ item'[i] = "done" /\ mem' = mem
               /\ free' = free + 1 /\ fatal' = TRUE
               /\ UNCHANGED <<failures, controller>>
            \/ /\ ~opts.settle /\ item'[i] = "done" /\ mem' = mem
               /\ free' = free + 1 /\ fatal' = fatal
               /\ failures \subseteq failures' /\ failures' \subseteq failures \cup {i}
               /\ controller' \in BOOLEAN /\ (controller => controller')
<1>1. /\ map = "running" /\ executions > 0 /\ ~InFlight(i) /\ item[i] = "draining"
      /\ result' = [result EXCEPT ![i] = "none"]
      /\ UNCHANGED <<map, op, next, disk, batch, opts, def, parent, executions, before>>
  BY DEF FanOutInv, TypedMap, Staged, Busy, Drained, Frame
<1>2. item \in [Items -> {"unscheduled", "mapping", "draining", "saving", "saved", "unsaved",
                          "done"}]
  BY DEF FanOutInv, TypedMap
<1>3. PICK how \in {Judged(e) : e \in Ends(i)} :
     \/ /\ opts.settle
        /\ how = "ok" \/ settlesFailure(how)
        /\ Commit(i, how, owns(i))
        /\ item' = [item EXCEPT ![i] = "saving"]
        /\ UNCHANGED <<free, failures, fatal, controller>>
     \/ /\ opts.settle
        /\ how # "ok" /\ ~settlesFailure(how)
        /\ fatal' = TRUE
        /\ Done(i)
        /\ UNCHANGED <<mem, failures, controller>>
     \/ /\ ~opts.settle
        /\ IF how # "ok" /\ i \notin failures THEN fail(i) ELSE UNCHANGED <<failures, controller>>
        /\ Done(i)
        /\ UNCHANGED <<mem, fatal>>
  BY DEF Drained
<1>4. CASE /\ opts.settle
           /\ how = "ok" \/ settlesFailure(how)
           /\ Commit(i, how, owns(i))
           /\ item' = [item EXCEPT ![i] = "saving"]
           /\ UNCHANGED <<free, failures, fatal, controller>>
  <2>1. how \in {"ok", "failed", "cancelled"} /\ how \in Kinds /\ owns(i) \in BOOLEAN
    BY <1>1, <1>4, DrainedHow DEF Kinds, owns
  <2>2. how = "cancelled" => controller
    BY <1>4 DEF settlesFailure
  <2>3. /\ mem' \in RecordType /\ mem'.steps = mem.steps
        /\ mem'.journal.status = mem.journal.status /\ mem'.journal.def = mem.journal.def
        /\ mem'.journal.items[i] = [kind |-> how, items |-> def["items"], owns |-> owns(i)]
        /\ \A k \in Items \ {i} : mem'.journal.items[k] = mem.journal.items[k]
    BY <1>1, <1>4, <2>1, Committed DEF FanOutInv
  <2> QED BY <1>1, <1>2, <1>4, <2>1, <2>2, <2>3
<1>5. mem' = mem => /\ mem' \in RecordType /\ mem'.steps = mem.steps
                    /\ mem'.journal.status = mem.journal.status
                    /\ mem'.journal.def = mem.journal.def
                    /\ \A k \in Items \ {i} : mem'.journal.items[k] = mem.journal.items[k]
  BY DEF FanOutInv, TypedRecords
<1>6. CASE /\ opts.settle
           /\ fatal' = TRUE
           /\ Done(i)
           /\ UNCHANGED <<mem, failures, controller>>
  BY <1>1, <1>2, <1>5, <1>6 DEF Done
<1>7. CASE /\ ~opts.settle
           /\ IF how # "ok" /\ i \notin failures
              THEN fail(i) ELSE UNCHANGED <<failures, controller>>
           /\ Done(i)
           /\ UNCHANGED <<mem, fatal>>
  <2>1. /\ failures \subseteq failures' /\ failures' \subseteq failures \cup {i}
        /\ controller' \in BOOLEAN /\ (controller => controller')
    BY <1>7 DEF fail, FanOutInv, TypedMap
  <2> QED BY <1>1, <1>2, <1>5, <1>7, <2>1 DEF Done
<1> QED BY <1>3, <1>4, <1>6, <1>7

\* The next item is passed over, committed as cancelled, or mapped.
LEMMA TakeItem ==
  ASSUME FanOutInv, Take
  PROVE  /\ next \in Items /\ executions > 0 /\ map = "running" /\ free > 0
         /\ item[next] = "unscheduled" /\ op[next] = "none"
         /\ next' = next + 1
         /\ UNCHANGED <<map, op, result, failures, fatal, controller, disk, batch, opts, def,
                        parent, executions, before>>
         /\ item' = [item EXCEPT ![next] = item'[next]]
         /\ \A k \in Items \ {next} : item'[k] = item[k]
         /\ mem' \in RecordType /\ mem'.steps = mem.steps
         /\ mem'.journal.status = mem.journal.status
         /\ mem'.journal.def = mem.journal.def
         /\ \A k \in Items \ {next} : mem'.journal.items[k] = mem.journal.items[k]
         /\ \/ /\ opts.settle /\ Completed(mem.journal, next)
               /\ mem' = mem /\ item'[next] = "done" /\ free' = free
            \/ /\ opts.settle /\ ~Completed(mem.journal, next) /\ controller
               /\ mem'.journal.items[next] =
                    [kind |-> "cancelled", items |-> def["items"], owns |-> FALSE]
               /\ item'[next] = "saving" /\ free' = free - 1
            \/ /\ ~(opts.settle /\ (Completed(mem.journal, next) \/ controller))
               /\ mem' = mem /\ item'[next] = "mapping" /\ free' = free - 1
<1>1. next \in Items /\ executions > 0 /\ map = "running" /\ free > 0
  BY FanOutAssumption DEF FanOutInv, TypedMap, Take, Stops, Items
<1>2. item[next] = "unscheduled"
  BY <1>1 DEF FanOutInv, Staged, Items
<1>3. /\ item[next] = "unscheduled" /\ op[next] = "none" /\ next' = next + 1
      /\ UNCHANGED <<map, op, result, failures, fatal, controller, disk, batch, opts, def,
                     parent, executions, before>>
  BY <1>1, <1>2 DEF FanOutInv, Staged, Take, Frame
<1>4. item \in [Items -> {"unscheduled", "mapping", "draining", "saving", "saved", "unsaved",
                          "done"}]
  BY DEF FanOutInv, TypedMap
<1>5. mem' = mem => /\ mem' \in RecordType /\ mem'.steps = mem.steps
                    /\ mem'.journal.status = mem.journal.status
                    /\ mem'.journal.def = mem.journal.def
                    /\ \A k \in Items \ {next} : mem'.journal.items[k] = mem.journal.items[k]
  BY DEF FanOutInv, TypedRecords
<1>6. CASE /\ opts.settle /\ Completed(mem.journal, next) /\ mem' = mem
           /\ item' = [item EXCEPT ![next] = "done"] /\ free' = free
  BY <1>1, <1>3, <1>4, <1>5, <1>6
<1>7. CASE /\ opts.settle /\ ~Completed(mem.journal, next) /\ controller
           /\ Commit(next, "cancelled", FALSE)
           /\ item' = [item EXCEPT ![next] = "saving"]
           /\ free' = free - 1
  <2>1. /\ mem' \in RecordType /\ mem'.steps = mem.steps
        /\ mem'.journal.status = mem.journal.status /\ mem'.journal.def = mem.journal.def
        /\ mem'.journal.items[next] =
             [kind |-> "cancelled", items |-> def["items"], owns |-> FALSE]
        /\ \A k \in Items \ {next} : mem'.journal.items[k] = mem.journal.items[k]
    BY <1>1, <1>7, Committed DEF FanOutInv, Kinds
  <2> QED BY <1>1, <1>3, <1>4, <1>7, <2>1
<1>8. CASE /\ ~(opts.settle /\ (Completed(mem.journal, next) \/ controller)) /\ mem' = mem
           /\ item' = [item EXCEPT ![next] = "mapping"] /\ free' = free - 1
  BY <1>1, <1>3, <1>4, <1>5, <1>8
<1> QED BY <1>6, <1>7, <1>8 DEF Take

\* The map that ends keeps its outcomes.
LEMMA FinishEnds ==
  ASSUME FanOutInv, Finish
  PROVE  /\ map = "running" /\ map' \in {"threw", "closing", "returned"}
         /\ map' = "closing" => opts.settle
         /\ map' = "returned" => ~opts.settle
         /\ mem' \in RecordType /\ mem'.steps = mem.steps
         /\ mem'.journal.status \in {mem.journal.status, "completed"}
         /\ mem'.journal.items = mem.journal.items /\ mem'.journal.def = mem.journal.def
         /\ UNCHANGED <<item, result, op, free, next, failures, fatal, controller, disk, batch,
                        opts, def, parent, executions, before>>
<1>1. mem \in RecordType
  BY DEF FanOutInv, TypedRecords
<1>2. CASE mem' = mem
  BY <1>1, <1>2 DEF Finish, Frame
<1>3. CASE mem' = [mem EXCEPT !.journal.status = "completed"]
  BY <1>1, <1>3, WithStatus DEF Finish, Frame
<1> QED BY <1>2, <1>3 DEF Finish

\* The steps of the items' effects.
LEMMA EffectSteps ==
  ASSUME FanOutInv, NEW i \in Items, Ask(i) \/ OpEnds(i)
  PROVE  /\ map = "running" /\ item[i] \in {"mapping", "draining"} /\ item' = item
         /\ mem' \in RecordType /\ mem'.journal = mem.journal
         /\ \A k \in Items \ {i} : mem'.steps[k] = mem.steps[k]
         /\ op[i] \in {"none", "running"}
         /\ \E pc \in {"running", "recording", "ok", "failed", "cancelled"} :
              op' = [op EXCEPT ![i] = pc]
<1>1. item[i] \in {"mapping", "draining"} /\ op[i] \in {"none", "running"}
  BY DEF FanOutInv, Staged, InFlight, Ask, OpEnds
<1>2. map = "running"
  BY <1>1 DEF FanOutInv, Staged, Busy
<1>3. /\ mem' \in RecordType /\ mem'.journal = mem.journal
      /\ \A k \in Items \ {i} : mem'.steps[k] = mem.steps[k]
  <2>1. CASE mem' = mem
    BY <2>1 DEF FanOutInv, TypedRecords
  <2>2. CASE \E status \in Statuses : Step(i, status)
    BY <2>2, Stepped DEF FanOutInv
  <2> QED BY <2>1, <2>2 DEF Ask, OpEnds, Statuses
<1> QED BY <1>1, <1>2, <1>3 DEF Ask, OpEnds, Op

\* While the items are mapped, the map itself waits for no save.
LEMMA OwnSaves ==
  ASSUME FanOutInv, Flying, map \notin {"opening", "closing"}
  PROVE  Self \notin batch.waiters
PROOF BY FanOutAssumption DEF FanOutInv, Staged, Waiters, Items, Self, Flying

-----------------------------------------------------------------------------
\* The record in memory, its copies and the journal that the execution found.
LEMMA TypedRecordsStep ==
  ASSUME FanOutInv, [Next]_vars
  PROVE  TypedRecords'
PROOF
<1> USE DEF FanOutInv, TypedRecords, Flying
<1>1. ASSUME NEW edit \in SUBSET Edits, NEW accepted \in BOOLEAN, Call(edit, accepted)
      PROVE  TypedRecords'
  <2>1. mem' \in RecordType /\ before' = mem.journal
    BY <1>1, CallStarts
  <2> QED BY <1>1, <2>1, RecordParts DEF Call
<1>2. ASSUME Opened PROVE TypedRecords'
  BY <1>2 DEF Opened, Frame
<1>3. ASSUME Leave PROVE TypedRecords'
  BY <1>3 DEF Leave, Frame
<1>4. ASSUME Take PROVE TypedRecords'
  BY <1>4, TakeItem
<1>5. ASSUME Finish PROVE TypedRecords'
  BY <1>5, FinishEnds
<1>6. ASSUME BatchStarts PROVE TypedRecords'
  BY <1>6 DEF BatchStarts
<1>7. ASSUME BatchSucceeds PROVE TypedRecords'
  BY <1>7 DEF BatchSucceeds
<1>8. ASSUME BatchFails PROVE TypedRecords'
  BY <1>8 DEF BatchFails
<1>9. ASSUME NEW i \in Items, NEW how \in Hows, MapperEnds(i, how) PROVE TypedRecords'
  BY <1>9 DEF MapperEnds, Frame
<1>10. ASSUME NEW i \in Items, Drained(i) PROVE TypedRecords'
  BY <1>10, DrainedEnds
<1>11. ASSUME NEW i \in Items, Journaled(i) PROVE TypedRecords'
  BY <1>11 DEF Journaled, Frame
<1>12. ASSUME NEW i \in Items, Ask(i) PROVE TypedRecords'
  BY <1>12, EffectSteps DEF Ask, Frame
<1>13. ASSUME NEW i \in Items, OpEnds(i) PROVE TypedRecords'
  BY <1>13, EffectSteps DEF OpEnds, Frame
<1>14. ASSUME Abort PROVE TypedRecords'
  BY <1>14 DEF Abort
<1>15. ASSUME End PROVE TypedRecords'
  BY <1>15 DEF End, EndsWith, Reset
<1>16. ASSUME Crash PROVE TypedRecords'
  BY <1>16 DEF Crash, EndsWith, Reset
<1>17. ASSUME UNCHANGED vars PROVE TypedRecords'
  BY <1>17 DEF vars
<1> QED BY <1>1, <1>2, <1>3, <1>4, <1>5, <1>6, <1>7, <1>8, <1>9, <1>10,
          <1>11, <1>12, <1>13, <1>14, <1>15, <1>16, <1>17 DEF Next, Hows

\* The call, its workers and its items.
LEMMA TypedMapStep ==
  ASSUME FanOutInv, [Next]_vars
  PROVE  TypedMap'
PROOF
<1> USE DEF FanOutInv, TypedMap
<1>1. ASSUME NEW edit \in SUBSET Edits, NEW accepted \in BOOLEAN, Call(edit, accepted)
      PROVE  TypedMap'
  BY <1>1, CallStarts, CallDefines, WorkersPositive DEF Call
<1>2. ASSUME Opened PROVE TypedMap'
  BY <1>2, WorkersPositive DEF Opened, Frame
<1>3. ASSUME Leave PROVE TypedMap'
  BY <1>3 DEF Leave, Frame
<1>4. ASSUME Take PROVE TypedMap'
  <2>1. /\ next \in Items /\ next' = next + 1 /\ free \in Nat /\ free > 0
        /\ UNCHANGED <<map, op, result, failures, fatal, controller, opts, def, parent, executions>>
    BY <1>4, TakeItem
  <2>2. /\ item' = [item EXCEPT ![next] = item'[next]]
        /\ item'[next] \in {"done", "saving", "mapping"}
        /\ free' \in {free, free - 1}
    BY <1>4, TakeItem
  <2>3. /\ item' \in [Items -> {"unscheduled", "mapping", "draining", "saving", "saved",
                                "unsaved", "done"}]
        /\ free' \in Nat
    BY <2>1, <2>2
  <2>4. next' \in 1 .. N + 1
    BY <2>1, FanOutAssumption DEF Items
  <2> QED BY <2>1, <2>3, <2>4
<1>5. ASSUME Finish PROVE TypedMap'
  BY <1>5, FanOutAssumption DEF Finish, Frame, scopeSignal
<1>6. ASSUME BatchStarts PROVE TypedMap'
  BY <1>6 DEF BatchStarts
<1>7. ASSUME BatchSucceeds PROVE TypedMap'
  <2>1. item' \in [Items -> {"unscheduled", "mapping", "draining", "saving", "saved", "unsaved",
                              "done"}]
    BY <1>7 DEF BatchSucceeds, Told
  <2>2. op' \in [Items -> {"none", "running", "recording", "ok", "failed", "cancelled",
                            "checkpoint"}]
    BY <1>7 DEF BatchSucceeds
  <2>3. map' \in {"idle", "opening", "opened", "running", "closing", "returned", "threw"}
    BY <1>7 DEF BatchSucceeds
  <2>4. map = "idle" => map' = "idle"
    BY <1>7 DEF BatchSucceeds, Staged, Flying
  <2> QED BY <1>7, <2>1, <2>2, <2>3, <2>4 DEF BatchSucceeds
<1>8. ASSUME BatchFails PROVE TypedMap'
  <2>1. item' \in [Items -> {"unscheduled", "mapping", "draining", "saving", "saved", "unsaved",
                              "done"}]
    BY <1>8 DEF BatchFails, Told
  <2>2. op' \in [Items -> {"none", "running", "recording", "ok", "failed", "cancelled",
                            "checkpoint"}]
    BY <1>8 DEF BatchFails
  <2>3. map' \in {"idle", "opening", "opened", "running", "closing", "returned", "threw"}
    BY <1>8 DEF BatchFails
  <2>4. map = "idle" => map' = "idle"
    BY <1>8 DEF BatchFails, Staged, Flying
  <2> QED BY <1>8, <2>1, <2>2, <2>3, <2>4 DEF BatchFails
<1>9. ASSUME NEW i \in Items, NEW how \in Hows, MapperEnds(i, how) PROVE TypedMap'
  BY <1>9 DEF MapperEnds, fail, Frame, Hows
<1>10. ASSUME NEW i \in Items, Drained(i) PROVE TypedMap'
  <2>1. /\ map = "running" /\ executions > 0
        /\ UNCHANGED <<map, op, next, opts, def, parent, executions>>
        /\ result' = [result EXCEPT ![i] = "none"]
    BY <1>10, DrainedEnds
  <2>2. /\ item' = [item EXCEPT ![i] = item'[i]] /\ item'[i] \in {"saving", "done"}
        /\ free' \in {free, free + 1}
        /\ failures' \subseteq failures \cup {i}
        /\ fatal' \in BOOLEAN /\ controller' \in BOOLEAN
    BY <1>10, DrainedEnds
  <2>3. /\ item' \in [Items -> {"unscheduled", "mapping", "draining", "saving", "saved",
                                "unsaved", "done"}]
        /\ result' \in [Items -> {"none"} \cup Hows]
        /\ free' \in Nat /\ failures' \subseteq Items
    BY <2>1, <2>2
  <2> QED BY <2>1, <2>2, <2>3
<1>11. ASSUME NEW i \in Items, Journaled(i) PROVE TypedMap'
  BY <1>11 DEF Journaled, Done, Frame
<1>12. ASSUME NEW i \in Items, Ask(i) PROVE TypedMap'
  BY <1>12, EffectSteps DEF Ask, Frame
<1>13. ASSUME NEW i \in Items, OpEnds(i) PROVE TypedMap'
  BY <1>13, EffectSteps DEF OpEnds, Frame
<1>14. ASSUME Abort PROVE TypedMap'
  BY <1>14 DEF Abort
<1>15. ASSUME End PROVE TypedMap'
  <2>1. /\ item' \in [Items -> {"unscheduled"}] /\ result' \in [Items -> {"none"}]
        /\ op' \in [Items -> {"none"}]
    BY <1>15 DEF End, EndsWith, Reset
  <2>2. /\ item' \in [Items -> {"unscheduled", "mapping", "draining", "saving", "saved",
                                "unsaved", "done"}]
        /\ result' \in [Items -> {"none"} \cup Hows]
        /\ op' \in [Items -> {"none", "running", "recording", "ok", "failed", "cancelled",
                              "checkpoint"}]
    BY <2>1
  <2>3. /\ free' = 0 /\ next' = 1 /\ failures' = {} /\ ~fatal' /\ ~controller' /\ ~parent'
        /\ map' = "idle"
        /\ UNCHANGED <<opts, def, executions>>
        /\ fatal' \in BOOLEAN /\ controller' \in BOOLEAN /\ parent' \in BOOLEAN
    BY <1>15 DEF End, EndsWith, Reset
  <2> QED BY <2>2, <2>3, FanOutAssumption
<1>16. ASSUME Crash PROVE TypedMap'
  <2>1. /\ item' \in [Items -> {"unscheduled"}] /\ result' \in [Items -> {"none"}]
        /\ op' \in [Items -> {"none"}]
    BY <1>16 DEF Crash, EndsWith, Reset
  <2>2. /\ item' \in [Items -> {"unscheduled", "mapping", "draining", "saving", "saved",
                                "unsaved", "done"}]
        /\ result' \in [Items -> {"none"} \cup Hows]
        /\ op' \in [Items -> {"none", "running", "recording", "ok", "failed", "cancelled",
                              "checkpoint"}]
    BY <2>1
  <2>3. /\ free' = 0 /\ next' = 1 /\ failures' = {} /\ ~fatal' /\ ~controller' /\ ~parent'
        /\ map' = "idle"
        /\ UNCHANGED <<opts, def, executions>>
        /\ fatal' \in BOOLEAN /\ controller' \in BOOLEAN /\ parent' \in BOOLEAN
    BY <1>16 DEF Crash, EndsWith, Reset
  <2> QED BY <2>2, <2>3, FanOutAssumption
<1>17. ASSUME UNCHANGED vars PROVE TypedMap'
  BY <1>17 DEF vars
<1> QED BY <1>1, <1>2, <1>3, <1>4, <1>5, <1>6, <1>7, <1>8, <1>9, <1>10,
          <1>11, <1>12, <1>13, <1>14, <1>15, <1>16, <1>17 DEF Next, Hows

\* Where the call is, what it does, and who waits for the batch.
LEMMA StagedStep ==
  ASSUME FanOutInv, [Next]_vars
  PROVE  Staged'
PROOF
<1> USE DEF FanOutInv, Staged, Flying, Busy, InFlight, Waiters
<1>1. ASSUME NEW edit \in SUBSET Edits, NEW accepted \in BOOLEAN, Call(edit, accepted)
      PROVE  Staged'
  BY <1>1, CallStarts DEF Call, TypedMap
<1>2. ASSUME Opened PROVE Staged'
  BY <1>2 DEF Opened, Frame, TypedMap
<1>3. ASSUME Leave PROVE Staged'
  BY <1>3 DEF Leave, Frame, TypedMap
<1>4. ASSUME Take PROVE Staged'
  <2>1. /\ map = "running" /\ UNCHANGED <<map, op, result, batch>>
        /\ next \in Items /\ item[next] = "unscheduled" /\ op[next] = "none" /\ next' = next + 1
        /\ \A k \in Items : IF k = next THEN item'[k] \in {"done", "saving", "mapping"}
                            ELSE item'[k] = item[k]
    BY <1>4, TakeItem
  <2>2. Flying => batch.waiters \subseteq Waiters'
    BY <2>1
  <2>3. \A k \in Items : item'[k] # "unscheduled" <=> k < next'
    BY <2>1 DEF Items, TypedMap
  <2> QED BY <2>1, <2>2, <2>3
<1>5. ASSUME Finish PROVE Staged'
  BY <1>5, FinishEnds DEF Finish
<1>6. ASSUME BatchStarts PROVE Staged'
  BY <1>6 DEF BatchStarts, TypedMap
<1>7. ASSUME BatchSucceeds PROVE Staged'
  <2>1. /\ batch' = NoBatch /\ map # "idle" /\ free' = free /\ next' = next
        /\ map' # "idle"
        /\ map' = map \/ (map # "running" /\ map' # "running")
    BY <1>7, FanOutAssumption DEF BatchSucceeds, TypedMap, Items, Self
  <2>2. \A i \in Items :
          /\ item'[i] = item[i] \/ (item[i] = "saving" /\ item'[i] \in {"saved", "unsaved"})
          /\ op'[i] = op[i] \/ (op[i] = "recording" /\ op'[i] \in {"ok", "checkpoint"})
    BY <1>7 DEF BatchSucceeds, Told, TypedMap
  <2>3. UNCHANGED result
    BY <1>7 DEF BatchSucceeds
  <2> QED BY <2>1, <2>2, <2>3
<1>8. ASSUME BatchFails PROVE Staged'
  <2>1. /\ batch' = NoBatch /\ map # "idle" /\ free' = free /\ next' = next
        /\ map' # "idle"
        /\ map' = map \/ (map # "running" /\ map' # "running")
    BY <1>8, FanOutAssumption DEF BatchFails, TypedMap, Items, Self
  <2>2. \A i \in Items :
          /\ item'[i] = item[i] \/ (item[i] = "saving" /\ item'[i] \in {"saved", "unsaved"})
          /\ op'[i] = op[i] \/ (op[i] = "recording" /\ op'[i] \in {"ok", "checkpoint"})
    BY <1>8 DEF BatchFails, Told, TypedMap
  <2>3. UNCHANGED result
    BY <1>8 DEF BatchFails
  <2> QED BY <2>1, <2>2, <2>3
<1>9. ASSUME NEW i \in Items, NEW how \in Hows, MapperEnds(i, how) PROVE Staged'
  BY <1>9 DEF MapperEnds, fail, Frame, TypedMap
<1>10. ASSUME NEW i \in Items, Drained(i) PROVE Staged'
  <2>1. /\ map = "running" /\ UNCHANGED <<map, op, next, batch>>
        /\ item[i] = "draining" /\ ~InFlight(i)
        /\ result' = [result EXCEPT ![i] = "none"]
        /\ item'[i] \in {"saving", "done"} /\ \A k \in Items \ {i} : item'[k] = item[k]
    BY <1>10, DrainedEnds
  <2>2. \A k \in Items : IF k = i THEN item'[k] \in {"saving", "done"}
                         ELSE item'[k] = item[k] /\ result'[k] = result[k]
    BY <2>1 DEF TypedMap
  <2>3. Flying => batch.waiters \subseteq Waiters'
    BY <2>1, <2>2
  <2> QED BY <2>1, <2>2, <2>3
<1>11. ASSUME NEW i \in Items, Journaled(i) PROVE Staged'
  BY <1>11 DEF Journaled, Done, Frame, TypedMap
<1>12. ASSUME NEW i \in Items, Ask(i) PROVE Staged'
  BY <1>12, EffectSteps DEF Ask, Frame, TypedMap
<1>13. ASSUME NEW i \in Items, OpEnds(i) PROVE Staged'
  BY <1>13, EffectSteps DEF OpEnds, Frame, TypedMap
<1>14. ASSUME Abort PROVE Staged'
  BY <1>14 DEF Abort, TypedMap
<1>15. ASSUME End PROVE Staged'
  <2>1. /\ map' = "idle" /\ mem' = disk' /\ batch' = NoBatch /\ free' = 0 /\ next' = 1
        /\ item' = [i \in Items |-> "unscheduled"] /\ op' = [i \in Items |-> "none"]
    BY <1>15 DEF End, EndsWith, Reset
  <2> QED BY <2>1, FanOutAssumption DEF Items
<1>16. ASSUME Crash PROVE Staged'
  <2>1. /\ map' = "idle" /\ mem' = disk' /\ batch' = NoBatch /\ free' = 0 /\ next' = 1
        /\ item' = [i \in Items |-> "unscheduled"] /\ op' = [i \in Items |-> "none"]
    BY <1>16 DEF Crash, EndsWith, Reset
  <2> QED BY <2>1, FanOutAssumption DEF Items
<1>17. ASSUME UNCHANGED vars PROVE Staged'
  BY <1>17 DEF vars, TypedMap
<1> QED BY <1>1, <1>2, <1>3, <1>4, <1>5, <1>6, <1>7, <1>8, <1>9, <1>10,
          <1>11, <1>12, <1>13, <1>14, <1>15, <1>16, <1>17 DEF Next, Hows

\* What one copy of the record has recorded the later ones keep.
LEMMA CopiedStep ==
  ASSUME FanOutInv, [Next]_vars
  PROVE  Copied'
PROOF
<1> USE DEF FanOutInv, Copied, Keeps, Flying, Completed
<1>1. ASSUME NEW edit \in SUBSET Edits, NEW accepted \in BOOLEAN, Call(edit, accepted)
      PROVE  Copied'
  BY <1>1, CallStarts DEF Call, Staged
<1>2. ASSUME Opened PROVE Copied'
  BY <1>2 DEF Opened, Frame
<1>3. ASSUME Leave PROVE Copied'
  BY <1>3 DEF Leave, Frame
<1>4. ASSUME Take PROVE Copied'
  <2>1. /\ map = "running" /\ UNCHANGED <<map, opts, disk, batch>> /\ next \in Items
        /\ \A k \in Items \ {next} : mem'.journal.items[k] = mem.journal.items[k]
        /\ mem' = mem \/ ~Completed(mem.journal, next)
    BY <1>4, TakeItem
  <2>2. Keeps(mem.journal, mem'.journal)
    BY <2>1
  <2> QED BY <2>1, <2>2, OwnSaves
<1>5. ASSUME Finish PROVE Copied'
  <2>1. /\ mem'.journal.items = mem.journal.items /\ map = "running" /\ map' # "opening"
        /\ map' = "returned" => ~opts.settle
        /\ UNCHANGED <<opts, disk, batch>>
    BY <1>5, FinishEnds
  <2> QED BY <2>1, OwnSaves
<1>6. ASSUME BatchStarts PROVE Copied'
  BY <1>6 DEF BatchStarts
<1>7. ASSUME BatchSucceeds PROVE Copied'
  <2>1. /\ disk' = batch.record /\ batch' = NoBatch /\ UNCHANGED <<mem, opts>>
        /\ map' = "returned" => map = "returned" \/ Self \in batch.waiters
    BY <1>7 DEF BatchSucceeds
  <2>2. map # "returned"
    BY <1>7, FanOutAssumption DEF BatchSucceeds, Staged, Busy, Waiters, Items, InFlight
  <2> QED BY <1>7, <2>1, <2>2 DEF BatchSucceeds
<1>8. ASSUME BatchFails PROVE Copied'
  BY <1>8 DEF BatchFails, Told
<1>9. ASSUME NEW i \in Items, NEW how \in Hows, MapperEnds(i, how) PROVE Copied'
  BY <1>9 DEF MapperEnds, fail, Frame
<1>10. ASSUME NEW i \in Items, Drained(i) PROVE Copied'
  <2>1. map = "running" /\ UNCHANGED <<map, opts, disk, batch>> /\ item[i] = "draining"
    BY <1>10, DrainedEnds
  <2>2. CASE mem' = mem
    BY <2>1, <2>2, OwnSaves
  <2>3. CASE opts.settle /\ \A k \in Items \ {i} : mem'.journal.items[k] = mem.journal.items[k]
    <3>1. ~Completed(mem.journal, i)
      BY <2>1, <2>3 DEF Committing
    <3>2. Keeps(mem.journal, mem'.journal)
      BY <2>3, <3>1
    <3> QED BY <2>1, <3>2, OwnSaves
  <2> QED BY <1>10, <2>2, <2>3, DrainedEnds
<1>11. ASSUME NEW i \in Items, Journaled(i) PROVE Copied'
  BY <1>11 DEF Journaled, Done, Frame
<1>12. ASSUME NEW i \in Items, Ask(i) PROVE Copied'
  <2>1. mem'.journal = mem.journal /\ map = "running" /\ UNCHANGED <<map, opts, disk, batch>>
    BY <1>12, EffectSteps DEF Ask, Frame
  <2> QED BY <2>1, OwnSaves
<1>13. ASSUME NEW i \in Items, OpEnds(i) PROVE Copied'
  <2>1. mem'.journal = mem.journal /\ map = "running" /\ UNCHANGED <<map, opts, disk, batch>>
    BY <1>13, EffectSteps DEF OpEnds, Frame
  <2> QED BY <2>1, OwnSaves
<1>14. ASSUME Abort PROVE Copied'
  BY <1>14 DEF Abort
<1>15. ASSUME End PROVE Copied'
  BY <1>15 DEF End, EndsWith, Reset
<1>16. ASSUME Crash PROVE Copied'
  BY <1>16 DEF Crash, EndsWith, Reset
<1>17. ASSUME UNCHANGED vars PROVE Copied'
  BY <1>17 DEF vars
<1> QED BY <1>1, <1>2, <1>3, <1>4, <1>5, <1>6, <1>7, <1>8, <1>9, <1>10,
          <1>11, <1>12, <1>13, <1>14, <1>15, <1>16, <1>17 DEF Next, Hows

\* What is committed, and what an entry owns.
LEMMA CommittingStep ==
  ASSUME FanOutInv, [Next]_vars
  PROVE  Committing'
PROOF
<1> USE DEF FanOutInv, Committing, Completed, owns, TypedMap
<1>1. ASSUME NEW edit \in SUBSET Edits, NEW accepted \in BOOLEAN, Call(edit, accepted)
      PROVE  Committing'
  <2>1. \A k \in Items : item[k] = "unscheduled" /\ op[k] = "none"
    BY <1>1 DEF Call, Staged, Items
  <2>2. item' = item /\ op' = op /\ opts' = opts /\ fatal' = fatal
    BY <1>1 DEF Call
  <2>3. \A k \in Items : Completed(mem'.journal, k) => Completed(mem.journal, k)
    BY <1>1, CallStarts, CallDefines, FreshJournal
  <2>4. map' \in {"running", "threw", "opening"}
    BY <1>1, CallStarts
  <2> QED BY <2>1, <2>2, <2>3, <2>4
<1>2. ASSUME Opened PROVE Committing'
  BY <1>2 DEF Opened, Frame
<1>3. ASSUME Leave PROVE Committing'
  BY <1>3 DEF Leave, Frame
<1>4. ASSUME Take PROVE Committing'
  <2>1. /\ map' = "running" /\ UNCHANGED <<op, opts, fatal>> /\ next \in Items
        /\ item[next] = "unscheduled" /\ op[next] = "none" /\ mem'.steps = mem.steps
        /\ \A k \in Items \ {next} : mem'.journal.items[k] = mem.journal.items[k]
        /\ \A k \in Items \ {next} : item'[k] = item[k]
    BY <1>4, TakeItem
  <2>2. \/ opts.settle /\ item'[next] = "done" /\ Completed(mem'.journal, next)
        \/ opts.settle /\ item'[next] = "saving" /\ Completed(mem'.journal, next)
        \/ mem' = mem /\ item'[next] = "mapping"
             /\ (opts.settle => ~Completed(mem'.journal, next))
    BY <1>4, TakeItem
  <2>3. ~opts.settle => mem' = mem
    BY <1>4, TakeItem
  <2> QED BY <2>1, <2>2, <2>3
<1>5. ASSUME Finish PROVE Committing'
  <2>1. /\ mem'.journal.items = mem.journal.items /\ mem'.steps = mem.steps
        /\ UNCHANGED <<item, op, opts, fatal>>
        /\ map' \in {"threw", "closing", "returned"} /\ (map' = "closing" => opts.settle)
    BY <1>5, FinishEnds
  <2>2. ASSUME map' \in {"closing", "returned"}
        PROVE  ~fatal /\ \A k \in Items : item[k] = "done"
    <3>1. ~fatal /\ failures = {} /\ ~scopeSignal /\ free = 0 /\ \A k \in Items : ~Busy(k)
      BY <1>5, <2>2 DEF Finish
    <3>2. Cardinality(BusyItems) = 0
      BY <3>1, FS_EmptySet DEF BusyItems
    <3>3. Stops
      BY <1>5, <3>1, <3>2, WorkersPositive DEF Staffed, Finish
    <3>4. next > N
      BY <3>1, <3>3 DEF Stops
    <3>5. \A k \in Items : item[k] # "unscheduled"
      BY <3>4, FanOutAssumption DEF Staged, Items
    <3> QED BY <3>1, <3>5 DEF Busy
  <2> QED BY <2>1, <2>2
<1>6. ASSUME BatchStarts PROVE Committing'
  BY <1>6 DEF BatchStarts
<1>7. ASSUME BatchSucceeds PROVE Committing'
  <2>1. map' = "returned" => map \in {"closing", "returned"}
    BY <1>7, OwnSaves DEF BatchSucceeds, Flying
  <2>2. \A k \in Items : /\ item'[k] = item[k] \/ (item[k] = "saving" /\ item'[k] = "saved")
                         /\ op'[k] = "none" <=> op[k] = "none"
    BY <1>7 DEF BatchSucceeds, Told
  <2>3. map' = "closing" => map = "closing"
    BY <1>7 DEF BatchSucceeds
  <2>4. UNCHANGED <<mem, opts, fatal>>
    BY <1>7 DEF BatchSucceeds
  <2> QED BY <2>1, <2>2, <2>3, <2>4
<1>8. ASSUME BatchFails PROVE Committing'
  BY <1>8 DEF BatchFails, Told
<1>9. ASSUME NEW i \in Items, NEW how \in Hows, MapperEnds(i, how) PROVE Committing'
  BY <1>9 DEF MapperEnds, fail, Frame
<1>10. ASSUME NEW i \in Items, Drained(i) PROVE Committing'
  <2>1. /\ map = "running" /\ UNCHANGED <<map, op, opts>> /\ item[i] = "draining"
        /\ \A k \in Items \ {i} : item'[k] = item[k]
        /\ mem'.steps = mem.steps
        /\ \A k \in Items \ {i} : mem'.journal.items[k] = mem.journal.items[k]
        /\ fatal => fatal'
    BY <1>10, DrainedEnds
  <2>2. \/ /\ opts.settle /\ item'[i] = "saving"
           /\ Completed(mem'.journal, i) /\ mem'.journal.items[i].owns = owns(i)
        \/ mem' = mem /\ item'[i] = "done" /\ (opts.settle => fatal')
    BY <1>10, DrainedEnds
  <2>3. ~opts.settle => mem' = mem
    BY <1>10, DrainedEnds
  <2> QED BY <2>1, <2>2, <2>3
<1>11. ASSUME NEW i \in Items, Journaled(i) PROVE Committing'
  BY <1>11 DEF Journaled, Done, Frame
<1>12. ASSUME NEW i \in Items, Ask(i) PROVE Committing'
  BY <1>12, EffectSteps DEF Ask, Frame
<1>13. ASSUME NEW i \in Items, OpEnds(i) PROVE Committing'
  BY <1>13, EffectSteps DEF OpEnds, Frame
<1>14. ASSUME Abort PROVE Committing'
  BY <1>14 DEF Abort
<1>15. ASSUME End PROVE Committing'
  BY <1>15 DEF End, EndsWith, Reset
<1>16. ASSUME Crash PROVE Committing'
  <2>1. /\ mem' = disk /\ map' = "idle" /\ opts' = opts
        /\ item' = [k \in Items |-> "unscheduled"] /\ op' = [k \in Items |-> "none"]
    BY <1>16 DEF Crash, EndsWith, Reset
  <2>2. \A k \in Items : Completed(disk.journal, k) => Completed(mem.journal, k)
    BY DEF Copied, Keeps
  <2> QED BY <2>1, <2>2
<1>17. ASSUME UNCHANGED vars PROVE Committing'
  BY <1>17 DEF vars
<1> QED BY <1>1, <1>2, <1>3, <1>4, <1>5, <1>6, <1>7, <1>8, <1>9, <1>10,
          <1>11, <1>12, <1>13, <1>14, <1>15, <1>16, <1>17 DEF Next, Hows

\* What the recorded outcomes were made from.
LEMMA MadeStep ==
  ASSUME FanOutInv, [Next]_vars
  PROVE  Made'
PROOF
<1> USE DEF FanOutInv, Made, MadeFor, Completed, Flying
<1>1. ASSUME NEW edit \in SUBSET Edits, NEW accepted \in BOOLEAN, Call(edit, accepted)
      PROVE  Made'
  <2>1. UNCHANGED <<disk, batch, opts>> /\ ~Flying
    BY <1>1 DEF Call, Staged
  <2>2. MadeFor(mem'.journal)
    BY <1>1, CallStarts, CallDefines, FreshJournal
  <2>3. opts.settle /\ map' # "threw" =>
          mem'.journal.status # "none" /\ mem'.journal.def["items"] = def'["items"]
    BY <1>1, CallStarts
  <2> QED BY <2>1, <2>2, <2>3
<1>2. ASSUME Opened PROVE Made'
  BY <1>2 DEF Opened, Frame
<1>3. ASSUME Leave PROVE Made'
  BY <1>3 DEF Leave, Frame
<1>4. ASSUME Take PROVE Made'
  BY <1>4, TakeItem
<1>5. ASSUME Finish PROVE Made'
  BY <1>5, FinishEnds
<1>6. ASSUME BatchStarts PROVE Made'
  BY <1>6 DEF BatchStarts
<1>7. ASSUME BatchSucceeds PROVE Made'
  <2>1. disk' = batch.record /\ batch' = NoBatch /\ UNCHANGED <<mem, opts, def>>
    BY <1>7 DEF BatchSucceeds
  <2>2. map' = map \/ map \in {"opening", "closing"}
    BY <1>7, OwnSaves DEF BatchSucceeds
  <2> QED BY <1>7, <2>1, <2>2 DEF BatchSucceeds
<1>8. ASSUME BatchFails PROVE Made'
  BY <1>8 DEF BatchFails, Told
<1>9. ASSUME NEW i \in Items, NEW how \in Hows, MapperEnds(i, how) PROVE Made'
  BY <1>9 DEF MapperEnds, fail, Frame
<1>10. ASSUME NEW i \in Items, Drained(i) PROVE Made'
  <2>1. /\ map = "running" /\ UNCHANGED <<map, opts, def, disk, batch>>
        /\ mem'.journal.status = mem.journal.status /\ mem'.journal.def = mem.journal.def
        /\ \A k \in Items \ {i} : mem'.journal.items[k] = mem.journal.items[k]
        /\ \/ mem' = mem
           \/ opts.settle /\ mem'.journal.items[i].items = def["items"]
    BY <1>10, DrainedEnds
  <2>2. MadeFor(mem'.journal)
    BY <2>1
  <2> QED BY <2>1, <2>2
<1>11. ASSUME NEW i \in Items, Journaled(i) PROVE Made'
  BY <1>11 DEF Journaled, Done, Frame
<1>12. ASSUME NEW i \in Items, Ask(i) PROVE Made'
  BY <1>12, EffectSteps DEF Ask, Frame
<1>13. ASSUME NEW i \in Items, OpEnds(i) PROVE Made'
  BY <1>13, EffectSteps DEF OpEnds, Frame
<1>14. ASSUME Abort PROVE Made'
  BY <1>14 DEF Abort
<1>15. ASSUME End PROVE Made'
  BY <1>15 DEF End, EndsWith, Reset
<1>16. ASSUME Crash PROVE Made'
  BY <1>16 DEF Crash, EndsWith, Reset
<1>17. ASSUME UNCHANGED vars PROVE Made'
  BY <1>17 DEF vars
<1> QED BY <1>1, <1>2, <1>3, <1>4, <1>5, <1>6, <1>7, <1>8, <1>9, <1>10,
          <1>11, <1>12, <1>13, <1>14, <1>15, <1>16, <1>17 DEF Next, Hows

\* What the recorded cancellations were caused by.
LEMMA CausedStep ==
  ASSUME FanOutInv, [Next]_vars
  PROVE  Caused'
PROOF
<1> USE DEF FanOutInv, Caused, CausedIn, Failed, Flying
<1>1. ASSUME NEW edit \in SUBSET Edits, NEW accepted \in BOOLEAN, Call(edit, accepted)
      PROVE  Caused'
  <2>1. UNCHANGED <<disk, batch, opts, controller>> /\ ~Flying
    BY <1>1 DEF Call, Staged
  <2>2. CausedIn(mem'.journal) /\ (Failed(mem.journal) => Failed(mem'.journal))
    BY <1>1, CallStarts, CallDefines, FreshJournal DEF Completed
  <2> QED BY <2>1, <2>2
<1>2. ASSUME Opened PROVE Caused'
  BY <1>2 DEF Opened, Frame
<1>3. ASSUME Leave PROVE Caused'
  BY <1>3 DEF Leave, Frame
<1>4. ASSUME Take PROVE Caused'
  <2>1. /\ UNCHANGED <<opts, disk, batch, controller>> /\ next \in Items
        /\ \A k \in Items \ {next} : mem'.journal.items[k] = mem.journal.items[k]
        /\ \/ mem' = mem
           \/ opts.settle /\ ~Completed(mem.journal, next) /\ controller
    BY <1>4, TakeItem
  <2>2. CASE mem' = mem
    BY <2>1, <2>2
  <2>3. CASE opts.settle /\ ~Completed(mem.journal, next) /\ controller
    <3>1. PICK k \in Items : mem.journal.items[k].kind = "failed"
      BY <2>3
    <3>2. mem'.journal.items[k].kind = "failed"
      BY <2>1, <2>3, <3>1 DEF Completed
    <3> QED BY <2>1, <3>2
  <2> QED BY <2>1, <2>2, <2>3
<1>5. ASSUME Finish PROVE Caused'
  BY <1>5, FinishEnds
<1>6. ASSUME BatchStarts PROVE Caused'
  BY <1>6 DEF BatchStarts
<1>7. ASSUME BatchSucceeds PROVE Caused'
  BY <1>7 DEF BatchSucceeds, Told
<1>8. ASSUME BatchFails PROVE Caused'
  BY <1>8 DEF BatchFails, Told
<1>9. ASSUME NEW i \in Items, NEW how \in Hows, MapperEnds(i, how) PROVE Caused'
  BY <1>9 DEF MapperEnds, fail, Frame
<1>10. ASSUME NEW i \in Items, Drained(i) PROVE Caused'
  <2>1. /\ UNCHANGED <<opts, disk, batch>> /\ item[i] = "draining"
        /\ \A k \in Items \ {i} : mem'.journal.items[k] = mem.journal.items[k]
    BY <1>10, DrainedEnds
  <2>2. CASE opts.settle /\ controller
    <3>1. PICK k \in Items : mem.journal.items[k].kind = "failed"
      BY <2>2
    <3>2. ~Completed(mem.journal, i)
      BY <2>1, <2>2 DEF Committing
    <3>3. mem'.journal.items[k].kind = "failed"
      BY <2>1, <3>1, <3>2 DEF Completed
    <3> QED BY <2>1, <3>3
  <2>3. CASE opts.settle /\ ~controller
    <3>1. ~controller'
      BY <1>10, <2>3, DrainedEnds
    <3>2. mem' = mem \/ mem'.journal.items[i].kind \in {"ok", "failed"}
      BY <1>10, <2>3, DrainedEnds
    <3>3. CASE mem' = mem
      BY <2>1, <3>1, <3>3
    <3>4. CASE mem'.journal.items[i].kind \in {"ok", "failed"}
      <4>1. ~Completed(mem.journal, i)
        BY <2>1, <2>3 DEF Committing
      <4>2. Failed(mem.journal) => Failed(mem'.journal)
        BY <2>1, <4>1 DEF Completed
      <4>3. CausedIn(mem'.journal)
        BY <2>1, <3>4, <4>2
      <4> QED BY <2>1, <3>1, <4>3
    <3> QED BY <3>2, <3>3, <3>4
  <2>4. CASE ~opts.settle
    <3>1. mem' = mem
      BY <1>10, <2>4, DrainedEnds
    <3> QED BY <2>1, <2>4, <3>1
  <2> QED BY <2>2, <2>3, <2>4
<1>11. ASSUME NEW i \in Items, Journaled(i) PROVE Caused'
  BY <1>11 DEF Journaled, Done, Frame
<1>12. ASSUME NEW i \in Items, Ask(i) PROVE Caused'
  BY <1>12, EffectSteps DEF Ask, Frame
<1>13. ASSUME NEW i \in Items, OpEnds(i) PROVE Caused'
  BY <1>13, EffectSteps DEF OpEnds, Frame
<1>14. ASSUME Abort PROVE Caused'
  BY <1>14 DEF Abort
<1>15. ASSUME End PROVE Caused'
  BY <1>15 DEF End, EndsWith, Reset
<1>16. ASSUME Crash PROVE Caused'
  BY <1>16 DEF Crash, EndsWith, Reset
<1>17. ASSUME UNCHANGED vars PROVE Caused'
  BY <1>17 DEF vars
<1> QED BY <1>1, <1>2, <1>3, <1>4, <1>5, <1>6, <1>7, <1>8, <1>9, <1>10,
          <1>11, <1>12, <1>13, <1>14, <1>15, <1>16, <1>17 DEF Next, Hows

\* What the execution found, and what a failure among it decides.
LEMMA DecidedStep ==
  ASSUME FanOutInv, [Next]_vars
  PROVE  Decided'
PROOF
<1> USE DEF FanOutInv, Decided, Keeps, Failed, Completed
<1>1. ASSUME NEW edit \in SUBSET Edits, NEW accepted \in BOOLEAN, Call(edit, accepted)
      PROVE  Decided'
  <2>1. before' = mem.journal /\ mem = disk /\ UNCHANGED <<disk, opts, item>>
        /\ \A k \in Items : item[k] = "unscheduled"
    BY <1>1 DEF Call, Staged, Items
  <2>2. opts.settle => map' # "running"
    BY <1>1, CallStarts
  <2>3. \A k \in Items : Completed(mem'.journal, k) => Completed(mem.journal, k)
    BY <1>1, CallStarts, CallDefines, FreshJournal
  <2> QED BY <2>1, <2>2, <2>3
<1>2. ASSUME Opened PROVE Decided'
  BY <1>2 DEF Opened, Frame, Copied
<1>3. ASSUME Leave PROVE Decided'
  BY <1>3 DEF Leave, Frame
<1>4. ASSUME Take PROVE Decided'
  BY <1>4, TakeItem
<1>5. ASSUME Finish PROVE Decided'
  BY <1>5, FinishEnds
<1>6. ASSUME BatchStarts PROVE Decided'
  BY <1>6 DEF BatchStarts
<1>7. ASSUME BatchSucceeds PROVE Decided'
  <2>1. disk' = batch.record /\ UNCHANGED <<mem, opts, before, controller>> /\ map # "idle"
        /\ (map' = "running" => map = "running")
    BY <1>7 DEF BatchSucceeds, Staged, Flying
  <2>2. \A k \in Items : item'[k] \in {item[k], "saved"}
    BY <1>7 DEF BatchSucceeds, Told
  <2>3. Keeps(before, disk'.journal)
    BY <1>7, <2>1 DEF Copied, BatchSucceeds, Flying
  <2> QED BY <2>1, <2>2, <2>3
<1>8. ASSUME BatchFails PROVE Decided'
  <2>1. UNCHANGED <<disk, mem, opts, before, controller>> /\ map # "idle"
        /\ (map' = "running" => map = "running")
    BY <1>8 DEF BatchFails, Staged, Flying
  <2>2. \A k \in Items : item'[k] \in {item[k], "unsaved"}
    BY <1>8 DEF BatchFails, Told
  <2> QED BY <2>1, <2>2
<1>9. ASSUME NEW i \in Items, NEW how \in Hows, MapperEnds(i, how) PROVE Decided'
  BY <1>9 DEF MapperEnds, fail, Frame
<1>10. ASSUME NEW i \in Items, Drained(i) PROVE Decided'
  <2>1. /\ UNCHANGED <<map, opts, before, disk>> /\ item[i] = "draining"
        /\ opts.settle \/ mem' = mem
    BY <1>10, DrainedEnds
  <2>2. ~(opts.settle /\ opts.cancel /\ Failed(before))
    BY <2>1
  <2> QED BY <2>1, <2>2
<1>11. ASSUME NEW i \in Items, Journaled(i) PROVE Decided'
  BY <1>11 DEF Journaled, Done, Frame, TypedMap
<1>12. ASSUME NEW i \in Items, Ask(i) PROVE Decided'
  BY <1>12, EffectSteps DEF Ask, Frame
<1>13. ASSUME NEW i \in Items, OpEnds(i) PROVE Decided'
  BY <1>13, EffectSteps DEF OpEnds, Frame
<1>14. ASSUME Abort PROVE Decided'
  BY <1>14 DEF Abort
<1>15. ASSUME End PROVE Decided'
  <2>1. disk' = mem /\ map' = "idle" /\ UNCHANGED <<before, opts>>
        /\ item' = [k \in Items |-> "unscheduled"]
    BY <1>15 DEF End, EndsWith, Reset
  <2>2. Keeps(before, disk'.journal)
    BY <2>1 DEF Copied
  <2> QED BY <2>1, <2>2
<1>16. ASSUME Crash PROVE Decided'
  BY <1>16 DEF Crash, EndsWith, Reset
<1>17. ASSUME UNCHANGED vars PROVE Decided'
  BY <1>17 DEF vars
<1> QED BY <1>1, <1>2, <1>3, <1>4, <1>5, <1>6, <1>7, <1>8, <1>9, <1>10,
          <1>11, <1>12, <1>13, <1>14, <1>15, <1>16, <1>17 DEF Next, Hows

\* How many workers there are, and why the others have left.
LEMMA StaffedStep ==
  ASSUME FanOutInv, [Next]_vars
  PROVE  Staffed'
PROOF
<1> USE DEF FanOutInv, Staffed
<1>1. ASSUME NEW edit \in SUBSET Edits, NEW accepted \in BOOLEAN, Call(edit, accepted)
      PROVE  Staffed'
  <2>1. BusyItems = {} /\ BusyItems' = {}
    BY <1>1 DEF Call, Staged, BusyItems, Busy
  <2>2. free' \in {0, Workers} /\ (map' = "running" => free' = Workers)
    BY <1>1, CallStarts
  <2> QED BY <2>1, <2>2, FS_EmptySet, WorkersPositive
<1>2. ASSUME Opened PROVE Staffed'
  <2>1. BusyItems = {} /\ BusyItems' = {} /\ free' = Workers
    BY <1>2 DEF Opened, Staged, BusyItems, Busy
  <2> QED BY <2>1, FS_EmptySet, WorkersPositive
<1>3. ASSUME Leave PROVE Staffed'
  <2>1. BusyItems' = BusyItems
    BY <1>3 DEF Leave, BusyItems, Busy
  <2>2. Stops' /\ free' = free - 1 /\ free > 0
    BY <1>3 DEF Leave, Frame, Stops, scopeSignal, mapSignal
  <2>3. Cardinality(BusyItems) \in Nat
    <3>1. BusyItems \in SUBSET Items /\ 1 \in Items
      BY FanOutAssumption DEF BusyItems, Items
    <3> QED BY <3>1, OneMore
  <2> QED BY <2>1, <2>2, <2>3, WorkersPositive DEF TypedMap
<1>4. ASSUME Take PROVE Staffed'
  <2>1. /\ next \in Items /\ item[next] = "unscheduled" /\ map' = "running" /\ map = "running"
        /\ \A k \in Items \ {next} : item'[k] = item[k]
        /\ \/ item'[next] = "done" /\ free' = free
           \/ item'[next] \in {"saving", "mapping"} /\ free' = free - 1
    BY <1>4, TakeItem
  <2>2. next \notin BusyItems /\ BusyItems \in SUBSET Items /\ free \in Nat /\ ~Stops
    BY <1>4, <2>1 DEF BusyItems, Busy, TypedMap, Take
  <2>3. /\ Cardinality(BusyItems) \in Nat
        /\ Cardinality(BusyItems \cup {next}) = Cardinality(BusyItems) + 1
    BY <2>1, <2>2, OneMore
  <2>4. CASE item'[next] = "done" /\ free' = free
    <3>1. BusyItems' = BusyItems
      BY <2>1, <2>4 DEF BusyItems, Busy
    <3> QED BY <2>1, <2>2, <2>3, <2>4, <3>1, WorkersPositive
  <2>5. CASE item'[next] \in {"saving", "mapping"} /\ free' = free - 1
    <3>1. BusyItems' = BusyItems \cup {next}
      BY <2>1, <2>5 DEF BusyItems, Busy
    <3> QED BY <2>1, <2>2, <2>3, <2>5, <3>1, WorkersPositive
  <2> QED BY <2>1, <2>4, <2>5
<1>5. ASSUME Finish PROVE Staffed'
  BY <1>5, FinishEnds DEF BusyItems, Busy, Stops, mapSignal, scopeSignal, TypedMap
<1>6. ASSUME BatchStarts PROVE Staffed'
  BY <1>6 DEF BatchStarts, BusyItems, Busy, Stops, mapSignal, scopeSignal, TypedMap
<1>7. ASSUME BatchSucceeds PROVE Staffed'
  BY <1>7 DEF BatchSucceeds, Told, BusyItems, Busy, Stops, mapSignal, scopeSignal, TypedMap
<1>8. ASSUME BatchFails PROVE Staffed'
  BY <1>8 DEF BatchFails, Told, BusyItems, Busy, Stops, mapSignal, scopeSignal, TypedMap
<1>9. ASSUME NEW i \in Items, NEW how \in Hows, MapperEnds(i, how) PROVE Staffed'
  BY <1>9 DEF MapperEnds, fail, Frame, BusyItems, Busy, Stops, mapSignal, scopeSignal, TypedMap
<1>10. ASSUME NEW i \in Items, Drained(i) PROVE Staffed'
  <2>1. /\ item[i] = "draining" /\ map' = "running" /\ map = "running"
        /\ \A k \in Items \ {i} : item'[k] = item[k]
        /\ \/ item'[i] = "saving" /\ free' = free
           \/ item'[i] = "done" /\ free' = free + 1
        /\ UNCHANGED <<parent, next, opts>> /\ failures \subseteq failures'
        /\ (fatal => fatal') /\ (controller => controller')
    BY <1>10, DrainedEnds
  <2>2. Stops => Stops'
    BY <2>1 DEF Stops, scopeSignal, mapSignal
  <2>3. i \in BusyItems /\ BusyItems \in SUBSET Items /\ free \in Nat
    BY <2>1 DEF BusyItems, Busy, TypedMap
  <2>4. /\ Cardinality(BusyItems) \in Nat /\ Cardinality(BusyItems \ {i}) \in Nat
        /\ Cardinality(BusyItems \ {i}) = Cardinality(BusyItems) - 1
    BY <2>3, OneMore
  <2>5. CASE item'[i] = "saving" /\ free' = free
    <3>1. BusyItems' = BusyItems
      BY <2>1, <2>5 DEF BusyItems, Busy
    <3> QED BY <2>1, <2>2, <2>3, <2>4, <2>5, <3>1, WorkersPositive
  <2>6. CASE item'[i] = "done" /\ free' = free + 1
    <3>1. BusyItems' = BusyItems \ {i}
      BY <2>1, <2>6 DEF BusyItems, Busy
    <3> QED BY <2>1, <2>2, <2>3, <2>4, <2>6, <3>1, WorkersPositive
  <2> QED BY <2>1, <2>5, <2>6
<1>11. ASSUME NEW i \in Items, Journaled(i) PROVE Staffed'
  <2>1. /\ item[i] \in {"saved", "unsaved"} /\ map' = map
        /\ \A k \in Items \ {i} : item'[k] = item[k]
        /\ item'[i] = "done" /\ free' = free + 1
        /\ UNCHANGED <<parent, next, opts, failures>>
        /\ (fatal => fatal') /\ (controller => controller')
    BY <1>11 DEF Journaled, Done, Frame, TypedMap
  <2>2. Stops => Stops'
    BY <2>1 DEF Stops, scopeSignal, mapSignal
  <2>3. i \in BusyItems /\ BusyItems \in SUBSET Items /\ free \in Nat
    BY <2>1 DEF BusyItems, Busy, TypedMap
  <2>4. /\ Cardinality(BusyItems) \in Nat /\ Cardinality(BusyItems \ {i}) \in Nat
        /\ Cardinality(BusyItems \ {i}) = Cardinality(BusyItems) - 1
    BY <2>3, OneMore
  <2>5. BusyItems' = BusyItems \ {i}
    BY <2>1 DEF BusyItems, Busy
  <2> QED BY <2>1, <2>2, <2>3, <2>4, <2>5, WorkersPositive
<1>12. ASSUME NEW i \in Items, Ask(i) PROVE Staffed'
  BY <1>12, EffectSteps DEF Ask, Frame, BusyItems, Busy, Stops, mapSignal, scopeSignal, TypedMap
<1>13. ASSUME NEW i \in Items, OpEnds(i) PROVE Staffed'
  BY <1>13, EffectSteps DEF OpEnds, Frame, BusyItems, Busy, Stops, mapSignal, scopeSignal, TypedMap
<1>14. ASSUME Abort PROVE Staffed'
  BY <1>14 DEF Abort, BusyItems, Busy, Stops, mapSignal, scopeSignal, TypedMap
<1>15. ASSUME End PROVE Staffed'
  <2>1. map' = "idle" /\ free' = 0 /\ BusyItems' = {}
    BY <1>15 DEF End, EndsWith, Reset, BusyItems, Busy
  <2> QED BY <2>1, FS_EmptySet, WorkersPositive
<1>16. ASSUME Crash PROVE Staffed'
  <2>1. map' = "idle" /\ free' = 0 /\ BusyItems' = {}
    BY <1>16 DEF Crash, EndsWith, Reset, BusyItems, Busy
  <2> QED BY <2>1, FS_EmptySet, WorkersPositive
<1>17. ASSUME UNCHANGED vars PROVE Staffed'
  BY <1>17 DEF vars, BusyItems, Busy, Stops, mapSignal, scopeSignal, TypedMap
<1> QED BY <1>1, <1>2, <1>3, <1>4, <1>5, <1>6, <1>7, <1>8, <1>9, <1>10,
          <1>11, <1>12, <1>13, <1>14, <1>15, <1>16, <1>17 DEF Next, Hows

-----------------------------------------------------------------------------
LEMMA FanOutInit ==
  ASSUME Init
  PROVE  FanOutInv
<1> DEFINE r == [journal |-> NoJournal, steps |-> [i \in Items |-> "absent"]]
<1>1. /\ disk = r /\ mem = r /\ before = NoJournal /\ ~Flying /\ map = "idle" /\ free = 0
      /\ next = 1
      /\ item = [i \in Items |-> "unscheduled"] /\ op = [i \in Items |-> "none"]
  BY DEF Init, Flying
<1>2. TypedRecords
  <2>1. r \in RecordType
    BY EmptyJournal DEF RecordType, Statuses
  <2> QED BY <1>1, <2>1, EmptyJournal DEF TypedRecords
<1>3. TypedMap
  <2>1. def["items"] = 1 /\ def["mapper"] = 1
    BY DEF Init
  <2>2. result \in [Items -> {"none"} \cup Hows]
    BY DEF Init
  <2>3. opts \in [settle : BOOLEAN, cancel : BOOLEAN]
    BY FanOutAssumption DEF Init
  <2>4. /\ item \in [Items -> {"unscheduled", "mapping", "draining", "saving", "saved",
                               "unsaved", "done"}]
        /\ op \in [Items -> {"none", "running", "recording", "ok", "failed", "cancelled",
                             "checkpoint"}]
    BY <1>1
  <2>5. executions = 0 /\ failures = {} /\ ~fatal /\ ~controller /\ ~parent
        /\ fatal \in BOOLEAN /\ controller \in BOOLEAN /\ parent \in BOOLEAN
    BY DEF Init
  <2>6. free = 0 /\ next = 1 /\ map = "idle"
    BY <1>1
  <2> QED BY <2>1, <2>2, <2>3, <2>4, <2>5, <2>6, FanOutAssumption DEF TypedMap
<1>4. r.journal = NoJournal /\ \A i \in Items : ~Completed(NoJournal, i) /\ ~Busy(i)
  BY <1>1, EmptyJournal DEF Busy
<1> HIDE DEF r
<1>5. Staged
  BY <1>1, <1>4 DEF Staged, InFlight, Items
<1>6. Staffed
  <2>1. BusyItems = {}
    BY <1>4 DEF BusyItems
  <2> QED BY <1>1, <2>1, FS_EmptySet, WorkersPositive DEF Staffed
<1>7. Copied
  BY <1>1, <1>4 DEF Copied, Keeps
<1>8. Committing
  BY <1>1, <1>4 DEF Committing
<1>9. Made
  BY <1>1, <1>4 DEF Made, MadeFor
<1>10. Caused
  BY <1>1, <1>4 DEF Caused, CausedIn, Completed, Init
<1>11. Decided
  BY <1>1, <1>4 DEF Decided, Keeps
<1> QED BY <1>2, <1>3, <1>5, <1>6, <1>7, <1>8, <1>9, <1>10, <1>11 DEF FanOutInv

\* The inductive invariant: the map's workers, the three copies of the record and what a
\* journal may hold, in every state of every execution of the run.
THEOREM FanOutInvariant == Spec => []FanOutInv
<1>1. Init => FanOutInv
  BY FanOutInit
<1>2. FanOutInv /\ [Next]_vars => FanOutInv'
  BY TypedRecordsStep, TypedMapStep, StagedStep, StaffedStep, CopiedStep, CommittingStep,
     MadeStep, CausedStep, DecidedStep DEF FanOutInv
<1> QED BY <1>1, <1>2, PTL DEF Spec

-----------------------------------------------------------------------------
\* ADR 0008: what a save has recorded of an item no later write of the record replaces,
\* whatever fails, is retried, edited or resumed.
THEOREM AlwaysCommittedIsFinal == Spec => CommittedIsFinal
<1> DEFINE Final == \A i \in Items : Completed(disk.journal, i) =>
                      disk'.journal.items[i] = disk.journal.items[i]
<1>1. ASSUME FanOutInv, [Next]_vars
      PROVE  [Final]_disk
  <2>1. CASE BatchSucceeds
    BY <1>1, <2>1 DEF FanOutInv, Copied, Keeps, BatchSucceeds, Flying
  <2>2. CASE End
    BY <1>1, <2>2 DEF FanOutInv, Copied, Keeps, End, EndsWith
  <2>3. CASE ~BatchSucceeds /\ ~End
    <3>1. disk' = disk
      BY <1>1, <2>3
      DEF Next, vars, Call, Opened, Leave, Take, Finish, BatchStarts, BatchFails, MapperEnds,
          Drained, Journaled, Ask, OpEnds, Abort, Crash, EndsWith, Frame
    <3> QED BY <3>1
  <2> QED BY <2>1, <2>2, <2>3
<1>2. FanOutInv /\ [Next]_vars => [Final]_disk
  BY <1>1
<1> QED BY <1>2, FanOutInvariant, PTL DEF Spec, CommittedIsFinal

LEMMA TypesFollow ==
  ASSUME FanOutInv
  PROVE  TypeOK
<1>1. RecordType \subseteq Records
  BY DEF RecordType, Records, JournalType, Entry, Kinds, DefType
<1>2. Cardinality(BusyItems) \in Nat
  <2>1. BusyItems \in SUBSET Items /\ 1 \in Items
    BY FanOutAssumption DEF BusyItems, Items
  <2> QED BY <2>1, OneMore
<1>3. free \in 0 .. Workers /\ free + Cardinality({i \in Items : Busy(i)}) <= Workers
  BY <1>2, WorkersPositive DEF FanOutInv, Staffed, TypedMap, BusyItems
<1> QED BY <1>1, <1>3 DEF FanOutInv, TypedRecords, TypedMap, Staged, TypeOK

\* What the body gets from a map that returns is whole, was made from the items that it
\* passed, and is on disk when it gets it; the record, the workers and the items have
\* their types.
THEOREM AlwaysReturnedIsRecorded == Spec => []ReturnedIsRecorded
<1>1. ASSUME FanOutInv PROVE ReturnedIsRecorded
  <2>1. ASSUME map = "returned", NEW i \in Items
        PROVE  /\ item[i] = "done"
               /\ opts.settle => /\ Completed(disk.journal, i)
                                 /\ disk.journal.items[i].items = def.items
    <3>1. item[i] = "done" /\ (opts.settle => Completed(mem.journal, i) /\ disk = mem)
      BY <1>1, <2>1 DEF FanOutInv, Committing, Copied
    <3>2. opts.settle => mem.journal.items[i].items = def["items"]
      BY <1>1, <2>1, <3>1 DEF FanOutInv, Made, MadeFor
    <3>3. def.items = def["items"]
      OBVIOUS
    <3> QED BY <3>1, <3>2, <3>3
  <2> QED BY <1>1, <2>1, TypesFollow DEF ReturnedIsRecorded
<1>2. FanOutInv => ReturnedIsRecorded
  BY <1>1
<1> QED BY <1>2, FanOutInvariant, PTL

\* An item is recorded as cancelled only where a failure is recorded too: the save of a
\* cancellation is never ahead of the save of its cause.
THEOREM AlwaysCancellationHasCause == Spec => []CancellationHasCause
<1>1. FanOutInv => CancellationHasCause
  BY DEF FanOutInv, Caused, CausedIn, CancellationHasCause
<1> QED BY <1>1, FanOutInvariant, PTL

\* Drained before it is journaled: a committed item has nothing in flight and owns what
\* its mapper left in the record, and a map that is over has nothing in flight.
THEOREM AlwaysNothingOutlivesItsItem == Spec => []NothingOutlivesItsItem
<1>1. ASSUME FanOutInv, NEW i \in Items
      PROVE  /\ Completed(mem.journal, i) =>
                  ~InFlight(i) /\ (owns(i) => mem.journal.items[i].owns)
             /\ map \in Over => ~InFlight(i) /\ ~Busy(i)
  <2>1. Completed(mem.journal, i) => item[i] \notin {"mapping", "draining"}
    BY <1>1 DEF FanOutInv, Committing
  <2>2. map \in Over => ~Busy(i)
    BY <1>1 DEF FanOutInv, Staged, Over
  <2>3. InFlight(i) => item[i] \in {"mapping", "draining"} /\ Busy(i)
    BY <1>1 DEF FanOutInv, Staged, Busy
  <2> QED BY <1>1, <2>1, <2>2, <2>3 DEF FanOutInv, Committing
<1>2. FanOutInv => NothingOutlivesItsItem
  BY <1>1 DEF NothingOutlivesItsItem
<1> QED BY <1>2, FanOutInvariant, PTL

\* With cancelSiblings a failure that an earlier execution recorded decides the rest: no
\* mapper runs for what was not committed then, and it ends as cancelled.
THEOREM AlwaysFailureStaysDecisive == Spec => []FailureStaysDecisive
<1>1. ASSUME FanOutInv, opts.settle, opts.cancel, Failed(before), NEW i \in Items,
             ~Completed(before, i)
      PROVE  /\ item[i] # "mapping"
             /\ map = "returned" => disk.journal.items[i].kind = "cancelled"
  <2>1. item[i] # "mapping"
    BY <1>1 DEF FanOutInv, Decided
  <2>2. ASSUME map = "returned" PROVE disk.journal.items[i].kind = "cancelled"
    <3>1. disk = mem /\ Completed(mem.journal, i)
      BY <1>1, <2>2 DEF FanOutInv, Copied, Committing
    <3> QED BY <1>1, <2>2, <3>1 DEF FanOutInv, Decided
  <2> QED BY <2>1, <2>2
<1>2. FanOutInv => FailureStaysDecisive
  BY <1>1 DEF FailureStaysDecisive
<1> QED BY <1>2, FanOutInvariant, PTL
=============================================================================
