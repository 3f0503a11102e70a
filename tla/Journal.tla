------------------------------- MODULE Journal -------------------------------
(***************************************************************************)
(* Storage format 7 of one run: run.json (a snapshot replaced by rename)   *)
(* and journal.jsonl (appended, truncated by compaction), as written by    *)
(* the run's owner and read by anyone without a lock.                      *)
(* From src/workflow/runtime: journal.ts, run-store.ts, checkpoint.ts,     *)
(* storage-io.ts.                                                          *)
(*                                                                         *)
(* Each file has its contents in the page cache, which a killed process    *)
(* leaves alone, and the contents that a loss of power may leave instead:  *)
(* everything it has held since it was last flushed.                       *)
(***************************************************************************)
EXTENDS Naturals, Sequences

CONSTANTS
  Fields,       \* the parts of a run record that change independently
  Status,       \* the field whose change makes the writer compact
  Readers,      \* lock-free readers
  None,
  Threshold,    \* bound: entries after which the writer compacts (4 MiB in the code)
  MaxChanges,   \* bound: changes made to the record
  MaxSessions,  \* bound: times that the run is opened
  MaxCrashes,   \* bound: kills and losses of power
  MaxFailures,  \* bound: failed file system calls
  Errors,       \* the errors that occur: "temporary" (retried) and "fatal"
  FailAt        \* calls that may fail; "initial" lets the first snapshot's calls fail

ASSUME JournalAssumption ==
  /\ Status \in Fields
  /\ Threshold \in Nat \ {0}
  /\ Errors \subseteq {"temporary", "fatal"}
  /\ {MaxChanges, MaxSessions, MaxCrashes, MaxFailures} \subseteq Nat

VARIABLES
  live,       \* the record in the runner's memory
  clock,      \* the last change's number; every change has a fresh one
  pending,    \* `#pending`: whether a batch waits, and asks to be flushed
  flight,     \* the batch being written: the cloned record, `durable`, the attempt
  closed,     \* `#closed`
  pc,         \* the writer's next file system call
  prev,       \* `#previous`: the last committed state, or None
  bytes,      \* `#bytes`: entries in the committed part of the journal
  snap,       \* run.json, or None
  snapLag,    \* what run.json may be after a loss of power
  log,        \* journal.jsonl: complete lines and whether a partial one follows
  logLag,     \* what journal.jsonl may be after a loss of power
  written,    \* history: every state that some batch tried to commit
  kept,       \* history: the last record acknowledged to a caller
  flushed,    \* history: the last record acknowledged to a `durable` caller
  rd,         \* rd[r]: the reader's progress
  sessions, crashes, failures

memory == <<live, pending, flight, closed, pc, prev, bytes>>
files == <<snap, snapLag, log, logLag>>
history == <<written, kept, flushed>>
bounds == <<clock, sessions, crashes, failures>>
vars == <<memory, files, history, rd, bounds>>

Record == [Fields -> 0..MaxChanges]
Zero == [f \in Fields |-> 0]
Empty == [entries |-> <<>>, torn |-> FALSE]

NotReading == [at |-> "idle", first |-> None, text |-> None, since |-> Zero]

AtLeast(r, s) == \A f \in Fields : r[f] >= s[f]
------------------------------------------------------------------------------
(* replayJournal: the snapshot, then every complete line above its seq.    *)

HasLines(j) == IF j = None THEN FALSE ELSE j.entries # <<>>

Newer(s, E) == {i \in DOMAIN E : E[i].seq > s.seq}

\* The entries above the floor follow it, and each other, without a gap.
Gapless(s, E) ==
  \A i \in Newer(s, E) :
    LET earlier == {k \in Newer(s, E) : k < i}
    IN  IF earlier = {} THEN E[i].seq = s.seq + 1
        ELSE \E k \in earlier : /\ E[i].seq = E[k].seq + 1
                                /\ \A m \in earlier : m <= k

\* A missing journal beside a snapshot is refused, like a gap.
Readable(s, j) == IF s = None \/ j = None THEN FALSE ELSE Gapless(s, j.entries)

Replay(s, j) ==
  LET E == j.entries
      changing(f) == {i \in Newer(s, E) : f \in DOMAIN E[i].changes}
      last(S) == CHOOSE i \in S : \A k \in S : k <= i
  IN  [seq |-> IF Newer(s, E) = {} THEN s.seq ELSE E[last(Newer(s, E))].seq,
       rec |-> [f \in Fields |-> IF changing(f) = {} THEN s.rec[f]
                                 ELSE E[last(changing(f))].changes[f]]]

Changed(from, to) == {f \in Fields : from[f] # to[f]}
Entry(state, to) ==
  [seq |-> state.seq + 1, changes |-> [f \in Changed(state.rec, to) |-> to[f]]]

\* A file takes new contents in the page cache; the disk may hold any of them.
SetSnap(s) == snap' = s /\ snapLag' = snapLag \cup {s}
SetLog(j) == log' = j /\ logLag' = logLag \cup {j}
------------------------------------------------------------------------------
Init ==
  /\ live = Zero /\ clock = 0
  /\ pending = None /\ flight = None /\ closed = TRUE
  /\ pc = "down" /\ prev = None /\ bytes = 0
  /\ snap = None /\ snapLag = {None}
  /\ log = None /\ logLag = {None}
  /\ written = {} /\ kept = Zero /\ flushed = Zero
  /\ rd = [r \in Readers |-> NotReading]
  /\ sessions = 0 /\ crashes = 0 /\ failures = 0

\* openFileOwnedRun under the run lock, and FileOwnedRun.read: a run without a
\* snapshot is a fresh one as long as its journal has no complete line.
Open ==
  /\ pc = "down" /\ sessions < MaxSessions
  /\ \/ /\ snap = None
        /\ ~HasLines(log)
        /\ live' = Zero
     \/ /\ Readable(snap, log)
        /\ live' = Replay(snap, log).rec
  /\ closed' = FALSE /\ pc' = "unprepared"
  /\ prev' = None /\ bytes' = 0
  /\ sessions' = sessions + 1
  /\ UNCHANGED <<clock, pending, flight, files, history, rd, crashes, failures>>

\* A caller changes the record and, in the same tick, calls append: it joins the
\* pending batch or starts one.
Save(f, durable) ==
  /\ ~closed /\ clock < MaxChanges
  /\ clock' = clock + 1
  /\ live' = [live EXCEPT ![f] = clock + 1]
  /\ pending' = IF pending = None THEN [durable |-> durable]
                ELSE [durable |-> pending.durable \/ durable]
  /\ UNCHANGED <<flight, closed, pc, prev, bytes, files, history, rd, sessions, crashes, failures>>

Idle == flight = None /\ pc \in {"unprepared", "ready"}

\* The queue reaches the batch: no more callers join it, and the record is cloned.
StartBatch ==
  /\ Idle /\ pending # None
  /\ flight' = [rec |-> live, durable |-> pending.durable, attempt |-> 0]
  /\ pending' = None
  /\ pc' = IF pc = "ready" THEN "append" ELSE "prepare"
  /\ UNCHANGED <<live, closed, prev, bytes, files, history, rd, bounds>>

\* release: refuse new saves, drain the queue, give up the lock.
Close ==
  /\ ~closed /\ pc # "down"
  /\ closed' = TRUE
  /\ UNCHANGED <<live, pending, flight, pc, prev, bytes, files, history, rd, bounds>>

Release ==
  /\ closed /\ Idle /\ pending = None
  /\ pc' = "down"
  /\ UNCHANGED <<live, pending, flight, closed, prev, bytes, files, history, rd, bounds>>
------------------------------------------------------------------------------
(* JournalWriter.prepare, once for each owner.                             *)

\* Read the committed state, create the journal if it is missing, cut a torn tail.
Prepare ==
  /\ pc = "prepare"
  /\ prev' = IF snap = None THEN None ELSE Replay(snap, log)
  /\ IF log = None
     THEN SetLog(Empty) /\ pc' = "dirSync"
     ELSE IF log.torn
     THEN SetLog([log EXCEPT !.torn = FALSE]) /\ pc' = "repairSync"
     ELSE pc' = "dirSync" /\ UNCHANGED <<log, logLag>>
  /\ UNCHANGED <<live, pending, flight, closed, bytes, snap, snapLag, history, rd, bounds>>

RepairSync ==
  /\ pc = "repairSync"
  /\ logLag' = {log}
  /\ pc' = "dirSync"
  /\ UNCHANGED <<live, pending, flight, closed, prev, bytes, snap, snapLag, log,
                 history, rd, bounds>>

\* syncDirectory: the names are durable, an unflushed journal's contents are not.
DirSync ==
  /\ pc = "dirSync"
  /\ snapLag' = {snap}
  /\ logLag' = logLag \ {None}
  /\ bytes' = Len(log.entries)
  /\ pc' = "append"
  /\ UNCHANGED <<live, pending, flight, closed, prev, snap, log, history, rd, bounds>>
------------------------------------------------------------------------------
(* JournalWriter.append.                                                   *)

\* The batch's promise resolves.
Settle(state) ==
  /\ pc' = "ready" /\ flight' = None
  /\ kept' = state.rec
  /\ flushed' = IF flight.durable THEN state.rec ELSE flushed

Committed == SubSeq(log.entries, 1, bytes)
Torn == [entries |-> Committed, torn |-> TRUE]

\* No state yet: the record becomes the first snapshot.
AppendInitial ==
  /\ pc = "append" /\ prev = None
  /\ written' = written \cup {[seq |-> 0, rec |-> flight.rec]}
  /\ pc' = "rename"
  /\ UNCHANGED <<live, pending, flight, closed, prev, bytes, files, kept, flushed, rd, bounds>>

\* Nothing to write, as when a retry finds that only compaction had failed.
AppendNothing ==
  /\ pc = "append" /\ prev # None
  /\ Changed(prev.rec, flight.rec) = {}
  /\ Settle(prev)
  /\ UNCHANGED <<live, pending, closed, prev, bytes, files, written, rd, bounds>>

\* Cut what a failed append left, and begin to write the line.
AppendTruncate ==
  /\ pc = "append" /\ prev # None
  /\ Changed(prev.rec, flight.rec) # {}
  /\ log' = Torn
  /\ logLag' = logLag \cup {[entries |-> Committed, torn |-> FALSE], Torn}
  /\ written' = written \cup {[seq |-> prev.seq + 1, rec |-> flight.rec]}
  /\ pc' = "write"
  /\ UNCHANGED <<live, pending, flight, closed, prev, bytes, snap, snapLag,
                 kept, flushed, rd, bounds>>

\* After the line is written and, for a durable batch, flushed: commit it, and
\* compact on a change of status or a long journal.
Commit(n) ==
  /\ bytes' = n
  /\ prev' = [seq |-> prev.seq + 1, rec |-> flight.rec]
  /\ IF prev.rec[Status] # flight.rec[Status] \/ n >= Threshold
     THEN pc' = "rename" /\ UNCHANGED <<flight, kept, flushed>>
     ELSE Settle([seq |-> prev.seq + 1, rec |-> flight.rec])

AppendWrite ==
  /\ pc = "write"
  /\ SetLog([entries |-> Append(log.entries, Entry(prev, flight.rec)), torn |-> FALSE])
  /\ IF flight.durable
     THEN pc' = "sync" /\ UNCHANGED <<prev, bytes, flight, kept, flushed>>
     ELSE Commit(bytes + 1)
  /\ UNCHANGED <<live, pending, closed, snap, snapLag, written, rd, bounds>>

AppendSync ==
  /\ pc = "sync"
  /\ logLag' = {log}
  /\ Commit(bytes + 1)
  /\ UNCHANGED <<live, pending, closed, snap, snapLag, log, written, rd, bounds>>
------------------------------------------------------------------------------
(* JournalWriter.compact: the snapshot is durable before its entries go.   *)

Compacted == IF prev = None THEN [seq |-> 0, rec |-> flight.rec] ELSE prev

\* Mutant of CompactRename: the journal is truncated before the rename is flushed.
CompactUnflushed ==
  /\ pc = "rename"
  /\ SetSnap(Compacted)
  /\ pc' = "truncate"
  /\ UNCHANGED <<live, pending, flight, closed, prev, bytes, log, logLag, history, rd, bounds>>

\* atomicStorageWrite: a flushed temporary file is renamed over run.json.
CompactRename ==
  /\ pc = "rename"
  /\ SetSnap(Compacted)
  /\ pc' = "snapSync"
  /\ UNCHANGED <<live, pending, flight, closed, prev, bytes, log, logLag, history, rd, bounds>>

CompactSync ==
  /\ pc = "snapSync"
  /\ snapLag' = {snap}
  /\ logLag' = logLag \ {None}
  /\ pc' = "truncate"
  /\ UNCHANGED <<live, pending, flight, closed, prev, bytes, snap, log, history, rd, bounds>>

CompactTruncate ==
  /\ pc = "truncate"
  /\ SetLog(Empty)
  /\ bytes' = 0
  /\ pc' = "truncSync"
  /\ UNCHANGED <<live, pending, flight, closed, prev, snap, snapLag, history, rd, bounds>>

CompactDone ==
  /\ pc = "truncSync"
  /\ logLag' = {log}
  /\ prev' = Compacted
  /\ Settle(Compacted)
  /\ UNCHANGED <<live, pending, closed, bytes, snap, snapLag, log, written, rd, bounds>>
------------------------------------------------------------------------------
(* Failures.                                                               *)

Compaction == {"rename", "snapSync", "truncate", "truncSync"}
Calls == {"prepare", "repairSync", "dirSync", "append", "write", "sync"} \cup Compaction

\* Mutant of Retries.
RetriesOnce == 1

\* writeCheckpoint: how often a temporary error repeats the append.
Retries == 2

\* writeCheckpoint: a temporary error repeats the append; any other error, or
\* one too many, rejects the batch.  A later batch carries its changes again.
Fail(error) ==
  /\ pc \in Calls \cap FailAt /\ failures < MaxFailures
  /\ prev = None /\ pc \in Compaction => "initial" \in FailAt
  /\ failures' = failures + 1
  /\ LET prepared == pc \notin {"prepare", "repairSync", "dirSync"}
     IN  IF error = "temporary" /\ flight.attempt < Retries
         THEN /\ flight' = [flight EXCEPT !.attempt = @ + 1]
              /\ pc' = IF prepared THEN "append" ELSE "prepare"
         ELSE /\ flight' = None
              /\ pc' = IF prepared THEN "ready" ELSE "unprepared"
  /\ UNCHANGED <<live, pending, closed, prev, bytes, files, history, rd, clock, sessions, crashes>>

\* The owner is killed: its memory is gone, the page cache is not.
Crash ==
  /\ pc # "down" /\ crashes < MaxCrashes
  /\ crashes' = crashes + 1
  /\ pc' = "down" /\ closed' = TRUE /\ pending' = None /\ flight' = None
  /\ UNCHANGED <<live, prev, bytes, files, history, rd, clock, sessions, failures>>

\* The host loses power: every process is gone, and each file is what its disk held.
PowerLoss ==
  /\ crashes < MaxCrashes
  /\ crashes' = crashes + 1
  /\ pc' = "down" /\ closed' = TRUE /\ pending' = None /\ flight' = None
  /\ \E s \in snapLag, j \in logLag :
       /\ snap' = s /\ snapLag' = {s}
       /\ log' = j /\ logLag' = {j}
  /\ kept' = flushed
  /\ rd' = [r \in Readers |-> NotReading]
  /\ UNCHANGED <<live, prev, bytes, written, flushed, clock, sessions, failures>>
------------------------------------------------------------------------------
(* readJournalRun: run.json, journal.jsonl, and run.json again.            *)

ReadSnapshot(r) ==
  /\ rd[r].at = "idle" /\ snap # None
  /\ rd' = [rd EXCEPT ![r] = [at |-> "journal", first |-> snap, text |-> None, since |-> kept]]
  /\ UNCHANGED <<memory, files, history, bounds>>

ReadJournal(r) ==
  /\ rd[r].at = "journal"
  /\ rd' = [rd EXCEPT ![r].at = "again", ![r].text = log]
  /\ UNCHANGED <<memory, files, history, bounds>>

\* Mutant of ReadAgain: the second look at the snapshot is dropped.
ReadOnce(r) ==
  /\ rd[r].at = "again"
  /\ rd' = [rd EXCEPT ![r].at = "done"]
  /\ UNCHANGED <<memory, files, history, bounds>>

\* A snapshot of another seq means that compaction ran: start over.
ReadAgain(r) ==
  /\ rd[r].at = "again"
  /\ rd' = [rd EXCEPT ![r] = IF snap.seq = rd[r].first.seq THEN [rd[r] EXCEPT !.at = "done"]
                             ELSE NotReading]
  /\ UNCHANGED <<memory, files, history, bounds>>
------------------------------------------------------------------------------
Write ==
  \/ StartBatch \/ Prepare \/ RepairSync \/ DirSync
  \/ AppendInitial \/ AppendNothing \/ AppendTruncate \/ AppendWrite \/ AppendSync
  \/ CompactRename \/ CompactSync \/ CompactTruncate \/ CompactDone

Next ==
  \/ Open \/ Close \/ Release \/ Write \/ Crash \/ PowerLoss
  \/ \E f \in Fields, durable \in BOOLEAN : Save(f, durable)
  \/ \E error \in Errors : Fail(error)
  \/ \E r \in Readers : ReadSnapshot(r) \/ ReadJournal(r) \/ ReadAgain(r)

Spec == Init /\ [][Next]_vars
------------------------------------------------------------------------------
States == [seq : Nat, rec : Record]
Lines == [seq : Nat, changes : UNION {[F -> 0..MaxChanges] : F \in SUBSET Fields}]
Logs == [entries : Seq(Lines), torn : BOOLEAN]

ASSUME NoneAssumption == None \notin States \cup Logs \cup [durable : BOOLEAN]

\* The writer's memory and the files stay within their types, and the writer never
\* counts more committed bytes than the journal has.
TypeOK ==
  /\ live \in Record /\ kept \in Record /\ flushed \in Record
  /\ clock \in 0..MaxChanges /\ closed \in BOOLEAN
  /\ pending \in [durable : BOOLEAN] \cup {None}
  /\ flight \in [rec : Record, durable : BOOLEAN, attempt : 0..Retries] \cup {None}
  /\ pc \in Calls \cup {"down", "unprepared", "ready"}
  /\ prev \in States \cup {None} /\ bytes \in Nat
  /\ snap \in States \cup {None} /\ snapLag \subseteq States \cup {None}
  /\ log \in Logs \cup {None} /\ logLag \subseteq Logs \cup {None}
  /\ snap \in snapLag /\ log \in logLag
  /\ log # None /\ pc # "down" => bytes <= Len(log.entries)
  /\ written \subseteq States
  /\ sessions \in 0..MaxSessions /\ crashes \in 0..MaxCrashes /\ failures \in 0..MaxFailures

\* What the next owner recovers from these two files: a state that a batch wrote
\* whole, no older than `acknowledged`; or no run, if nothing was acknowledged.
Recovers(s, j, acknowledged) ==
  IF s = None
  THEN acknowledged = Zero /\ ~HasLines(j)
  ELSE /\ Readable(s, j)
       /\ Replay(s, j) \in written
       /\ AtLeast(Replay(s, j).rec, acknowledged)

\* docs/storage.md: completions "are fsynced before their corresponding promise or
\* notification becomes observable".  Whatever the disk holds if power fails now, the
\* run is readable, whole and contains every change acknowledged as durable.
DurableSurvivesPowerLoss ==
  \A s \in snapLag, j \in logLag : Recovers(s, j, flushed)

\* docs/storage.md: "A process crash retains those bytes": what a killed owner leaves
\* contains every acknowledged change, flushed or not.
KilledOwnerKeepsAll == Recovers(snap, log, kept)

\* What callers were told is there after any crash, and the writer's own view of the
\* files is right: after a loss of power what was flushed, after a kill everything.
AcknowledgedSurvives == TypeOK /\ DurableSurvivesPowerLoss /\ KilledOwnerKeepsAll

\* readJournalRun, without a lock: what a reader returns is one state that a batch
\* wrote, never a mixture of two nor a false gap, and no older than what had been
\* acknowledged when the read began.
ReadsAreConsistent ==
  \A r \in Readers :
    rd[r].at = "done" => Recovers(rd[r].first, rd[r].text, rd[r].since)

\* FileOwnedRun.append: "coalesces concurrent callers".  Two temporary errors never
\* cost a save: what was changed is in the end what is acknowledged.
EverySaveCommits == (pending # None) ~> (kept = live)

\* The queue is drained as long as the event loop runs.
FairSpec == Spec /\ WF_vars(Write)
=============================================================================
