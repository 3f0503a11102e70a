---------------------------- MODULE JournalProofs ----------------------------
(***************************************************************************)
(* What Journal promises, for every set of fields and readers, every       *)
(* threshold of compaction, and any number of changes, sessions, kills,    *)
(* losses of power and failed calls.                                       *)
(*                                                                         *)
(* JournalInv relates what the writer believes to be committed to each     *)
(* pair of files that a kill or a loss of power may leave.                 *)
(***************************************************************************)
EXTENDS Journal, WellFoundedInduction, TLAPS

-----------------------------------------------------------------------------
(* What replaying a journal yields.                                        *)

\* The lines of a file are in the order of their numbers.
Sorted(E) == \A i, k \in DOMAIN E : i < k => E[i].seq < E[k].seq

\* A bounded set of positions has a last one.
LEMMA LastExists ==
  ASSUME NEW S \in SUBSET Nat, S # {}, NEW n \in Nat, \A x \in S : x <= n
  PROVE  \E m \in S : \A x \in S : x <= m
<1> DEFINE D == {n - x : x \in S}
<1>1. D \subseteq Nat /\ D # {}
  <2>1. \A x \in S : n - x \in Nat
    OBVIOUS
  <2> QED BY <2>1
<1>2. \E d \in D : \A e \in D : ~(<<e, d>> \in OpToRel(<, Nat))
  <2> HIDE DEF D
  <2> QED BY <1>1, WFMin, NatLessThanWellFounded
<1>3. PICK m \in S : \A e \in D : ~(<<e, n - m>> \in OpToRel(<, Nat))
  BY <1>2
<1>4. ASSUME NEW x \in S PROVE x <= m
  <2>1. n - x \in Nat /\ n - m \in Nat
    OBVIOUS
  <2>2. ~(n - x < n - m)
    BY <1>3, <2>1 DEF OpToRel
  <2> QED BY <2>1, <2>2
<1> QED BY <1>4

\* A line's changes are of fields, and are numbers.
LEMMA LineParts ==
  ASSUME NEW e \in Lines
  PROVE  /\ e.seq \in Nat /\ DOMAIN e.changes \subseteq Fields
         /\ \A f \in DOMAIN e.changes : e.changes[f] \in 0..MaxChanges
<1>1. PICK F \in SUBSET Fields : e.changes \in [F -> 0..MaxChanges]
  BY DEF Lines
<1> QED BY <1>1 DEF Lines

LEMMA LogParts ==
  ASSUME NEW j \in Logs
  PROVE  /\ j.entries \in Seq(Lines) /\ Len(j.entries) \in Nat
         /\ DOMAIN j.entries = 1..Len(j.entries)
         /\ \A i \in 1..Len(j.entries) : j.entries[i] \in Lines /\ j.entries[i].seq \in Nat
<1>1. j.entries \in Seq(Lines)
  BY DEF Logs
<1>2. /\ Len(j.entries) \in Nat /\ DOMAIN j.entries = 1..Len(j.entries)
      /\ \A i \in 1..Len(j.entries) : j.entries[i] \in Lines
  BY <1>1
<1> QED BY <1>1, <1>2, LineParts

LEMMA EntryIsLine ==
  ASSUME NEW p \in States, NEW to \in Record
  PROVE  /\ Entry(p, to) \in Lines
         /\ Entry(p, to).seq = p.seq + 1
         /\ DOMAIN Entry(p, to).changes = Changed(p.rec, to)
         /\ \A f \in Changed(p.rec, to) : Entry(p, to).changes[f] = to[f]
<1> DEFINE c == [f \in Changed(p.rec, to) |-> to[f]]
<1>1. Changed(p.rec, to) \in SUBSET Fields
  BY DEF Changed
<1>2. c \in [Changed(p.rec, to) -> 0..MaxChanges]
  BY <1>1 DEF Record
<1>3. c \in UNION {[F -> 0..MaxChanges] : F \in SUBSET Fields}
  BY <1>1, <1>2
<1>4. p.seq + 1 \in Nat
  BY DEF States
<1>5. Entry(p, to) = [seq |-> p.seq + 1, changes |-> c]
  BY DEF Entry
<1> HIDE DEF c
<1>6. Entry(p, to) \in Lines
  BY <1>3, <1>4, <1>5 DEF Lines
<1> QED BY <1>5, <1>6 DEF c

\* Only the lines matter, not what follows them.
LEMMA OnlyLinesCount ==
  ASSUME NEW s, NEW j, NEW k, j.entries = k.entries
  PROVE  Replay(s, j) = Replay(s, k)
PROOF BY DEF Replay

\* Each field is as the last line that changes it says.
LEMMA ReplayField ==
  ASSUME NEW s, NEW j, NEW f \in Fields
  PROVE  Replay(s, j).rec[f] =
           IF {i \in Newer(s, j.entries) : f \in DOMAIN j.entries[i].changes} = {}
           THEN s.rec[f]
           ELSE j.entries[CHOOSE i \in {m \in Newer(s, j.entries) :
                                          f \in DOMAIN j.entries[m].changes} :
                            \A m \in {x \in Newer(s, j.entries) :
                                        f \in DOMAIN j.entries[x].changes} : m <= i].changes[f]
PROOF BY DEF Replay

LEMMA ReplayIsRecord ==
  ASSUME NEW s, NEW j
  PROVE  /\ Replay(s, j) = [seq |-> Replay(s, j).seq, rec |-> Replay(s, j).rec]
         /\ Replay(s, j).rec = [f \in Fields |-> Replay(s, j).rec[f]]
<1> DEFINE E == j.entries
           changing(f) == {i \in Newer(s, E) : f \in DOMAIN E[i].changes}
           last(S) == CHOOSE i \in S : \A k \in S : k <= i
           seq == IF Newer(s, E) = {} THEN s.seq ELSE E[last(Newer(s, E))].seq
           field(f) == IF changing(f) = {} THEN s.rec[f] ELSE E[last(changing(f))].changes[f]
           rec == [f \in Fields |-> field(f)]
<1>1. Replay(s, j) = [seq |-> seq, rec |-> rec]
  BY DEF Replay
<1> HIDE DEF seq, field
<1> QED BY <1>1

\* A snapshot that has no newer lines is what is replayed.
LEMMA ReplayNothing ==
  ASSUME NEW s \in States, NEW j, Newer(s, j.entries) = {}
  PROVE  Replay(s, j) = s /\ Gapless(s, j.entries)
<1>1. \A f \in Fields : {i \in Newer(s, j.entries) : f \in DOMAIN j.entries[i].changes} = {}
  OBVIOUS
<1>2. Replay(s, j) = [seq |-> s.seq, rec |-> [f \in Fields |-> s.rec[f]]]
  BY <1>1 DEF Replay
<1>3. s.rec = [f \in Fields |-> s.rec[f]]
  BY DEF States, Record
<1> QED BY <1>2, <1>3 DEF Gapless, States

\* What is replayed is a state, and no line is above it.
LEMMA ReplayIsLast ==
  ASSUME NEW s \in States, NEW j \in Logs, Sorted(j.entries)
  PROVE  /\ Replay(s, j) \in States
         /\ s.seq <= Replay(s, j).seq
         /\ \A i \in DOMAIN j.entries : j.entries[i].seq <= Replay(s, j).seq
         /\ Newer(s, j.entries) # {} =>
              /\ Len(j.entries) \in Newer(s, j.entries)
              /\ Replay(s, j).seq = j.entries[Len(j.entries)].seq
<1> DEFINE E == j.entries
           n == Len(E)
           changing(f) == {i \in Newer(s, E) : f \in DOMAIN E[i].changes}
           last(S) == CHOOSE i \in S : \A k \in S : k <= i
           seq == IF Newer(s, E) = {} THEN s.seq ELSE E[last(Newer(s, E))].seq
           rec == [f \in Fields |-> IF changing(f) = {} THEN s.rec[f]
                                    ELSE E[last(changing(f))].changes[f]]
<1>1. /\ E \in Seq(Lines) /\ n \in Nat /\ DOMAIN E = 1..n
      /\ \A i \in 1..n : E[i] \in Lines /\ E[i].seq \in Nat
  BY LogParts
<1>2. s.seq \in Nat /\ s.rec \in Record
  BY DEF States
<1>3. \A i \in 1..n : E[i].seq <= E[n].seq
  BY <1>1 DEF Sorted
<1>4. Replay(s, j) = [seq |-> seq, rec |-> rec]
  BY DEF Replay
<1>5. ASSUME NEW S \in SUBSET (1..n), S # {}
      PROVE  last(S) \in S
  <2>1. \E m \in S : \A x \in S : x <= m
    <3>1. S \in SUBSET Nat /\ \A x \in S : x <= n
      BY <1>1
    <3> QED BY <1>1, <1>5, <3>1, LastExists
  <2> QED BY <2>1
<1>6. ASSUME NEW f \in Fields PROVE rec[f] \in 0..MaxChanges
  <2>1. CASE changing(f) = {}
    BY <1>2, <2>1 DEF Record
  <2>2. CASE changing(f) # {}
    <3>1. changing(f) \in SUBSET (1..n)
      BY <1>1 DEF Newer
    <3>2. last(changing(f)) \in changing(f)
      BY <1>5, <2>2, <3>1
    <3>3. PICK i \in changing(f) : i = last(changing(f))
      BY <3>2
    <3>4. i \in 1..n /\ f \in DOMAIN E[i].changes /\ E[i] \in Lines
      BY <1>1, <3>1
    <3>5. E[i].changes[f] \in 0..MaxChanges
      BY <3>4, LineParts
    <3> QED BY <2>2, <3>3, <3>5
  <2> QED BY <2>1, <2>2
<1>7. rec \in Record
  <2> HIDE DEF changing, last, E
  <2> QED BY <1>6 DEF Record
<1>8. CASE Newer(s, E) = {}
  <2>1. \A i \in 1..n : E[i].seq <= s.seq
    BY <1>1, <1>2, <1>8 DEF Newer
  <2> HIDE DEF rec, E
  <2> QED BY <1>1, <1>2, <1>4, <1>7, <1>8, <2>1 DEF States, E
<1>9. CASE Newer(s, E) # {}
  <2>1. n \in Newer(s, E)
    BY <1>1, <1>2, <1>3, <1>9 DEF Newer
  <2>2. \A k \in Newer(s, E) : k <= n
    BY <1>1 DEF Newer
  <2>3. last(Newer(s, E)) = n
    BY <1>1, <2>1, <2>2 DEF Newer
  <2>4. seq = E[n].seq /\ s.seq < E[n].seq
    BY <1>9, <2>1, <2>3 DEF Newer
  <2>5. n \in 1..n /\ DOMAIN E = 1..n
    BY <1>1, <2>1 DEF Newer
  <2> HIDE DEF rec, E, seq, n
  <2>6. seq \in Nat /\ s.seq <= seq /\ \A i \in 1..n : E[i].seq <= seq
    BY <1>1, <1>2, <1>3, <2>4, <2>5
  <2>7. Replay(s, j) \in States /\ Replay(s, j).seq = seq
    BY <1>4, <1>7, <2>6 DEF States
  <2> QED BY <2>1, <2>4, <2>5, <2>6, <2>7 DEF E, n
<1> QED BY <1>8, <1>9

\* A line with the next change, added to lines that yield p, yields the changed record.
LEMMA ReplayOneMore ==
  ASSUME NEW s \in States, NEW j \in Logs, NEW k \in Logs, NEW to \in Record,
         Sorted(j.entries), Gapless(s, j.entries),
         NEW p \in States, p = Replay(s, j), k.entries = Append(j.entries, Entry(p, to))
  PROVE  /\ Sorted(k.entries) /\ Gapless(s, k.entries)
         /\ Replay(s, k) = [seq |-> p.seq + 1, rec |-> to]
<1> DEFINE E == j.entries
           G == k.entries
           n == Len(E)
           e == Entry(p, to)
<1>1. /\ E \in Seq(Lines) /\ n \in Nat /\ DOMAIN E = 1..n
      /\ \A i \in 1..n : E[i] \in Lines /\ E[i].seq \in Nat
  BY LogParts
<1>2. e \in Lines /\ e.seq = p.seq + 1 /\ p.seq \in Nat /\ s.seq \in Nat
  BY EntryIsLine DEF States
<1>3. /\ s.seq <= p.seq /\ \A i \in 1..n : E[i].seq <= p.seq
      /\ Newer(s, E) # {} => n \in Newer(s, E) /\ p.seq = E[n].seq
  BY <1>1, ReplayIsLast
<1>4. Newer(s, E) = {} => p = s
  BY ReplayNothing
<1> HIDE DEF e
<1>5. /\ DOMAIN G = 1..(n + 1) /\ G[n + 1] = e /\ \A i \in 1..n : G[i] = E[i]
  BY <1>1, <1>2 DEF e
<1> HIDE DEF E, G, n
<1>6. Sorted(G)
  <2>1. \A i, m \in 1..n : i < m => E[i].seq < E[m].seq
    BY <1>1 DEF Sorted, E
  <2> QED BY <1>1, <1>2, <1>3, <1>5, <2>1 DEF Sorted
<1>7. Newer(s, G) = Newer(s, E) \cup {n + 1} /\ Newer(s, E) \subseteq 1..n
  BY <1>1, <1>2, <1>3, <1>5 DEF Newer
<1>8. Gapless(s, G)
  <2>1. ASSUME NEW i \in Newer(s, G)
        PROVE  LET earlier == {m \in Newer(s, G) : m < i}
               IN  IF earlier = {} THEN G[i].seq = s.seq + 1
                   ELSE \E m \in earlier : /\ G[i].seq = G[m].seq + 1
                                           /\ \A x \in earlier : x <= m
    <3>1. CASE i = n + 1
      <4>1. {m \in Newer(s, G) : m < i} = Newer(s, E)
        BY <1>1, <1>7, <3>1
      <4>2. CASE Newer(s, E) = {}
        BY <1>2, <1>4, <1>5, <3>1, <4>1, <4>2
      <4>3. CASE Newer(s, E) # {}
        <5>1. n \in Newer(s, E) /\ G[n] = E[n] /\ G[i].seq = G[n].seq + 1
          BY <1>2, <1>3, <1>5, <1>7, <3>1, <4>3
        <5>2. \A x \in Newer(s, E) : x <= n
          BY <1>1, <1>7
        <5> QED BY <4>1, <4>3, <5>1, <5>2
      <4> QED BY <4>2, <4>3
    <3>2. CASE i \in Newer(s, E)
      <4>1. {m \in Newer(s, G) : m < i} = {m \in Newer(s, E) : m < i}
        BY <1>1, <1>7, <3>2
      <4>2. /\ i \in 1..n /\ G[i] = E[i]
            /\ \A m \in {x \in Newer(s, E) : x < i} : G[m] = E[m]
        BY <1>5, <1>7, <3>2
      <4>3. LET earlier == {m \in Newer(s, E) : m < i}
            IN  IF earlier = {} THEN E[i].seq = s.seq + 1
                ELSE \E m \in earlier : /\ E[i].seq = E[m].seq + 1
                                        /\ \A x \in earlier : x <= m
        BY <3>2 DEF Gapless, E
      <4> QED BY <4>1, <4>2, <4>3
    <3> QED BY <1>7, <2>1, <3>1, <3>2
  <2> QED BY <2>1 DEF Gapless
<1> DEFINE was(f) == {i \in Newer(s, E) : f \in DOMAIN E[i].changes}
           is(f) == {i \in Newer(s, G) : f \in DOMAIN G[i].changes}
           last(S) == CHOOSE i \in S : \A m \in S : m <= i
<1>9. Replay(s, k).seq = p.seq + 1
  <2>1. Replay(s, k).seq = G[last(Newer(s, G))].seq
    BY <1>7 DEF Replay, G
  <2>2. last(Newer(s, G)) = n + 1
    BY <1>1, <1>7
  <2> QED BY <1>2, <1>5, <2>1, <2>2
<1>10. ASSUME NEW f \in Fields
       PROVE  Replay(s, k).rec[f] = to[f]
  <2>1. Replay(s, k).rec[f] = IF is(f) = {} THEN s.rec[f] ELSE G[last(is(f))].changes[f]
    BY ReplayField DEF G
  <2>2. p.rec[f] = IF was(f) = {} THEN s.rec[f] ELSE E[last(was(f))].changes[f]
    BY ReplayField DEF E
  <2>3. CASE f \in Changed(p.rec, to)
    <3>1. f \in DOMAIN e.changes /\ e.changes[f] = to[f]
      BY <2>3, EntryIsLine DEF e
    <3>2. n + 1 \in is(f) /\ \A m \in is(f) : m <= n + 1
      BY <1>1, <1>5, <1>7, <3>1
    <3>3. last(is(f)) = n + 1
      BY <1>1, <1>7, <3>2
    <3> QED BY <1>5, <2>1, <3>1, <3>2, <3>3
  <2>4. CASE f \notin Changed(p.rec, to)
    <3>1. f \notin DOMAIN e.changes /\ p.rec[f] = to[f]
      BY <2>4, EntryIsLine DEF e, Changed
    <3>2. is(f) = was(f) /\ was(f) \subseteq 1..n
      BY <1>1, <1>5, <1>7, <3>1
    <3>3. CASE was(f) = {}
      BY <2>1, <2>2, <3>1, <3>2, <3>3
    <3>4. CASE was(f) # {}
      <4>1. \E m \in was(f) : \A x \in was(f) : x <= m
        <5>1. was(f) \in SUBSET Nat /\ \A x \in was(f) : x <= n
          BY <1>1, <3>2
        <5> HIDE DEF was
        <5> QED BY <1>1, <3>4, <5>1, LastExists
      <4>2. last(was(f)) \in was(f)
        BY <4>1
      <4>3. G[last(was(f))] = E[last(was(f))]
        BY <1>5, <3>2, <4>2
      <4> QED BY <2>1, <2>2, <3>1, <3>2, <3>4, <4>3
    <3> QED BY <3>3, <3>4
  <2> QED BY <2>3, <2>4
<1>11. Replay(s, k) = [seq |-> p.seq + 1, rec |-> to]
  <2>1. Replay(s, k) = [seq |-> Replay(s, k).seq, rec |-> Replay(s, k).rec]
    BY ReplayIsRecord
  <2>2. Replay(s, k).rec = [f \in Fields |-> Replay(s, k).rec[f]]
    BY ReplayIsRecord
  <2>3. to = [f \in Fields |-> to[f]]
    BY DEF Record
  <2> QED BY <1>9, <1>10, <2>1, <2>2, <2>3
<1> QED BY <1>6, <1>8, <1>11 DEF G

-----------------------------------------------------------------------------
\* Like Recovers, of any set of states.
Yields(s, j, acknowledged, states) ==
  IF s = None
  THEN acknowledged = Zero /\ ~HasLines(j)
  ELSE /\ Readable(s, j)
       /\ Replay(s, j) \in states
       /\ AtLeast(Replay(s, j).rec, acknowledged)

Prepared == {"append", "write", "sync", "ready"} \cup Compaction
Preparing == {"repairSync", "dirSync"}

\* What an owner would find, and the last state that the writer takes as committed.
OnFiles == IF snap = None THEN None ELSE Replay(snap, log)
Current == IF pc \in Prepared \cup Preparing THEN prev ELSE OnFiles

\* The log up to its committed part.
CommittedLog == [entries |-> Committed, torn |-> FALSE]

UpTo(n) == \A j \in logLag : j # None => \A i \in DOMAIN j.entries : j.entries[i].seq <= n

Typed ==
  /\ TypeOK
  /\ pc \in Calls => flight \in [rec : Record, durable : BOOLEAN, attempt : 0..Retries]
  /\ pc \notin Calls => flight = None
  /\ pc = "down" => closed /\ pending = None
  /\ pc \in Preparing \cup Prepared => log # None
  /\ pc \in Prepared => None \notin logLag
  /\ pc \in {"write", "sync"} => prev # None
  /\ pc \in {"unprepared", "prepare"} \cup Preparing => bytes = 0

\* What the two files can hold after a kill or a loss of power.
Recoverable ==
  /\ \A s \in snapLag, j \in logLag : Yields(s, j, flushed, written)
  /\ Yields(snap, log, kept, written)
  /\ AtLeast(kept, flushed)
  /\ snap = None => snapLag = {None}

\* The lines of each file are in order, none is far above the last committed state, and
\* none at all is above it while the snapshot is replaced.
Bounded ==
  /\ \A j \in logLag : j # None => Sorted(j.entries)
  /\ Current = None => \A j \in logLag : ~HasLines(j)
  /\ Current # None => UpTo(Current.seq + 1)
  /\ pc \in Compaction /\ prev # None => UpTo(prev.seq)

\* The writer's view of the files is right, whichever snapshot the disk holds.
Viewed ==
  /\ pc \in Preparing => prev = OnFiles
  /\ pc \in Prepared /\ prev # None =>
       /\ prev \in written /\ AtLeast(prev.rec, kept)
       /\ \A s \in snapLag : /\ s # None /\ Gapless(s, Committed)
                             /\ Replay(s, CommittedLog) = prev
       /\ \/ Len(log.entries) = bytes
          \/ Len(log.entries) = bytes + 1 /\ log.entries[bytes + 1].seq = prev.seq + 1
  /\ pc \in Prepared /\ prev = None => bytes = 0

\* The batch on its way.
Writing ==
  /\ pc \in {"write", "sync"} => /\ [seq |-> prev.seq + 1, rec |-> flight.rec] \in written
                                /\ prev.rec # flight.rec
  /\ pc = "write" => Len(log.entries) = bytes
  /\ pc = "sync" => /\ Len(log.entries) = bytes + 1
                    /\ log.entries[bytes + 1] = Entry(prev, flight.rec)
  /\ pc \in Compaction => Compacted \in written
  /\ pc \in {"snapSync", "truncate", "truncSync"} => snap = Compacted
  /\ pc \in {"truncate", "truncSync"} => snapLag = {snap}
  /\ pc = "truncSync" => log = Empty /\ bytes = 0

\* Changes only grow: a record is at least as new as what it was made from.
Growing ==
  /\ \A f \in Fields : live[f] <= clock /\ \A w \in written : w.rec[f] <= clock
  /\ pc # "down" => /\ AtLeast(live, kept)
                    /\ Current # None => AtLeast(live, Current.rec)
  /\ pc \in Calls => /\ AtLeast(live, flight.rec) /\ AtLeast(flight.rec, kept)
                     /\ Current # None => AtLeast(flight.rec, Current.rec)

\* A batch brings a change, unless a retry of it finds the change committed, and then a
\* durable one is flushed.
Fresh ==
  /\ pending # None => /\ Current # None => live # Current.rec
                       /\ pc \in Calls => live # flight.rec
  /\ pc \in {"prepare"} \cup Preparing /\ Current # None => flight.rec # Current.rec
  /\ pc \in Prepared \cap Calls /\ prev # None /\ prev.rec = flight.rec =>
       /\ Len(log.entries) = bytes
       /\ flight.durable =>
            \A s \in snapLag, j \in logLag : AtLeast(Replay(s, j).rec, prev.rec)

JournalInv ==
  Typed /\ Recoverable /\ Bounded /\ Viewed /\ Writing /\ Growing /\ Fresh

\* A snapshot is told from its successor by its seq: there is none before the first one
\* is renamed into place, and a later one has a higher seq.
Replacing ==
  /\ pc \in Prepared /\ prev = None /\ pc \notin {"snapSync", "truncate", "truncSync"} =>
       snap = None
  /\ pc = "rename" /\ prev # None => snap.seq < prev.seq

Progress == [at : {"idle", "journal", "again", "done"}, first : States \cup {None},
             text : Logs \cup {None}, since : Record]

\* What a lock-free reader holds, if its snapshot is still the current one when it looks
\* again.
Reader(r) ==
  rd[r].at # "idle" =>
    /\ rd[r].first # None /\ snap # None /\ rd[r].first.seq <= snap.seq
    /\ rd[r].first.seq = snap.seq => rd[r].first = snap
    /\ AtLeast(kept, rd[r].since)
    /\ \/ rd[r].at = "done"
       \/ rd[r].at = "again" /\ rd[r].first.seq = snap.seq
       => Yields(rd[r].first, rd[r].text, rd[r].since, written)

Reading == rd \in [Readers -> Progress] /\ \A r \in Readers : Reader(r)

-----------------------------------------------------------------------------
(* What the invariant says of the files and of the writer's view.          *)

LEMMA NoneIsNothing ==
  /\ None \notin States /\ None \notin Logs /\ None \notin [durable : BOOLEAN]
PROOF BY NoneAssumption

LEMMA AtLeastTrans ==
  ASSUME NEW a \in Record, NEW b \in Record, NEW c \in Record, AtLeast(a, b), AtLeast(b, c)
  PROVE  AtLeast(a, c)
<1>1. \A f \in Fields : a[f] \in Nat /\ b[f] \in Nat /\ c[f] \in Nat
  BY JournalAssumption DEF Record
<1>2. ASSUME NEW f \in Fields PROVE a[f] >= c[f]
  <2>1. a[f] >= b[f] /\ b[f] >= c[f]
    BY DEF AtLeast
  <2> QED BY <1>1, <2>1
<1> QED BY <1>2 DEF AtLeast

LEMMA AtLeastSelf == \A a \in Record : AtLeast(a, a)
PROOF BY JournalAssumption DEF Record, AtLeast

LEMMA Unchanged ==
  ASSUME NEW a \in Record, NEW b \in Record, Changed(a, b) = {}
  PROVE  a = b
<1>1. \A f \in Fields : a[f] = b[f]
  BY DEF Changed
<1> QED BY <1>1 DEF Record

LEMMA RecoversYields ==
  ASSUME NEW s, NEW j, NEW a
  PROVE  Recovers(s, j, a) <=> Yields(s, j, a, written)
PROOF BY DEF Recovers, Yields

\* What is found is found whatever follows the lines, among more states, and with less
\* acknowledged.
LEMMA YieldsStill ==
  ASSUME NEW s \in States \cup {None}, NEW j \in Logs \cup {None}, NEW k \in Logs,
         j # None => k.entries = j.entries, j = None => k.entries = <<>> /\ s = None,
         NEW a \in Record, NEW b \in Record, AtLeast(a, b),
         NEW V \in SUBSET States, NEW W \in SUBSET States, V \subseteq W, Yields(s, j, a, V)
  PROVE  Yields(s, k, b, W)
<1>1. CASE s = None
  <2>1. ASSUME NEW f \in Fields PROVE b[f] = 0
    <3>1. a[f] = 0 /\ b[f] \in Nat /\ a[f] >= b[f]
      BY <1>1, JournalAssumption DEF Yields, Record, AtLeast, Zero
    <3> QED BY <3>1
  <2>2. b = Zero
    BY <2>1 DEF Record, Zero
  <2>3. ~HasLines(k)
    BY <1>1, NoneIsNothing DEF Yields, HasLines
  <2> QED BY <1>1, <2>2, <2>3 DEF Yields
<1>2. CASE s # None
  <2>1. j # None /\ k # None /\ Readable(s, j) /\ Replay(s, j) \in V /\ k.entries = j.entries
    BY <1>2, NoneIsNothing DEF Yields, Readable
  <2>2. Readable(s, k) /\ Replay(s, k) = Replay(s, j)
    BY <1>2, <2>1, OnlyLinesCount DEF Readable
  <2>3. Replay(s, j).rec \in Record
    BY <2>1 DEF States
  <2>4. AtLeast(Replay(s, j).rec, b)
    BY <1>2, <2>3, AtLeastTrans DEF Yields
  <2> QED BY <1>2, <2>1, <2>2, <2>4 DEF Yields
<1> QED BY <1>1, <1>2

\* The same for the same file, read or missing.
LEMMA YieldsLess ==
  ASSUME NEW s \in States \cup {None}, NEW j \in Logs \cup {None},
         NEW a \in Record, NEW b \in Record, AtLeast(a, b),
         NEW V \in SUBSET States, NEW W \in SUBSET States, V \subseteq W, Yields(s, j, a, V)
  PROVE  Yields(s, j, b, W)
<1>1. CASE s = None
  <2>1. ASSUME NEW f \in Fields PROVE b[f] = 0
    <3>1. a[f] = 0 /\ b[f] \in Nat /\ a[f] >= b[f]
      BY <1>1, JournalAssumption DEF Yields, Record, AtLeast, Zero
    <3> QED BY <3>1
  <2>2. b = Zero
    BY <2>1 DEF Record, Zero
  <2> QED BY <1>1, <2>2 DEF Yields
<1>2. CASE s # None
  <2>1. Replay(s, j).rec \in Record
    BY <1>2 DEF Yields, States
  <2>2. AtLeast(Replay(s, j).rec, b)
    BY <1>2, <2>1, AtLeastTrans DEF Yields
  <2> QED BY <1>2, <2>2 DEF Yields
<1> QED BY <1>1, <1>2

\* No lines above it: the snapshot itself is found.
LEMMA YieldsSnapshot ==
  ASSUME NEW s \in States, NEW j \in Logs, Newer(s, j.entries) = {},
         NEW W, s \in W, NEW a \in Record, AtLeast(s.rec, a)
  PROVE  Yields(s, j, a, W) /\ Replay(s, j) = s /\ Gapless(s, j.entries)
PROOF BY ReplayNothing, NoneIsNothing DEF Yields, Readable

LEMMA EmptyLog ==
  /\ Empty \in Logs /\ Empty # None /\ Sorted(Empty.entries) /\ ~HasLines(Empty)
  /\ Empty.entries = <<>> /\ Len(Empty.entries) = 0 /\ \A s : Newer(s, Empty.entries) = {}
<1>1. /\ Empty \in Logs /\ Empty.entries = <<>>
      /\ DOMAIN Empty.entries = {} /\ Len(Empty.entries) = 0
  BY DEF Empty, Logs
<1> QED BY <1>1, NoneIsNothing DEF Sorted, HasLines, Newer

\* The types of what is on disk.
LEMMA FileTypes ==
  ASSUME JournalInv
  PROVE  /\ \A s \in snapLag : s # None => s \in States
         /\ \A j \in logLag : j # None => j \in Logs /\ Sorted(j.entries)
         /\ snap # None => snap \in States
         /\ log # None => log \in Logs /\ Sorted(log.entries)
         /\ OnFiles \in States \cup {None} /\ (OnFiles # None => OnFiles \in written)
         /\ Current \in States \cup {None} /\ (Current # None => Current.rec \in Record)
<1>1. OnFiles # None => OnFiles \in written
  BY DEF JournalInv, Recoverable, Yields, OnFiles
<1>2. written \subseteq States /\ prev \in States \cup {None}
  BY DEF JournalInv, Typed, TypeOK
<1>3. Current \in States \cup {None}
  BY <1>1, <1>2 DEF Current
<1> QED BY <1>1, <1>2, <1>3 DEF JournalInv, Typed, TypeOK, Bounded, States

\* The committed lines.
LEMMA CommittedLines ==
  ASSUME JournalInv, pc \in Prepared
  PROVE  /\ CommittedLog \in Logs /\ Sorted(Committed)
         /\ Torn \in Logs
         /\ CommittedLog.entries = Committed /\ Torn.entries = Committed
         /\ Len(Committed) = bytes /\ bytes \in Nat
         /\ Len(log.entries) = bytes => Committed = log.entries
<1>1. log \in Logs /\ Sorted(log.entries)
  BY FileTypes DEF JournalInv, Typed, Prepared
<1>2. bytes \in Nat /\ bytes <= Len(log.entries)
  BY DEF JournalInv, Typed, TypeOK, Prepared, Compaction
<1>3. log.entries \in Seq(Lines) /\ Len(log.entries) \in Nat
  BY <1>1, LogParts
<1>4. /\ Committed \in Seq(Lines) /\ Len(Committed) = bytes
      /\ \A i \in 1..bytes : Committed[i] = log.entries[i]
  BY <1>2, <1>3 DEF Committed
<1>5. Sorted(Committed)
  BY <1>1, <1>2, <1>3, <1>4 DEF Sorted
<1>6. /\ CommittedLog \in Logs /\ Torn \in Logs
      /\ CommittedLog.entries = Committed /\ Torn.entries = Committed
  <2>1. CommittedLog \in Logs /\ Torn \in Logs
    BY <1>4 DEF CommittedLog, Torn, Logs
  <2>4. CommittedLog.entries = Committed /\ Torn.entries = Committed
    BY DEF CommittedLog, Torn
  <2> QED BY <2>1, <2>4
<1>7. Len(log.entries) = bytes => Committed = log.entries
  BY <1>2, <1>3, <1>4
<1> QED BY <1>2, <1>4, <1>5, <1>6, <1>7

\* Each snapshot that the disk may hold yields, with the committed lines, the writer's
\* last state.
LEMMA CommittedYields ==
  ASSUME JournalInv, pc \in Prepared, prev # None
  PROVE  /\ prev \in States /\ prev.rec \in Record /\ snap \in States /\ snap \in snapLag
         /\ \A s \in snapLag :
              /\ s \in States /\ s.seq <= prev.seq /\ Gapless(s, Committed)
              /\ Replay(s, CommittedLog) = prev /\ Replay(s, Torn) = prev
              /\ Yields(s, CommittedLog, prev.rec, written) /\ Yields(s, Torn, prev.rec, written)
         /\ \A i \in DOMAIN Committed : Committed[i].seq <= prev.seq
<1>1. prev \in States /\ prev.rec \in Record /\ prev \in written
  BY DEF JournalInv, Typed, TypeOK, States, Viewed
<1>2. snap \in snapLag /\ snap # None /\ \A s \in snapLag : s \in States
  BY FileTypes DEF JournalInv, Typed, TypeOK, Viewed
<1>3. /\ CommittedLog \in Logs /\ Sorted(Committed) /\ Torn \in Logs
      /\ CommittedLog.entries = Committed /\ Torn.entries = Committed
  BY CommittedLines
<1>4. ASSUME NEW s \in snapLag
      PROVE  /\ s \in States /\ s.seq <= prev.seq /\ Gapless(s, Committed)
             /\ Replay(s, CommittedLog) = prev /\ Replay(s, Torn) = prev
             /\ Yields(s, CommittedLog, prev.rec, written) /\ Yields(s, Torn, prev.rec, written)
             /\ \A i \in DOMAIN Committed : Committed[i].seq <= prev.seq
  <2>1. s \in States /\ Gapless(s, Committed) /\ Replay(s, CommittedLog) = prev
    BY <1>2 DEF JournalInv, Viewed
  <2>2. Replay(s, Torn) = prev
    BY <1>3, <2>1, OnlyLinesCount
  <2>3. s.seq <= prev.seq /\ \A i \in DOMAIN Committed : Committed[i].seq <= prev.seq
    BY <1>3, <2>1, ReplayIsLast
  <2>4. Yields(s, CommittedLog, prev.rec, written) /\ Yields(s, Torn, prev.rec, written)
    BY <1>1, <1>3, <2>1, <2>2, NoneIsNothing, AtLeastSelf DEF Yields, Readable
  <2> QED BY <2>1, <2>2, <2>3, <2>4
<1> QED BY <1>1, <1>2, <1>4

\* One more line than is committed, or none: an owner finds the writer's last state or
\* the next one.
LEMMA FoundIsNear ==
  ASSUME JournalInv, pc \in Prepared, prev # None
  PROVE  OnFiles \in States /\ OnFiles # None /\ prev.seq <= OnFiles.seq
<1>1. snap \in States /\ prev \in States /\ snap # None
  BY CommittedYields, NoneIsNothing
<1>2. OnFiles = Replay(snap, log) /\ log \in Logs /\ Sorted(log.entries)
  BY <1>1, FileTypes DEF OnFiles, JournalInv, Typed, Prepared
<1>3. Replay(snap, CommittedLog) = prev /\ CommittedLog.entries = Committed
  BY CommittedYields, CommittedLines
<1>4. CASE Len(log.entries) = bytes
  <2>1. OnFiles = prev
    BY <1>2, <1>3, <1>4, OnlyLinesCount, CommittedLines
  <2> QED BY <1>1, <2>1, NoneIsNothing DEF States
<1>5. CASE Len(log.entries) = bytes + 1 /\ log.entries[bytes + 1].seq = prev.seq + 1
  <2>1. bytes + 1 \in DOMAIN log.entries
    BY <1>2, <1>5, LogParts, CommittedLines
  <2>2. OnFiles \in States /\ prev.seq + 1 <= OnFiles.seq
    BY <1>1, <1>2, <1>5, <2>1, ReplayIsLast
  <2> QED BY <1>1, <2>2, NoneIsNothing DEF States
<1> QED BY <1>4, <1>5 DEF JournalInv, Viewed

\* The next line, behind the committed ones.
LEMMA NextLine ==
  ASSUME JournalInv, pc \in {"write", "sync"}, NEW k \in Logs,
         k.entries = Append(Committed, Entry(prev, flight.rec))
  PROVE  LET next == [seq |-> prev.seq + 1, rec |-> flight.rec]
         IN  /\ next \in States /\ next \in written /\ Sorted(k.entries)
             /\ Len(k.entries) = bytes + 1 /\ k.entries[bytes + 1].seq = prev.seq + 1
             /\ k.entries[bytes + 1] = Entry(prev, flight.rec)
             /\ SubSeq(k.entries, 1, bytes) = Committed
             /\ SubSeq(k.entries, 1, bytes + 1) = k.entries
             /\ \A i \in DOMAIN k.entries : k.entries[i].seq <= prev.seq + 1
             /\ \A s \in snapLag : /\ Gapless(s, k.entries) /\ Replay(s, k) = next
                                   /\ Yields(s, k, flight.rec, written)
<1> DEFINE next == [seq |-> prev.seq + 1, rec |-> flight.rec]
           e == Entry(prev, flight.rec)
<1>1. pc \in Prepared /\ prev # None /\ flight.rec \in Record /\ next \in written
  BY DEF JournalInv, Typed, Writing, Prepared, Calls
<1>2. prev \in States /\ snap \in snapLag /\ snap \in States
  BY <1>1, CommittedYields
<1>3. next \in States
  BY <1>1 DEF JournalInv, Typed, TypeOK
<1>4. /\ CommittedLog \in Logs /\ CommittedLog.entries = Committed /\ Sorted(Committed)
      /\ Committed \in Seq(Lines) /\ Len(Committed) = bytes /\ bytes \in Nat
  BY <1>1, CommittedLines, LogParts
<1>5. ASSUME NEW s \in snapLag
      PROVE  /\ Sorted(k.entries) /\ Gapless(s, k.entries) /\ Replay(s, k) = next
             /\ Yields(s, k, flight.rec, written)
  <2>1. s \in States /\ Gapless(s, Committed) /\ Replay(s, CommittedLog) = prev
    BY <1>1, CommittedYields
  <2>2. Sorted(k.entries) /\ Gapless(s, k.entries) /\ Replay(s, k) = next
    <3>1. /\ Sorted(CommittedLog.entries) /\ Gapless(s, CommittedLog.entries)
          /\ prev = Replay(s, CommittedLog)
          /\ k.entries = Append(CommittedLog.entries, Entry(prev, flight.rec))
      BY <1>4, <2>1
    <3>2. s \in States /\ CommittedLog \in Logs /\ flight.rec \in Record /\ prev \in States
      BY <1>1, <1>2, <1>4, <2>1
    <3> HIDE DEF next
    <3>3. Sorted(k.entries)
      BY <3>1, <3>2, ReplayOneMore
    <3>4. Gapless(s, k.entries)
      BY <3>1, <3>2, ReplayOneMore
    <3>5. Replay(s, k) = [seq |-> prev.seq + 1, rec |-> flight.rec]
      BY <3>1, <3>2, ReplayOneMore
    <3> QED BY <3>3, <3>4, <3>5 DEF next
  <2>3. AtLeast(next.rec, flight.rec)
    BY <1>1, AtLeastSelf
  <2> QED BY <1>1, <2>1, <2>2, <2>3, NoneIsNothing DEF Yields, Readable
<1>6. e \in Lines /\ e.seq = prev.seq + 1
  BY <1>1, <1>2, EntryIsLine
<1> HIDE DEF e, next
<1>7. /\ Len(k.entries) = bytes + 1 /\ k.entries[bytes + 1] = e
      /\ DOMAIN k.entries = 1..(bytes + 1)
      /\ \A i \in 1..bytes : k.entries[i] = Committed[i]
      /\ SubSeq(k.entries, 1, bytes) = Committed /\ SubSeq(k.entries, 1, bytes + 1) = k.entries
  <2>1. k.entries = Append(Committed, e)
    BY DEF e
  <2> HIDE DEF Committed
  <2> QED BY <1>4, <1>6, <2>1
<1>8. \A i \in DOMAIN k.entries : k.entries[i].seq <= prev.seq + 1
  <2>1. \A i \in 1..bytes : Committed[i].seq <= prev.seq /\ Committed[i].seq \in Nat
    BY <1>1, <1>4, CommittedYields, LogParts
  <2>2. prev.seq \in Nat
    BY <1>2 DEF States
  <2> QED BY <1>4, <1>6, <1>7, <2>1, <2>2
<1> QED BY <1>1, <1>2, <1>3, <1>5, <1>6, <1>7, <1>8 DEF e, next

\* While the snapshot is replaced, no line is above its successor.
LEMMA SuccessorYields ==
  ASSUME JournalInv, pc \in Compaction
  PROVE  /\ Compacted \in States /\ Compacted \in written /\ Compacted.rec \in Record
         /\ Compacted # None /\ AtLeast(Compacted.rec, kept) /\ AtLeast(Compacted.rec, flushed)
         /\ \A j \in logLag :
              /\ j \in Logs /\ j # None /\ Newer(Compacted, j.entries) = {}
              /\ Yields(Compacted, j, Compacted.rec, written)
              /\ Replay(Compacted, j) = Compacted
<1>1. Compacted \in written /\ Compacted \in States /\ Compacted # None
  BY NoneIsNothing DEF JournalInv, Writing, Typed, TypeOK
<1>2. Compacted.rec \in Record /\ Compacted.seq \in Nat
  BY <1>1 DEF States
<1>3. pc \in Prepared /\ pc \in Calls /\ Current = prev
  BY DEF Prepared, Calls, Current
<1>4. AtLeast(Compacted.rec, kept)
  BY <1>3 DEF JournalInv, Viewed, Growing, Compacted
<1>5. AtLeast(Compacted.rec, flushed)
  BY <1>2, <1>4, AtLeastTrans DEF JournalInv, Recoverable, Typed, TypeOK
<1>6. ASSUME NEW j \in logLag
      PROVE  /\ j \in Logs /\ j # None /\ Newer(Compacted, j.entries) = {}
             /\ Yields(Compacted, j, Compacted.rec, written)
             /\ Replay(Compacted, j) = Compacted
  <2>1. j \in Logs /\ j # None
    BY <1>3, FileTypes DEF JournalInv, Typed
  <2>2. Newer(Compacted, j.entries) = {}
    <3>1. CASE prev = None
      <4>1. j.entries = <<>>
        BY <1>3, <2>1, <3>1 DEF JournalInv, Bounded, HasLines
      <4> QED BY <4>1 DEF Newer
    <3>2. CASE prev # None
      <4>1. \A i \in DOMAIN j.entries : j.entries[i].seq <= Compacted.seq
        BY <2>1, <3>2 DEF JournalInv, Bounded, UpTo, Compacted
      <4>2. \A i \in DOMAIN j.entries : j.entries[i].seq \in Nat
        BY <2>1, LogParts
      <4> QED BY <1>2, <4>1, <4>2 DEF Newer
    <3> QED BY <3>1, <3>2
  <2> QED BY <1>1, <1>2, <2>1, <2>2, YieldsSnapshot, AtLeastSelf
<1> QED BY <1>1, <1>2, <1>4, <1>5, <1>6

-----------------------------------------------------------------------------
(* The steps.                                                              *)

\* What changes neither the files nor the writer's last state.
Elsewhere ==
  \/ Open \/ StartBatch \/ Close \/ AppendInitial \/ AppendNothing \/ UNCHANGED vars
  \/ \E f \in Fields, durable \in BOOLEAN : Save(f, durable)
  \/ \E error \in Errors : Fail(error)
  \/ \E r \in Readers : ReadSnapshot(r) \/ ReadJournal(r) \/ ReadAgain(r)

LEMMA ElsewhereKeeps ==
  ASSUME JournalInv, Elsewhere
  PROVE  UNCHANGED <<snap, snapLag, log, logLag>> /\ Current' = Current
<1> USE DEF Current, OnFiles, Prepared, Preparing, Compaction
<1>1. UNCHANGED <<snap, snapLag, log, logLag>>
  BY DEF Elsewhere, Open, StartBatch, Close, AppendInitial, AppendNothing, Save, Fail,
         ReadSnapshot, ReadJournal, ReadAgain, vars, files
<1>2. CASE Open
  BY <1>1, <1>2 DEF Open
<1>3. CASE StartBatch
  BY <1>1, <1>3 DEF StartBatch, Idle
<1>4. CASE AppendInitial \/ AppendNothing
  BY <1>1, <1>4 DEF AppendInitial, AppendNothing, Settle
<1>5. CASE \E error \in Errors : Fail(error)
  <2>1. pc \in Preparing => prev = OnFiles
    BY DEF JournalInv, Viewed
  <2> QED BY <1>1, <1>5, <2>1 DEF Fail, Calls
<1>6. CASE \/ Close \/ UNCHANGED vars
           \/ \E f \in Fields, durable \in BOOLEAN : Save(f, durable)
           \/ \E r \in Readers : ReadSnapshot(r) \/ ReadJournal(r) \/ ReadAgain(r)
  BY <1>1, <1>6 DEF Close, Save, ReadSnapshot, ReadJournal, ReadAgain, vars, memory
<1> QED BY <1>2, <1>3, <1>4, <1>5, <1>6 DEF Elsewhere

\* Preparing changes no line.
LEMMA PrepareKeeps ==
  ASSUME JournalInv, Prepare \/ RepairSync \/ DirSync
  PROVE  /\ UNCHANGED <<snap, kept, flushed, written, live, clock, flight, pending, closed>>
         /\ Current' = Current /\ OnFiles' = OnFiles
         /\ pc' \in {"repairSync", "dirSync", "append"} /\ prev' = OnFiles
         /\ snapLag' \subseteq snapLag /\ snap \in snapLag'
         /\ log' \in Logs /\ log' # None /\ Sorted(log'.entries) /\ log' \in logLag'
         /\ log # None => log'.entries = log.entries
         /\ log = None => snap = None /\ log'.entries = <<>>
         /\ logLag' \subseteq logLag \cup {log'}
<1>1. /\ UNCHANGED <<snap, kept, flushed, written, live, clock, flight, pending, closed>>
      /\ pc' \in {"repairSync", "dirSync", "append"}
  BY DEF Prepare, RepairSync, DirSync, history, bounds
<1>2. snap \in snapLag /\ log \in logLag
  BY DEF JournalInv, Typed, TypeOK
<1>3. /\ log' \in Logs /\ log' # None /\ Sorted(log'.entries)
      /\ log # None => log'.entries = log.entries
      /\ log = None => snap = None /\ log'.entries = <<>>
  <2>1. CASE Prepare /\ log = None
    <3>1. log' = Empty
      BY <2>1 DEF Prepare, SetLog
    <3>2. snap = None
      BY <2>1, NoneIsNothing DEF JournalInv, Recoverable, Yields, Readable
    <3> QED BY <2>1, <3>1, <3>2, EmptyLog
  <2>2. CASE log # None /\ ~Prepare
    <3>1. log' = log
      BY <2>2 DEF RepairSync, DirSync
    <3> QED BY <2>2, <3>1, FileTypes
  <2>3. CASE Prepare /\ log # None
    <3>1. log \in Logs /\ Sorted(log.entries)
      BY <2>3, FileTypes
    <3>2. log' = log \/ log' = [log EXCEPT !.torn = FALSE]
      BY <2>3 DEF Prepare, SetLog
    <3>3. log' \in Logs /\ log'.entries = log.entries
      BY <3>1, <3>2 DEF Logs
    <3> QED BY <2>3, <3>1, <3>3, NoneIsNothing
  <2>4. ~Prepare => log # None
    BY DEF JournalInv, Typed, Preparing, RepairSync, DirSync
  <2> QED BY <2>1, <2>2, <2>3, <2>4
<1>4. OnFiles' = OnFiles
  <2>1. CASE snap = None
    BY <1>1, <2>1 DEF OnFiles
  <2>2. CASE snap # None
    <3>1. log # None /\ log'.entries = log.entries
      BY <1>3, <2>2
    <3>2. Replay(snap, log') = Replay(snap, log)
      BY <3>1, OnlyLinesCount
    <3> QED BY <1>1, <2>2, <3>2 DEF OnFiles
  <2> QED BY <2>1, <2>2
<1>5. prev' = OnFiles
  <2>1. CASE Prepare
    BY <2>1 DEF Prepare, OnFiles
  <2>2. CASE RepairSync \/ DirSync
    BY <2>2 DEF RepairSync, DirSync, JournalInv, Viewed, Preparing
  <2> QED BY <2>1, <2>2
<1>6. Current = OnFiles
  BY DEF Current, JournalInv, Viewed, Preparing, Prepared, Compaction, Prepare, RepairSync,
         DirSync
<1>7. Current' = prev'
  BY <1>1 DEF Current, Preparing, Prepared
<1>8. /\ snapLag' \subseteq snapLag /\ snap \in snapLag'
      /\ log' \in logLag' /\ logLag' \subseteq logLag \cup {log'}
  <2>1. CASE Prepare
    <3>1. snapLag' = snapLag
      BY <2>1 DEF Prepare
    <3>2. \/ logLag' = logLag \cup {log'}
          \/ log' = log /\ logLag' = logLag
      BY <2>1 DEF Prepare, SetLog
    <3> QED BY <1>2, <3>1, <3>2
  <2>2. CASE RepairSync
    BY <1>2, <2>2 DEF RepairSync
  <2>3. CASE DirSync
    BY <1>2, <1>3, <2>3 DEF DirSync
  <2> QED BY <2>1, <2>2, <2>3
<1> QED BY <1>1, <1>3, <1>4, <1>5, <1>6, <1>7, <1>8

\* A killed or released writer leaves what an owner will find: its last state or more.
LEMMA LeavesFound ==
  ASSUME JournalInv, Crash \/ Release
  PROVE  /\ UNCHANGED <<snap, snapLag, log, logLag, kept, flushed, written, live, clock>>
         /\ pc' = "down" /\ Current' = OnFiles
         /\ Current # None => OnFiles # None /\ Current.seq <= OnFiles.seq
<1>1. /\ UNCHANGED <<snap, snapLag, log, logLag, kept, flushed, written, live, clock>>
      /\ pc' = "down"
  BY DEF Crash, Release, files, history, bounds
<1>2. Current' = OnFiles
  BY <1>1 DEF Current, OnFiles, Prepared, Preparing, Compaction
<1>3. Current # None => OnFiles # None /\ Current.seq <= OnFiles.seq
  <2>1. CASE pc \in Prepared
    BY <2>1, FoundIsNear DEF Current
  <2>2. CASE pc \notin Prepared
    <3>1. Current = OnFiles
      BY <2>2 DEF Current, JournalInv, Viewed
    <3> QED BY <3>1, FileTypes, NoneIsNothing DEF States
  <2> QED BY <2>1, <2>2
<1> QED BY <1>1, <1>2, <1>3

\* What an append or a compaction leaves alone.
LEMMA WriteKeeps ==
  ASSUME JournalInv, \/ AppendTruncate \/ AppendWrite \/ AppendSync
                     \/ CompactRename \/ CompactSync \/ CompactTruncate \/ CompactDone
  PROVE  /\ pc \in Prepared /\ pc \in Calls /\ Current = prev
         /\ pc' \in Prepared /\ Current' = prev'
         /\ flight.rec \in Record /\ flight.durable \in BOOLEAN /\ prev \in States \cup {None}
         /\ log # None /\ log \in Logs /\ log \in logLag /\ None \notin logLag
         /\ UNCHANGED <<live, clock, pending, closed>>
<1>1. pc \in Prepared /\ pc \in Calls
  BY DEF AppendTruncate, AppendWrite, AppendSync, CompactRename, CompactSync, CompactTruncate,
         CompactDone, Prepared, Compaction, Calls
<1>2. pc' \in Prepared /\ UNCHANGED <<live, clock, pending, closed>>
  BY DEF AppendTruncate, AppendWrite, AppendSync, CompactRename, CompactSync, CompactTruncate,
         CompactDone, Prepared, Compaction, Commit, Settle, bounds
<1> QED BY <1>1, <1>2, FileTypes DEF Current, JournalInv, Typed, TypeOK

\* What is written next, and what is flushed: the committed lines and one more.
LEMMA NextLog ==
  ASSUME JournalInv, pc = "write"
  PROVE  LET k == [entries |-> Append(log.entries, Entry(prev, flight.rec)), torn |-> FALSE]
         IN  k \in Logs /\ k.entries = Append(Committed, Entry(prev, flight.rec))
<1>1. pc \in Prepared /\ prev # None /\ flight.rec \in Record /\ log.entries = Committed
  BY CommittedLines DEF JournalInv, Typed, Prepared, Calls, Writing
<1>2. prev \in States
  BY <1>1, CommittedYields
<1>3. Entry(prev, flight.rec) \in Lines
  BY <1>1, <1>2, EntryIsLine
<1>4. Committed \in Seq(Lines)
  BY <1>1, CommittedLines, LogParts
<1>5. Append(Committed, Entry(prev, flight.rec)) \in Seq(Lines)
  BY <1>3, <1>4
<1> QED BY <1>1, <1>5 DEF Logs

LEMMA SyncedLog ==
  ASSUME JournalInv, pc = "sync"
  PROVE  log \in Logs /\ log.entries = Append(Committed, Entry(prev, flight.rec))
<1>1. /\ pc \in Prepared /\ log \in Logs /\ Len(log.entries) = bytes + 1 /\ bytes \in Nat
      /\ log.entries[bytes + 1] = Entry(prev, flight.rec)
  BY CommittedLines, FileTypes DEF JournalInv, Typed, Prepared, Writing
<1>2. log.entries \in Seq(Lines)
  BY <1>1, LogParts
<1> DEFINE E == log.entries
           e == Entry(prev, flight.rec)
<1>3. E \in Seq(Lines) /\ Len(E) = bytes + 1 /\ E[bytes + 1] = e
  BY <1>1, <1>2
<1>4. Committed = SubSeq(E, 1, bytes)
  BY DEF Committed
<1> HIDE DEF E, e
<1>5. E = Append(SubSeq(E, 1, bytes), e)
  BY <1>1, <1>3
<1> QED BY <1>1, <1>4, <1>5 DEF E, e

\* What a kill or a loss of power may leave stays recoverable.
LEMMA RecoverableStep ==
  ASSUME JournalInv, [Next]_vars
  PROVE  Recoverable'
PROOF
<1> USE DEF JournalInv, Recoverable
<1>a. /\ kept \in Record /\ flushed \in Record /\ written \subseteq States
      /\ snap \in States \cup {None} /\ snapLag \subseteq States \cup {None}
      /\ log \in Logs \cup {None} /\ logLag \subseteq Logs \cup {None}
      /\ snap \in snapLag /\ log \in logLag
      /\ AtLeast(kept, kept) /\ AtLeast(flushed, flushed)
  BY AtLeastSelf DEF Typed, TypeOK
<1>1. ASSUME Open PROVE Recoverable'
  BY <1>1, <1>a DEF Open, files, history
<1>2. ASSUME NEW f \in Fields, NEW durable \in BOOLEAN, Save(f, durable) PROVE Recoverable'
  BY <1>2, <1>a DEF Save, files, history
<1>3. ASSUME StartBatch PROVE Recoverable'
  BY <1>3, <1>a DEF StartBatch, files, history
<1>4. ASSUME Close PROVE Recoverable'
  BY <1>4, <1>a DEF Close, files, history
<1>5. ASSUME Release PROVE Recoverable'
  BY <1>5, LeavesFound
<1>6. ASSUME Prepare PROVE Recoverable'
  <2>1. \A j \in logLag' : j = log' \/ j \in logLag
    BY <1>6, PrepareKeeps
  <2>2. ASSUME NEW s \in snapLag', NEW a \in Record, Yields(s, log, a, written)
        PROVE  Yields(s, log', a, written)
    <3>1. log = None => s = None
      BY <1>6, <2>2, PrepareKeeps DEF Yields, Readable
    <3>2. s \in States \cup {None} /\ AtLeast(a, a)
      BY <1>6, <1>a, PrepareKeeps, AtLeastSelf
    <3> QED BY <1>6, <1>a, <2>2, <3>1, <3>2, PrepareKeeps, YieldsStill
  <2>3. \A s \in snapLag', j \in logLag' : Yields(s, j, flushed, written)
    BY <1>6, <1>a, <2>1, <2>2, PrepareKeeps
  <2>4. Yields(snap, log', kept, written)
    BY <1>6, <1>a, <2>2, PrepareKeeps
  <2> QED BY <1>6, <2>3, <2>4, PrepareKeeps
<1>7. ASSUME RepairSync PROVE Recoverable'
  <2>1. \A j \in logLag' : j = log' \/ j \in logLag
    BY <1>7, PrepareKeeps
  <2>2. ASSUME NEW s \in snapLag', NEW a \in Record, Yields(s, log, a, written)
        PROVE  Yields(s, log', a, written)
    <3>1. log = None => s = None
      BY <1>7, <2>2, PrepareKeeps DEF Yields, Readable
    <3>2. s \in States \cup {None} /\ AtLeast(a, a)
      BY <1>7, <1>a, PrepareKeeps, AtLeastSelf
    <3> QED BY <1>7, <1>a, <2>2, <3>1, <3>2, PrepareKeeps, YieldsStill
  <2>3. \A s \in snapLag', j \in logLag' : Yields(s, j, flushed, written)
    BY <1>7, <1>a, <2>1, <2>2, PrepareKeeps
  <2>4. Yields(snap, log', kept, written)
    BY <1>7, <1>a, <2>2, PrepareKeeps
  <2> QED BY <1>7, <2>3, <2>4, PrepareKeeps
<1>8. ASSUME DirSync PROVE Recoverable'
  <2>1. \A j \in logLag' : j = log' \/ j \in logLag
    BY <1>8, PrepareKeeps
  <2>2. ASSUME NEW s \in snapLag', NEW a \in Record, Yields(s, log, a, written)
        PROVE  Yields(s, log', a, written)
    <3>1. log = None => s = None
      BY <1>8, <2>2, PrepareKeeps DEF Yields, Readable
    <3>2. s \in States \cup {None} /\ AtLeast(a, a)
      BY <1>8, <1>a, PrepareKeeps, AtLeastSelf
    <3> QED BY <1>8, <1>a, <2>2, <3>1, <3>2, PrepareKeeps, YieldsStill
  <2>3. \A s \in snapLag', j \in logLag' : Yields(s, j, flushed, written)
    BY <1>8, <1>a, <2>1, <2>2, PrepareKeeps
  <2>4. Yields(snap, log', kept, written)
    BY <1>8, <1>a, <2>2, PrepareKeeps
  <2> QED BY <1>8, <2>3, <2>4, PrepareKeeps
<1>9. ASSUME AppendInitial PROVE Recoverable'
  <2>1. UNCHANGED <<files, kept, flushed>> /\ written \subseteq written'
    BY <1>9 DEF AppendInitial
  <2>2. flight.rec \in Record
    BY <1>9 DEF AppendInitial, Typed, Calls
  <2>3. written' \subseteq States
    BY <1>9, <1>a, <2>2 DEF AppendInitial, States
  <2> QED BY <1>a, <2>1, <2>3, YieldsLess DEF files
<1>10. ASSUME AppendNothing PROVE Recoverable'
  <2>1. /\ UNCHANGED <<files, written>> /\ kept' = prev.rec
        /\ flushed' = IF flight.durable THEN prev.rec ELSE flushed
    BY <1>10 DEF AppendNothing, Settle
  <2>2. pc = "append" /\ pc \in Prepared /\ pc \in Calls /\ prev # None /\ flight.rec \in Record
    BY <1>10 DEF AppendNothing, Prepared, Calls, Typed
  <2>3. prev.rec \in Record /\ prev.rec = flight.rec
    BY <1>10, <2>2, CommittedYields, Unchanged DEF AppendNothing
  <2>4. Len(log.entries) = bytes
    BY <2>2, <2>3 DEF Fresh
  <2>5. AtLeast(prev.rec, kept) /\ AtLeast(prev.rec, flushed) /\ AtLeast(prev.rec, prev.rec)
    BY <1>a, <2>2, <2>3, AtLeastTrans, AtLeastSelf DEF Viewed
  <2>6. Yields(snap, log, prev.rec, written)
    <3>1. /\ CommittedLog \in Logs /\ CommittedLog.entries = log.entries /\ log \in Logs
          /\ CommittedLog # None
      BY <1>a, <2>2, <2>4, CommittedLines, NoneIsNothing DEF Typed
    <3>2. Yields(snap, CommittedLog, prev.rec, written) /\ snap \in States
      BY <2>2, CommittedYields
    <3> QED BY <1>a, <2>3, <2>5, <3>1, <3>2, YieldsStill
  <2>7. CASE flight.durable
    <3>1. ASSUME NEW s \in snapLag, NEW j \in logLag PROVE Yields(s, j, prev.rec, written)
      <4>1. s # None /\ Yields(s, j, flushed, written) /\ AtLeast(Replay(s, j).rec, prev.rec)
        BY <2>2, <2>3, <2>7 DEF Fresh, Viewed
      <4> QED BY <4>1 DEF Yields
    <3> QED BY <2>1, <2>5, <2>6, <2>7, <3>1 DEF files
  <2>8. CASE ~flight.durable
    BY <2>1, <2>5, <2>6, <2>8 DEF files
  <2> QED BY <2>7, <2>8
<1>11. ASSUME AppendTruncate PROVE Recoverable'
  <2>1. /\ log' = Torn /\ logLag' = logLag \cup {CommittedLog, Torn}
        /\ UNCHANGED <<snap, snapLag, kept, flushed>> /\ written \subseteq written'
        /\ pc = "append" /\ prev # None
    BY <1>11 DEF AppendTruncate, CommittedLog
  <2>2. pc \in Prepared /\ flight.rec \in Record
    BY <1>11, WriteKeeps
  <2>3. prev \in States /\ prev.rec \in Record /\ snap \in snapLag /\ snap \in States
    BY <2>1, <2>2, CommittedYields
  <2>4. written' \subseteq States
    BY <1>11, <1>a, <2>2, <2>3 DEF AppendTruncate, States
  <2>5. AtLeast(prev.rec, kept) /\ AtLeast(prev.rec, flushed)
    BY <1>a, <2>1, <2>2, <2>3, AtLeastTrans DEF Viewed
  <2>6. CommittedLog \in Logs /\ Torn \in Logs
    BY <2>2, CommittedLines
  <2>7. ASSUME NEW s \in snapLag
        PROVE  /\ Yields(s, CommittedLog, flushed, written') /\ Yields(s, Torn, flushed, written')
               /\ Yields(s, Torn, kept, written')
    <3>1. /\ Yields(s, CommittedLog, prev.rec, written) /\ Yields(s, Torn, prev.rec, written)
          /\ s \in States
      BY <2>1, <2>2, CommittedYields
    <3> QED BY <1>a, <2>1, <2>3, <2>4, <2>5, <2>6, <3>1, YieldsLess
  <2>8. \A s \in snapLag, j \in logLag : Yields(s, j, flushed, written')
    BY <1>a, <2>1, <2>4, YieldsLess
  <2> QED BY <1>a, <2>1, <2>3, <2>7, <2>8, NoneIsNothing
<1>12. ASSUME AppendWrite PROVE Recoverable'
  <2>1. /\ log'.entries = Append(log.entries, Entry(prev, flight.rec))
        /\ log' = [entries |-> Append(log.entries, Entry(prev, flight.rec)), torn |-> FALSE]
        /\ logLag' = logLag \cup {log'}
        /\ UNCHANGED <<snap, snapLag, written>> /\ pc = "write"
        /\ kept' \in {kept, flight.rec} /\ flushed' = flushed
    BY <1>12 DEF AppendWrite, SetLog, Commit, Settle
  <2>2. pc \in Prepared /\ pc \in Calls /\ flight.rec \in Record /\ prev # None
    BY <1>12, <2>1, WriteKeeps DEF Typed
  <2>3. /\ AtLeast(flight.rec, kept) /\ AtLeast(flight.rec, flushed)
        /\ AtLeast(flight.rec, flight.rec) /\ AtLeast(flight.rec, kept')
        /\ AtLeast(kept', flushed)
        /\ kept' \in Record
    BY <1>a, <2>1, <2>2, AtLeastTrans, AtLeastSelf DEF Growing
  <2>4. log' \in Logs /\ log'.entries = Append(Committed, Entry(prev, flight.rec))
    BY <1>12, <2>1, <2>2, NextLog DEF Writing
  <2>5. ASSUME NEW s \in snapLag
        PROVE  Yields(s, log', flushed, written) /\ Yields(s, log', kept', written)
    <3>1. Yields(s, log', flight.rec, written)
      BY <2>1, <2>4, NextLine
    <3> QED BY <1>a, <2>2, <2>3, <2>4, <3>1, YieldsLess
  <2> QED BY <1>a, <2>1, <2>3, <2>5
<1>13. ASSUME AppendSync PROVE Recoverable'
  <2>1. /\ logLag' = {log} /\ UNCHANGED <<snap, snapLag, log, written>> /\ pc = "sync"
        /\ kept' \in {kept, flight.rec} /\ flushed' \in {flushed, kept'}
    BY <1>13 DEF AppendSync, Commit, Settle
  <2>2. pc \in Prepared /\ pc \in Calls /\ flight.rec \in Record /\ prev # None
    BY <1>13, <2>1, WriteKeeps DEF Typed
  <2>3. /\ AtLeast(flight.rec, kept) /\ AtLeast(flight.rec, flushed)
        /\ AtLeast(flight.rec, flight.rec) /\ AtLeast(flight.rec, kept')
        /\ AtLeast(flight.rec, flushed') /\ AtLeast(kept', flushed')
        /\ kept' \in Record /\ flushed' \in Record
    BY <1>a, <2>1, <2>2, AtLeastTrans, AtLeastSelf DEF Growing
  <2>4. log \in Logs /\ log.entries = Append(Committed, Entry(prev, flight.rec))
    BY <2>1, SyncedLog
  <2>5. ASSUME NEW s \in snapLag
        PROVE  Yields(s, log, flushed', written) /\ Yields(s, log, kept', written)
    <3>1. Yields(s, log, flight.rec, written)
      BY <2>1, <2>4, NextLine
    <3> QED BY <1>a, <2>2, <2>3, <2>4, <3>1, YieldsLess
  <2> QED BY <1>a, <2>1, <2>3, <2>5
<1>14. ASSUME CompactRename PROVE Recoverable'
  <2>1. /\ snap' = Compacted /\ snapLag' = snapLag \cup {Compacted} /\ pc \in Compaction
        /\ UNCHANGED <<log, logLag, kept, flushed, written>>
    BY <1>14 DEF CompactRename, SetSnap, history, Compaction
  <2>2. ASSUME NEW j \in logLag
        PROVE  Yields(Compacted, j, flushed, written) /\ Yields(Compacted, j, kept, written)
    <3>1. /\ Yields(Compacted, j, Compacted.rec, written) /\ Compacted \in States
          /\ AtLeast(Compacted.rec, kept) /\ AtLeast(Compacted.rec, flushed)
          /\ Compacted.rec \in Record
      BY <2>1, SuccessorYields
    <3> QED BY <1>a, <3>1, YieldsLess
  <2>3. Compacted # None
    BY <2>1, SuccessorYields
  <2> QED BY <1>a, <2>1, <2>2, <2>3
<1>15. ASSUME CompactSync PROVE Recoverable'
  <2>1. /\ snapLag' = {snap} /\ logLag' \subseteq logLag
        /\ UNCHANGED <<snap, log, kept, flushed, written>>
    BY <1>15 DEF CompactSync, history
  <2> QED BY <1>a, <2>1
<1>16. ASSUME CompactTruncate PROVE Recoverable'
  <2>1. /\ log' = Empty /\ logLag' = logLag \cup {Empty} /\ pc \in Compaction
        /\ UNCHANGED <<snap, snapLag, kept, flushed, written>> /\ snap = Compacted
        /\ snapLag = {snap}
    BY <1>16 DEF CompactTruncate, SetLog, history, Compaction, Writing
  <2>2. /\ Compacted \in States /\ Compacted \in written /\ Compacted # None
        /\ AtLeast(Compacted.rec, kept) /\ AtLeast(Compacted.rec, flushed)
    BY <2>1, SuccessorYields
  <2>3. Empty \in Logs /\ Newer(Compacted, Empty.entries) = {}
    BY EmptyLog
  <2>4. Yields(Compacted, Empty, kept, written)
    BY <1>a, <2>2, <2>3, YieldsSnapshot
  <2>5. Yields(Compacted, Empty, flushed, written)
    BY <1>a, <2>2, <2>3, YieldsSnapshot
  <2> QED BY <1>a, <2>1, <2>2, <2>4, <2>5
<1>17. ASSUME CompactDone PROVE Recoverable'
  <2>1. /\ logLag' = {log} /\ pc \in Compaction
        /\ UNCHANGED <<snap, snapLag, log, written>> /\ snap = Compacted
        /\ snapLag = {snap} /\ kept' = Compacted.rec /\ flushed' \in {flushed, Compacted.rec}
    BY <1>17 DEF CompactDone, Settle, Compaction, Writing
  <2>2. /\ Compacted \in States /\ Compacted \in written /\ Compacted # None
        /\ AtLeast(Compacted.rec, kept) /\ AtLeast(Compacted.rec, flushed)
        /\ AtLeast(Compacted.rec, Compacted.rec) /\ Compacted.rec \in Record
        /\ Yields(Compacted, log, Compacted.rec, written)
    BY <1>a, <2>1, SuccessorYields, AtLeastSelf
  <2>3. Yields(Compacted, log, flushed', written)
    BY <1>a, <2>1, <2>2, YieldsLess
  <2> QED BY <1>a, <2>1, <2>2, <2>3
<1>18. ASSUME NEW error \in Errors, Fail(error) PROVE Recoverable'
  BY <1>18, <1>a DEF Fail, files, history
<1>19. ASSUME Crash PROVE Recoverable'
  BY <1>19, LeavesFound
<1>20. ASSUME PowerLoss PROVE Recoverable'
  BY <1>20, <1>a DEF PowerLoss
<1>21. ASSUME NEW r \in Readers, ReadSnapshot(r) \/ ReadJournal(r) \/ ReadAgain(r)
       PROVE  Recoverable'
  BY <1>21, <1>a DEF ReadSnapshot, ReadJournal, ReadAgain, files, history
<1>22. ASSUME UNCHANGED vars PROVE Recoverable'
  BY <1>22, <1>a DEF vars, files, history
<1> QED BY <1>1, <1>2, <1>3, <1>4, <1>5, <1>6, <1>7, <1>8, <1>9, <1>10, <1>11, <1>12,
          <1>13, <1>14, <1>15, <1>16, <1>17, <1>18, <1>19, <1>20, <1>21, <1>22 DEF Next, Write

\* The writer's memory and the files keep their types.
LEMMA TypedStep ==
  ASSUME JournalInv, [Next]_vars
  PROVE  Typed'
PROOF
<1> USE DEF Calls, Prepared, Preparing, Compaction
<1>a. Typed
  BY DEF JournalInv
<1>b. Zero \in Record
  BY JournalAssumption DEF Zero, Record
<1> USE DEF Typed, TypeOK
<1>1. ASSUME Open PROVE Typed'
  <2>1. snap # None => Replay(snap, log).rec \in Record
    BY <1>a DEF JournalInv, Recoverable, Yields, States
  <2>2. live' \in Record
    BY <1>1, <1>b, <2>1 DEF Open, Readable
  <2>3. log # None => 0 <= Len(log.entries)
    BY <1>a, LogParts
  <2>4. sessions' \in 0..MaxSessions
    BY <1>1, <1>a, JournalAssumption DEF Open
  <2>5. flight = None /\ pending = None /\ pc' = "unprepared" /\ bytes' = 0 /\ prev' = None
    BY <1>1, <1>a DEF Open
  <2>6. /\ UNCHANGED <<clock, pending, flight, snap, snapLag, log, logLag>>
        /\ UNCHANGED <<written, kept, flushed>>
        /\ UNCHANGED <<crashes, failures>> /\ closed' = FALSE
    BY <1>1 DEF Open, files, history
  <2> QED BY <1>a, <2>2, <2>3, <2>4, <2>5, <2>6
<1>2. ASSUME NEW f \in Fields, NEW durable \in BOOLEAN, Save(f, durable) PROVE Typed'
  <2>1. /\ clock' \in 0..MaxChanges /\ clock + 1 \in 0..MaxChanges
        /\ live' = [live EXCEPT ![f] = clock + 1]
    BY <1>2, <1>a, JournalAssumption DEF Save
  <2>2. live' \in Record
    BY <1>a, <2>1 DEF Record
  <2>3. pending' \in [durable : BOOLEAN]
    BY <1>2, <1>a, NoneIsNothing DEF Save
  <2> QED BY <1>2, <1>a, <2>1, <2>2, <2>3 DEF Save, files, history
<1>3. ASSUME StartBatch PROVE Typed'
  <2>1. flight' = [rec |-> live, durable |-> pending.durable, attempt |-> 0] /\ pending # None
    BY <1>3 DEF StartBatch
  <2>2. flight' \in [rec : Record, durable : BOOLEAN, attempt : 0..Retries]
    BY <1>a, <2>1 DEF Retries
  <2> QED BY <1>3, <1>a, <2>2 DEF StartBatch, Idle, files, history, bounds
<1>4. ASSUME Close PROVE Typed'
  BY <1>4, <1>a, <1>b DEF Close, files, history, bounds
<1>5. ASSUME Release PROVE Typed'
  BY <1>5, <1>a, <1>b DEF Release, Idle, files, history, bounds
<1>6. ASSUME Prepare PROVE Typed'
  <2>1. /\ log' \in Logs /\ log' # None /\ log' \in logLag' /\ logLag' \subseteq Logs \cup {None}
        /\ prev' \in States \cup {None}
    BY <1>6, <1>a, PrepareKeeps, FileTypes
  <2>2. pc = "prepare" /\ bytes' = 0 /\ bytes' <= Len(log'.entries) /\ pc' \in Preparing
    BY <1>6, <1>a, <2>1, LogParts DEF Prepare
  <2> QED BY <1>6, <1>a, <2>1, <2>2 DEF Prepare, history, bounds
<1>7. ASSUME RepairSync PROVE Typed'
  BY <1>7, <1>a, <1>b DEF RepairSync, files, history, bounds
<1>8. ASSUME DirSync PROVE Typed'
  <2>1. log # None /\ log \in Logs /\ Len(log.entries) \in Nat
    BY <1>8, <1>a, LogParts DEF DirSync
  <2> QED BY <1>8, <1>a, <2>1 DEF DirSync, history, bounds
<1>9. ASSUME AppendInitial PROVE Typed'
  <2>1. written' \subseteq States
    BY <1>9, <1>a DEF AppendInitial, States
  <2> QED BY <1>9, <1>a, <2>1 DEF AppendInitial, files, bounds
<1>10. ASSUME AppendNothing PROVE Typed'
  <2>1. kept' \in Record /\ flushed' \in Record
    BY <1>10, <1>a DEF AppendNothing, Settle, States
  <2> QED BY <1>10, <1>a, <2>1 DEF AppendNothing, Settle, files, bounds
<1>11. ASSUME AppendTruncate PROVE Typed'
  <2>1. /\ log' = Torn /\ logLag' = logLag \cup {CommittedLog, Torn}
        /\ written' = written \cup {[seq |-> prev.seq + 1, rec |-> flight.rec]}
        /\ prev # None
    BY <1>11 DEF AppendTruncate, CommittedLog
  <2>2. /\ CommittedLog \in Logs /\ Torn \in Logs /\ Len(Torn.entries) = bytes
        /\ CommittedLog # None /\ Torn # None
    BY <1>11, CommittedLines, NoneIsNothing DEF AppendTruncate
  <2>3. written' \subseteq States
    BY <1>11, <1>a, <2>1, WriteKeeps DEF States
  <2> QED BY <1>11, <1>a, <2>1, <2>2, <2>3 DEF AppendTruncate, bounds
<1>12. ASSUME AppendWrite PROVE Typed'
  <2>1. log' \in Logs /\ Len(log'.entries) = bytes + 1 /\ logLag' = logLag \cup {log'}
    BY <1>12, NextLog, NextLine DEF AppendWrite, SetLog
  <2>2. [seq |-> prev.seq + 1, rec |-> flight.rec] \in States /\ flight.rec \in Record
    BY <1>12, <1>a DEF AppendWrite, States
  <2> QED BY <1>12, <1>a, <2>1, <2>2, NoneIsNothing DEF AppendWrite, Commit, Settle, bounds
<1>13. ASSUME AppendSync PROVE Typed'
  <2>1. Len(log.entries) = bytes + 1
    BY <1>13 DEF AppendSync, JournalInv, Writing
  <2>2. [seq |-> prev.seq + 1, rec |-> flight.rec] \in States /\ flight.rec \in Record
    BY <1>13, <1>a DEF AppendSync, States
  <2> QED BY <1>13, <1>a, <2>1, <2>2 DEF AppendSync, Commit, Settle, bounds
<1>14. ASSUME CompactRename PROVE Typed'
  <2>1. Compacted \in States
    BY <1>14, SuccessorYields DEF CompactRename
  <2> QED BY <1>14, <1>a, <2>1 DEF CompactRename, SetSnap, history, bounds
<1>15. ASSUME CompactSync PROVE Typed'
  BY <1>15, <1>a, <1>b DEF CompactSync, files, history, bounds
<1>16. ASSUME CompactTruncate PROVE Typed'
  <2>1. Empty \in Logs /\ Empty # None /\ Len(Empty.entries) = 0
    BY EmptyLog
  <2> QED BY <1>16, <1>a, <2>1 DEF CompactTruncate, SetLog, history, bounds
<1>17. ASSUME CompactDone PROVE Typed'
  <2>1. Compacted \in States /\ Compacted.rec \in Record
    BY <1>17, SuccessorYields DEF CompactDone
  <2> HIDE DEF Record
  <2> QED BY <1>17, <1>a, <2>1 DEF CompactDone, Settle, bounds
<1>18. ASSUME NEW error \in Errors, Fail(error) PROVE Typed'
  <2>1. failures' \in 0..MaxFailures /\ pc \in Calls
    BY <1>18, <1>a, JournalAssumption DEF Fail
  <2>2. CASE error = "temporary" /\ flight.attempt < Retries
    <3>1. /\ flight' = [flight EXCEPT !.attempt = flight.attempt + 1]
          /\ pc' \in {"append", "prepare"}
      BY <1>18, <2>2 DEF Fail
    <3>2. flight' \in [rec : Record, durable : BOOLEAN, attempt : 0..Retries]
      BY <1>a, <2>1, <2>2, <3>1 DEF Retries
    <3> QED BY <1>18, <1>a, <2>1, <2>2, <3>1, <3>2 DEF Fail, files, history
  <2>3. CASE ~(error = "temporary" /\ flight.attempt < Retries)
    <3>1. flight' = None /\ pc' \in {"ready", "unprepared"}
      BY <1>18, <2>3 DEF Fail
    <3> QED BY <1>18, <1>a, <2>1, <2>3, <3>1 DEF Fail, files, history
  <2> QED BY <2>2, <2>3
<1>19. ASSUME Crash PROVE Typed'
  BY <1>19, <1>a, JournalAssumption DEF Crash, files, history
<1>20. ASSUME PowerLoss PROVE Typed'
  <2>1. crashes' \in 0..MaxCrashes
    BY <1>20, <1>a, JournalAssumption DEF PowerLoss
  <2> QED BY <1>20, <1>a, <2>1 DEF PowerLoss
<1>21. ASSUME NEW r \in Readers, ReadSnapshot(r) \/ ReadJournal(r) \/ ReadAgain(r)
       PROVE  Typed'
  BY <1>21, <1>a, <1>b DEF ReadSnapshot, ReadJournal, ReadAgain, memory, files, history, bounds
<1>22. ASSUME UNCHANGED vars PROVE Typed'
  BY <1>22, <1>a, <1>b DEF vars, memory, files, history, bounds
<1> QED BY <1>1, <1>2, <1>3, <1>4, <1>5, <1>6, <1>7, <1>8, <1>9, <1>10, <1>11, <1>12,
          <1>13, <1>14, <1>15, <1>16, <1>17, <1>18, <1>19, <1>20, <1>21, <1>22 DEF Next, Write

\* No file has a line that is far above what is committed.
LEMMA BoundedStep ==
  ASSUME JournalInv, [Next]_vars
  PROVE  Bounded'
PROOF
<1> USE DEF Bounded, UpTo
<1>a. Bounded
  BY DEF JournalInv
<1>b. \A j : ~HasLines(j) /\ j \in logLag /\ j # None => j.entries = <<>>
  BY DEF HasLines
<1>1. ASSUME Open PROVE Bounded'
  <2>1. /\ logLag' = logLag /\ Current' = Current
        /\ pc' \in Compaction => pc \in Compaction /\ prev' = prev
    BY <1>1, <1>a, ElsewhereKeeps DEF Elsewhere, Open, Compaction
  <2> QED BY <1>a, <2>1
<1>2. ASSUME NEW f \in Fields, NEW durable \in BOOLEAN, Save(f, durable) PROVE Bounded'
  <2>1. /\ logLag' = logLag /\ Current' = Current
        /\ pc' \in Compaction => pc \in Compaction /\ prev' = prev
    BY <1>2, <1>a, ElsewhereKeeps DEF Elsewhere, Save, Compaction
  <2> QED BY <1>a, <2>1
<1>3. ASSUME StartBatch PROVE Bounded'
  <2>1. /\ logLag' = logLag /\ Current' = Current
        /\ pc' \in Compaction => pc \in Compaction /\ prev' = prev
    BY <1>3, <1>a, ElsewhereKeeps DEF Elsewhere, StartBatch, Idle, Compaction
  <2> QED BY <1>a, <2>1
<1>4. ASSUME Close PROVE Bounded'
  <2>1. /\ logLag' = logLag /\ Current' = Current
        /\ pc' \in Compaction => pc \in Compaction /\ prev' = prev
    BY <1>4, <1>a, ElsewhereKeeps DEF Elsewhere, Close, Compaction
  <2> QED BY <1>a, <2>1
<1>5. ASSUME Release PROVE Bounded'
  <2>1. UNCHANGED logLag /\ pc' \notin Compaction /\ Current' = OnFiles
        /\ (Current # None => OnFiles # None /\ Current.seq <= OnFiles.seq)
    BY <1>5, LeavesFound DEF Compaction
  <2>2. OnFiles # None => OnFiles.seq \in Nat
    BY FileTypes DEF States
  <2>3. Current # None => Current.seq \in Nat
    BY FileTypes DEF States
  <2>4. CASE Current = None
    BY <1>a, <2>1, <2>4, NoneIsNothing, <1>b
  <2>5. CASE Current # None
    <3>1. ASSUME NEW j \in logLag, j # None, NEW i \in DOMAIN j.entries
          PROVE  j.entries[i].seq <= OnFiles.seq + 1
      <4>1. j.entries[i].seq \in Nat /\ j.entries[i].seq <= Current.seq + 1
        BY <1>a, <2>5, <3>1, FileTypes, LogParts
      <4> QED BY <2>1, <2>2, <2>3, <2>5, <4>1
    <3> QED BY <1>a, <2>1, <2>5, <3>1
  <2> QED BY <2>4, <2>5
<1>6. ASSUME Prepare PROVE Bounded'
  <2>1. \A j \in logLag' : j \in logLag \/ j = log'
    BY <1>6, PrepareKeeps
  <2>2. /\ Current' = Current /\ pc' \notin Compaction /\ Sorted(log'.entries) /\ log' # None
        /\ (log # None => log'.entries = log.entries) /\ log \in logLag
        /\ (log = None => log'.entries = <<>>)
    BY <1>6, PrepareKeeps DEF Compaction, Typed, TypeOK, JournalInv
  <2>3. \A j \in logLag' : j # None => Sorted(j.entries)
    BY <1>a, <2>1, <2>2
  <2>4. Current = None => ~HasLines(log')
    BY <1>a, <2>2 DEF HasLines
  <2>5. Current # None => \A i \in DOMAIN log'.entries : log'.entries[i].seq <= Current.seq + 1
    BY <1>a, <2>2
  <2> QED BY <1>a, <2>1, <2>2, <2>3, <2>4, <2>5
<1>7. ASSUME RepairSync PROVE Bounded'
  <2>1. \A j \in logLag' : j \in logLag \/ j = log'
    BY <1>7, PrepareKeeps
  <2>2. /\ Current' = Current /\ pc' \notin Compaction /\ Sorted(log'.entries) /\ log' # None
        /\ (log # None => log'.entries = log.entries) /\ log \in logLag
        /\ (log = None => log'.entries = <<>>)
    BY <1>7, PrepareKeeps DEF Compaction, Typed, TypeOK, JournalInv
  <2>3. \A j \in logLag' : j # None => Sorted(j.entries)
    BY <1>a, <2>1, <2>2
  <2>4. Current = None => ~HasLines(log')
    BY <1>a, <2>2 DEF HasLines
  <2>5. Current # None => \A i \in DOMAIN log'.entries : log'.entries[i].seq <= Current.seq + 1
    BY <1>a, <2>2
  <2> QED BY <1>a, <2>1, <2>2, <2>3, <2>4, <2>5
<1>8. ASSUME DirSync PROVE Bounded'
  <2>1. \A j \in logLag' : j \in logLag \/ j = log'
    BY <1>8, PrepareKeeps
  <2>2. /\ Current' = Current /\ pc' \notin Compaction /\ Sorted(log'.entries) /\ log' # None
        /\ (log # None => log'.entries = log.entries) /\ log \in logLag
        /\ (log = None => log'.entries = <<>>)
    BY <1>8, PrepareKeeps DEF Compaction, Typed, TypeOK, JournalInv
  <2>3. \A j \in logLag' : j # None => Sorted(j.entries)
    BY <1>a, <2>1, <2>2
  <2>4. Current = None => ~HasLines(log')
    BY <1>a, <2>2 DEF HasLines
  <2>5. Current # None => \A i \in DOMAIN log'.entries : log'.entries[i].seq <= Current.seq + 1
    BY <1>a, <2>2
  <2> QED BY <1>a, <2>1, <2>2, <2>3, <2>4, <2>5
<1>9. ASSUME AppendInitial PROVE Bounded'
  <2>1. UNCHANGED <<logLag, prev>> /\ Current' = Current /\ prev = None
    BY <1>9, ElsewhereKeeps DEF Elsewhere, AppendInitial
  <2> QED BY <1>a, <2>1
<1>10. ASSUME AppendNothing PROVE Bounded'
  <2>1. /\ logLag' = logLag /\ Current' = Current
        /\ pc' \in Compaction => pc \in Compaction /\ prev' = prev
    BY <1>10, <1>a, ElsewhereKeeps DEF Elsewhere, AppendNothing, Settle, Compaction
  <2> QED BY <1>a, <2>1
<1>11. ASSUME AppendTruncate PROVE Bounded'
  <2>1. /\ logLag' = logLag \cup {CommittedLog, Torn} /\ prev' = prev /\ prev # None
        /\ pc' \notin Compaction
    BY <1>11 DEF AppendTruncate, CommittedLog, Compaction
  <2>2. pc \in Prepared /\ Current = prev /\ Current' = prev
    BY <1>11, <2>1, WriteKeeps
  <2>3. /\ Sorted(Committed) /\ CommittedLog.entries = Committed /\ Torn.entries = Committed
        /\ prev.seq \in Nat /\ CommittedLog \in Logs
        /\ \A i \in DOMAIN Committed : Committed[i].seq <= prev.seq
    BY <2>1, <2>2, CommittedLines, CommittedYields DEF States
  <2>4. \A i \in DOMAIN Committed : Committed[i].seq <= prev.seq + 1
    <3>1. \A i \in DOMAIN Committed : Committed[i].seq \in Nat
      BY <2>3, LogParts
    <3> QED BY <2>3, <3>1
  <2>5. \A j \in logLag' : j # None => Sorted(j.entries)
    BY <1>a, <2>1, <2>3
  <2>6. \A j \in logLag' :
          j # None => \A i \in DOMAIN j.entries : j.entries[i].seq <= prev.seq + 1
    BY <1>a, <2>1, <2>2, <2>3, <2>4
  <2> QED BY <2>1, <2>2, <2>5, <2>6
<1>12. ASSUME AppendWrite PROVE Bounded'
  <2>1. /\ logLag' = logLag \cup {log'} /\ pc = "write"
        /\ log' = [entries |-> Append(log.entries, Entry(prev, flight.rec)), torn |-> FALSE]
        /\ \/ prev' = prev /\ pc' = "sync"
           \/ prev' = [seq |-> prev.seq + 1, rec |-> flight.rec]
    BY <1>12 DEF AppendWrite, SetLog, Commit
  <2>2. Current = prev /\ Current' = prev' /\ prev # None
    BY <1>12, <2>1, WriteKeeps DEF JournalInv, Typed
  <2>3. /\ log' \in Logs /\ Sorted(log'.entries)
        /\ \A i \in DOMAIN log'.entries : log'.entries[i].seq <= prev.seq + 1
    BY <2>1, NextLog, NextLine
  <2>4. \A j \in logLag' : j # None => Sorted(j.entries)
    BY <1>a, <2>1, <2>3
  <2>5. \A j \in logLag' :
          j # None => \A i \in DOMAIN j.entries : j.entries[i].seq <= prev.seq + 1
    BY <1>a, <2>1, <2>2, <2>3
  <2>6. CASE prev' = prev /\ pc' = "sync"
    BY <2>2, <2>4, <2>5, <2>6 DEF Compaction
  <2>7. CASE prev' = [seq |-> prev.seq + 1, rec |-> flight.rec]
    <3>1. prev'.seq = prev.seq + 1 /\ prev.seq \in Nat
      BY <2>2, <2>7, FileTypes DEF States
    <3>2. ASSUME NEW j \in logLag', j # None, NEW i \in DOMAIN j.entries
          PROVE  j.entries[i].seq <= prev'.seq /\ j.entries[i].seq <= prev'.seq + 1
      <4>1. j.entries[i].seq \in Nat
        BY <2>1, <2>3, <3>2, FileTypes, LogParts
      <4> QED BY <2>5, <3>1, <3>2, <4>1
    <3>3. prev' # None
      BY <1>12, <2>1, <2>2, <2>7, NextLog, NextLine, NoneIsNothing
    <3> QED BY <2>2, <2>4, <3>2, <3>3
  <2> QED BY <2>1, <2>6, <2>7
<1>13. ASSUME AppendSync PROVE Bounded'
  <2>1. /\ logLag' = {log} /\ pc = "sync"
        /\ prev' = [seq |-> prev.seq + 1, rec |-> flight.rec]
    BY <1>13 DEF AppendSync, Commit
  <2>2. Current = prev /\ Current' = prev' /\ prev # None /\ log \in Logs
    BY <1>13, <2>1, WriteKeeps DEF JournalInv, Typed
  <2>3. /\ Sorted(log.entries) /\ prev' # None
        /\ \A i \in DOMAIN log.entries : log.entries[i].seq <= prev.seq + 1
    BY <2>1, <2>2, SyncedLog, NextLine, NoneIsNothing
  <2>4. prev'.seq = prev.seq + 1 /\ prev.seq \in Nat
    BY <2>1, <2>2, FileTypes DEF States
  <2>5. ASSUME NEW i \in DOMAIN log.entries
        PROVE  log.entries[i].seq <= prev'.seq /\ log.entries[i].seq <= prev'.seq + 1
    <3>1. log.entries[i].seq \in Nat
      BY <2>2, LogParts
    <3> QED BY <2>3, <2>4, <3>1
  <2> QED BY <2>1, <2>2, <2>3, <2>5
<1>14. ASSUME CompactRename PROVE Bounded'
  <2>1. UNCHANGED <<logLag, prev>> /\ pc \in Compaction
    BY <1>14 DEF CompactRename, Compaction
  <2>2. Current = prev /\ Current' = prev
    BY <1>14, <2>1, WriteKeeps
  <2> QED BY <1>a, <2>1, <2>2
<1>15. ASSUME CompactSync PROVE Bounded'
  <2>1. prev' = prev /\ pc \in Compaction /\ logLag' \subseteq logLag
    BY <1>15 DEF CompactSync, Compaction
  <2>2. Current = prev /\ Current' = prev
    BY <1>15, <2>1, WriteKeeps
  <2> QED BY <1>a, <2>1, <2>2
<1>16. ASSUME CompactTruncate PROVE Bounded'
  <2>1. prev' = prev /\ pc \in Compaction /\ logLag' = logLag \cup {Empty}
    BY <1>16 DEF CompactTruncate, SetLog, Compaction
  <2>2. Current = prev /\ Current' = prev
    BY <1>16, <2>1, WriteKeeps
  <2>3. DOMAIN Empty.entries = {}
    BY DEF Empty
  <2> QED BY <1>a, <2>1, <2>2, <2>3, EmptyLog
<1>17. ASSUME CompactDone PROVE Bounded'
  <2>1. prev' = Compacted /\ logLag' = {log} /\ pc' \notin Compaction /\ log = Empty
    BY <1>17 DEF CompactDone, Settle, Compaction, JournalInv, Writing
  <2>2. Current' = prev' /\ Compacted # None
    BY <1>17, WriteKeeps, SuccessorYields DEF CompactDone, Compaction
  <2>3. DOMAIN Empty.entries = {}
    BY DEF Empty
  <2> QED BY <2>1, <2>2, <2>3, EmptyLog
<1>18. ASSUME NEW error \in Errors, Fail(error) PROVE Bounded'
  <2>1. /\ logLag' = logLag /\ Current' = Current
        /\ pc' \in Compaction => pc \in Compaction /\ prev' = prev
    BY <1>18, <1>a, ElsewhereKeeps DEF Elsewhere, Fail, Compaction
  <2> QED BY <1>a, <2>1
<1>19. ASSUME Crash PROVE Bounded'
  <2>1. UNCHANGED logLag /\ pc' \notin Compaction /\ Current' = OnFiles
        /\ (Current # None => OnFiles # None /\ Current.seq <= OnFiles.seq)
    BY <1>19, LeavesFound DEF Compaction
  <2>2. OnFiles # None => OnFiles.seq \in Nat
    BY FileTypes DEF States
  <2>3. Current # None => Current.seq \in Nat
    BY FileTypes DEF States
  <2>4. CASE Current = None
    BY <1>a, <2>1, <2>4, NoneIsNothing, <1>b
  <2>5. CASE Current # None
    <3>1. ASSUME NEW j \in logLag, j # None, NEW i \in DOMAIN j.entries
          PROVE  j.entries[i].seq <= OnFiles.seq + 1
      <4>1. j.entries[i].seq \in Nat /\ j.entries[i].seq <= Current.seq + 1
        BY <1>a, <2>5, <3>1, FileTypes, LogParts
      <4> QED BY <2>1, <2>2, <2>3, <2>5, <4>1
    <3> QED BY <1>a, <2>1, <2>5, <3>1
  <2> QED BY <2>4, <2>5
<1>20. ASSUME PowerLoss PROVE Bounded'
  <2>1. PICK s \in snapLag, j \in logLag : snap' = s /\ log' = j /\ logLag' = {j}
    BY <1>20 DEF PowerLoss
  <2>2. pc' = "down"
    BY <1>20 DEF PowerLoss
  <2>3. Current' = IF s = None THEN None ELSE Replay(s, j)
    BY <2>1, <2>2 DEF Current, OnFiles, Prepared, Preparing, Compaction
  <2>4. Yields(s, j, flushed, written)
    BY DEF JournalInv, Recoverable
  <2>5. CASE s = None
    BY <1>a, <2>1, <2>2, <2>3, <2>4, <2>5 DEF Yields, Compaction
  <2>6. CASE s # None
    <3>1. s \in States /\ j \in Logs /\ Sorted(j.entries)
      BY <2>4, <2>6, FileTypes DEF Yields, Readable
    <3>2. /\ Replay(s, j) \in States /\ Replay(s, j) # None
          /\ \A i \in DOMAIN j.entries : j.entries[i].seq <= Replay(s, j).seq
      BY <3>1, ReplayIsLast, NoneIsNothing
    <3>3. \A i \in DOMAIN j.entries : j.entries[i].seq <= Replay(s, j).seq + 1
      BY <3>1, <3>2, LogParts DEF States
    <3> QED BY <2>1, <2>2, <2>3, <2>6, <3>1, <3>2, <3>3 DEF Compaction
  <2> QED BY <2>5, <2>6
<1>21. ASSUME NEW r \in Readers, ReadSnapshot(r) \/ ReadJournal(r) \/ ReadAgain(r)
       PROVE  Bounded'
  <2>1. /\ logLag' = logLag /\ Current' = Current
        /\ pc' \in Compaction => pc \in Compaction /\ prev' = prev
    BY <1>21, <1>a, ElsewhereKeeps DEF Elsewhere, ReadSnapshot, ReadJournal, ReadAgain, memory,
                                       Compaction
  <2> QED BY <1>a, <2>1
<1>22. ASSUME UNCHANGED vars PROVE Bounded'
  <2>1. /\ logLag' = logLag /\ Current' = Current
        /\ pc' \in Compaction => pc \in Compaction /\ prev' = prev
    BY <1>22, <1>a, ElsewhereKeeps DEF Elsewhere, vars, memory, Compaction
  <2> QED BY <1>a, <2>1
<1> QED BY <1>1, <1>2, <1>3, <1>4, <1>5, <1>6, <1>7, <1>8, <1>9, <1>10, <1>11, <1>12,
          <1>13, <1>14, <1>15, <1>16, <1>17, <1>18, <1>19, <1>20, <1>21, <1>22 DEF Next, Write

\* The writer keeps a right view of the files.
LEMMA ViewedStep ==
  ASSUME JournalInv, [Next]_vars
  PROVE  Viewed'
PROOF
<1> USE DEF Viewed
<1>a. Viewed
  BY DEF JournalInv
<1>1. ASSUME Open PROVE Viewed'
  BY <1>1 DEF Open, Prepared, Preparing, Compaction
<1>2. ASSUME NEW f \in Fields, NEW durable \in BOOLEAN, Save(f, durable) PROVE Viewed'
  <2>1. /\ UNCHANGED <<prev, bytes, kept, snap, snapLag, log, logLag, written>>
        /\ (pc' \in Prepared => pc \in Prepared) /\ (pc' \in Preparing => pc \in Preparing)
    BY <1>2 DEF Save, Prepared, Preparing, Compaction, files, history
  <2>2. Committed' = Committed /\ CommittedLog' = CommittedLog /\ OnFiles' = OnFiles
    BY <2>1 DEF Committed, CommittedLog, OnFiles
  <2> QED BY <1>a, <2>1, <2>2
<1>3. ASSUME StartBatch PROVE Viewed'
  <2>1. /\ UNCHANGED <<prev, bytes, kept, snap, snapLag, log, logLag, written>>
        /\ (pc' \in Prepared => pc \in Prepared) /\ (pc' \in Preparing => pc \in Preparing)
    BY <1>3 DEF StartBatch, Idle, Prepared, Preparing, Compaction, files, history
  <2>2. Committed' = Committed /\ CommittedLog' = CommittedLog /\ OnFiles' = OnFiles
    BY <2>1 DEF Committed, CommittedLog, OnFiles
  <2> QED BY <1>a, <2>1, <2>2
<1>4. ASSUME Close PROVE Viewed'
  <2>1. /\ UNCHANGED <<prev, bytes, kept, snap, snapLag, log, logLag, written>>
        /\ (pc' \in Prepared => pc \in Prepared) /\ (pc' \in Preparing => pc \in Preparing)
    BY <1>4 DEF Close, Prepared, Preparing, Compaction, files, history
  <2>2. Committed' = Committed /\ CommittedLog' = CommittedLog /\ OnFiles' = OnFiles
    BY <2>1 DEF Committed, CommittedLog, OnFiles
  <2> QED BY <1>a, <2>1, <2>2
<1>5. ASSUME Release PROVE Viewed'
  BY <1>5 DEF Release, Prepared, Preparing, Compaction
<1>6. ASSUME Prepare PROVE Viewed'
  <2>1. pc' \in Preparing /\ prev' = OnFiles /\ OnFiles' = OnFiles
    BY <1>6, PrepareKeeps DEF Prepare, Preparing
  <2> QED BY <2>1 DEF Prepared, Preparing, Compaction
<1>7. ASSUME RepairSync PROVE Viewed'
  <2>1. pc' \in Preparing /\ prev' = OnFiles /\ OnFiles' = OnFiles
    BY <1>7, PrepareKeeps DEF RepairSync, Preparing
  <2> QED BY <2>1 DEF Prepared, Preparing, Compaction
<1>8. ASSUME DirSync PROVE Viewed'
  <2>1. /\ UNCHANGED <<log, written, kept>> /\ bytes' = Len(log.entries) /\ snapLag' = {snap}
        /\ pc' \notin Preparing /\ prev' = OnFiles /\ log \in Logs
    BY <1>8, PrepareKeeps DEF DirSync, Preparing, history
  <2>2. SubSeq(log.entries, 1, Len(log.entries)) = log.entries
    <3>1. log.entries \in Seq(Lines)
      BY <2>1, LogParts
    <3> DEFINE E == log.entries
    <3>2. E \in Seq(Lines)
      BY <3>1
    <3> HIDE DEF E
    <3>3. SubSeq(E, 1, Len(E)) = E
      BY <3>2
    <3> QED BY <3>3 DEF E
  <2>3. Committed' = log.entries /\ CommittedLog'.entries = log.entries
    BY <2>1, <2>2 DEF Committed, CommittedLog
  <2>4. CASE snap = None
    <3>1. log.entries = <<>>
      BY <2>1, <2>4, NoneIsNothing DEF JournalInv, Recoverable, Yields, HasLines
    <3> QED BY <2>1, <2>4, <3>1 DEF OnFiles
  <2>5. CASE snap # None
    <3>1. /\ OnFiles = Replay(snap, log) /\ OnFiles \in written /\ Gapless(snap, log.entries)
          /\ AtLeast(OnFiles.rec, kept)
      BY <2>5 DEF OnFiles, JournalInv, Recoverable, Yields, Readable
    <3>2. OnFiles # None
      BY <3>1, NoneIsNothing DEF JournalInv, Typed, TypeOK
    <3>3. Replay(snap, CommittedLog') = OnFiles
      BY <2>3, <3>1, OnlyLinesCount
    <3> QED BY <2>1, <2>3, <2>5, <3>1, <3>2, <3>3
  <2> QED BY <2>4, <2>5
<1>9. ASSUME AppendInitial PROVE Viewed'
  <2>1. UNCHANGED <<prev, bytes>> /\ prev = None /\ pc \in Prepared /\ pc' \notin Preparing
    BY <1>9 DEF AppendInitial, Prepared, Preparing
  <2> QED BY <1>a, <2>1
<1>10. ASSUME AppendNothing PROVE Viewed'
  <2>1. /\ UNCHANGED <<prev, bytes, log, snapLag, written>> /\ prev # None /\ kept' = prev.rec
        /\ pc \in Prepared /\ pc' \notin Preparing
    BY <1>10 DEF AppendNothing, Settle, Prepared, Preparing, files
  <2>2. Committed' = Committed /\ CommittedLog' = CommittedLog
    BY <2>1 DEF Committed, CommittedLog
  <2>3. AtLeast(prev.rec, prev.rec)
    BY <2>1, CommittedYields, AtLeastSelf
  <2> QED BY <1>a, <2>1, <2>2, <2>3
<1>11. ASSUME AppendTruncate PROVE Viewed'
  <2>1. /\ log' = Torn /\ UNCHANGED <<prev, bytes, kept, snapLag>> /\ written \subseteq written'
        /\ prev # None /\ pc \in Prepared /\ pc' \notin Preparing
    BY <1>11 DEF AppendTruncate, Prepared, Preparing
  <2>2. /\ Len(Committed) = bytes /\ Torn.entries = Committed /\ CommittedLog \in Logs
        /\ CommittedLog.entries = Committed /\ bytes \in Nat
    BY <2>1, CommittedLines
  <2>3. SubSeq(Committed, 1, bytes) = Committed
    <3>1. Committed \in Seq(Lines)
      BY <2>2, LogParts
    <3> HIDE DEF Committed
    <3> QED BY <2>2, <3>1
  <2>4. Committed' = Committed /\ CommittedLog' = CommittedLog /\ Len(log'.entries) = bytes
    <3>1. Committed' = SubSeq(log'.entries, 1, bytes')
      BY DEF Committed
    <3>2. Committed' = Committed
      BY <2>1, <2>2, <2>3, <3>1
    <3> QED BY <2>1, <2>2, <3>2 DEF CommittedLog
  <2> QED BY <1>a, <2>1, <2>4
<1>12. ASSUME AppendWrite PROVE Viewed'
  <2>1. /\ UNCHANGED <<snapLag, written>> /\ pc = "write" /\ pc' \notin Preparing
        /\ log' = [entries |-> Append(log.entries, Entry(prev, flight.rec)), torn |-> FALSE]
        /\ \/ UNCHANGED <<prev, bytes, kept>>
           \/ /\ prev' = [seq |-> prev.seq + 1, rec |-> flight.rec] /\ bytes' = bytes + 1
              /\ kept' \in {kept, flight.rec}
    BY <1>12 DEF AppendWrite, SetLog, Commit, Settle, Preparing
  <2>2. pc \in Prepared /\ pc \in Calls /\ flight.rec \in Record /\ prev # None
    BY <1>12, <2>1, WriteKeeps DEF JournalInv, Typed
  <2>3. log' \in Logs /\ log'.entries = Append(Committed, Entry(prev, flight.rec))
    BY <2>1, NextLog
  <2>4. CASE UNCHANGED <<prev, bytes, kept>>
    <3>1. /\ Len(log'.entries) = bytes + 1 /\ log'.entries[bytes + 1].seq = prev.seq + 1
          /\ SubSeq(log'.entries, 1, bytes) = Committed
      BY <2>1, <2>3, NextLine
    <3>2. Committed' = Committed /\ CommittedLog' = CommittedLog
      BY <2>4, <3>1 DEF Committed, CommittedLog
    <3> QED BY <1>a, <2>1, <2>2, <2>4, <3>1, <3>2
  <2>5. CASE /\ prev' = [seq |-> prev.seq + 1, rec |-> flight.rec] /\ bytes' = bytes + 1
             /\ kept' \in {kept, flight.rec}
    <3>1. /\ prev' \in States /\ prev' \in written /\ Len(log'.entries) = bytes + 1
          /\ SubSeq(log'.entries, 1, bytes + 1) = log'.entries
          /\ \A s \in snapLag : Gapless(s, log'.entries) /\ Replay(s, log') = prev'
      BY <2>1, <2>3, <2>5, NextLine
    <3>2. Committed' = log'.entries /\ CommittedLog'.entries = log'.entries
      BY <2>5, <3>1 DEF Committed, CommittedLog
    <3>3. \A s \in snapLag :
            s # None /\ Gapless(s, Committed') /\ Replay(s, CommittedLog') = prev'
      BY <1>a, <2>2, <3>1, <3>2, OnlyLinesCount
    <3>4. AtLeast(prev'.rec, kept')
      BY <2>2, <2>5, AtLeastSelf DEF JournalInv, Growing
    <3> QED BY <2>1, <2>5, <3>1, <3>3, <3>4, NoneIsNothing
  <2> QED BY <2>1, <2>4, <2>5
<1>13. ASSUME AppendSync PROVE Viewed'
  <2>1. /\ UNCHANGED <<snapLag, log, written>> /\ pc = "sync" /\ pc' \notin Preparing
        /\ prev' = [seq |-> prev.seq + 1, rec |-> flight.rec] /\ bytes' = bytes + 1
        /\ kept' \in {kept, flight.rec}
    BY <1>13 DEF AppendSync, Commit, Settle, Preparing
  <2>2. pc \in Prepared /\ pc \in Calls /\ flight.rec \in Record /\ prev # None
    BY <1>13, <2>1, WriteKeeps DEF JournalInv, Typed
  <2>3. log \in Logs /\ log.entries = Append(Committed, Entry(prev, flight.rec))
    BY <2>1, SyncedLog
  <2>4. /\ prev' \in States /\ prev' \in written /\ Len(log.entries) = bytes + 1
        /\ SubSeq(log.entries, 1, bytes + 1) = log.entries
        /\ \A s \in snapLag : Gapless(s, log.entries) /\ Replay(s, log) = prev'
    BY <2>1, <2>3, NextLine
  <2>5. Committed' = log.entries /\ CommittedLog'.entries = log.entries
    BY <2>1, <2>4 DEF Committed, CommittedLog
  <2>6. \A s \in snapLag : s # None /\ Gapless(s, Committed') /\ Replay(s, CommittedLog') = prev'
    BY <1>a, <2>2, <2>4, <2>5, OnlyLinesCount
  <2>7. AtLeast(prev'.rec, kept')
    BY <2>1, <2>2, AtLeastSelf DEF JournalInv, Growing
  <2> QED BY <2>1, <2>4, <2>6, <2>7, NoneIsNothing
<1>14. ASSUME CompactRename PROVE Viewed'
  <2>1. /\ UNCHANGED <<prev, bytes, kept, log, written>> /\ snapLag' = snapLag \cup {Compacted}
        /\ pc \in Prepared /\ pc' \notin Preparing /\ pc \in Compaction
    BY <1>14 DEF CompactRename, SetSnap, history, Prepared, Preparing, Compaction
  <2>2. Committed' = Committed /\ CommittedLog' = CommittedLog
    BY <2>1 DEF Committed, CommittedLog
  <2>3. CASE prev = None
    BY <1>a, <2>1, <2>3
  <2>4. CASE prev # None
    <3>1. /\ Compacted = prev /\ prev \in States
          /\ CommittedLog \in Logs /\ CommittedLog.entries = Committed
      BY <2>1, <2>4, CommittedYields, CommittedLines DEF Compacted
    <3>2. Newer(prev, Committed) = {}
      <4>1. \A i \in DOMAIN Committed : Committed[i].seq <= prev.seq /\ Committed[i].seq \in Nat
        BY <2>1, <2>4, <3>1, CommittedYields, LogParts
      <4> QED BY <3>1, <4>1 DEF Newer, States
    <3>3. Gapless(prev, Committed) /\ Replay(prev, CommittedLog) = prev /\ prev # None
      BY <3>1, <3>2, ReplayNothing, NoneIsNothing
    <3> QED BY <1>a, <2>1, <2>2, <2>4, <3>1, <3>3
  <2> QED BY <2>3, <2>4
<1>15. ASSUME CompactSync PROVE Viewed'
  <2>1. /\ UNCHANGED <<prev, bytes, kept, log, written>> /\ snapLag' \subseteq snapLag
        /\ pc \in Prepared /\ pc' \notin Preparing
    BY <1>15 DEF CompactSync, history, Prepared, Preparing, Compaction, JournalInv, Typed, TypeOK
  <2>2. Committed' = Committed /\ CommittedLog' = CommittedLog
    BY <2>1 DEF Committed, CommittedLog
  <2> QED BY <1>a, <2>1, <2>2
<1>16. ASSUME CompactTruncate PROVE Viewed'
  <2>1. /\ UNCHANGED <<prev, kept, snapLag, written>> /\ log' = Empty /\ bytes' = 0
        /\ pc \in Prepared /\ pc' \notin Preparing /\ snapLag = {Compacted}
    BY <1>16 DEF CompactTruncate, SetLog, history, Prepared, Preparing, Compaction, JournalInv,
                 Writing
  <2>2. Committed' = <<>> /\ CommittedLog'.entries = <<>> /\ Len(log'.entries) = 0
    BY <2>1, EmptyLog DEF Committed, CommittedLog
  <2>3. CASE prev # None
    <3>1. prev \in States /\ Compacted = prev /\ prev # None
      BY <2>1, <2>3, CommittedYields DEF Compacted
    <3>2. Newer(prev, <<>>) = {}
      BY DEF Newer
    <3>3. Gapless(prev, <<>>) /\ Replay(prev, CommittedLog') = prev
      BY <2>2, <3>1, <3>2, ReplayNothing
    <3> QED BY <1>a, <2>1, <2>2, <3>1, <3>3
  <2> QED BY <2>1, <2>3
<1>17. ASSUME CompactDone PROVE Viewed'
  <2>1. /\ UNCHANGED <<bytes, snapLag, log, written>> /\ prev' = Compacted
        /\ kept' = Compacted.rec
        /\ pc' \notin Preparing /\ snapLag = {Compacted} /\ log = Empty /\ bytes = 0
        /\ pc \in Compaction
    BY <1>17 DEF CompactDone, Settle, Preparing, Compaction, JournalInv, Writing
  <2>2. Committed' = <<>> /\ CommittedLog'.entries = <<>> /\ Len(log'.entries) = 0
    BY <2>1, EmptyLog DEF Committed, CommittedLog
  <2>3. /\ Compacted \in States /\ Compacted \in written /\ Compacted # None
        /\ AtLeast(Compacted.rec, Compacted.rec)
    BY <2>1, SuccessorYields, AtLeastSelf
  <2>4. Newer(Compacted, <<>>) = {}
    BY DEF Newer
  <2>5. Gapless(Compacted, <<>>) /\ Replay(Compacted, CommittedLog') = Compacted
    BY <2>2, <2>3, <2>4, ReplayNothing
  <2> QED BY <2>1, <2>2, <2>3, <2>5
<1>18. ASSUME NEW error \in Errors, Fail(error) PROVE Viewed'
  <2>1. /\ UNCHANGED <<prev, bytes, kept, snap, snapLag, log, logLag, written>>
        /\ (pc' \in Prepared => pc \in Prepared) /\ (pc' \in Preparing => pc \in Preparing)
    BY <1>18 DEF Fail, Calls, Prepared, Preparing, Compaction, files, history
  <2>2. Committed' = Committed /\ CommittedLog' = CommittedLog /\ OnFiles' = OnFiles
    BY <2>1 DEF Committed, CommittedLog, OnFiles
  <2> QED BY <1>a, <2>1, <2>2
<1>19. ASSUME Crash PROVE Viewed'
  BY <1>19 DEF Crash, Prepared, Preparing, Compaction
<1>20. ASSUME PowerLoss PROVE Viewed'
  BY <1>20 DEF PowerLoss, Prepared, Preparing, Compaction
<1>21. ASSUME NEW r \in Readers, ReadSnapshot(r) \/ ReadJournal(r) \/ ReadAgain(r)
       PROVE  Viewed'
  <2>1. /\ UNCHANGED <<prev, bytes, kept, snap, snapLag, log, logLag, written>>
        /\ (pc' \in Prepared => pc \in Prepared) /\ (pc' \in Preparing => pc \in Preparing)
    BY <1>21 DEF ReadSnapshot, ReadJournal, ReadAgain, memory, Prepared, Preparing, Compaction,
                 files, history
  <2>2. Committed' = Committed /\ CommittedLog' = CommittedLog /\ OnFiles' = OnFiles
    BY <2>1 DEF Committed, CommittedLog, OnFiles
  <2> QED BY <1>a, <2>1, <2>2
<1>22. ASSUME UNCHANGED vars PROVE Viewed'
  <2>1. /\ UNCHANGED <<prev, bytes, kept, snap, snapLag, log, logLag, written>>
        /\ (pc' \in Prepared => pc \in Prepared) /\ (pc' \in Preparing => pc \in Preparing)
    BY <1>22 DEF vars, memory, Prepared, Preparing, Compaction, files, history
  <2>2. Committed' = Committed /\ CommittedLog' = CommittedLog /\ OnFiles' = OnFiles
    BY <2>1 DEF Committed, CommittedLog, OnFiles
  <2> QED BY <1>a, <2>1, <2>2
<1> QED BY <1>1, <1>2, <1>3, <1>4, <1>5, <1>6, <1>7, <1>8, <1>9, <1>10, <1>11, <1>12,
          <1>13, <1>14, <1>15, <1>16, <1>17, <1>18, <1>19, <1>20, <1>21, <1>22 DEF Next, Write

\* The batch on its way is written as announced.
LEMMA WritingStep ==
  ASSUME JournalInv, [Next]_vars
  PROVE  Writing'
PROOF
<1> USE DEF Writing
<1>a. Writing
  BY DEF JournalInv
<1>1. ASSUME Open PROVE Writing'
  BY <1>1 DEF Open, Compaction
<1>2. ASSUME NEW f \in Fields, NEW durable \in BOOLEAN, Save(f, durable) PROVE Writing'
  <2>1. UNCHANGED <<pc, prev, bytes, flight, snap, snapLag, log, written>>
    BY <1>2 DEF Save, files, history
  <2>2. Compacted' = Compacted
    BY <2>1 DEF Compacted
  <2> QED BY <1>a, <2>1, <2>2
<1>3. ASSUME StartBatch PROVE Writing'
  BY <1>3 DEF StartBatch, Compaction
<1>4. ASSUME Close PROVE Writing'
  <2>1. UNCHANGED <<pc, prev, bytes, flight, snap, snapLag, log, written>>
    BY <1>4 DEF Close, files, history
  <2>2. Compacted' = Compacted
    BY <2>1 DEF Compacted
  <2> QED BY <1>a, <2>1, <2>2
<1>5. ASSUME Release PROVE Writing'
  BY <1>5 DEF Release, Compaction
<1>6. ASSUME Prepare PROVE Writing'
  BY <1>6 DEF Prepare, Compaction
<1>7. ASSUME RepairSync PROVE Writing'
  BY <1>7 DEF RepairSync, Compaction
<1>8. ASSUME DirSync PROVE Writing'
  BY <1>8 DEF DirSync, Compaction
<1>9. ASSUME AppendInitial PROVE Writing'
  <2>1. /\ pc' = "rename" /\ UNCHANGED <<prev, flight>> /\ prev = None
        /\ [seq |-> 0, rec |-> flight.rec] \in written'
    BY <1>9 DEF AppendInitial
  <2>2. Compacted' \in written'
    BY <2>1 DEF Compacted
  <2> QED BY <2>1, <2>2 DEF Compaction
<1>10. ASSUME AppendNothing PROVE Writing'
  BY <1>10 DEF AppendNothing, Settle, Compaction
<1>11. ASSUME AppendTruncate PROVE Writing'
  <2>1. /\ pc' = "write" /\ UNCHANGED <<prev, flight, bytes>> /\ log' = Torn /\ pc \in Prepared
        /\ [seq |-> prev.seq + 1, rec |-> flight.rec] \in written'
        /\ prev.rec # flight.rec
    BY <1>11 DEF AppendTruncate, Changed, Prepared
  <2> QED BY <2>1, CommittedLines DEF Compaction
<1>12. ASSUME AppendWrite PROVE Writing'
  <2>1. /\ UNCHANGED written /\ pc = "write" /\ pc' \in {"sync", "rename", "ready"}
        /\ log' = [entries |-> Append(log.entries, Entry(prev, flight.rec)), torn |-> FALSE]
        /\ pc' = "sync" => UNCHANGED <<prev, flight, bytes>>
        /\ pc' = "rename" => prev' = [seq |-> prev.seq + 1, rec |-> flight.rec]
    BY <1>12 DEF AppendWrite, SetLog, Commit, Settle
  <2>2. /\ Len(log'.entries) = bytes + 1 /\ log'.entries[bytes + 1] = Entry(prev, flight.rec)
        /\ [seq |-> prev.seq + 1, rec |-> flight.rec] # None
    BY <2>1, NextLog, NextLine, NoneIsNothing
  <2>3. pc' = "rename" => Compacted' \in written
    BY <1>a, <2>1, <2>2 DEF Compacted
  <2>4. pc' = "sync" => Entry(prev, flight.rec)' = Entry(prev, flight.rec)
    BY <2>1 DEF Entry
  <2> QED BY <1>a, <2>1, <2>2, <2>3, <2>4 DEF Compaction
<1>13. ASSUME AppendSync PROVE Writing'
  <2>1. /\ UNCHANGED written /\ pc = "sync" /\ pc' \in {"rename", "ready"}
        /\ prev' = [seq |-> prev.seq + 1, rec |-> flight.rec]
    BY <1>13 DEF AppendSync, Commit, Settle
  <2>2. [seq |-> prev.seq + 1, rec |-> flight.rec] # None
    BY <1>a, <2>1, NoneIsNothing DEF JournalInv, Typed, TypeOK
  <2>3. Compacted' \in written
    BY <1>a, <2>1, <2>2 DEF Compacted
  <2> QED BY <2>1, <2>3 DEF Compaction
<1>14. ASSUME CompactRename PROVE Writing'
  <2>1. /\ pc' = "snapSync" /\ UNCHANGED <<prev, flight, written>> /\ snap' = Compacted
        /\ pc \in Compaction
    BY <1>14 DEF CompactRename, SetSnap, history, Compaction
  <2>2. Compacted' = Compacted
    BY <2>1 DEF Compacted
  <2> QED BY <1>a, <2>1, <2>2
<1>15. ASSUME CompactSync PROVE Writing'
  <2>1. /\ pc' = "truncate" /\ UNCHANGED <<prev, flight, written, snap>> /\ snapLag' = {snap}
        /\ pc = "snapSync" /\ pc \in Compaction
    BY <1>15 DEF CompactSync, history, Compaction
  <2>2. Compacted' = Compacted
    BY <2>1 DEF Compacted
  <2> QED BY <1>a, <2>1, <2>2
<1>16. ASSUME CompactTruncate PROVE Writing'
  <2>1. /\ pc' = "truncSync" /\ UNCHANGED <<prev, flight, written, snap, snapLag>>
        /\ log' = Empty /\ bytes' = 0 /\ pc = "truncate" /\ pc \in Compaction
    BY <1>16 DEF CompactTruncate, SetLog, history, Compaction
  <2>2. Compacted' = Compacted
    BY <2>1 DEF Compacted
  <2> QED BY <1>a, <2>1, <2>2
<1>17. ASSUME CompactDone PROVE Writing'
  BY <1>17 DEF CompactDone, Settle, Compaction
<1>18. ASSUME NEW error \in Errors, Fail(error) PROVE Writing'
  BY <1>18 DEF Fail, Compaction
<1>19. ASSUME Crash PROVE Writing'
  BY <1>19 DEF Crash, Compaction
<1>20. ASSUME PowerLoss PROVE Writing'
  BY <1>20 DEF PowerLoss, Compaction
<1>21. ASSUME NEW r \in Readers, ReadSnapshot(r) \/ ReadJournal(r) \/ ReadAgain(r)
       PROVE  Writing'
  <2>1. UNCHANGED <<pc, prev, bytes, flight, snap, snapLag, log, written>>
    BY <1>21 DEF ReadSnapshot, ReadJournal, ReadAgain, memory, files, history
  <2>2. Compacted' = Compacted
    BY <2>1 DEF Compacted
  <2> QED BY <1>a, <2>1, <2>2
<1>22. ASSUME UNCHANGED vars PROVE Writing'
  <2>1. UNCHANGED <<pc, prev, bytes, flight, snap, snapLag, log, written>>
    BY <1>22 DEF vars, memory, files, history
  <2>2. Compacted' = Compacted
    BY <2>1 DEF Compacted
  <2> QED BY <1>a, <2>1, <2>2
<1> QED BY <1>1, <1>2, <1>3, <1>4, <1>5, <1>6, <1>7, <1>8, <1>9, <1>10, <1>11, <1>12,
          <1>13, <1>14, <1>15, <1>16, <1>17, <1>18, <1>19, <1>20, <1>21, <1>22 DEF Next, Write

\* A record is at least as new as what it was made from.
LEMMA GrowingStep ==
  ASSUME JournalInv, [Next]_vars
  PROVE  Growing'
PROOF
<1> USE DEF Growing
<1>a. Growing
  BY DEF JournalInv
<1>b. live \in Record /\ kept \in Record /\ clock \in Nat
  BY JournalAssumption DEF JournalInv, Typed, TypeOK
<1>c. pc \in Calls => \A g \in Fields : flight.rec[g] <= clock
  <2>1. SUFFICES ASSUME pc \in Calls, NEW g \in Fields PROVE flight.rec[g] <= clock
    OBVIOUS
  <2>2. flight.rec[g] \in Nat /\ live[g] \in Nat
    BY <1>b, <2>1, JournalAssumption DEF JournalInv, Typed, Record
  <2>3. live[g] >= flight.rec[g] /\ live[g] <= clock
    BY <1>a, <2>1 DEF AtLeast
  <2> QED BY <1>b, <2>2, <2>3
<1>1. ASSUME Open PROVE Growing'
  <2>1. /\ UNCHANGED <<clock, written, kept, snap, log>> /\ pc = "down" /\ pc' = "unprepared"
    BY <1>1 DEF Open, files, history
  <2>2. Current' = Current /\ Current = OnFiles
    BY <1>1, <2>1, ElsewhereKeeps DEF Elsewhere, Current, Prepared, Preparing, Compaction
  <2>3. CASE snap = None /\ live' = Zero
    <3>1. kept = Zero /\ Current = None
      BY <2>2, <2>3 DEF JournalInv, Recoverable, Yields, OnFiles
    <3>2. AtLeast(kept, kept)
      BY <1>b, AtLeastSelf
    <3> QED BY <1>a, <1>b, <2>1, <2>2, <2>3, <3>1, <3>2 DEF Calls, Compaction, Zero
  <2>4. CASE Readable(snap, log) /\ live' = Replay(snap, log).rec
    <3>1. /\ OnFiles = Replay(snap, log) /\ OnFiles \in written
          /\ AtLeast(OnFiles.rec, kept)
      BY <2>4 DEF JournalInv, Recoverable, Yields, OnFiles, Readable
    <3>2. AtLeast(OnFiles.rec, OnFiles.rec)
      BY <3>1, FileTypes, AtLeastSelf DEF JournalInv, Typed, TypeOK, States
    <3> QED BY <1>a, <2>1, <2>2, <2>4, <3>1, <3>2 DEF Calls, Compaction
  <2> QED BY <1>1, <2>3, <2>4 DEF Open
<1>2. ASSUME NEW f \in Fields, NEW durable \in BOOLEAN, Save(f, durable) PROVE Growing'
  <2>1. /\ UNCHANGED <<written, kept, flight, pc>> /\ clock' = clock + 1
        /\ live' = [live EXCEPT ![f] = clock + 1]
    BY <1>2 DEF Save, history
  <2>2. Current' = Current
    BY <1>2, ElsewhereKeeps DEF Elsewhere
  <2>3. \A g \in Fields : live[g] \in Nat
    BY <1>b, JournalAssumption DEF Record
  <2>4. live' \in Record
    BY <1>2, <1>b, <2>1, JournalAssumption DEF Record, Save
  <2>5. ASSUME NEW g \in Fields
        PROVE  live'[g] >= live[g] /\ live'[g] <= clock'
    BY <1>a, <1>b, <2>1, <2>3, <2>5 DEF Record
  <2>6. AtLeast(live', live)
    BY <2>5 DEF AtLeast
  <2>7. \A w \in written : \A g \in Fields : w.rec[g] \in Nat
    BY JournalAssumption DEF JournalInv, Typed, TypeOK, States, Record
  <2>8. \A g \in Fields : \A w \in written : w.rec[g] <= clock'
    BY <1>a, <1>b, <2>1, <2>7
  <2>9. pc # "down" => AtLeast(live', kept)
    BY <1>a, <1>b, <2>4, <2>6, AtLeastTrans
  <2>10. pc # "down" /\ Current # None => AtLeast(live', Current.rec)
    BY <1>a, <1>b, <2>4, <2>6, AtLeastTrans, FileTypes
  <2>11. pc \in Calls => AtLeast(live', flight.rec)
    BY <1>a, <1>b, <2>4, <2>6, AtLeastTrans DEF JournalInv, Typed
  <2> QED BY <1>a, <2>1, <2>2, <2>5, <2>8, <2>9, <2>10, <2>11
<1>3. ASSUME StartBatch PROVE Growing'
  <2>1. /\ UNCHANGED <<live, clock, written, kept>> /\ flight'.rec = live /\ pc # "down"
    BY <1>3 DEF StartBatch, Idle, history, bounds
  <2>2. Current' = Current
    BY <1>3, ElsewhereKeeps DEF Elsewhere
  <2>3. AtLeast(live, live)
    BY <1>b, AtLeastSelf
  <2> QED BY <1>a, <2>1, <2>2, <2>3
<1>4. ASSUME Close PROVE Growing'
  <2>1. /\ UNCHANGED <<live, clock, written, kept, flight>> /\ Current' = Current
        /\ (pc # "down" <=> pc' # "down") /\ (pc \in Calls <=> pc' \in Calls)
    BY <1>4, ElsewhereKeeps DEF Elsewhere, Close, history, memory, bounds
  <2> QED BY <1>a, <2>1
<1>5. ASSUME Release PROVE Growing'
  <2>1. UNCHANGED <<live, clock, written>> /\ pc' = "down"
    BY <1>5 DEF Release, bounds, history
  <2> QED BY <1>a, <2>1 DEF Calls, Compaction
<1>6. ASSUME Prepare PROVE Growing'
  <2>1. /\ UNCHANGED <<live, clock, written, kept, flight>> /\ Current' = Current
        /\ pc # "down" /\ pc \in Calls
    BY <1>6, PrepareKeeps DEF Prepare, Calls
  <2> QED BY <1>a, <2>1
<1>7. ASSUME RepairSync PROVE Growing'
  <2>1. /\ UNCHANGED <<live, clock, written, kept, flight>> /\ Current' = Current
        /\ pc # "down" /\ pc \in Calls
    BY <1>7, PrepareKeeps DEF RepairSync, Calls
  <2> QED BY <1>a, <2>1
<1>8. ASSUME DirSync PROVE Growing'
  <2>1. /\ UNCHANGED <<live, clock, written, kept, flight>> /\ Current' = Current
        /\ pc # "down" /\ pc \in Calls
    BY <1>8, PrepareKeeps DEF DirSync, Calls
  <2> QED BY <1>a, <2>1
<1>9. ASSUME AppendInitial PROVE Growing'
  <2>1. /\ UNCHANGED <<live, clock, kept, flight>> /\ pc # "down" /\ pc \in Calls
        /\ written' = written \cup {[seq |-> 0, rec |-> flight.rec]}
    BY <1>9 DEF AppendInitial, Calls, bounds
  <2>2. Current' = Current
    BY <1>9, ElsewhereKeeps DEF Elsewhere
  <2>3. \A g \in Fields : flight.rec[g] <= clock
    BY <1>c, <2>1
  <2> QED BY <1>a, <2>1, <2>2, <2>3
<1>10. ASSUME AppendNothing PROVE Growing'
  <2>1. /\ UNCHANGED <<live, clock, written>> /\ pc # "down" /\ pc' = "ready" /\ kept' = prev.rec
        /\ prev # None /\ pc \in Prepared
    BY <1>10 DEF AppendNothing, Settle, bounds, Prepared
  <2>2. Current' = Current /\ Current = prev
    BY <1>10, <2>1, ElsewhereKeeps DEF Elsewhere, Current
  <2> QED BY <1>a, <2>1, <2>2 DEF Calls, Compaction
<1>11. ASSUME AppendTruncate PROVE Growing'
  <2>1. /\ UNCHANGED <<live, clock, kept, flight, prev>> /\ pc # "down" /\ pc \in Calls
        /\ written' = written \cup {[seq |-> prev.seq + 1, rec |-> flight.rec]}
    BY <1>11 DEF AppendTruncate, Calls, bounds
  <2>2. Current' = Current
    BY <1>11, <2>1, WriteKeeps
  <2>3. \A g \in Fields : flight.rec[g] <= clock
    BY <1>c, <2>1
  <2> QED BY <1>a, <2>1, <2>2, <2>3
<1>12. ASSUME AppendWrite PROVE Growing'
  <2>1. /\ UNCHANGED <<live, clock, written>> /\ pc # "down" /\ pc \in Calls
        /\ kept' \in {kept, flight.rec}
        /\ prev' \in {prev, [seq |-> prev.seq + 1, rec |-> flight.rec]}
        /\ pc' \in Calls => flight' = flight /\ kept' = kept
    BY <1>12 DEF AppendWrite, Commit, Settle, bounds, Calls, Compaction
  <2>2. Current' = prev' /\ Current = prev /\ flight.rec \in Record
    BY <1>12, <2>1, WriteKeeps
  <2>3. AtLeast(flight.rec, flight.rec)
    BY <2>2, AtLeastSelf
  <2>4. prev # None
    BY <1>12 DEF JournalInv, Typed, AppendWrite
  <2> QED BY <1>a, <2>1, <2>2, <2>3, <2>4
<1>13. ASSUME AppendSync PROVE Growing'
  <2>1. /\ UNCHANGED <<live, clock, written>> /\ pc # "down" /\ pc \in Calls
        /\ kept' \in {kept, flight.rec}
        /\ prev' \in {prev, [seq |-> prev.seq + 1, rec |-> flight.rec]}
        /\ pc' \in Calls => flight' = flight /\ kept' = kept
    BY <1>13 DEF AppendSync, Commit, Settle, bounds, Calls, Compaction
  <2>2. Current' = prev' /\ Current = prev /\ flight.rec \in Record
    BY <1>13, <2>1, WriteKeeps
  <2>3. AtLeast(flight.rec, flight.rec)
    BY <2>2, AtLeastSelf
  <2>4. prev # None
    BY <1>13 DEF JournalInv, Typed, AppendSync
  <2> QED BY <1>a, <2>1, <2>2, <2>3, <2>4
<1>14. ASSUME CompactRename PROVE Growing'
  <2>1. UNCHANGED <<live, clock, written, kept, flight, prev>> /\ pc # "down" /\ pc \in Calls
    BY <1>14 DEF CompactRename, history, bounds, Calls, Compaction
  <2>2. Current' = Current
    BY <1>14, <2>1, WriteKeeps
  <2> QED BY <1>a, <2>1, <2>2
<1>15. ASSUME CompactSync PROVE Growing'
  <2>1. UNCHANGED <<live, clock, written, kept, flight, prev>> /\ pc # "down" /\ pc \in Calls
    BY <1>15 DEF CompactSync, history, bounds, Calls, Compaction
  <2>2. Current' = Current
    BY <1>15, <2>1, WriteKeeps
  <2> QED BY <1>a, <2>1, <2>2
<1>16. ASSUME CompactTruncate PROVE Growing'
  <2>1. UNCHANGED <<live, clock, written, kept, flight, prev>> /\ pc # "down" /\ pc \in Calls
    BY <1>16 DEF CompactTruncate, history, bounds, Calls, Compaction
  <2>2. Current' = Current
    BY <1>16, <2>1, WriteKeeps
  <2> QED BY <1>a, <2>1, <2>2
<1>17. ASSUME CompactDone PROVE Growing'
  <2>1. /\ UNCHANGED <<live, clock, written>> /\ pc # "down" /\ pc' = "ready" /\ pc \in Calls
        /\ kept' = Compacted.rec /\ prev' = Compacted
    BY <1>17 DEF CompactDone, Settle, bounds, Calls, Compaction
  <2>2. Current' = Compacted /\ Current = prev
    BY <1>17, <2>1, WriteKeeps
  <2>3. AtLeast(live, Compacted.rec)
    BY <1>a, <2>1, <2>2 DEF Compacted
  <2> QED BY <1>a, <2>1, <2>2, <2>3 DEF Calls, Compaction
<1>18. ASSUME NEW error \in Errors, Fail(error) PROVE Growing'
  <2>1. /\ UNCHANGED <<live, clock, written, kept>> /\ pc # "down" /\ pc \in Calls
        /\ pc' \in Calls => flight' = [flight EXCEPT !.attempt = flight.attempt + 1]
    BY <1>18 DEF Fail, Calls, Compaction, history
  <2>2. Current' = Current
    BY <1>18, ElsewhereKeeps DEF Elsewhere
  <2>3. pc' \in Calls => flight'.rec = flight.rec
    BY <2>1 DEF JournalInv, Typed
  <2> QED BY <1>a, <2>1, <2>2, <2>3
<1>19. ASSUME Crash PROVE Growing'
  <2>1. UNCHANGED <<live, clock, written>> /\ pc' = "down"
    BY <1>19 DEF Crash, history
  <2> QED BY <1>a, <2>1 DEF Calls, Compaction
<1>20. ASSUME PowerLoss PROVE Growing'
  <2>1. UNCHANGED <<live, clock, written>> /\ pc' = "down"
    BY <1>20 DEF PowerLoss, history
  <2> QED BY <1>a, <2>1 DEF Calls, Compaction
<1>21. ASSUME NEW r \in Readers, ReadSnapshot(r) \/ ReadJournal(r) \/ ReadAgain(r)
       PROVE  Growing'
  <2>1. /\ UNCHANGED <<live, clock, written, kept, flight>> /\ Current' = Current
        /\ (pc # "down" <=> pc' # "down") /\ (pc \in Calls <=> pc' \in Calls)
    BY <1>21, ElsewhereKeeps DEF Elsewhere, ReadSnapshot, ReadJournal, ReadAgain, history,
                                 memory, bounds
  <2> QED BY <1>a, <2>1
<1>22. ASSUME UNCHANGED vars PROVE Growing'
  <2>1. /\ UNCHANGED <<live, clock, written, kept, flight>> /\ Current' = Current
        /\ (pc # "down" <=> pc' # "down") /\ (pc \in Calls <=> pc' \in Calls)
    BY <1>22, ElsewhereKeeps DEF Elsewhere, vars, history, memory, bounds
  <2> QED BY <1>a, <2>1
<1> QED BY <1>1, <1>2, <1>3, <1>4, <1>5, <1>6, <1>7, <1>8, <1>9, <1>10, <1>11, <1>12,
          <1>13, <1>14, <1>15, <1>16, <1>17, <1>18, <1>19, <1>20, <1>21, <1>22 DEF Next, Write

\* A batch brings a change, or finds it committed.
LEMMA FreshStep ==
  ASSUME JournalInv, [Next]_vars
  PROVE  Fresh'
PROOF
<1> USE DEF Fresh
<1>a. Fresh
  BY DEF JournalInv
<1>1. ASSUME Open PROVE Fresh'
  <2>1. pending' = None /\ pc' = "unprepared"
    BY <1>1 DEF Open, JournalInv, Typed
  <2> QED BY <2>1 DEF Calls, Prepared, Preparing, Compaction
<1>2. ASSUME NEW f \in Fields, NEW durable \in BOOLEAN, Save(f, durable) PROVE Fresh'
  <2>1. /\ UNCHANGED <<flight, pc, prev, bytes, snapLag, log, logLag>> /\ clock' = clock + 1
        /\ live' = [live EXCEPT ![f] = clock + 1] /\ ~closed
    BY <1>2 DEF Save, files
  <2>2. Current' = Current
    BY <1>2, ElsewhereKeeps DEF Elsewhere
  <2>3. /\ live'[f] = clock + 1 /\ pc # "down"
        /\ live[f] \in Nat /\ clock \in Nat /\ live[f] <= clock
    BY <2>1, JournalAssumption DEF JournalInv, Typed, TypeOK, Record, Growing
  <2>4. ASSUME NEW r \in Record, AtLeast(live, r) PROVE live' # r
    <3>1. r[f] \in Nat /\ live[f] >= r[f]
      BY <2>4, JournalAssumption DEF Record, AtLeast
    <3> QED BY <2>3, <3>1
  <2>5. Current # None => live' # Current.rec
    BY <2>3, <2>4, FileTypes DEF JournalInv, Growing
  <2>6. pc \in Calls => live' # flight.rec
    BY <2>3, <2>4 DEF JournalInv, Typed, Growing
  <2> QED BY <1>a, <2>1, <2>2, <2>5, <2>6
<1>3. ASSUME StartBatch PROVE Fresh'
  <2>1. /\ pending' = None /\ pending # None /\ flight'.rec = live
        /\ UNCHANGED <<prev>> /\ ((pc' = "append" /\ pc \in Prepared) \/ pc' = "prepare")
    BY <1>3 DEF StartBatch, Idle, Prepared
  <2>2. Current' = Current
    BY <1>3, ElsewhereKeeps DEF Elsewhere
  <2>3. Current # None => live # Current.rec
    BY <1>a, <2>1
  <2> QED BY <2>1, <2>2, <2>3 DEF Current, Prepared, Preparing, Compaction
<1>4. ASSUME Close PROVE Fresh'
  <2>1. /\ UNCHANGED <<pending, live, flight, pc, prev, bytes, snapLag, log, logLag>>
        /\ Current' = Current
    BY <1>4, ElsewhereKeeps DEF Elsewhere, Close, memory, files
  <2> QED BY <1>a, <2>1
<1>5. ASSUME Release PROVE Fresh'
  <2>1. pending' = None /\ pc' = "down"
    BY <1>5 DEF Release
  <2> QED BY <2>1 DEF Calls, Prepared, Preparing, Compaction
<1>6. ASSUME Prepare PROVE Fresh'
  <2>1. /\ UNCHANGED <<pending, live, flight>> /\ Current' = Current /\ pc' \in Preparing
        /\ pc \in {"prepare"} \cup Preparing
    BY <1>6, PrepareKeeps DEF Prepare, Preparing
  <2> QED BY <1>a, <2>1 DEF Preparing, Prepared, Calls, Compaction
<1>7. ASSUME RepairSync PROVE Fresh'
  <2>1. /\ UNCHANGED <<pending, live, flight>> /\ Current' = Current /\ pc' \in Preparing
        /\ pc \in {"prepare"} \cup Preparing
    BY <1>7, PrepareKeeps DEF RepairSync, Preparing
  <2> QED BY <1>a, <2>1 DEF Preparing, Prepared, Calls, Compaction
<1>8. ASSUME DirSync PROVE Fresh'
  <2>1. /\ UNCHANGED <<pending, live, flight>> /\ Current' = Current /\ pc' = "append"
        /\ pc \in Calls /\ pc \in Preparing /\ prev' = OnFiles /\ OnFiles = prev /\ Current = prev
    BY <1>8, PrepareKeeps DEF DirSync, Preparing, Calls, JournalInv, Viewed, Current
  <2> QED BY <1>a, <2>1 DEF Preparing
<1>9. ASSUME AppendInitial PROVE Fresh'
  <2>1. /\ UNCHANGED <<pending, live, flight, prev>> /\ prev = None /\ pc \in Calls
        /\ pc' = "rename"
    BY <1>9 DEF AppendInitial, Calls
  <2>2. Current' = Current
    BY <1>9, ElsewhereKeeps DEF Elsewhere
  <2> QED BY <1>a, <2>1, <2>2 DEF Preparing
<1>10. ASSUME AppendNothing PROVE Fresh'
  <2>1. UNCHANGED <<pending, live>> /\ pc' = "ready"
    BY <1>10 DEF AppendNothing, Settle
  <2>2. Current' = Current
    BY <1>10, ElsewhereKeeps DEF Elsewhere
  <2> QED BY <1>a, <2>1, <2>2 DEF Calls, Preparing, Compaction
<1>11. ASSUME AppendTruncate PROVE Fresh'
  <2>1. /\ UNCHANGED <<pending, live, flight, prev>> /\ pc \in Calls
        /\ pc' = "write" /\ prev.rec # flight.rec
    BY <1>11 DEF AppendTruncate, Calls, Changed
  <2>2. Current' = Current
    BY <1>11, <2>1, WriteKeeps
  <2> QED BY <1>a, <2>1, <2>2 DEF Preparing
<1>12. ASSUME AppendWrite PROVE Fresh'
  <2>1. /\ UNCHANGED <<pending, live>> /\ pc \in Calls /\ pc = "write"
        /\ \/ pc' = "sync" /\ UNCHANGED <<flight, prev>>
           \/ /\ ~flight.durable /\ pc' \in {"rename", "ready"} /\ bytes' = bytes + 1
              /\ (pc' = "rename" => flight' = flight)
              /\ prev' = [seq |-> prev.seq + 1, rec |-> flight.rec]
        /\ log' = [entries |-> Append(log.entries, Entry(prev, flight.rec)), torn |-> FALSE]
    BY <1>12 DEF AppendWrite, SetLog, Calls, Commit, Settle
  <2>2. Current' = prev' /\ Current = prev
    BY <1>12, WriteKeeps
  <2>3. Len(log'.entries) = bytes + 1
    BY <2>1, NextLog, NextLine
  <2>4. prev.rec # flight.rec
    BY <2>1 DEF JournalInv, Writing
  <2> QED BY <1>a, <2>1, <2>2, <2>3, <2>4 DEF Preparing, Calls, Compaction
<1>13. ASSUME AppendSync PROVE Fresh'
  <2>1. /\ UNCHANGED <<pending, live, log, snapLag>> /\ pc \in Calls /\ pc = "sync"
        /\ logLag' = {log}
        /\ pc' \in {"rename", "ready"} /\ bytes' = bytes + 1
        /\ (pc' = "rename" => flight' = flight)
        /\ prev' = [seq |-> prev.seq + 1, rec |-> flight.rec]
    BY <1>13 DEF AppendSync, Calls, Commit, Settle
  <2>2. Current' = prev' /\ Current = prev /\ flight.rec \in Record
    BY <1>13, WriteKeeps
  <2>3. Len(log.entries) = bytes + 1 /\ \A s \in snapLag : Replay(s, log) = prev'
    BY <2>1, SyncedLog, NextLine
  <2>4. AtLeast(prev'.rec, prev'.rec)
    BY <2>1, <2>2, AtLeastSelf
  <2> QED BY <1>a, <2>1, <2>2, <2>3, <2>4 DEF Preparing, Calls, Compaction
<1>14. ASSUME CompactRename PROVE Fresh'
  <2>1. /\ UNCHANGED <<pending, live, flight, prev, bytes, log, logLag>> /\ pc \in Compaction
        /\ snapLag' = snapLag \cup {Compacted} /\ pc' = "snapSync"
    BY <1>14 DEF CompactRename, SetSnap, Compaction
  <2>2. Current' = Current /\ pc \in Prepared \cap Calls
    BY <1>14, WriteKeeps, <2>1
  <2>3. /\ \A j \in logLag : Replay(Compacted, j) = Compacted
        /\ AtLeast(Compacted.rec, Compacted.rec)
    BY <2>1, SuccessorYields, AtLeastSelf
  <2>4. prev # None => Compacted = prev
    BY DEF Compacted
  <2> QED BY <1>a, <2>1, <2>2, <2>3, <2>4 DEF Preparing
<1>15. ASSUME CompactSync PROVE Fresh'
  <2>1. /\ UNCHANGED <<pending, live, flight, prev, bytes, log>> /\ pc \in Compaction
        /\ snapLag' \subseteq snapLag /\ logLag' \subseteq logLag /\ pc' = "truncate"
    BY <1>15 DEF CompactSync, Compaction, JournalInv, Typed, TypeOK
  <2>2. Current' = Current /\ pc \in Prepared \cap Calls
    BY <1>15, WriteKeeps, <2>1
  <2> QED BY <1>a, <2>1, <2>2 DEF Preparing
<1>16. ASSUME CompactTruncate PROVE Fresh'
  <2>1. /\ UNCHANGED <<pending, live, flight, prev, snapLag>> /\ pc \in Compaction /\ log' = Empty
        /\ logLag' = logLag \cup {Empty} /\ pc' = "truncSync" /\ bytes' = 0
        /\ snapLag = {Compacted}
    BY <1>16 DEF CompactTruncate, SetLog, Compaction, JournalInv, Writing
  <2>2. Current' = Current /\ pc \in Prepared \cap Calls
    BY <1>16, WriteKeeps, <2>1
  <2>3. /\ \A j \in logLag : Replay(Compacted, j) = Compacted
        /\ AtLeast(Compacted.rec, Compacted.rec)
    BY <2>1, SuccessorYields, AtLeastSelf
  <2>4. Replay(Compacted, Empty) = Compacted /\ Len(Empty.entries) = 0
    BY <2>1, SuccessorYields, EmptyLog, ReplayNothing
  <2>5. prev # None => Compacted = prev
    BY DEF Compacted
  <2> QED BY <1>a, <2>1, <2>2, <2>3, <2>4, <2>5 DEF Preparing
<1>17. ASSUME CompactDone PROVE Fresh'
  <2>1. /\ UNCHANGED <<pending, live>> /\ pc' = "ready" /\ pc \in Calls /\ prev' = Compacted
    BY <1>17 DEF CompactDone, Settle, Calls, Compaction
  <2>2. Current' = Compacted /\ Current = prev
    BY <1>17, WriteKeeps, <2>1
  <2>3. pending # None => live # Compacted.rec
    BY <1>a, <2>1, <2>2 DEF Compacted
  <2> QED BY <2>1, <2>2, <2>3 DEF Calls, Preparing, Compaction
<1>18. ASSUME NEW error \in Errors, Fail(error) PROVE Fresh'
  <2>1. /\ UNCHANGED <<pending, live, prev, bytes, snapLag, log, logLag>> /\ pc \in Calls
        /\ \/ /\ flight' = [flight EXCEPT !.attempt = flight.attempt + 1]
              /\ \/ pc' = "append" /\ pc \in Prepared
                 \/ pc' = "prepare" /\ pc \in {"prepare"} \cup Preparing
           \/ pc' \in {"ready", "unprepared"}
    BY <1>18 DEF Fail, files, Calls, Prepared, Preparing
  <2>2. Current' = Current
    BY <1>18, ElsewhereKeeps DEF Elsewhere
  <2>3. pc' \in Calls => flight'.rec = flight.rec /\ flight'.durable = flight.durable
    BY <2>1 DEF JournalInv, Typed, Calls, Compaction
  <2> QED BY <1>a, <2>1, <2>2, <2>3 DEF Calls, Prepared, Preparing, Compaction
<1>19. ASSUME Crash PROVE Fresh'
  <2>1. pending' = None /\ pc' \notin Calls /\ pc' \notin Preparing
    BY <1>19 DEF Crash, Calls, Preparing, Compaction
  <2> QED BY <2>1 DEF Calls
<1>20. ASSUME PowerLoss PROVE Fresh'
  <2>1. pending' = None /\ pc' \notin Calls /\ pc' \notin Preparing
    BY <1>20 DEF PowerLoss, Calls, Preparing, Compaction
  <2> QED BY <2>1 DEF Calls
<1>21. ASSUME NEW r \in Readers, ReadSnapshot(r) \/ ReadJournal(r) \/ ReadAgain(r)
       PROVE  Fresh'
  <2>1. /\ UNCHANGED <<pending, live, flight, pc, prev, bytes, snapLag, log, logLag>>
        /\ Current' = Current
    BY <1>21, ElsewhereKeeps DEF Elsewhere, ReadSnapshot, ReadJournal, ReadAgain, memory, files
  <2> QED BY <1>a, <2>1
<1>22. ASSUME UNCHANGED vars PROVE Fresh'
  <2>1. /\ UNCHANGED <<pending, live, flight, pc, prev, bytes, snapLag, log, logLag>>
        /\ Current' = Current
    BY <1>22, ElsewhereKeeps DEF Elsewhere, vars, memory, files
  <2> QED BY <1>a, <2>1
<1> QED BY <1>1, <1>2, <1>3, <1>4, <1>5, <1>6, <1>7, <1>8, <1>9, <1>10, <1>11, <1>12,
          <1>13, <1>14, <1>15, <1>16, <1>17, <1>18, <1>19, <1>20, <1>21, <1>22 DEF Next, Write

\* Every new snapshot has a higher seq than the last, unless the first one's calls fail.
LEMMA ReplacingStep ==
  ASSUME JournalInv, Replacing, "initial" \notin FailAt, [Next]_vars
  PROVE  Replacing'
PROOF
<1> USE DEF Replacing
<1>a. Replacing
  OBVIOUS
<1>b. "initial" \notin FailAt
  OBVIOUS
<1>1. ASSUME Open PROVE Replacing'
  BY <1>1 DEF Open, Prepared, Compaction
<1>2. ASSUME NEW f \in Fields, NEW durable \in BOOLEAN, Save(f, durable) PROVE Replacing'
  <2>1. /\ UNCHANGED <<prev, snap>> /\ (pc' = "rename" => pc = "rename")
        /\ pc' \in Prepared => pc \in Prepared
        /\ pc \in {"snapSync", "truncate", "truncSync"} /\ pc' \in Prepared /\ prev = None =>
             pc' \in {"snapSync", "truncate", "truncSync"}
    BY <1>2, <1>b DEF Save, files, Prepared, Compaction, Calls
  <2> QED BY <1>a, <2>1
<1>3. ASSUME StartBatch PROVE Replacing'
  <2>1. /\ UNCHANGED <<prev, snap>> /\ (pc' = "rename" => pc = "rename")
        /\ pc' \in Prepared => pc \in Prepared
        /\ pc \in {"snapSync", "truncate", "truncSync"} /\ pc' \in Prepared /\ prev = None =>
             pc' \in {"snapSync", "truncate", "truncSync"}
    BY <1>3, <1>b DEF StartBatch, Idle, files, Prepared, Compaction, Calls
  <2> QED BY <1>a, <2>1
<1>4. ASSUME Close PROVE Replacing'
  <2>1. /\ UNCHANGED <<prev, snap>> /\ (pc' = "rename" => pc = "rename")
        /\ pc' \in Prepared => pc \in Prepared
        /\ pc \in {"snapSync", "truncate", "truncSync"} /\ pc' \in Prepared /\ prev = None =>
             pc' \in {"snapSync", "truncate", "truncSync"}
    BY <1>4, <1>b DEF Close, files, Prepared, Compaction, Calls
  <2> QED BY <1>a, <2>1
<1>5. ASSUME Release PROVE Replacing'
  BY <1>5 DEF Release, Prepared, Compaction
<1>6. ASSUME Prepare PROVE Replacing'
  BY <1>6 DEF Prepare, Prepared, Compaction
<1>7. ASSUME RepairSync PROVE Replacing'
  BY <1>7 DEF RepairSync, Prepared, Compaction
<1>8. ASSUME DirSync PROVE Replacing'
  <2>1. pc' = "append" /\ prev' = OnFiles /\ snap' = snap
    BY <1>8, PrepareKeeps DEF DirSync
  <2>2. OnFiles = None => snap = None
    BY NoneIsNothing DEF OnFiles, JournalInv, Recoverable, Yields, Typed, TypeOK
  <2> QED BY <2>1, <2>2
<1>9. ASSUME AppendInitial PROVE Replacing'
  <2>1. UNCHANGED <<prev, snap>> /\ prev = None /\ pc = "append"
    BY <1>9 DEF AppendInitial, files
  <2> QED BY <1>a, <2>1 DEF Prepared
<1>10. ASSUME AppendNothing PROVE Replacing'
  <2>1. prev # None /\ prev' = prev /\ pc' # "rename"
    BY <1>10 DEF AppendNothing, Settle, JournalInv, Typed
  <2> QED BY <2>1
<1>11. ASSUME AppendTruncate PROVE Replacing'
  <2>1. prev # None /\ prev' = prev /\ pc' # "rename"
    BY <1>11 DEF AppendTruncate, JournalInv, Typed
  <2> QED BY <2>1
<1>12. ASSUME AppendWrite PROVE Replacing'
  <2>1. /\ snap' = snap /\ prev # None
        /\ \/ prev' = prev /\ pc' = "sync"
           \/ prev' = [seq |-> prev.seq + 1, rec |-> flight.rec]
    BY <1>12 DEF AppendWrite, Commit, JournalInv, Typed
  <2>2. pc \in Prepared /\ flight.rec \in Record
    BY <1>12, WriteKeeps
  <2>3. prev \in States /\ snap \in States /\ snap.seq <= prev.seq
    BY <2>1, <2>2, CommittedYields
  <2>4. snap.seq \in Nat /\ prev.seq \in Nat /\ snap.seq < prev.seq + 1
    BY <2>3 DEF States
  <2>5. [seq |-> prev.seq + 1, rec |-> flight.rec] # None
    BY <2>2, <2>3, <2>4, NoneIsNothing DEF States
  <2> QED BY <2>1, <2>4, <2>5
<1>13. ASSUME AppendSync PROVE Replacing'
  <2>1. /\ snap' = snap /\ prev # None
        /\ \/ prev' = prev /\ pc' = "sync"
           \/ prev' = [seq |-> prev.seq + 1, rec |-> flight.rec]
    BY <1>13 DEF AppendSync, Commit, JournalInv, Typed
  <2>2. pc \in Prepared /\ flight.rec \in Record
    BY <1>13, WriteKeeps
  <2>3. prev \in States /\ snap \in States /\ snap.seq <= prev.seq
    BY <2>1, <2>2, CommittedYields
  <2>4. snap.seq \in Nat /\ prev.seq \in Nat /\ snap.seq < prev.seq + 1
    BY <2>3 DEF States
  <2>5. [seq |-> prev.seq + 1, rec |-> flight.rec] # None
    BY <2>2, <2>3, <2>4, NoneIsNothing DEF States
  <2> QED BY <2>1, <2>4, <2>5
<1>14. ASSUME CompactRename PROVE Replacing'
  BY <1>14 DEF CompactRename, Prepared, Compaction
<1>15. ASSUME CompactSync PROVE Replacing'
  BY <1>15 DEF CompactSync, Prepared, Compaction
<1>16. ASSUME CompactTruncate PROVE Replacing'
  BY <1>16 DEF CompactTruncate, Prepared, Compaction
<1>17. ASSUME CompactDone PROVE Replacing'
  <2>1. prev' # None /\ pc' # "rename"
    BY <1>17, SuccessorYields DEF CompactDone, Settle, Compaction
  <2> QED BY <2>1
<1>18. ASSUME NEW error \in Errors, Fail(error) PROVE Replacing'
  <2>1. /\ UNCHANGED <<prev, snap>> /\ (pc' = "rename" => pc = "rename")
        /\ pc' \in Prepared => pc \in Prepared
        /\ pc \in {"snapSync", "truncate", "truncSync"} /\ pc' \in Prepared /\ prev = None =>
             pc' \in {"snapSync", "truncate", "truncSync"}
    BY <1>18, <1>b DEF Fail, files, Prepared, Compaction, Calls
  <2> QED BY <1>a, <2>1
<1>19. ASSUME Crash PROVE Replacing'
  BY <1>19 DEF Crash, Prepared, Compaction
<1>20. ASSUME PowerLoss PROVE Replacing'
  BY <1>20 DEF PowerLoss, Prepared, Compaction
<1>21. ASSUME NEW r \in Readers, ReadSnapshot(r) \/ ReadJournal(r) \/ ReadAgain(r)
       PROVE  Replacing'
  <2>1. /\ UNCHANGED <<prev, snap>> /\ (pc' = "rename" => pc = "rename")
        /\ pc' \in Prepared => pc \in Prepared
        /\ pc \in {"snapSync", "truncate", "truncSync"} /\ pc' \in Prepared /\ prev = None =>
             pc' \in {"snapSync", "truncate", "truncSync"}
    BY <1>21, <1>b DEF ReadSnapshot, ReadJournal, ReadAgain, memory, files, Prepared,
                       Compaction, Calls
  <2> QED BY <1>a, <2>1
<1>22. ASSUME UNCHANGED vars PROVE Replacing'
  <2>1. /\ UNCHANGED <<prev, snap>> /\ (pc' = "rename" => pc = "rename")
        /\ pc' \in Prepared => pc \in Prepared
        /\ pc \in {"snapSync", "truncate", "truncSync"} /\ pc' \in Prepared /\ prev = None =>
             pc' \in {"snapSync", "truncate", "truncSync"}
    BY <1>22, <1>b DEF vars, memory, files, Prepared, Compaction, Calls
  <2> QED BY <1>a, <2>1
<1> QED BY <1>1, <1>2, <1>3, <1>4, <1>5, <1>6, <1>7, <1>8, <1>9, <1>10, <1>11, <1>12,
          <1>13, <1>14, <1>15, <1>16, <1>17, <1>18, <1>19, <1>20, <1>21, <1>22 DEF Next, Write

\* Where the snapshot stays and no acknowledged change is lost, readers are not disturbed.
LEMMA ReadingKept ==
  ASSUME Reading, UNCHANGED <<rd, snap>>, written \subseteq written', written' \subseteq States,
         kept \in Record, kept' \in Record, kept' = kept \/ AtLeast(kept', kept)
  PROVE  Reading'
<1>1. AtLeast(kept', kept)
  BY AtLeastSelf
<1>2. ASSUME NEW r \in Readers PROVE Reader(r)'
  <2>1. rd[r] \in Progress /\ Reader(r)
    BY DEF Reading
  <2>2. CASE rd[r].at = "idle"
    BY <2>2 DEF Reader
  <2>3. CASE rd[r].at # "idle"
    <3>1. /\ rd[r].first \in States /\ rd[r].text \in Logs \cup {None} /\ rd[r].since \in Record
          /\ AtLeast(kept, rd[r].since)
      BY <2>1, <2>3 DEF Reader, Progress
    <3>2. AtLeast(kept', rd[r].since)
      BY <1>1, <3>1, AtLeastTrans
    <3>3. ASSUME Yields(rd[r].first, rd[r].text, rd[r].since, written)
          PROVE  Yields(rd[r].first, rd[r].text, rd[r].since, written')
      <4>1. written \in SUBSET States /\ written' \in SUBSET States
        OBVIOUS
      <4>2. AtLeast(rd[r].since, rd[r].since)
        BY <3>1, AtLeastSelf
      <4> QED BY <3>1, <3>3, <4>1, <4>2, YieldsLess
    <3> QED BY <2>1, <2>3, <3>2, <3>3 DEF Reader
  <2> QED BY <2>2, <2>3
<1> QED BY <1>2 DEF Reading

\* Nobody reads a mixture of two states.
LEMMA ReadingStep ==
  ASSUME JournalInv, Replacing, Reading, [Next]_vars
  PROVE  Reading'
PROOF
<1> USE DEF Reading
<1>a. Reading
  OBVIOUS
<1>b. /\ kept \in Record /\ kept' \in Record /\ written \subseteq States
      /\ written' \subseteq States
      /\ AtLeast(kept, kept)
  BY TypedStep, AtLeastSelf DEF JournalInv, Typed, TypeOK
<1>1. ASSUME Open PROVE Reading'
  <2>1. UNCHANGED <<rd, snap>> /\ kept' = kept /\ written \subseteq written'
    BY <1>1 DEF Open, files, history, bounds
  <2> QED BY <1>a, <1>b, <2>1, ReadingKept
<1>2. ASSUME NEW f \in Fields, NEW durable \in BOOLEAN, Save(f, durable) PROVE Reading'
  <2>1. UNCHANGED <<rd, snap>> /\ kept' = kept /\ written \subseteq written'
    BY <1>2 DEF Save, files, history, bounds
  <2> QED BY <1>a, <1>b, <2>1, ReadingKept
<1>3. ASSUME StartBatch PROVE Reading'
  <2>1. UNCHANGED <<rd, snap>> /\ kept' = kept /\ written \subseteq written'
    BY <1>3 DEF StartBatch, files, history, bounds
  <2> QED BY <1>a, <1>b, <2>1, ReadingKept
<1>4. ASSUME Close PROVE Reading'
  <2>1. UNCHANGED <<rd, snap>> /\ kept' = kept /\ written \subseteq written'
    BY <1>4 DEF Close, files, history, bounds
  <2> QED BY <1>a, <1>b, <2>1, ReadingKept
<1>5. ASSUME Release PROVE Reading'
  <2>1. UNCHANGED <<rd, snap>> /\ kept' = kept /\ written \subseteq written'
    BY <1>5 DEF Release, files, history, bounds
  <2> QED BY <1>a, <1>b, <2>1, ReadingKept
<1>6. ASSUME Prepare PROVE Reading'
  <2>1. UNCHANGED <<rd, snap>> /\ kept' = kept /\ written \subseteq written'
    BY <1>6, PrepareKeeps DEF Prepare
  <2> QED BY <1>a, <1>b, <2>1, ReadingKept
<1>7. ASSUME RepairSync PROVE Reading'
  <2>1. UNCHANGED <<rd, snap>> /\ kept' = kept /\ written \subseteq written'
    BY <1>7, PrepareKeeps DEF RepairSync
  <2> QED BY <1>a, <1>b, <2>1, ReadingKept
<1>8. ASSUME DirSync PROVE Reading'
  <2>1. UNCHANGED <<rd, snap>> /\ kept' = kept /\ written \subseteq written'
    BY <1>8, PrepareKeeps DEF DirSync
  <2> QED BY <1>a, <1>b, <2>1, ReadingKept
<1>9. ASSUME AppendInitial PROVE Reading'
  <2>1. UNCHANGED <<rd, snap>> /\ kept' = kept /\ written \subseteq written'
    BY <1>9 DEF AppendInitial, files, history, bounds
  <2> QED BY <1>a, <1>b, <2>1, ReadingKept
<1>10. ASSUME AppendNothing PROVE Reading'
  <2>1. UNCHANGED <<rd, snap>> /\ kept' \in {kept, prev.rec} /\ written' = written /\ pc \in Calls
    BY <1>10 DEF AppendNothing, Settle, Commit, files, Calls, Compaction
  <2>2. AtLeast(prev.rec, kept)
    BY <1>10 DEF AppendNothing, JournalInv, Viewed, Prepared
  <2> QED BY <1>a, <1>b, <2>1, <2>2, ReadingKept
<1>11. ASSUME AppendTruncate PROVE Reading'
  <2>1. UNCHANGED <<rd, snap>> /\ kept' = kept /\ written \subseteq written'
    BY <1>11 DEF AppendTruncate, files, history, bounds
  <2> QED BY <1>a, <1>b, <2>1, ReadingKept
<1>12. ASSUME AppendWrite PROVE Reading'
  <2>1. /\ UNCHANGED <<rd, snap>> /\ written' = written /\ pc \in Calls
        /\ kept' \in {kept, flight.rec}
    BY <1>12 DEF AppendWrite, Settle, Commit, files, Calls, Compaction
  <2>2. AtLeast(flight.rec, kept)
    BY <2>1 DEF JournalInv, Growing
  <2> QED BY <1>a, <1>b, <2>1, <2>2, ReadingKept
<1>13. ASSUME AppendSync PROVE Reading'
  <2>1. /\ UNCHANGED <<rd, snap>> /\ written' = written /\ pc \in Calls
        /\ kept' \in {kept, flight.rec}
    BY <1>13 DEF AppendSync, Settle, Commit, files, Calls, Compaction
  <2>2. AtLeast(flight.rec, kept)
    BY <2>1 DEF JournalInv, Growing
  <2> QED BY <1>a, <1>b, <2>1, <2>2, ReadingKept
<1>14. ASSUME CompactRename PROVE Reading'
  <2>1. /\ UNCHANGED <<rd, kept, written>> /\ snap' = Compacted /\ pc = "rename"
        /\ pc \in Compaction /\ pc \in Prepared
    BY <1>14 DEF CompactRename, SetSnap, history, Compaction, Prepared
  <2>2. CASE prev = None
    <3>1. snap = None
      BY <2>1, <2>2 DEF Replacing
    <3> QED BY <1>a, <2>1, <3>1 DEF Reader
  <2>3. CASE prev # None
    <3>1. /\ Compacted = prev /\ snap.seq < prev.seq /\ snap.seq \in Nat /\ prev.seq \in Nat
          /\ Compacted # None
      BY <2>1, <2>3, CommittedYields, NoneIsNothing DEF Compacted, Replacing, States
    <3>2. ASSUME NEW r \in Readers PROVE Reader(r)'
      <4>1. CASE rd[r].at = "idle"
        BY <2>1, <4>1 DEF Reader
      <4>2. CASE rd[r].at # "idle"
        <5>1. rd[r].first.seq <= snap.seq /\ rd[r].first.seq \in Nat /\ Reader(r)
          BY <1>a, <4>2 DEF Reader, Progress, States
        <5>2. rd[r].first.seq < prev.seq /\ rd[r].first.seq # prev.seq
          BY <3>1, <5>1
        <5>3. rd[r].first.seq <= prev.seq
          BY <3>1, <5>1, <5>2
        <5> QED BY <2>1, <3>1, <4>2, <5>1, <5>2, <5>3 DEF Reader
      <4> QED BY <4>1, <4>2
    <3> QED BY <1>a, <2>1, <3>2
  <2> QED BY <2>2, <2>3
<1>15. ASSUME CompactSync PROVE Reading'
  <2>1. UNCHANGED <<rd, snap>> /\ kept' = kept /\ written \subseteq written'
    BY <1>15 DEF CompactSync, files, history, bounds
  <2> QED BY <1>a, <1>b, <2>1, ReadingKept
<1>16. ASSUME CompactTruncate PROVE Reading'
  <2>1. UNCHANGED <<rd, snap>> /\ kept' = kept /\ written \subseteq written'
    BY <1>16 DEF CompactTruncate, files, history, bounds
  <2> QED BY <1>a, <1>b, <2>1, ReadingKept
<1>17. ASSUME CompactDone PROVE Reading'
  <2>1. /\ UNCHANGED <<rd, snap>> /\ written' = written /\ pc \in Calls
        /\ kept' \in {kept, Compacted.rec}
    BY <1>17 DEF CompactDone, Settle, Commit, files, Calls, Compaction
  <2>2. AtLeast(Compacted.rec, kept)
    BY <1>17, SuccessorYields DEF CompactDone, Compaction
  <2> QED BY <1>a, <1>b, <2>1, <2>2, ReadingKept
<1>18. ASSUME NEW error \in Errors, Fail(error) PROVE Reading'
  <2>1. UNCHANGED <<rd, snap>> /\ kept' = kept /\ written \subseteq written'
    BY <1>18 DEF Fail, files, history, bounds
  <2> QED BY <1>a, <1>b, <2>1, ReadingKept
<1>19. ASSUME Crash PROVE Reading'
  <2>1. UNCHANGED <<rd, snap>> /\ kept' = kept /\ written \subseteq written'
    BY <1>19 DEF Crash, files, history, bounds
  <2> QED BY <1>a, <1>b, <2>1, ReadingKept
<1>20. ASSUME PowerLoss PROVE Reading'
  <2>1. rd' = [r \in Readers |-> NotReading]
    BY <1>20 DEF PowerLoss
  <2>2. NotReading \in Progress /\ NotReading.at = "idle"
    BY JournalAssumption DEF NotReading, Progress, Zero, Record
  <2>3. \A r \in Readers : rd'[r].at = "idle"
    BY <2>1, <2>2
  <2>4. \A r \in Readers : Reader(r)'
    BY <2>3 DEF Reader
  <2> QED BY <2>1, <2>2, <2>4
<1>21. ASSUME NEW r \in Readers, ReadSnapshot(r) \/ ReadJournal(r) \/ ReadAgain(r)
       PROVE  Reading'
  <2>1. /\ UNCHANGED <<snap, kept, written>>
        /\ \A q \in Readers : q # r => rd'[q] = rd[q]
    BY <1>21, <1>a DEF ReadSnapshot, ReadJournal, ReadAgain, files, history
  <2>2. \A q \in Readers : q # r => Reader(q)'
    BY <1>a, <2>1 DEF Reader
  <2>3. snap \in States \cup {None} /\ log \in Logs \cup {None}
    BY DEF JournalInv, Typed, TypeOK
  <2>4. CASE ReadSnapshot(r)
    <3> DEFINE now == [at |-> "journal", first |-> snap, text |-> None, since |-> kept]
    <3>1. rd' = [rd EXCEPT ![r] = now] /\ snap # None
      BY <2>4 DEF ReadSnapshot
    <3>2. now \in Progress
      BY <1>b, <2>3 DEF Progress
    <3>3. rd' \in [Readers -> Progress] /\ rd'[r] = now
      BY <1>a, <3>1, <3>2
    <3>4. snap.seq <= snap.seq
      BY <2>3, <3>1 DEF States
    <3>5. Reader(r)'
      BY <1>b, <2>1, <3>1, <3>3, <3>4 DEF Reader
    <3> QED BY <2>2, <3>3, <3>5
  <2>5. CASE ReadJournal(r)
    <3> DEFINE now == [at |-> "again", first |-> rd[r].first, text |-> log, since |-> rd[r].since]
    <3>1. rd[r] \in Progress /\ rd[r].at = "journal" /\ Reader(r)
      BY <1>a, <2>5 DEF ReadJournal
    <3>2. now \in Progress
      BY <2>3, <3>1 DEF Progress
    <3>3. rd' \in [Readers -> Progress] /\ rd'[r] = now
      <4>1. rd' = [rd EXCEPT ![r].at = "again", ![r].text = log]
        BY <2>5 DEF ReadJournal
      <4>2. rd'[r] = now
        BY <1>a, <3>1, <4>1 DEF Progress
      <4> HIDE DEF now
      <4> QED BY <1>a, <2>5, <3>2, <4>2, <2>1, <4>1
    <3>4. ASSUME rd[r].first.seq = snap.seq
          PROVE  Yields(rd[r].first, log, rd[r].since, written)
      <4>1. rd[r].first = snap /\ Yields(snap, log, kept, written) /\ AtLeast(kept, rd[r].since)
        BY <3>1, <3>4 DEF Reader, JournalInv, Recoverable
      <4>2. rd[r].since \in Record
        BY <3>1 DEF Progress
      <4> QED BY <1>b, <2>3, <4>1, <4>2, YieldsLess
    <3>5. Reader(r)'
      BY <2>1, <3>1, <3>3, <3>4 DEF Reader
    <3> QED BY <2>2, <3>3, <3>5
  <2>6. CASE ReadAgain(r)
    <3> DEFINE now == IF snap.seq = rd[r].first.seq THEN [rd[r] EXCEPT !.at = "done"]
                      ELSE NotReading
    <3>1. rd[r] \in Progress /\ rd[r].at = "again" /\ Reader(r)
      BY <1>a, <2>6 DEF ReadAgain
    <3>2. rd' = [rd EXCEPT ![r] = now]
      BY <2>6 DEF ReadAgain
    <3>3. NotReading \in Progress /\ NotReading.at = "idle"
      BY JournalAssumption DEF NotReading, Progress, Zero, Record
    <3>4. [rd[r] EXCEPT !.at = "done"] \in Progress
      BY <3>1 DEF Progress
    <3>5. rd' \in [Readers -> Progress] /\ rd'[r] = now
      BY <1>a, <3>2, <3>3, <3>4
    <3>6. Reader(r)'
      <4>1. CASE snap.seq = rd[r].first.seq
        <5>1. /\ rd'[r].at = "done" /\ rd'[r].first = rd[r].first /\ rd'[r].text = rd[r].text
              /\ rd'[r].since = rd[r].since
          BY <3>1, <3>5, <4>1 DEF Progress
        <5> QED BY <2>1, <3>1, <4>1, <5>1 DEF Reader
      <4>2. CASE snap.seq # rd[r].first.seq
        BY <3>3, <3>5, <4>2 DEF Reader
      <4> QED BY <4>1, <4>2
    <3> QED BY <2>2, <3>5, <3>6
  <2> QED BY <1>21, <2>4, <2>5, <2>6
<1>22. ASSUME UNCHANGED vars PROVE Reading'
  <2>1. UNCHANGED <<rd, snap>> /\ kept' = kept /\ written \subseteq written'
    BY <1>22 DEF vars, files, history, bounds
  <2> QED BY <1>a, <1>b, <2>1, ReadingKept
<1> QED BY <1>1, <1>2, <1>3, <1>4, <1>5, <1>6, <1>7, <1>8, <1>9, <1>10, <1>11, <1>12,
          <1>13, <1>14, <1>15, <1>16, <1>17, <1>18, <1>19, <1>20, <1>21, <1>22 DEF Next, Write

-----------------------------------------------------------------------------
(* The theorems.                                                           *)

LEMMA JournalInit ==
  ASSUME Init
  PROVE  JournalInv
<1> USE DEF Init, Prepared, Preparing, Compaction, Calls, Current, OnFiles
<1>1. Zero \in Record
  BY JournalAssumption DEF Zero, Record
<1>2. ~HasLines(None)
  BY DEF HasLines
<1>3. Typed
  BY <1>1, JournalAssumption DEF Typed, TypeOK
<1>4. Recoverable
  BY <1>1, <1>2, AtLeastSelf DEF Recoverable, Yields
<1>5. Bounded
  BY <1>2 DEF Bounded
<1>6. Viewed /\ Writing /\ Fresh
  BY DEF Viewed, Writing, Fresh
<1>7. Growing
  BY DEF Growing, Zero
<1> QED BY <1>3, <1>4, <1>5, <1>6, <1>7 DEF JournalInv

LEMMA JournalStep ==
  ASSUME JournalInv, [Next]_vars
  PROVE  JournalInv'
PROOF BY TypedStep, RecoverableStep, BoundedStep, ViewedStep, WritingStep, GrowingStep, FreshStep
      DEF JournalInv

\* The writer's view of its files, and what every kill and every loss of power leaves, are
\* as JournalInv says after every step of openFileOwnedRun, JournalWriter and
\* writeCheckpoint, whichever of their calls fail.
THEOREM JournalInvariant == Spec => []JournalInv
<1>1. Init => JournalInv
  BY JournalInit
<1>2. JournalInv /\ [Next]_vars => JournalInv'
  BY JournalStep
<1> QED BY <1>1, <1>2, PTL DEF Spec

\* docs/storage.md: whatever was acknowledged is in what the next owner recovers: after a
\* kill all of it, after a loss of power what was flushed, and always a whole state that
\* some batch wrote.
THEOREM AlwaysAcknowledgedSurvives == Spec => []AcknowledgedSurvives
<1>1. ASSUME JournalInv PROVE AcknowledgedSurvives
  <2>1. TypeOK
    BY <1>1 DEF JournalInv, Typed
  <2>2. DurableSurvivesPowerLoss
    BY <1>1, RecoversYields DEF JournalInv, Recoverable, DurableSurvivesPowerLoss
  <2>3. KilledOwnerKeepsAll
    BY <1>1, RecoversYields DEF JournalInv, Recoverable, KilledOwnerKeepsAll
  <2> QED BY <2>1, <2>2, <2>3 DEF AcknowledgedSurvives
<1> QED BY <1>1, JournalInvariant, PTL

\* readJournalRun, without a lock: what it returns is one state that some batch wrote, as
\* new as what had been acknowledged when it began.  It tells an old snapshot from a new
\* one by seq alone, so the first snapshot must not be written twice with seq 0 (the run
\* of JournalInitial.cfg): the theorem is about hosts where its calls do not fail.
THEOREM AlwaysReadsAreConsistent ==
  ASSUME "initial" \notin FailAt
  PROVE  Spec => []ReadsAreConsistent
<1>1. Init => JournalInv /\ Replacing /\ Reading
  <2> SUFFICES ASSUME Init PROVE JournalInv /\ Replacing /\ Reading
    OBVIOUS
  <2>1. Replacing
    BY DEF Init, Replacing
  <2>2. NotReading \in Progress /\ NotReading.at = "idle"
    BY JournalAssumption DEF NotReading, Progress, Zero, Record
  <2>3. Reading
    BY <2>2 DEF Init, Reading, Reader
  <2> QED BY <2>1, <2>3, JournalInit
<1>2. /\ JournalInv /\ Replacing /\ Reading /\ [Next]_vars
      => (JournalInv /\ Replacing /\ Reading)'
  BY JournalStep, ReplacingStep, ReadingStep
<1>3. Reading => ReadsAreConsistent
  BY RecoversYields DEF Reading, Reader, ReadsAreConsistent
<1> QED BY <1>1, <1>2, <1>3, PTL DEF Spec

=============================================================================
