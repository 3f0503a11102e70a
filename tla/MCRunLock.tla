----------------------------- MODULE MCRunLock -----------------------------
EXTENDS RunLock, TLC

CONSTANTS Ghost, Recoverer   \* the dead owner and the dead recoverer

StaleLock == [owner |-> <<Ghost, 0>>, released |-> FALSE, marker |-> None]
ClaimedLock == [StaleLock EXCEPT !.marker = <<Recoverer, 0, 0>>]

FreeOrLeft == {None, StaleLock, ClaimedLock}
OnlyClaimed == {ClaimedLock}
OnlyStale == {StaleLock}

CrashNever == {}
\* A process dies as an owner, or where its marker, or the directory it has moved, is left.
CrashHolding == OwnerSteps \cup {"verify", "recover", "rename", "check", "putBack"}
CrashOwned == {"owned"}

\* Bound of RunLockFinally.cfg: two processes contend until one of them dies in its second
\* command, and only then do the others begin.
Second == {p \in Procs : my[p].session = 2}
Staged ==
  /\ Cardinality({p \in Procs : my[p].session > 0}) > 2 => dead \cap Second # {}
  /\ Cardinality(Second) <= 1 /\ dead \cap Procs \subseteq Second

Symm == Permutations(Procs)
=============================================================================
