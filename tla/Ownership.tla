------------------------------ MODULE Ownership ------------------------------
(***************************************************************************)
(* What the run lock promises, without directories, markers or tombstones: *)
(* at most one owner at a time, and no owner beside a harness child that   *)
(* an earlier owner left running.                                          *)
(***************************************************************************)
CONSTANTS Owners, None

VARIABLES owner, children

Init == owner = None /\ children \in SUBSET Owners

\* Ownership starts only from no owner and no surviving child.
Acquire(t) ==
  /\ owner = None /\ children = {}
  /\ owner' = t
  /\ UNCHANGED children

\* By release, by a refused release, or by dying.
GiveUp ==
  /\ owner # None
  /\ owner' = None
  /\ UNCHANGED children

\* Only the owner starts children.
Start ==
  /\ owner # None
  /\ children' = children \cup {owner}
  /\ UNCHANGED owner

\* A child exits by itself, or recovery stops it while nobody owns the run.
Stop ==
  /\ \E t \in children : children' = children \ {t}
  /\ UNCHANGED owner

Next == (\E t \in Owners : Acquire(t)) \/ GiveUp \/ Start \/ Stop

Spec == Init /\ [][Next]_<<owner, children>>
=============================================================================
