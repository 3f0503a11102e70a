------------------------------- MODULE Effects -------------------------------
(***************************************************************************)
(* What a run promises about its effects, however often it is interrupted  *)
(* and resumed: an effect may have to be started more than once, but an    *)
(* outcome that has been recorded is final, and the effect is not started  *)
(* again after it.                                                         *)
(***************************************************************************)
EXTENDS Naturals

CONSTANTS Ids, Outcomes, NoOutcome

VARIABLES
  outcome,  \* outcome[s]: the recorded outcome of effect s, or NoOutcome
  starts    \* starts[s]: how often the effect was started

Init ==
  /\ outcome = [s \in Ids |-> NoOutcome]
  /\ starts = [s \in Ids |-> 0]

Start(s) ==
  /\ outcome[s] = NoOutcome
  /\ starts' = [starts EXCEPT ![s] = @ + 1]
  /\ UNCHANGED outcome

\* One write of the record may record several outcomes, each of an effect that ran.
Record(settled) ==
  /\ \A s \in settled : outcome[s] = NoOutcome /\ starts[s] > 0
  /\ \E new \in [settled -> Outcomes] :
       outcome' = [s \in Ids |-> IF s \in settled THEN new[s] ELSE outcome[s]]
  /\ UNCHANGED starts

Next == (\E s \in Ids : Start(s)) \/ (\E settled \in (SUBSET Ids) \ {{}} : Record(settled))

Spec == Init /\ [][Next]_<<outcome, starts>>
=============================================================================
