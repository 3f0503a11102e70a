-------------------------- MODULE MCAgentAdmission --------------------------
EXTENDS AgentAdmission, TLC

CONSTANTS r1, r2, r3, r4, r5, claude, codex, scope, capped, costly

ByHarness == [r \in Requests |-> IF r \in {r1, r5} THEN claude ELSE codex]
OneScope == [r \in Requests |-> scope]
ByRun == [r \in Requests |-> IF r \in {r3, r4, r5} THEN costly ELSE capped]
OneClaude == claude :> 1 @@ codex :> 2
Attempts == capped :> 1 @@ costly :> Uncapped
Cost == capped :> Uncapped @@ costly :> 1
=============================================================================
