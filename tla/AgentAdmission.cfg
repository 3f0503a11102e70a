CONSTANTS
  r1 = r1
  r2 = r2
  r3 = r3
  r4 = r4
  r5 = r5
  claude = claude
  codex = codex
  scope = scope
  capped = capped
  costly = costly
  Uncapped = Uncapped
  Requests = {r1, r2, r3, r4, r5}
  Harnesses = {claude, codex}
  Signals = {scope}
  Harness <- ByHarness
  Signal <- OneScope
  Total = 2
  Ceiling <- OneClaude
  Runs = {capped, costly}
  Run <- ByRun
  MaxAttempts <- Attempts
  MaxCost <- Cost
  Costs = {1}
SPECIFICATION FairAdmissionSpec
INVARIANTS CapsHold CeilingsHold WorkConserving
PROPERTIES EligibleFifo EveryAskIsAnswered
CHECK_DEADLOCK FALSE
