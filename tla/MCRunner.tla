------------------------------ MODULE MCRunner ------------------------------
(* Runner as TLC checks it: the bounds are in Runner.cfg and RunnerLive.cfg.  *)
EXTENDS Runner
=============================================================================
