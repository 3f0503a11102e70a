--------------------------- MODULE MCRunControl ---------------------------
(* One command that resumes, one tick, one cancel; each may be killed.       *)
EXTENDS RunControl
=============================================================================
