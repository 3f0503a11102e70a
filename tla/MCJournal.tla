----------------------------- MODULE MCJournal -----------------------------
EXTENDS Journal, TLC

FailAnywhere == Calls
FailInitially == Calls \cup {"initial"}
=============================================================================
