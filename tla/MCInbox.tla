------------------------------ MODULE MCInbox ------------------------------
(* Two writers of answers, an owner that may be killed, and a removal. *)
EXTENDS Inbox
=============================================================================
