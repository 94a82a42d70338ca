------------------------------- MODULE InboxMC -------------------------------
(* Inbox with a queue of two events, a burst of two lines and four drops.     *)
EXTENDS Inbox
=============================================================================
