--------------------------- MODULE MCLinkSession ---------------------------
(* Model values for LinkSession: two daemon sockets and one notifier.         *)
EXTENDS LinkSession
============================================================================
