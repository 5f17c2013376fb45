---------------------------- MODULE MCLogClient ----------------------------
(* Two threads that log, with a list so short that it overflows. *)
EXTENDS LogClient
=============================================================================
