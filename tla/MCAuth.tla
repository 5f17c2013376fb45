------------------------------- MODULE MCAuth -------------------------------
(* One client, whose connections are served by two threads in turn; one user is *)
(* known, one can be added and the name of one is forbidden.                     *)
EXTENDS Auth
=============================================================================
