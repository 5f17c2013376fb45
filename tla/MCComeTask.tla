----------------------------- MODULE MCComeTask -----------------------------
(* A client and a server handle, each on its own, through several lost     *)
(* connections.                                                            *)
EXTENDS ComeTask
=============================================================================
