-------------------------- MODULE MCRegisterCenter --------------------------
(* Two services of one name and the gateway. *)
EXTENDS RegisterCenter

MCNameOf == [gw |-> "gateway", d1 |-> "dir", d2 |-> "dir"]
=============================================================================
