--------------------------- MODULE MCServiceProxy ---------------------------
(* Small instances of the gateway: two instances, handles at two addresses. *)
EXTENDS ServiceProxy

MCInstances == {11, 12}
MCAddresses == {21, 22}
=============================================================================
