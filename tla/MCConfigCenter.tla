--------------------------- MODULE MCConfigCenter ---------------------------
(* A service and the tool, the configuration of the service and one of another *)
(* host that has the same port.                                                *)
EXTENDS ConfigCenter

MCPortOf == [k \in Keys |-> 1]
=============================================================================
