----------------------------- MODULE MCMsgEvent -----------------------------
(* Three messages of zero, one or MaxMsgSize bytes, one lost connection.   *)
EXTENDS MsgEvent
=============================================================================
