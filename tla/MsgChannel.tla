----------------------------- MODULE MsgChannel -----------------------------
(***************************************************************************)
(* What the messaging layer promises the services (cplatform/cmsgevent.h): *)
(* the messages sent on a connection reach the handlers of the peer whole, *)
(* once and in order.  A lost connection loses what was on its way.  A     *)
(* connection that is made while a message is being sent is torn: it       *)
(* begins with a part of that message, and nothing is promised of it.      *)
(***************************************************************************)
EXTENDS Integers, Sequences

CONSTANT Messages

VARIABLES
    sent,        \* messages sent on the current connection
    sending,     \* a message is being sent
    torn,        \* the connection was made while a message was being sent
    delivered    \* messages handed to the handlers of the peer

vars == <<sent, sending, torn, delivered>>

Init == sent = <<>> /\ sending = FALSE /\ torn = FALSE /\ delivered = <<>>

Begin ==
    /\ ~sending /\ sending' = TRUE
    /\ \E m \in Messages : sent' = Append(sent, m)
    /\ UNCHANGED <<torn, delivered>>

\* The message is complete, or the sender finds the connection lost.
End == sending /\ sending' = FALSE /\ UNCHANGED <<sent, torn, delivered>>

Deliver ==
    /\ \/ /\ Len(delivered) < Len(sent)
          /\ delivered' = Append(delivered, sent[Len(delivered) + 1])
       \/ /\ torn
          /\ \E m \in Messages : delivered' = Append(delivered, m)
    /\ UNCHANGED <<sent, sending, torn>>

Connect ==
    /\ sent' = <<>> /\ delivered' = <<>> /\ torn' = sending
    /\ UNCHANGED sending

Next == Begin \/ End \/ Deliver \/ Connect

Spec == Init /\ [][Next]_vars
=============================================================================
