---------------------------- MODULE LogDelivery ----------------------------
(***************************************************************************)
(* What logging promises the services (cplatform/clogclient.h): a log      *)
(* waits in a bounded list whose oldest logs give way, is handed once, in  *)
(* turn, to the connection of the time, and is stored once, in the order   *)
(* of its connection.  A failure takes logs from the ends of what the      *)
(* connections carry; nothing is handed over again.                        *)
(***************************************************************************)
EXTENDS Integers, SequencesExt

CONSTANTS Logs, Links, MaxWaiting    \* links are numbered as they are made

VARIABLES
    waiting,    \* logs that wait, the oldest first
    carried,    \* what each link carries
    stored,     \* <<link, log>> in the order of storing
    gone        \* logs that gave way or got lost

vars == <<waiting, carried, stored, gone>>

OnLinks == UNION {ToSet(carried[c]) : c \in Links}
Known == ToSet(waiting) \cup OnLinks \cup {stored[i][2] : i \in DOMAIN stored} \cup gone

Init ==
    /\ waiting = <<>> /\ carried = [c \in Links |-> <<>>]
    /\ stored = <<>> /\ gone = {}

Log(l) ==
    /\ l \notin Known
    /\ \/ /\ Len(waiting) <= MaxWaiting
          /\ waiting' = Append(waiting, l) /\ UNCHANGED gone
       \/ /\ Len(waiting) > MaxWaiting
          /\ waiting' = Append(Tail(waiting), l) /\ gone' = gone \cup {Head(waiting)}
    /\ UNCHANGED <<carried, stored>>

\* A link serves until the next one is used.
Send(c) ==
    /\ waiting # <<>>
    /\ \A d \in Links : d > c =>
          carried[d] = <<>> /\ \A i \in DOMAIN stored : stored[i][1] # d
    /\ waiting' = Tail(waiting)
    /\ carried' = [carried EXCEPT ![c] = Append(@, Head(waiting))]
    /\ UNCHANGED <<stored, gone>>

Store(c) ==
    /\ carried[c] # <<>>
    /\ carried' = [carried EXCEPT ![c] = Tail(@)]
    /\ stored' = Append(stored, <<c, Head(carried[c])>>)
    /\ UNCHANGED <<waiting, gone>>

Lose ==
    /\ DOMAIN carried' = Links
    /\ \A c \in Links : carried'[c] \in SubSeqs(carried[c])
    /\ gone' = gone \cup (OnLinks \ OnLinks')
    /\ UNCHANGED <<waiting, stored>>

Next ==
    \/ \E l \in Logs : Log(l)
    \/ \E c \in Links : Send(c) \/ Store(c)
    \/ Lose

Spec == Init /\ [][Next]_vars
=============================================================================
