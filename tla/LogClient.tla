----------------------------- MODULE LogClient -----------------------------
(***************************************************************************)
(* The log client of a process (cplatform/clogclient.cpp) and the log      *)
(* server (clog/cloghandle.cpp, clog/clogdao.cpp).                         *)
(*                                                                         *)
(* Any thread logs: addLog puts the log in a bounded list under logsMtx_.  *)
(* A timer of the client's event thread empties the list into the          *)
(* connection.  The connection is the CComeTask of the client: it is made  *)
(* and lost on the same event thread, and writes made while there is none  *)
(* fail.  Its event thread logs, too, when a connection is made.           *)
(*                                                                         *)
(* A log is <<thread, number>>.  Texts, levels above the threshold and the *)
(* local file are left out.                                                *)
(***************************************************************************)
EXTENDS Integers, FiniteSets, SequencesExt

CONSTANTS
    Producers,     \* threads of the process that log
    Self,          \* the event thread of the client, as one that logs
    LOG_LIST_MAX,
    MaxLogs,       \* bound: logs of each producer
    MaxTrouble     \* bound: lost connections, server restarts, failed inserts

ASSUME ThreadsAssumption == IsFiniteSet(Producers) /\ Self \notin Producers
ASSUME ListAssumption == LOG_LIST_MAX \in Nat
ASSUME BoundsAssumption == MaxLogs \in Nat /\ MaxTrouble \in Nat

Conns == 1..(MaxTrouble + 1)
Logs == (Producers \X (1..MaxLogs)) \cup ({Self} \X Conns)
None == <<>>

VARIABLES
    made,      \* logs each producer has begun
    adding,    \* the log a producer has written to its file and not listed yet
    logs,      \* logs_
    evPc,      \* the event thread: "loop", or in timerCb: "pop", "send"
    log,       \* the local variable of timerCb
    bev,       \* bev_ and its socket: "none", "connecting", "up"
    conn,      \* number of the connection
    out,       \* the output buffer of bev_
    alive,     \* connections whose server side exists
    wire,      \* what the server side of a connection has not read yet
    rows,      \* cms_log: <<connection, log>> in order of insertion
    listed,    \* history: all logs ever put in the list, in order
    dropped,   \* history: logs popped because the list was full
    lost,      \* history: logs that got lost after they left the list
    trouble    \* bound

clientVars == <<made, adding, logs, listed, dropped>>
timerVars == <<evPc, log>>
serverVars == <<alive, wire, rows>>
vars == <<made, adding, logs, evPc, log, bev, conn, out, alive, wire, rows,
          listed, dropped, lost, trouble>>

Init ==
    /\ made = [p \in Producers |-> 0] /\ adding = [p \in Producers |-> None]
    /\ logs = <<>> /\ evPc = "loop" /\ log = None
    /\ bev = "none" /\ conn = 0 /\ out = <<>>
    /\ alive = {} /\ wire = [c \in Conns |-> <<>>] /\ rows = <<>>
    /\ listed = <<>> /\ dropped = {} /\ lost = {} /\ trouble = 0

-----------------------------------------------------------------------------
(* Adding a log. *)

\* The test of the level; a log below the threshold goes no further.
Compose(p) ==
    /\ adding[p] = None /\ made[p] < MaxLogs
    /\ made' = [made EXCEPT ![p] = @ + 1]
    /\ \E filtered \in BOOLEAN :
        adding' = IF filtered THEN adding
                  ELSE [adding EXCEPT ![p] = <<p, made[p] + 1>>]
    /\ UNCHANGED <<logs, listed, dropped, timerVars, bev, conn, out, serverVars,
                   lost, trouble>>

\* Wrong: nothing gives way.
AfterOverflow_Never(q) == q
\* The list makes room for one more log.
AfterOverflow(q) == IF Len(q) > LOG_LIST_MAX THEN Tail(q) ELSE q

\* The critical section of addLog.
List(l) ==
    /\ logs' = Append(AfterOverflow(logs), l)
    /\ listed' = Append(listed, l)
    /\ dropped' = dropped \cup (ToSet(logs) \ ToSet(AfterOverflow(logs)))

AddLog(p) ==
    /\ adding[p] # None
    /\ List(adding[p])
    /\ adding' = [adding EXCEPT ![p] = None]
    /\ UNCHANGED <<made, timerVars, bev, conn, out, serverVars, lost, trouble>>

-----------------------------------------------------------------------------
(* The timer, on the event thread.  It exists from the first initBev on,   *)
(* whether there is a connection or not.                                   *)

\* Wrong: it goes with the first bufferevent and no other makes one.
TimerExists_First == conn = 1
\* setTimer of every initBev; closeBev keeps it.
TimerExists == conn > 0

TimerFires ==
    /\ evPc = "loop" /\ TimerExists
    /\ evPc' = "pop"
    /\ UNCHANGED <<clientVars, log, bev, conn, out, serverVars, lost, trouble>>

\* Wrong: the last log is taken first.
PopFrom_Back(q) == <<Last(q), Front(q)>>
\* Wrong: the log stays in the list (pop_front forgotten).
PopFrom_Kept(q) == <<Head(q), q>>
\* The log to send and what stays in the list.
PopFrom(q) == <<Head(q), Tail(q)>>

TimerPop ==
    /\ evPc = "pop"
    /\ \/ /\ logs = <<>>
          /\ evPc' = "loop" /\ UNCHANGED <<logs, log>>
       \/ /\ logs # <<>>
          /\ log' = PopFrom(logs)[1] /\ logs' = PopFrom(logs)[2]
          /\ evPc' = "send"
    /\ UNCHANGED <<made, adding, listed, dropped, bev, conn, out, serverVars, lost,
                   trouble>>

\* Wrong: logs are only sent on a connection that is up.
TakesWrites_UpOnly == bev = "up"
\* writeMsg fails only without a bufferevent; before the connection is up the
\* output buffer keeps what is written.
TakesWrites == bev # "none"

\* The result of sendMsg is not looked at: a log that cannot be sent is gone.
TimerSend ==
    /\ evPc = "send"
    /\ out' = IF TakesWrites THEN Append(out, log) ELSE out
    /\ lost' = IF TakesWrites THEN lost ELSE lost \cup {log}
    /\ log' = None /\ evPc' = "pop"
    /\ UNCHANGED <<clientVars, bev, conn, serverVars, trouble>>

-----------------------------------------------------------------------------
(* The connection, on the event thread. *)

\* init() or the auto-connect timer: a new bufferevent and an attempt.
Connect ==
    /\ evPc = "loop" /\ bev = "none"
    /\ bev' = "connecting" /\ conn' = conn + 1
    /\ UNCHANGED <<clientVars, timerVars, out, serverVars, lost, trouble>>

\* eventCb logs the new connection; the server has a handle for it.
Connected ==
    /\ evPc = "loop" /\ bev = "connecting"
    /\ bev' = "up" /\ alive' = alive \cup {conn}
    /\ List(<<Self, conn>>)
    /\ UNCHANGED <<made, adding, timerVars, conn, out, wire, rows, lost, trouble>>

\* The event loop writes the output buffer; the server may be gone.
Flush ==
    /\ evPc = "loop" /\ bev = "up" /\ out # <<>>
    /\ out' = Tail(out)
    /\ IF conn \in alive
       THEN wire' = [wire EXCEPT ![conn] = Append(@, Head(out))] /\ UNCHANGED lost
       ELSE lost' = lost \cup {Head(out)} /\ UNCHANGED wire
    /\ UNCHANGED <<clientVars, timerVars, bev, conn, alive, rows, trouble>>

\* Wrong: what was not written waits for the next connection.
CloseBev_Keeps ==
    /\ evPc = "loop" /\ bev # "none" /\ bev' = "none"
    /\ UNCHANGED <<clientVars, timerVars, conn, out, serverVars, lost>>
\* closeBev after an error or the end of the stream.  The server goes on with
\* what it had received of this connection.
CloseBev ==
    /\ evPc = "loop" /\ bev # "none"
    /\ bev' = "none" /\ out' = <<>>
    /\ \E k \in 0..Len(wire[conn]) :
        /\ wire' = [wire EXCEPT ![conn] = SubSeq(@, 1, k)]
        /\ lost' = lost \cup ToSet(out) \cup
                       ToSet(SubSeq(wire[conn], k + 1, Len(wire[conn])))
    /\ UNCHANGED <<clientVars, timerVars, conn, alive, rows>>

ConnectionFails ==
    /\ trouble < MaxTrouble /\ trouble' = trouble + 1
    /\ CloseBev

\* The client learns that the server side is gone.
ConnectionEnds ==
    /\ bev = "up" /\ conn \notin alive
    /\ CloseBev
    /\ UNCHANGED trouble

-----------------------------------------------------------------------------
(* The server: one handle for each connection, each on its own thread. *)

\* addLogReq: one insert under logMtx; its result is not looked at.
AddLogReq(c) ==
    /\ wire[c] # <<>>
    /\ wire' = [wire EXCEPT ![c] = Tail(@)]
    /\ \/ rows' = Append(rows, <<c, Head(wire[c])>>) /\ UNCHANGED <<lost, trouble>>
       \/ /\ trouble < MaxTrouble /\ trouble' = trouble + 1
          /\ lost' = lost \cup {Head(wire[c])} /\ UNCHANGED rows
    /\ UNCHANGED <<clientVars, timerVars, bev, conn, out, alive>>

ServerRestart ==
    /\ trouble < MaxTrouble /\ trouble' = trouble + 1
    /\ alive # {}
    /\ alive' = {} /\ wire' = [c \in Conns |-> <<>>]
    /\ lost' = lost \cup UNION {ToSet(wire[c]) : c \in Conns}
    /\ UNCHANGED <<clientVars, timerVars, bev, conn, out, rows>>

-----------------------------------------------------------------------------

EventThread ==
    \/ TimerFires \/ TimerPop \/ TimerSend
    \/ Connect \/ Connected \/ Flush \/ ConnectionEnds

Next ==
    \/ \E p \in Producers : Compose(p) \/ AddLog(p)
    \/ EventThread \/ ConnectionFails
    \/ \E c \in Conns : AddLogReq(c)
    \/ ServerRestart

Spec == Init /\ [][Next]_vars

\* Threads that can run do run: the timer fires every 100 ms, the loop of the
\* event thread serves every event that is active, reconnection is a timer.
FairSpec ==
    /\ Spec
    /\ \A p \in Producers : WF_vars(AddLog(p))
    /\ SF_vars(TimerFires) /\ WF_vars(TimerPop) /\ WF_vars(TimerSend)
    /\ SF_vars(Connect) /\ SF_vars(Connected) /\ SF_vars(Flush)
    /\ SF_vars(ConnectionEnds)
    /\ \A c \in Conns : WF_vars(AddLogReq(c))

-----------------------------------------------------------------------------
(* Properties. *)

\* Types, and the bound of the list that addLog keeps: the test comes before the
\* new log is put in, so one more than LOG_LIST_MAX may be in it.
TypeOK ==
    /\ made \in [Producers -> 0..MaxLogs]
    /\ adding \in [Producers -> Logs \cup {None}]
    /\ logs \in Seq(Logs) /\ Len(logs) <= LOG_LIST_MAX + 1
    /\ evPc \in {"loop", "pop", "send"} /\ log \in Logs \cup {None}
    /\ bev \in {"none", "connecting", "up"}
    /\ conn \in {0} \cup Conns /\ out \in Seq(Logs)
    /\ alive \in SUBSET Conns /\ wire \in [Conns -> Seq(Logs)]
    /\ rows \in Seq(Conns \X Logs)
    /\ listed \in Seq(Logs) /\ dropped \in SUBSET Logs /\ lost \in SUBSET Logs
    /\ trouble \in 0..MaxTrouble

\* What waits in logs_ are the latest logs: a full list gives up its oldest log,
\* and the timer takes them in turn (addLog, timerCb).
LatestWait == IsSuffix(logs, listed)

\* Every place in which a log is: where, on which connection, at which index.
At(s, l) == {i \in DOMAIN s : s[i] = l}
Places(l) ==
    {<<"logs", 0, i>> : i \in At(logs, l)} \cup {<<"log", 0, i>> : i \in At(<<log>>, l)}
      \cup {<<"out", 0, i>> : i \in At(out, l)}
      \cup (UNION {{<<"wire", c, i>> : i \in At(wire[c], l)} : c \in Conns})
      \cup {<<"rows", 0, i>> : i \in {j \in DOMAIN rows : rows[j][2] = l}}
      \cup {p \in {<<"dropped", 0, 0>>} : l \in dropped}
      \cup {p \in {<<"lost", 0, 0>>} : l \in lost}

\* From the list to the table, across reconnections and restarts, every log is
\* in exactly one place: none is stored twice, none disappears unaccounted for
\* (timerCb pops under logsMtx_ and sends without it).
OnePlace == \A l \in ToSet(listed) : Cardinality(Places(l)) = 1

\* The rows of one connection are in the order in which addLog was called.
StoredInOrder ==
    \A i, j \in DOMAIN rows :
        (i < j /\ rows[i][1] = rows[j][1])
            => \E a, b \in DOMAIN listed :
                  a < b /\ listed[a] = rows[i][2] /\ listed[b] = rows[j][2]

\* Without a failure every log that left the list arrives, also those the
\* timer takes before the connection is up.
LossNeedsFailure == trouble = 0 => lost = {}

\* What a connection carries, the next to be stored first: what the server has not
\* read, the output buffer and the log in the hands of timerCb.
Carried(c) ==
    IF c = conn THEN wire[c] \o out \o (IF evPc = "send" THEN <<log>> ELSE <<>>)
                ELSE wire[c]

Delivery == INSTANCE LogDelivery WITH
    Links <- Conns, MaxWaiting <- LOG_LIST_MAX,
    waiting <- logs, carried <- [c \in Conns |-> Carried(c)],
    stored <- rows, gone <- dropped \cup lost

\* The client and the server deliver logs as promised: each step of theirs is a
\* step of LogDelivery or none. A log that timerCb takes is bound to the connection
\* of that moment, and whatever happens later it is not sent on another.
ImplementsDelivery == Delivery!Spec

\* A log in the list leaves it and is stored, dropped for a newer one or lost
\* with a connection: the timer goes on, connected or not.
EveryLogSettles ==
    \A l \in Logs :
        (l \in ToSet(logs)) ~>
            (l \in dropped \cup lost \cup {rows[i][2] : i \in DOMAIN rows})
=============================================================================
