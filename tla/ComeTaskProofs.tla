--------------------------- MODULE ComeTaskProofs ---------------------------
(* What is proved of ComeTask, for every number of connecting threads and   *)
(* of failures, with or without timers, and for a client that may or may    *)
(* not have cleared autoDelete_ before startConnect.                        *)
EXTENDS ComeTask, TLAPS

-----------------------------------------------------------------------------
(* The inductive invariant, in parts. *)

\* The start of the client and the place of the event thread.
StartInv ==
    /\ startPc # "done" => role = "client"
    /\ startPc = "dispatch" <=> evPc = "off"
    /\ (role = "client" /\ startPc = "done") => ~autoDelete
    /\ deleted <=> evPc = "gone"

\* Only the users of a client that is kept call connect().
ConnectorInv ==
    \A c \in Connectors :
        conPc[c] # "idle" => role = "client" /\ startPc = "done" /\ ~deleted

\* A handle never connects: it has an accepted socket, then none.
HandleInv ==
    role = "handle" =>
        /\ evPc \in {"init", "loop", "closed", "gone"}
        /\ conn \in {"null", "open"} /\ autoTimer = 0 /\ autoDelete

\* An object that would be deleted with its connection has had one bufferevent,
\* so that clearTimers frees the only timer there is.
OneBev ==
    (autoDelete /\ ~deleted) =>
        /\ timers = (IF timerEvent THEN 1 ELSE 0)
        /\ evPc \in {"off", "init"} => conn = "null" /\ ~timerEvent
        /\ evPc = "closed" => conn = "null"
        /\ evPc \in {"autoTimer", "connect", "loop", "testConnecting", "connected"}
              => conn # "null"

\* The flags, and what the event thread is about to do about them.
FlagsInv ==
    /\ evPc \in {"off", "init"} => ~isConnected
    /\ role = "client" =>
        /\ isConnected => conn = "open"
        /\ isConnecting => \/ conn \in {"connecting", "up"}
                           \/ evPc \in {"off", "init", "autoTimer", "connect", "connected"}

\* timerEvent_ points to one of the timers.
TimerInv == timerEvent => timers > 0

\* Of what is deleted nothing is left on the event base.
GoneInv == deleted => conn = "null" /\ timers = 0 /\ ~timerEvent /\ autoTimer = 0

IInv == TypeOK /\ StartInv /\ ConnectorInv /\ HandleInv /\ OneBev
            /\ FlagsInv /\ TimerInv /\ GoneInv

-----------------------------------------------------------------------------
(* It holds at the start, and every step preserves it. *)

\* The parts, for proofs that need them all.
LEMMA IInvInit == Init => IInv
<1> SUFFICES ASSUME Init PROVE IInv
    OBVIOUS
<1> USE RolesAssumption, FlagsAssumption, MaxTroubleAssumption DEF Init, DeletesOnClose
<1>1. TypeOK
    <2>1. autoDelete \in BOOLEAN /\ role \in Roles
        OBVIOUS
    <2>2. /\ startPc \in {"dispatch", "autoDelete", "done"}
          /\ evPc \in {"off", "init", "autoTimer", "connect", "loop", "testConnecting",
                       "connected", "closed", "gone"}
          /\ conPc \in [Connectors -> {"idle", "testConnecting", "connect"}]
        OBVIOUS
    <2>3. trouble \in 0 .. MaxTrouble /\ timers \in Nat /\ autoTimer \in {0, 1}
        OBVIOUS
    <2>4. /\ isConnected \in BOOLEAN /\ isConnecting \in BOOLEAN
          /\ deleted \in BOOLEAN /\ timerEvent \in BOOLEAN
        OBVIOUS
    <2> QED
        BY <2>1, <2>2, <2>3, <2>4 DEF TypeOK
<1>2. StartInv /\ ConnectorInv /\ HandleInv
    BY DEF StartInv, ConnectorInv, HandleInv
<1>3. OneBev /\ FlagsInv /\ TimerInv /\ GoneInv
    BY DEF OneBev, FlagsInv, TimerInv, GoneInv
<1> QED
    BY <1>1, <1>2, <1>3 DEF IInv

\* connect(): the flags it leaves are backed, whoever calls it.
LEMMA ConnectKeeps ==
    ASSUME TypeOK, TimerInv, Connect
    PROVE  /\ conn' \in {"idle", "connecting", "up", "open"}
           /\ ~isConnected' /\ isConnecting' \in BOOLEAN
           /\ isConnecting' => conn' = "connecting"
           /\ timers' \in Nat /\ timerEvent' \in BOOLEAN /\ TimerInv'
           /\ trouble' \in 0 .. MaxTrouble
           /\ conn # "null" => timers' = timers /\ timerEvent' = timerEvent
<1> USE FlagsAssumption, MaxTroubleAssumption DEF TypeOK, TimerInv, Connect, InitBev
<1>1. conn' \in {"idle", "connecting", "up", "open"} /\ ~isConnected'
    OBVIOUS
<1>2. isConnecting' \in BOOLEAN /\ (isConnecting' => conn' = "connecting")
    OBVIOUS
<1>3. timers' \in Nat /\ timerEvent' \in BOOLEAN /\ TimerInv'
    OBVIOUS
<1>4. trouble' \in 0 .. MaxTrouble
    OBVIOUS
<1>5. conn # "null" => timers' = timers /\ timerEvent' = timerEvent
    OBVIOUS
<1> QED
    BY <1>1, <1>2, <1>3, <1>4, <1>5

\* Every step of the owner, the event thread, the network and the connectors.
LEMMA IInvNext == IInv /\ [Next]_vars => IInv'
<1> SUFFICES ASSUME IInv, [Next]_vars PROVE IInv'
    OBVIOUS
<1> USE FlagsAssumption, MaxTroubleAssumption
    DEF IInv, TypeOK, StartInv, ConnectorInv, HandleInv, OneBev, FlagsInv, TimerInv,
        GoneInv, flags, timerVars
<1>1. CASE StartDispatch
    BY <1>1 DEF StartDispatch
<1>2. CASE StartAutoDelete
    BY <1>2 DEF StartAutoDelete
<1>3. CASE TaskInitBev
    BY <1>3 DEF TaskInitBev, InitBev
<1>4. CASE TaskSetAutoTimer
    BY <1>4 DEF TaskSetAutoTimer, AutoTimersAfterSet
<1>5. CASE EventConnect
    <2>1. TypeOK'
        <3>1. trouble' \in 0 .. MaxTrouble /\ timers' \in Nat /\ autoTimer' \in {0, 1}
            BY <1>5, ConnectKeeps DEF EventConnect
        <3>2. /\ isConnected' \in BOOLEAN /\ isConnecting' \in BOOLEAN
              /\ deleted' \in BOOLEAN /\ timerEvent' \in BOOLEAN /\ autoDelete' \in BOOLEAN
            <4>1. UNCHANGED <<deleted, autoDelete>> /\ Connect
                BY <1>5 DEF EventConnect
            <4>2. deleted' \in BOOLEAN /\ autoDelete' \in BOOLEAN
                BY <4>1, Zenon
            <4>3. isConnected' = FALSE /\ isConnecting' \in BOOLEAN /\ timerEvent' \in BOOLEAN
                BY <4>1, ConnectKeeps
            <4> QED
                BY <4>2, <4>3
        <3>3. /\ role' \in Roles /\ startPc' \in {"dispatch", "autoDelete", "done"}
              /\ evPc' \in {"off", "init", "autoTimer", "connect", "loop", "testConnecting",
                            "connected", "closed", "gone"}
              /\ conPc' \in [Connectors -> {"idle", "testConnecting", "connect"}]
              /\ conn' \in {"null", "idle", "connecting", "up", "open"}
            BY <1>5, ConnectKeeps DEF EventConnect
        <3> QED
            BY <3>1, <3>2, <3>3
    <2>2. StartInv' /\ ConnectorInv' /\ HandleInv'
        BY <1>5, ConnectKeeps DEF EventConnect
    <2>3. OneBev' /\ TimerInv' /\ GoneInv'
        BY <1>5, ConnectKeeps DEF EventConnect
    <2>4. FlagsInv'
        BY <1>5, ConnectKeeps DEF EventConnect
    <2> QED
        BY <2>1, <2>2, <2>3, <2>4
<1>6. CASE AutoTimerFires \/ AutoTimerTest
    <2>1. TypeOK'
        BY <1>6 DEF AutoTimerFires, AutoTimerTest
    <2>2. StartInv' /\ ConnectorInv' /\ HandleInv'
        BY <1>6 DEF AutoTimerFires, AutoTimerTest
    <2>3. OneBev' /\ TimerInv' /\ GoneInv'
        BY <1>6 DEF AutoTimerFires, AutoTimerTest
    <2>4. FlagsInv'
        BY <1>6 DEF AutoTimerFires, AutoTimerTest
    <2> QED
        BY <2>1, <2>2, <2>3, <2>4
<1>7. CASE NetworkUp
    BY <1>7 DEF NetworkUp
<1>8. CASE EventConnected
    BY <1>8 DEF EventConnected
<1>14. CASE EventConnectedDone
    BY <1>14 DEF EventConnectedDone
<1>9. CASE EventClose
    <2>1. TypeOK'
        <3>1. trouble' \in 0 .. MaxTrouble /\ timers' \in Nat /\ autoTimer' \in {0, 1}
            BY <1>9 DEF EventClose, ConnectingAfterClose
        <3>2. /\ isConnected' \in BOOLEAN /\ isConnecting' \in BOOLEAN
              /\ deleted' \in BOOLEAN /\ timerEvent' \in BOOLEAN /\ autoDelete' \in BOOLEAN
            BY <1>9 DEF EventClose, ConnectingAfterClose
        <3>3. /\ role' \in Roles /\ startPc' \in {"dispatch", "autoDelete", "done"}
              /\ evPc' \in {"off", "init", "autoTimer", "connect", "loop", "testConnecting",
                            "connected", "closed", "gone"}
              /\ conPc' \in [Connectors -> {"idle", "testConnecting", "connect"}]
              /\ conn' \in {"null", "idle", "connecting", "up", "open"}
            BY <1>9 DEF EventClose, ConnectingAfterClose
        <3> QED
            BY <3>1, <3>2, <3>3
    <2>2. StartInv' /\ ConnectorInv' /\ HandleInv'
        BY <1>9 DEF EventClose, ConnectingAfterClose
    <2>3. OneBev' /\ TimerInv' /\ GoneInv'
        BY <1>9 DEF EventClose, ConnectingAfterClose
    <2>4. FlagsInv'
        BY <1>9 DEF EventClose, ConnectingAfterClose
    <2> QED
        BY <2>1, <2>2, <2>3, <2>4
<1>10. CASE EventCloseDelete
    <2>1. TypeOK'
        <3>1. trouble' \in 0 .. MaxTrouble /\ timers' \in Nat /\ autoTimer' \in {0, 1}
            BY <1>10 DEF EventCloseDelete, TimersAfterClear
        <3>2. /\ isConnected' \in BOOLEAN /\ isConnecting' \in BOOLEAN
              /\ deleted' \in BOOLEAN /\ timerEvent' \in BOOLEAN /\ autoDelete' \in BOOLEAN
            BY <1>10 DEF EventCloseDelete, TimersAfterClear
        <3>3. /\ role' \in Roles /\ startPc' \in {"dispatch", "autoDelete", "done"}
              /\ evPc' \in {"off", "init", "autoTimer", "connect", "loop", "testConnecting",
                            "connected", "closed", "gone"}
              /\ conPc' \in [Connectors -> {"idle", "testConnecting", "connect"}]
              /\ conn' \in {"null", "idle", "connecting", "up", "open"}
            BY <1>10 DEF EventCloseDelete, TimersAfterClear
        <3> QED
            BY <3>1, <3>2, <3>3
    <2>2. StartInv' /\ ConnectorInv' /\ HandleInv'
        BY <1>10 DEF EventCloseDelete, TimersAfterClear
    <2>3. OneBev' /\ TimerInv' /\ GoneInv'
        <3>1. CASE autoDelete
            <4>0. evPc = "closed"
                BY <1>10 DEF EventCloseDelete
            <4>1. conn = "null" /\ ~deleted
                BY <3>1, <4>0
            <4>2. timers' = 0 /\ ~timerEvent' /\ autoTimer' = 0 /\ conn' = conn
                BY <1>10, <3>1, <4>1 DEF EventCloseDelete, TimersAfterClear
            <4>3. deleted'
                BY <1>10, <3>1 DEF EventCloseDelete
            <4> QED
                BY <4>1, <4>2, <4>3
        <3>2. CASE ~autoDelete
            BY <1>10, <3>2 DEF EventCloseDelete
        <3> QED
            BY <3>1, <3>2
    <2>4. FlagsInv'
        BY <1>10 DEF EventCloseDelete, TimersAfterClear
    <2> QED
        BY <2>1, <2>2, <2>3, <2>4
<1>11. ASSUME NEW c \in Connectors, ConnectorTest(c) \/ ConnectorTest2(c) PROVE IInv'
    BY <1>11 DEF ConnectorTest, ConnectorTest2
<1>12. ASSUME NEW c \in Connectors, ConnectorConnect(c) PROVE IInv'
    <2>1. TypeOK'
        <3>1. trouble' \in 0 .. MaxTrouble /\ timers' \in Nat /\ autoTimer' \in {0, 1}
            BY <1>12, ConnectKeeps DEF ConnectorConnect
        <3>2. /\ isConnected' \in BOOLEAN /\ isConnecting' \in BOOLEAN
              /\ deleted' \in BOOLEAN /\ timerEvent' \in BOOLEAN /\ autoDelete' \in BOOLEAN
            <4>1. UNCHANGED <<deleted, autoDelete>> /\ Connect
                BY <1>12 DEF ConnectorConnect
            <4>2. deleted' \in BOOLEAN /\ autoDelete' \in BOOLEAN
                BY <4>1, Zenon
            <4>3. isConnected' = FALSE /\ isConnecting' \in BOOLEAN /\ timerEvent' \in BOOLEAN
                BY <4>1, ConnectKeeps
            <4> QED
                BY <4>2, <4>3
        <3>3. /\ role' \in Roles /\ startPc' \in {"dispatch", "autoDelete", "done"}
              /\ evPc' \in {"off", "init", "autoTimer", "connect", "loop", "testConnecting",
                            "connected", "closed", "gone"}
              /\ conPc' \in [Connectors -> {"idle", "testConnecting", "connect"}]
              /\ conn' \in {"null", "idle", "connecting", "up", "open"}
            BY <1>12, ConnectKeeps DEF ConnectorConnect
        <3> QED
            BY <3>1, <3>2, <3>3
    <2>2. StartInv' /\ ConnectorInv' /\ HandleInv'
        BY <1>12, ConnectKeeps DEF ConnectorConnect
    <2>3. OneBev' /\ TimerInv' /\ GoneInv'
        BY <1>12, ConnectKeeps DEF ConnectorConnect
    <2>4. FlagsInv'
        BY <1>12, ConnectKeeps DEF ConnectorConnect
    <2> QED
        BY <2>1, <2>2, <2>3, <2>4
<1>13. CASE UNCHANGED vars
    BY <1>13 DEF vars
<1> QED
    BY <1>1, <1>2, <1>3, <1>4, <1>5, <1>6, <1>7, <1>8, <1>9, <1>10, <1>11, <1>12, <1>13,
       <1>14 DEF Next, EventThread, Connector

LEMMA Invariant == Spec => []IInv
BY IInvInit, IInvNext, PTL DEF Spec

-----------------------------------------------------------------------------
(* What it gives. *)

\* The variables keep their types: among others, no event is freed that was not
\* made (clearTimers), as timers never falls below zero.
THEOREM TypeCorrect == Spec => []TypeOK
<1>1. IInv => TypeOK
    BY DEF IInv
<1> QED
    BY <1>1, Invariant, PTL

\* The flags never claim a connection or an attempt that does not exist, for any
\* number of threads that call connect() after they tested the flags.
THEOREM FlagsNeverOverclaim == Spec => []FlagsAreBacked
<1>1. IInv => FlagsAreBacked
    BY DEF IInv, FlagsInv, FlagsAreBacked
<1> QED
    BY <1>1, Invariant, PTL

\* No object, client or handle, is deleted with a timer of its own on the base.
THEOREM NoTimerAfterDelete == Spec => []NoTimerOnDeleted
<1>1. IInv => NoTimerOnDeleted
    BY DEF IInv, GoneInv, NoTimerOnDeleted
<1> QED
    BY <1>1, Invariant, PTL
=============================================================================
