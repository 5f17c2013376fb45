------------------------------ MODULE ComeTask ------------------------------
(***************************************************************************)
(* The connection of a CComeTask (cplatform/ccometask.cpp), from its init()*)
(* on the event thread to its closing, with the timers, and startConnect   *)
(* of cserviceclient.cpp.                                                  *)
(*                                                                         *)
(* A client (serverIp_ set) is dispatched by startConnect, connects, and is*)
(* reconnected by its auto-connect timer; other threads (Connectors) may   *)
(* look at its flags and call connect() too, as the loop of CServiceProxy  *)
(* and autoConnect() do.  A server handle wraps an accepted socket and is  *)
(* deleted when its connection ends.                                       *)
(*                                                                         *)
(* The critical sections under mtx_ are single steps; the unlocked reads   *)
(* of the flags are steps of their own.                                    *)
(***************************************************************************)
EXTENDS Integers, FiniteSets

CONSTANTS
    Roles,        \* the objects modelled: a subset of {"client", "handle"}
    Connectors,   \* threads other than the event thread that call connect()
    AutoDelete,   \* autoDelete_ of a client when startConnect is called
    TimerMs,      \* TRUE if timerMs_ > 0
    MaxTrouble    \* bound: failed attempts, refused calls and lost connections

ASSUME RolesAssumption == Roles \subseteq {"client", "handle"}
ASSUME FlagsAssumption == AutoDelete \in BOOLEAN /\ TimerMs \in BOOLEAN
ASSUME MaxTroubleAssumption == MaxTrouble \in Nat

VARIABLES
    role,          \* what this object is
    startPc,       \* startConnect: "dispatch", "autoDelete", "done"
    evPc,          \* where the event thread is with this object
    conPc,         \* where each connector is
    conn,          \* bev_: "null", "idle" (not connected), "connecting",
                   \*   "up" (event not yet handled), "open"
    isConnected,   \* isConnected_
    isConnecting,  \* isConnecting_
    autoDelete,    \* autoDelete_
    deleted,       \* "delete this" has run
    timers,        \* timer events on the event base that call timerCb
    timerEvent,    \* TRUE if timerEvent_ is set
    autoTimer,     \* auto-connect timer events on the event base
    trouble        \* what went wrong so far, up to MaxTrouble

flags == <<isConnected, isConnecting>>
timerVars == <<timers, timerEvent, autoTimer>>
vars == <<role, startPc, evPc, conPc, conn, isConnected, isConnecting,
          autoDelete, deleted, timers, timerEvent, autoTimer, trouble>>

\* autoDelete_ is TRUE unless the client has cleared it before startConnect,
\* as the proxies, the register client and the log client do; the config client
\* and the authentication client do not.
DeletesOnClose(r) == IF r = "client" THEN AutoDelete ELSE TRUE

Init ==
    /\ role \in Roles
    /\ startPc = IF role = "client" THEN "dispatch" ELSE "done"
    /\ evPc = IF role = "client" THEN "off" ELSE "init"
    /\ conPc = [c \in Connectors |-> "idle"]
    /\ conn = "null"
    /\ isConnected = FALSE /\ isConnecting = TRUE
    /\ autoDelete = DeletesOnClose(role)
    /\ deleted = FALSE
    /\ timers = 0 /\ timerEvent = FALSE /\ autoTimer = 0
    /\ trouble = 0

-----------------------------------------------------------------------------
(* CServiceClient::startConnect, on the thread that owns the client.        *)

StartDispatch ==
    /\ startPc = "dispatch"
    /\ startPc' = "autoDelete"
    /\ evPc' = "init"
    /\ UNCHANGED <<role, conPc, conn, flags, autoDelete, deleted, timerVars, trouble>>

StartAutoDelete ==
    /\ startPc = "autoDelete"
    /\ startPc' = "done"
    /\ autoDelete' = FALSE
    /\ UNCHANGED <<role, evPc, conPc, conn, flags, deleted, timerVars, trouble>>

-----------------------------------------------------------------------------
(* initBev, setTimer, connect.                                             *)

\* initBev(): a new bufferevent, and the timer if one is asked for; setTimer
\* does not free the event timerEvent_ pointed to.
InitBev(c) ==
    /\ conn' = c
    /\ timers' = IF TimerMs THEN timers + 1 ELSE timers
    /\ timerEvent' = (timerEvent \/ TimerMs)

\* connect(), under mtx_.  bufferevent_socket_connect on a bufferevent whose
\* socket is already connecting or connected fails and leaves it as it is.
Connect ==
    /\ isConnected' = FALSE
    /\ \/ /\ conn \in {"connecting", "up", "open"}
          /\ isConnecting' = FALSE
          /\ UNCHANGED <<conn, timers, timerEvent, trouble>>
       \/ /\ conn = "null"
          /\ \/ /\ InitBev("connecting") /\ isConnecting' = TRUE
                /\ UNCHANGED trouble
             \/ /\ trouble < MaxTrouble /\ trouble' = trouble + 1
                /\ InitBev("idle") /\ isConnecting' = FALSE
       \/ /\ conn = "idle"
          /\ \/ /\ conn' = "connecting" /\ isConnecting' = TRUE
                /\ UNCHANGED trouble
             \/ /\ trouble < MaxTrouble /\ trouble' = trouble + 1
                /\ isConnecting' = FALSE
                /\ UNCHANGED conn
          /\ UNCHANGED <<timers, timerEvent>>

-----------------------------------------------------------------------------
(* The event thread: CComeTask::init.                                       *)

\* An accepted socket is connected from the start.
TaskInitBev ==
    /\ evPc = "init"
    /\ InitBev(IF role = "client" THEN "idle" ELSE "open")
    /\ evPc' = IF role = "client" THEN "autoTimer" ELSE "loop"
    /\ UNCHANGED <<role, startPc, conPc, flags, autoDelete, deleted, autoTimer, trouble>>

\* Mutant: setAutoConnectTimer creates the event and does not add it.
AutoTimersAfterSet_NotAdded == 0

\* setAutoConnectTimer frees the previous event first.
AutoTimersAfterSet == 1

TaskSetAutoTimer ==
    /\ evPc = "autoTimer"
    /\ autoTimer' = AutoTimersAfterSet
    /\ evPc' = "connect"
    /\ UNCHANGED <<role, startPc, conPc, conn, flags, autoDelete, deleted, timers,
                   timerEvent, trouble>>

\* The call of connect() in init() and in autoConnectTimerCb().
EventConnect ==
    /\ evPc = "connect"
    /\ Connect
    /\ evPc' = "loop"
    /\ UNCHANGED <<role, startPc, conPc, autoDelete, deleted, autoTimer>>

-----------------------------------------------------------------------------
(* The event thread: autoConnectTimerCb, eventCb, closeBev.                 *)

AutoTimerFires ==
    /\ evPc = "loop" /\ autoTimer > 0
    /\ evPc' = IF isConnected THEN "loop" ELSE "testConnecting"
    /\ UNCHANGED <<role, startPc, conPc, conn, flags, autoDelete, deleted,
                   timerVars, trouble>>

AutoTimerTest ==
    /\ evPc = "testConnecting"
    /\ evPc' = IF ~isConnecting THEN "connect" ELSE "loop"
    /\ UNCHANGED <<role, startPc, conPc, conn, flags, autoDelete, deleted,
                   timerVars, trouble>>

\* The network completes a connection attempt.
NetworkUp ==
    /\ conn = "connecting"
    /\ conn' = "up"
    /\ UNCHANGED <<role, startPc, evPc, conPc, flags, autoDelete, deleted,
                   timerVars, trouble>>

\* eventCb(BEV_EVENT_CONNECTED): the flags are set without mtx_, one by one;
\* connetedCb() follows.
EventConnected ==
    /\ evPc = "loop" /\ conn = "up"
    /\ conn' = "open"
    /\ isConnected' = TRUE
    /\ evPc' = "connected"
    /\ UNCHANGED <<role, startPc, conPc, isConnecting, autoDelete, deleted,
                   timerVars, trouble>>

EventConnectedDone ==
    /\ evPc = "connected"
    /\ isConnecting' = FALSE
    /\ evPc' = "loop"
    /\ UNCHANGED <<role, startPc, conPc, conn, isConnected, autoDelete, deleted,
                   timerVars, trouble>>

\* Mutant: closeBev resets isConnected_ only.
ConnectingAfterClose_Kept == isConnecting

ConnectingAfterClose == FALSE

\* BEV_EVENT_ERROR, _TIMEOUT or _EOF: the locked part of closeBev().
EventClose ==
    /\ evPc = "loop" /\ conn \in {"connecting", "up", "open"}
    /\ trouble < MaxTrouble /\ trouble' = trouble + 1
    /\ conn' = "null"
    /\ isConnected' = FALSE /\ isConnecting' = ConnectingAfterClose
    /\ evPc' = "closed"
    /\ UNCHANGED <<role, startPc, conPc, autoDelete, deleted, timerVars>>

\* Mutant: clearTimers frees only the auto-connect timer.
TimersAfterClear_Kept == timers

\* Mutant: an event is freed although clearTimers has freed it before.
TimersAfterClear_Twice == timers - 2

\* clearTimers frees the event timerEvent_ points to, the last one set.
TimersAfterClear == IF timerEvent THEN timers - 1 ELSE timers

\* The rest of closeBev(): clearTimers() and delete this.
EventCloseDelete ==
    /\ evPc = "closed"
    /\ IF autoDelete
       THEN /\ deleted' = TRUE
            /\ timers' = TimersAfterClear
            /\ timerEvent' = FALSE /\ autoTimer' = 0
            /\ evPc' = "gone"
       ELSE /\ evPc' = "loop"
            /\ UNCHANGED <<deleted, timerVars>>
    /\ UNCHANGED <<role, startPc, conPc, conn, flags, autoDelete, trouble>>

EventThread ==
    \/ TaskInitBev \/ TaskSetAutoTimer \/ EventConnect
    \/ AutoTimerTest \/ EventConnected \/ EventConnectedDone
    \/ EventCloseDelete

-----------------------------------------------------------------------------
(* Another thread: isConnected(), isConnecting(), connect().                *)

ConnectorTest(c) ==
    /\ conPc[c] = "idle" /\ startPc = "done" /\ role = "client" /\ ~deleted
    /\ ~isConnected
    /\ conPc' = [conPc EXCEPT ![c] = "testConnecting"]
    /\ UNCHANGED <<role, startPc, evPc, conn, flags, autoDelete, deleted,
                   timerVars, trouble>>

ConnectorTest2(c) ==
    /\ conPc[c] = "testConnecting"
    /\ conPc' = [conPc EXCEPT ![c] = IF isConnecting THEN "idle" ELSE "connect"]
    /\ UNCHANGED <<role, startPc, evPc, conn, flags, autoDelete, deleted,
                   timerVars, trouble>>

ConnectorConnect(c) ==
    /\ conPc[c] = "connect"
    /\ Connect
    /\ conPc' = [conPc EXCEPT ![c] = "idle"]
    /\ UNCHANGED <<role, startPc, evPc, autoDelete, deleted, autoTimer>>

Connector(c) == ConnectorTest(c) \/ ConnectorTest2(c) \/ ConnectorConnect(c)

-----------------------------------------------------------------------------
Next ==
    \/ StartDispatch \/ StartAutoDelete
    \/ EventThread \/ AutoTimerFires \/ NetworkUp \/ EventClose
    \/ \E c \in Connectors : Connector(c)

\* The event loop runs, and one pass of event_base_loop runs the callback of
\* every active event before a timer can come due again (strong fairness: an
\* event stays active while other callbacks run); an attempt that does not
\* fail succeeds.
Fairness ==
    /\ WF_vars(StartDispatch \/ StartAutoDelete)
    /\ WF_vars(EventThread)
    /\ SF_vars(AutoTimerFires)
    /\ SF_vars(EventConnected)
    /\ WF_vars(NetworkUp)

Spec == Init /\ [][Next]_vars
FairSpec == Spec /\ Fairness

-----------------------------------------------------------------------------
(* Properties.                                                             *)

TypeOK ==
    /\ role \in Roles
    /\ startPc \in {"dispatch", "autoDelete", "done"}
    /\ evPc \in {"off", "init", "autoTimer", "connect", "loop", "testConnecting",
                 "connected", "closed", "gone"}
    /\ conPc \in [Connectors -> {"idle", "testConnecting", "connect"}]
    /\ conn \in {"null", "idle", "connecting", "up", "open"}
    /\ isConnected \in BOOLEAN /\ isConnecting \in BOOLEAN
    /\ autoDelete \in BOOLEAN /\ deleted \in BOOLEAN
    /\ timers \in Nat /\ timerEvent \in BOOLEAN /\ autoTimer \in {0, 1}
    /\ trouble \in 0 .. MaxTrouble

\* The flags never claim more than there is, whatever thread connects:
\* isConnected_ only while a connection is open, and isConnecting_ only while
\* an attempt is pending or about to start.  A client that claimed an attempt
\* it does not make would never be reconnected (ccometask.cpp:87-96).
FlagsAreBacked ==
    role = "client" =>
        /\ isConnected => conn = "open"
        /\ isConnecting => \/ conn \in {"connecting", "up"}
                           \/ evPc \in {"off", "init", "autoTimer", "connect", "connected"}

\* "3: connected, can do business" (ccometask.h:139): a connection that is
\* open and was announced is one the client's users may use; they look at
\* isConnected_ (cserviceproxy.cpp:185) and skip the client otherwise.
OpenIsUsable == role = "client" /\ conn = "open" => isConnected

\* No timer is left on the event base of an object that was deleted: it would
\* call timerCb() of freed memory (ccometask.cpp:33-40, 292-301, 320-323).
NoTimerOnDeleted == deleted => timers = 0 /\ autoTimer = 0

\* When its connection is not lost any more (no further trouble), a client
\* ends up with an open connection: its auto-connect timer outlives every
\* connection (ccometask.h:129) and sees that it has to connect.  The only other
\* end is that its first connection fails before startConnect has cleared
\* autoDelete_ (cserviceclient.cpp:16-19), and the client deletes itself.
Reconnects ==
    role = "client" =>
        \/ <>[](conn = "open")
        \/ <>(deleted /\ startPc = "autoDelete")
=============================================================================
