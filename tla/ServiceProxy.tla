---------------------------- MODULE ServiceProxy ----------------------------
(***************************************************************************)
(* The message gateway (cmsgateway/): CRouterHandle objects, one for each  *)
(* client connection, hand requests to CServiceProxy, which forwards them  *)
(* to one CServiceProxyClient per instance of the service, and the answers *)
(* find their way back by the msg_id in the head: the address of the       *)
(* CRouterHandle.                                                          *)
(*                                                                         *)
(* Every handle and every proxy client has its own event thread; mainFunc  *)
(* of CServiceProxy is a further thread.  One service is modelled; the maps*)
(* of different services do not touch each other.  An address is reused    *)
(* once the handle that was there is deleted.                              *)
(***************************************************************************)
EXTENDS Integers, SequencesExt

CONSTANTS
    Instances,     \* instances of the service (ip:port), each with one proxy
    Addresses,     \* where handles are allocated
    MaxClients,    \* bound: client connections in all
    MaxRequests,   \* bound: requests in all
    MaxDowns,      \* bound: connections to instances lost
    Patient        \* TRUE: a client waits for its answer before it sends again
                   \* or leaves, unless the answer cannot come any more

ASSUME BoundsAssumption ==
    MaxClients \in Nat /\ MaxRequests \in Nat /\ MaxDowns \in Nat
ASSUME PatientAssumption == Patient \in BOOLEAN
ASSUME IdsAssumption == 0 \notin Addresses /\ 0 \notin Instances

Clients == 1 .. MaxClients
Requests == 1 .. MaxRequests
Messages == [id : Addresses, req : Requests]

VARIABLES
    registered,     \* instances in the list of the register center
    clientMap,      \* clientMap_[service]: proxies in the order of creation
    lastIdx,        \* clientMapLastIdx_[service]
    bev,            \* proxies whose bev_ is not null
    up,             \* proxies whose isConnected() is true
    torn,           \* proxies whose connection was made within a CMsgEvent::sendMsg
    handle,         \* the client of the handle at each address, 0: no object
    clientCount,    \* clients accepted so far
    asker,          \* asker[r]: the client that sent request r
    pc,             \* where the thread of each handle is
    holder,         \* clientMapMtx_: the address of the handle, 0: free
    chosen,         \* the proxy a handle is forwarding to
    clientCbs,      \* clientCbs_: the last proxy each handle used, 0: none
    callbackTasks,  \* callbackTasks_ of each proxy: addresses
    toInstance,     \* requests on the way to each instance: [id, req]
    toProxy,        \* answers on the way back
    replying,       \* the answer a proxy is forwarding, under callbackTasksMtx_
    answers,        \* answers given out: [req, client]; client 0: freed handle
    lost,           \* requests dropped, or lost with a connection
    stray,          \* requests written behind the rest of another on a torn one
    waits,          \* requests forwarded since a connected proxy had its turn
    downs           \* connections to instances lost so far

listVars == <<registered, clientMap, lastIdx>>
connVars == <<bev, up, torn>>
clientVars == <<handle, clientCount, asker>>
wireVars == <<toInstance, toProxy>>
vars == <<registered, clientMap, lastIdx, connVars, handle, clientCount, asker,
          pc, holder, chosen, clientCbs, callbackTasks, toInstance, toProxy,
          replying, answers, lost, stray, waits, downs>>

NoReply == [id |-> 0, req |-> 0]

Init ==
    /\ registered = {} /\ clientMap = <<>> /\ lastIdx = 0
    /\ bev = {} /\ up = {} /\ torn = {}
    /\ handle = [a \in Addresses |-> 0] /\ clientCount = 0 /\ asker = <<>>
    /\ pc = [a \in Addresses |-> "read"] /\ holder = 0
    /\ chosen = [a \in Addresses |-> 0]
    /\ clientCbs = [a \in Addresses |-> 0]
    /\ callbackTasks = [i \in Instances |-> {}]
    /\ toInstance = [i \in Instances |-> <<>>]
    /\ toProxy = [i \in Instances |-> <<>>]
    /\ replying = [i \in Instances |-> NoReply]
    /\ answers = <<>> /\ lost = {} /\ stray = {}
    /\ waits = [i \in Instances |-> 0]
    /\ downs = 0

-----------------------------------------------------------------------------
(* CServiceProxy::mainFunc, and the connections of the proxies.             *)

Register(i) ==
    /\ i \notin registered
    /\ registered' = registered \cup {i}
    /\ UNCHANGED <<clientMap, lastIdx, connVars, clientVars, pc, holder, chosen, clientCbs,
                   callbackTasks, wireVars, replying, answers, lost, stray, waits, downs>>

\* Mutant: the search for ip:port never matches.
IsFound_Never(i) == FALSE

\* ip and port of a proxy in the list are those of the instance.
IsFound(i) == i \in ToSet(clientMap)

\* An instance without a proxy gets one, under clientMapMtx_.
CreateProxy(i) ==
    /\ i \in registered /\ ~IsFound(i)
    /\ holder = 0
    /\ clientMap' = Append(clientMap, i)
    /\ lastIdx' = 0
    /\ waits' = [j \in Instances |-> 0]
    /\ UNCHANGED <<registered, connVars, clientVars, pc, holder, chosen, clientCbs,
                   callbackTasks, wireVars, replying, answers, lost, stray, downs>>

\* The handle at a is within CMsgEvent::sendMsg on proxy i, between two calls
\* of writeMsg.
Between(a, i) == chosen[a] = i /\ pc[a] \in {"head", "body"}

\* connect() makes a new bev_: for a new proxy, by its reconnect timer or by
\* mainFunc.  What is written of a frame from here on goes to this bev_.
Dial(i) ==
    /\ IsFound(i) /\ i \notin bev
    /\ bev' = bev \cup {i}
    /\ torn' = IF \E a \in Addresses : Between(a, i) THEN torn \cup {i} ELSE torn
    /\ UNCHANGED <<listVars, up, clientVars, pc, holder, chosen, clientCbs, callbackTasks,
                   wireVars, replying, answers, lost, stray, waits, downs>>

\* The proxy's connection is made.
ProxyUp(i) ==
    /\ i \in bev \ up
    /\ up' = up \cup {i}
    /\ UNCHANGED <<listVars, bev, torn, clientVars, pc, holder, chosen, clientCbs,
                   callbackTasks, wireVars, replying, answers, lost, stray, waits, downs>>

\* The request the handle at a is forwarding: the last of its client.
Current(a) == SelectLastInSeq(asker, LAMBDA c : c = handle[a])

InTransit(i) == {m.req : m \in ToSet(toInstance[i]) \cup ToSet(toProxy[i])}

\* The connection is lost, or an attempt fails, and bev_ is freed: what was on
\* its way is gone, and with it the parts of a frame that is being written;
\* callbackTasks_ keeps its entries.  The proxy's own thread sees it, so never
\* while it forwards an answer.
ProxyDown(i) ==
    /\ i \in bev
    /\ replying[i] = NoReply
    /\ downs < MaxDowns /\ downs' = downs + 1
    /\ bev' = bev \ {i} /\ up' = up \ {i} /\ torn' = torn \ {i}
    /\ lost' = lost \cup InTransit(i)
                    \cup {Current(a) : a \in {b \in Addresses : Between(b, i)}}
    /\ toInstance' = [toInstance EXCEPT ![i] = <<>>]
    /\ toProxy' = [toProxy EXCEPT ![i] = <<>>]
    /\ waits' = [waits EXCEPT ![i] = 0]
    /\ UNCHANGED <<listVars, clientVars, pc, holder, chosen, clientCbs, callbackTasks,
                   replying, answers, stray>>

-----------------------------------------------------------------------------
(* The clients and their handles.                                          *)

\* Is an answer for client c still on its way?
Awaits(c) ==
    \E i \in Instances : \E r \in (InTransit(i) \cup {replying[i].req}) \ {0} :
        asker[r] = c

MayMove(c) == Patient => ~Awaits(c)

Connect(a) ==
    /\ handle[a] = 0 /\ clientCount < MaxClients
    /\ clientCount' = clientCount + 1
    /\ handle' = [handle EXCEPT ![a] = clientCount + 1]
    /\ UNCHANGED <<listVars, connVars, asker, pc, holder, chosen, clientCbs, callbackTasks,
                   wireVars, replying, answers, lost, stray, waits, downs>>

\* eventCb calls closeBev(), which deletes the handle.  CRouterHandle::close()
\* would call CServiceProxy::delEvent, but nothing calls it.
Leave(a) ==
    /\ handle[a] # 0 /\ pc[a] = "read" /\ MayMove(handle[a])
    /\ handle' = [handle EXCEPT ![a] = 0]
    /\ UNCHANGED <<listVars, connVars, clientCount, asker, pc, holder, chosen, clientCbs,
                   callbackTasks, wireVars, replying, answers, lost, stray, waits, downs>>

\* Positions of clientMap in the order the round robin tries them (1-based).
Tried == [n \in DOMAIN clientMap |-> ((lastIdx + n) % Len(clientMap)) + 1]

\* Mutant: the search begins at the front of the list for every request.
FirstTry_Front == {n \in DOMAIN clientMap : clientMap[n] \in up
                     /\ \A k \in 1 .. n - 1 : clientMap[k] \notin up}

\* The position of the first connected proxy in that order, if there is one.
FirstTry == {Tried[n] : n \in {k \in DOMAIN clientMap :
                clientMap[Tried[k]] \in up
                /\ \A j \in 1 .. k - 1 : clientMap[Tried[j]] \notin up}}

\* readCb -> CServiceProxy::sendMsg: lock clientMapMtx_, look for a connected
\* proxy, note it in clientCbs_.  Without one the request is dropped and the
\* client is not told.
Route(a) ==
    /\ handle[a] # 0 /\ pc[a] = "read" /\ holder = 0 /\ MayMove(handle[a])
    /\ Len(asker) < MaxRequests
    /\ asker' = Append(asker, handle[a])
    /\ \/ /\ FirstTry = {}
          /\ lost' = lost \cup {Len(asker) + 1}
          /\ UNCHANGED <<lastIdx, pc, holder, chosen, clientCbs, waits>>
       \/ /\ \E n \in FirstTry :
                /\ lastIdx' = n - 1
                /\ chosen' = [chosen EXCEPT ![a] = clientMap[n]]
                /\ clientCbs' = [clientCbs EXCEPT ![a] = clientMap[n]]
                /\ waits' = [i \in Instances |->
                                IF i \in up \ {clientMap[n]} THEN waits[i] + 1 ELSE 0]
          /\ holder' = a
          /\ pc' = [pc EXCEPT ![a] = "reg"]
          /\ UNCHANGED lost
    /\ UNCHANGED <<registered, clientMap, connVars, handle, clientCount, callbackTasks,
                   wireVars, replying, answers, stray, downs>>

\* Mutant: the map of callbacks is replaced instead of extended.
CallbacksAfterReg_Only(i, a) == {a}

CallbacksAfterReg(i, a) == callbackTasks[i] \cup {a}

\* CServiceProxyClient::regEvent, under callbackTasksMtx_.
RegEvent(a) ==
    /\ pc[a] = "reg" /\ replying[chosen[a]] = NoReply
    /\ callbackTasks' = [callbackTasks EXCEPT ![chosen[a]] = CallbacksAfterReg(chosen[a], a)]
    /\ pc' = [pc EXCEPT ![a] = "len"]
    /\ UNCHANGED <<listVars, connVars, clientVars, holder, chosen, clientCbs, wireVars,
                   replying, answers, lost, stray, waits, downs>>

\* Mutant: the msg_id is left as it came from the client.
MsgId_AsReceived(a) == CHOOSE b \in Addresses : TRUE

\* set_msg_id((long long)ev)
MsgId(a) == a

\* CMsgEvent::sendMsg on the proxy: three calls of writeMsg, each with mtx_ and
\* the bev_ of that moment, while other threads lose and make the connection.
\* The result of sendMsg is not looked at.
WritePart(a) ==
    /\ pc[a] \in {"len", "head"} /\ chosen[a] \in bev
    /\ pc' = [pc EXCEPT ![a] = IF pc[a] = "len" THEN "head" ELSE "body"]
    /\ UNCHANGED <<listVars, connVars, clientVars, holder, chosen, clientCbs, callbackTasks,
                   wireVars, replying, answers, lost, stray, waits, downs>>

\* sendMsg returns, and clientMapMtx_ is released.
Return(a) ==
    /\ pc' = [pc EXCEPT ![a] = "read"]
    /\ holder' = 0
    /\ chosen' = [chosen EXCEPT ![a] = 0]
    /\ UNCHANGED <<listVars, connVars, clientVars, clientCbs, callbackTasks, toProxy,
                   replying, answers, waits, downs>>

\* A writeMsg without bev_ returns false, and so does sendMsg.
WriteFails(a) ==
    /\ pc[a] \in {"len", "head", "body"} /\ chosen[a] \notin bev
    /\ lost' = lost \cup {Current(a)}
    /\ Return(a)
    /\ UNCHANGED <<toInstance, stray>>

\* The frame is complete.  If its first part was lost with an earlier connection
\* the rest is read as the begin of a frame; what follows on such a connection
\* may be taken for a part of anything.
WriteBody(a) ==
    /\ pc[a] = "body" /\ chosen[a] \in bev
    /\ \/ /\ Current(a) \in lost
          /\ UNCHANGED <<toInstance, stray>>
       \/ /\ Current(a) \notin lost
          /\ toInstance' = [toInstance EXCEPT ![chosen[a]] =
                               Append(@, [id |-> MsgId(a), req |-> Current(a)])]
          /\ stray' = IF chosen[a] \in torn THEN stray \cup {Current(a)} ELSE stray
       \/ /\ Current(a) \notin lost /\ chosen[a] \in torn
          /\ stray' = stray \cup {Current(a)}
          /\ UNCHANGED toInstance
    /\ Return(a)
    /\ UNCHANGED lost

-----------------------------------------------------------------------------
(* The instances, and CServiceProxyClient::readCb.                          *)

\* The instance answers with the head it received, msg_id included.
Serve(i) ==
    /\ i \in up /\ toInstance[i] # <<>>
    /\ toProxy' = [toProxy EXCEPT ![i] = Append(@, Head(toInstance[i]))]
    /\ toInstance' = [toInstance EXCEPT ![i] = Tail(@)]
    /\ UNCHANGED <<listVars, connVars, clientVars, pc, holder, chosen, clientCbs,
                   callbackTasks, replying, answers, lost, stray, waits, downs>>

\* readCb locks callbackTasksMtx_ and looks the handle up; an answer whose
\* handle is not in the map is dropped.
ReplyBegin(i) ==
    /\ i \in up /\ replying[i] = NoReply /\ toProxy[i] # <<>>
    /\ toProxy' = [toProxy EXCEPT ![i] = Tail(@)]
    /\ replying' = [replying EXCEPT ![i] =
                       IF Head(toProxy[i]).id \in callbackTasks[i]
                       THEN Head(toProxy[i]) ELSE NoReply]
    /\ UNCHANGED <<listVars, connVars, clientVars, pc, holder, chosen, clientCbs,
                   callbackTasks, toInstance, answers, lost, stray, waits, downs>>

\* router->sendMsg on whatever object is at the address by now.
ReplyEnd(i) ==
    /\ replying[i] # NoReply
    /\ answers' = Append(answers, [req |-> replying[i].req,
                                   client |-> handle[replying[i].id]])
    /\ replying' = [replying EXCEPT ![i] = NoReply]
    /\ UNCHANGED <<listVars, connVars, clientVars, pc, holder, chosen, clientCbs,
                   callbackTasks, wireVars, lost, stray, waits, downs>>

-----------------------------------------------------------------------------
HandleStep(a) == RegEvent(a) \/ WritePart(a) \/ WriteBody(a) \/ WriteFails(a)
ProxyStep(i) == Serve(i) \/ ReplyBegin(i) \/ ReplyEnd(i)

Next ==
    \/ \E i \in Instances : \/ Register(i) \/ CreateProxy(i)
                            \/ Dial(i) \/ ProxyUp(i) \/ ProxyDown(i) \/ ProxyStep(i)
    \/ \E a \in Addresses : Connect(a) \/ Leave(a) \/ Route(a) \/ HandleStep(a)

\* The event loops of handles and proxies go on, instances answer, and an
\* instance whose connection was lost is connected again (every 3 s mainFunc
\* or the reconnect timer tries).
Fairness ==
    /\ \A a \in Addresses : WF_vars(HandleStep(a))
    /\ \A i \in Instances : /\ WF_vars(ProxyStep(i))
                             /\ WF_vars(Dial(i)) /\ WF_vars(ProxyUp(i))

Spec == Init /\ [][Next]_vars
FairSpec == Spec /\ Fairness

-----------------------------------------------------------------------------
TypeOK ==
    /\ registered \subseteq Instances
    /\ bev \subseteq ToSet(clientMap) /\ up \subseteq bev /\ torn \subseteq bev
    /\ ToSet(clientMap) \subseteq registered /\ IsInjective(clientMap)
    /\ lastIdx \in 0 .. Len(clientMap)
    /\ handle \in [Addresses -> Clients \cup {0}] /\ clientCount \in 0 .. MaxClients
    /\ asker \in Seq(Clients) /\ Len(asker) <= MaxRequests
    /\ pc \in [Addresses -> {"read", "reg", "len", "head", "body"}]
    /\ holder \in Addresses \cup {0}
    /\ chosen \in [Addresses -> Instances \cup {0}]
    /\ clientCbs \in [Addresses -> Instances \cup {0}]
    /\ callbackTasks \in [Instances -> SUBSET Addresses]
    /\ toInstance \in [Instances -> Seq(Messages)]
    /\ toProxy \in [Instances -> Seq(Messages)]
    /\ replying \in [Instances -> Messages \cup {NoReply}]
    /\ answers \in Seq([req : Requests, client : Clients \cup {0}])
    /\ lost \subseteq Requests /\ stray \subseteq Requests
    /\ waits \in [Instances -> 0 .. MaxRequests] /\ downs \in 0 .. MaxDowns

\* Every answer goes to the client that sent the request: not to a client that
\* was given the address of its handle, nor to a handle that was deleted
\* (msg_id in CServiceProxyClient::sendMsg and readCb, delEvent).
AnswersGoHome == \A n \in DOMAIN answers : answers[n].client = asker[answers[n].req]

\* A connected instance has its turn before every other proxy had two
\* (the round robin of CServiceProxy::sendMsg, which restarts when the list
\* grows).
NoStarvedInstance == \A i \in up : waits[i] < Len(clientMap)

\* Every request is answered, unless it was dropped for want of a connected
\* proxy, lost with a connection, or written on a connection that began in the
\* middle of a frame, where the instance may take it for something else.
EveryRequestSettled ==
    \A r \in Requests :
        r \in DOMAIN asker ~> \/ r \in lost \cup stray
                              \/ \E n \in DOMAIN answers : answers[n].req = r
=============================================================================
