--------------------------- MODULE RegisterCenter ---------------------------
(***************************************************************************)
(* The register center (registerserver/cregisterhandle.cpp) and its clients*)
(* (registerclient/cregisterclient.cpp).  Every client registers itself    *)
(* whenever its connection is made; one of them, the Watcher (the gateway),*)
(* also asks for the list of services, keeps it in memory and in a file,   *)
(* and gives copies of it to its own threads.                              *)
(*                                                                         *)
(* The center keeps its map in memory only and starts again empty.  Each   *)
(* handle of the center runs on a thread of its own.  A list is a sequence *)
(* of clients, standing for name, ip and port; a name without services has *)
(* the empty list.                                                         *)
(***************************************************************************)
EXTENDS Integers, SequencesExt

CONSTANTS
    Clients,     \* the processes that register
    NameOf,      \* the service name each registers under
    Watcher,     \* the client that asks for lists
    Patience,    \* rounds getServices waits (timeoutSec)
    MaxTrouble,  \* bound: restarts and lost connections
    MaxAsks      \* bound: calls of getServices

ASSUME WatcherAssumption == Watcher \in Clients /\ DOMAIN NameOf = Clients
ASSUME ClientsAssumption == IsFiniteSet(Clients)
ASSUME BoundsAssumption == MaxTrouble \in Nat /\ MaxAsks \in Nat /\ Patience \in Nat

Names == {NameOf[c] : c \in Clients}
Maps == [Names -> Seq(Clients)]
EmptyMap == [n \in Names |-> <<>>]
NoFile == [n \in {} |-> <<>>]

\* Requests to the center and lists to the Watcher.
Requests == [type : {"REGISTER", "ALL"}] \cup [type : {"ONE"}, name : Names]
Lists == [type : {"ALL"}, map : Maps] \cup [type : {"ONE"}, map : Maps]
             \cup [type : {"torn"}]

VARIABLES
    serviceMap,    \* serviceMap of the center
    sending,       \* the Watcher's handle: "no", or the shared map is being
                   \* serialized: "clean", "torn" once it changed meanwhile
    up,            \* clients connected to the center
    toCenter,      \* requests of each client
    toWatcher,     \* lists on the way to the Watcher
    pbServiceMap,  \* the Watcher's list in memory
    cacheFile,     \* its register_....cache
    saving,        \* the file is truncated and not yet written
    pbClientMap,   \* the copy getAllService handed out last
    call,          \* getServices in another thread: [pc, name, time]
    trouble, asks  \* bounds

centerVars == <<serviceMap, sending>>
watcherVars == <<pbServiceMap, cacheFile, saving, pbClientMap>>
callVars == <<call, asks>>
vars == <<serviceMap, sending, up, toCenter, toWatcher, pbServiceMap, cacheFile,
          saving, pbClientMap, call, trouble, asks>>

NoCall == [pc |-> "none"]

Init ==
    /\ serviceMap = EmptyMap /\ sending = "no"
    /\ up = {} /\ toCenter = [c \in Clients |-> <<>>] /\ toWatcher = <<>>
    /\ pbServiceMap = EmptyMap /\ cacheFile = NoFile /\ saving = FALSE
    /\ pbClientMap = EmptyMap
    /\ trouble = 0 /\ call = NoCall /\ asks = 0

-----------------------------------------------------------------------------
(* Connections, and their loss with the processes.                          *)

\* Mutant: a client registers when it first connects and never again.
OnConnected_Once == IF trouble = 0 THEN <<[type |-> "REGISTER"]>> ELSE <<>>

\* connetedCb sends the registration.
OnConnected == <<[type |-> "REGISTER"]>>

LinkUp(c) ==
    /\ c \notin up
    /\ up' = up \cup {c}
    /\ toCenter' = [toCenter EXCEPT ![c] = OnConnected]
    /\ UNCHANGED <<centerVars, toWatcher, watcherVars, trouble, callVars>>

\* The connections of C are gone, and what was on its way on them.
Disconnect(C) ==
    /\ trouble < MaxTrouble /\ trouble' = trouble + 1
    /\ up' = up \ C
    /\ toCenter' = [c \in Clients |-> IF c \in C THEN <<>> ELSE toCenter[c]]
    /\ toWatcher' = IF Watcher \in C THEN <<>> ELSE toWatcher

\* A connection breaks, or no heartbeat came within 5 s.  The handle's thread
\* sees it, so not while it serializes a list.
LinkLost(c) ==
    /\ c \in up /\ (c = Watcher => sending = "no" /\ ~saving)
    /\ Disconnect({c})
    /\ UNCHANGED <<centerVars, watcherVars, callVars>>

\* Every registration is forgotten.
CenterRestart ==
    /\ ~saving
    /\ Disconnect(Clients)
    /\ serviceMap' = EmptyMap /\ sending' = "no"
    /\ UNCHANGED <<watcherVars, callVars>>

\* loadLocalFile: a file that can be opened replaces the list in memory.
Loaded(map) == IF cacheFile = NoFile THEN map ELSE cacheFile

\* The Watcher's process ends, even between truncating and writing its file,
\* and starts again: registerServer loads the file.
WatcherRestart ==
    /\ Disconnect({Watcher})
    /\ sending' = "no"
    /\ pbServiceMap' = Loaded(EmptyMap) /\ pbClientMap' = EmptyMap
    /\ saving' = FALSE
    /\ call' = NoCall
    /\ UNCHANGED <<serviceMap, cacheFile, asks>>

-----------------------------------------------------------------------------
(* CRegisterHandle.                                                         *)

\* Mutant: only the last entry is compared.
IsRegistered_Last(c) == serviceMap[NameOf[c]] # <<>> /\ Last(serviceMap[NameOf[c]]) = c

IsRegistered(c) == c \in ToSet(serviceMap[NameOf[c]])

\* The list of c's name, with c; a new list is made only for a new name.
Extended(c) == Append(serviceMap[NameOf[c]], c)

\* registerReq, its map work under serviceMapMtx.  Serialization of the same
\* map by another handle does not hold the mutex and goes wrong if the map
\* grows under it.
RegisterReq(c) ==
    /\ toCenter[c] # <<>> /\ Head(toCenter[c]).type = "REGISTER"
    /\ c = Watcher => sending = "no"
    /\ \/ /\ IsRegistered(c)
          /\ UNCHANGED centerVars
       \/ /\ ~IsRegistered(c)
          /\ serviceMap' = [serviceMap EXCEPT ![NameOf[c]] = Extended(c)]
          /\ sending' = IF sending = "no" THEN "no" ELSE "torn"
    /\ toCenter' = [toCenter EXCEPT ![c] = Tail(@)]
    /\ UNCHANGED <<up, toWatcher, watcherVars, trouble, callVars>>

\* getServiceReq for one name copies the list under the mutex; for all it only
\* takes the address of the shared map there.
GetServiceReq ==
    /\ toCenter[Watcher] # <<>> /\ sending = "no"
    /\ \/ /\ Head(toCenter[Watcher]).type = "ALL"
          /\ sending' = "clean"
          /\ UNCHANGED toWatcher
       \/ /\ Head(toCenter[Watcher]).type = "ONE"
          /\ LET n == Head(toCenter[Watcher]).name
             IN  toWatcher' = Append(toWatcher, [type |-> "ONE",
                                   map |-> [EmptyMap EXCEPT ![n] = serviceMap[n]]])
          /\ UNCHANGED sending
    /\ toCenter' = [toCenter EXCEPT ![Watcher] = Tail(@)]
    /\ UNCHANGED <<serviceMap, up, watcherVars, trouble, callVars>>

\* sendMsg serializes the shared map after the unlock.
SendAll ==
    /\ sending # "no"
    /\ \/ toWatcher' = Append(toWatcher, [type |-> "ALL", map |-> serviceMap])
       \/ /\ sending = "torn"
          /\ toWatcher' = Append(toWatcher, [type |-> "torn"])
    /\ sending' = "no"
    /\ UNCHANGED <<serviceMap, up, toCenter, watcherVars, trouble, callVars>>

-----------------------------------------------------------------------------
(* The Watcher's CRegisterClient.                                           *)

\* getServiceReq; nothing is sent without a connection.
Ask(request) ==
    toCenter' = [toCenter EXCEPT ![Watcher] =
                    IF Watcher \in up THEN Append(@, request) ELSE @]

\* getServiceReq(0) every 3 s.  One such request is outstanding at a time.
AskAll ==
    /\ toCenter[Watcher] = <<>> /\ sending = "no" /\ toWatcher = <<>>
    /\ Watcher \in up /\ Ask([type |-> "ALL"])
    /\ UNCHANGED <<centerVars, up, toWatcher, watcherVars, trouble, callVars>>

\* pbServiceMapMtx: getServiceRes has it while it writes the file, getServices
\* while it sleeps.
MutexFree == ~saving /\ call.pc # "sleep"

Goto(p) == call' = [call EXCEPT !.pc = p]
WaitThen(p) == call' = [call EXCEPT !.pc = p, !.time = @ + 1]

\* getServices(n) begins to wait for the connection.
GetServices(n) ==
    /\ call.pc = "none" /\ asks < MaxAsks /\ asks' = asks + 1
    /\ call' = [pc |-> "connect", name |-> n, time |-> 0]
    /\ UNCHANGED <<centerVars, up, toCenter, toWatcher, watcherVars, trouble>>

\* It waits for a while, goes on, or returns nothing.
WaitForConnection ==
    /\ call.pc = "connect"
    /\ \/ Watcher \notin up /\ call.time < Patience /\ WaitThen("connect")
       \/ Watcher \notin up /\ call.time >= Patience /\ call' = NoCall
       \/ Watcher \in up /\ Goto("ask")
    /\ UNCHANGED <<centerVars, up, toCenter, toWatcher, watcherVars, trouble, asks>>

\* The connection may have gone since it was tested.
AskOne ==
    /\ call.pc = "ask"
    /\ Ask([type |-> "ONE", name |-> call.name]) /\ Goto("look")
    /\ UNCHANGED <<centerVars, up, toWatcher, watcherVars, trouble, asks>>

\* One round of the loop, with the mutex: the list of that name, or another
\* request and a sleep.
LookForServices ==
    /\ call.pc = "look" /\ MutexFree
    /\ \/ /\ call.time < Patience /\ pbServiceMap[call.name] = <<>>
          /\ Ask([type |-> "ONE", name |-> call.name]) /\ WaitThen("sleep")
       \/ /\ call.time >= Patience \/ pbServiceMap[call.name] # <<>>
          /\ call' = NoCall /\ UNCHANGED toCenter
    /\ UNCHANGED <<centerVars, up, toWatcher, watcherVars, trouble, asks>>

SleepEnds ==
    /\ call.pc = "sleep" /\ Goto("look")
    /\ UNCHANGED <<centerVars, up, toCenter, toWatcher, watcherVars, trouble, asks>>

\* The memory after list l: all of it is replaced, or only the one name.
Refreshed(l) ==
    IF l.type = "ALL" THEN l.map
    ELSE [n \in Names |-> IF l.map[n] # <<>> THEN l.map[n] ELSE pbServiceMap[n]]

\* Mutant: the file is not rewritten for a list of one name.
Saves_AllOnly(l) == l.type = "ALL"

\* A list of one name that is empty changes nothing and is not saved.
Saves(l) == l.type = "ALL" \/ l.map # EmptyMap

\* getServiceRes, under pbServiceMapMtx: refresh the memory and open the file,
\* which truncates it.  A torn list is not parsed.
GetServiceRes ==
    /\ toWatcher # <<>> /\ MutexFree
    /\ toWatcher' = Tail(toWatcher)
    /\ \/ /\ Head(toWatcher).type = "torn"
          /\ UNCHANGED <<pbServiceMap, cacheFile, saving>>
       \/ /\ Head(toWatcher).type # "torn"
          /\ pbServiceMap' = Refreshed(Head(toWatcher))
          /\ saving' = Saves(Head(toWatcher))
          /\ cacheFile' = IF saving' THEN EmptyMap ELSE cacheFile
    /\ UNCHANGED <<centerVars, up, toCenter, pbClientMap, trouble, callVars>>

SaveFile ==
    /\ saving
    /\ saving' = FALSE /\ cacheFile' = pbServiceMap
    /\ UNCHANGED <<centerVars, up, toCenter, toWatcher, pbServiceMap, pbClientMap,
                   trouble, callVars>>

\* getAllService, under the same mutex: load the file again, then copy.
GetAllService ==
    /\ MutexFree
    /\ pbServiceMap' = Loaded(pbServiceMap)
    /\ pbClientMap' = pbServiceMap'
    /\ UNCHANGED <<centerVars, up, toCenter, toWatcher, cacheFile, saving, trouble, callVars>>

-----------------------------------------------------------------------------
Next ==
    \/ \E c \in Clients : LinkUp(c) \/ LinkLost(c) \/ RegisterReq(c)
    \/ CenterRestart \/ WatcherRestart
    \/ GetServiceReq \/ SendAll
    \/ AskAll
    \/ (\E n \in Names : GetServices(n))
    \/ WaitForConnection \/ AskOne \/ LookForServices \/ SleepEnds
    \/ GetServiceRes \/ SaveFile \/ GetAllService

\* Clients reconnect (timer), handles and event loops go on, and the gateway's
\* loop asks and copies every 3 s.
Fairness ==
    /\ \A c \in Clients : WF_vars(LinkUp(c)) /\ WF_vars(RegisterReq(c))
    /\ WF_vars(GetServiceReq) /\ WF_vars(SendAll)
    /\ WF_vars(AskAll) /\ WF_vars(GetServiceRes) /\ WF_vars(SaveFile)
    /\ SF_vars(GetAllService)
    /\ WF_vars(SleepEnds)

Spec == Init /\ [][Next]_vars
FairSpec == Spec /\ Fairness

-----------------------------------------------------------------------------
TypeOK ==
    /\ serviceMap \in Maps /\ sending \in {"no", "clean", "torn"}
    /\ up \subseteq Clients
    /\ toCenter \in [Clients -> Seq(Requests)] /\ toWatcher \in Seq(Lists)
    /\ pbServiceMap \in Maps /\ cacheFile \in Maps \cup {NoFile}
    /\ saving \in BOOLEAN /\ pbClientMap \in Maps
    /\ trouble \in 0 .. MaxTrouble /\ asks \in 0 .. MaxAsks
    /\ call = NoCall \/ call \in [pc : {"connect", "ask", "look", "sleep"}, name : Names,
                                   time : 0 .. Patience]
    /\ Len(toWatcher) <= 1 + MaxAsks * (1 + Patience) /\ \A n \in Names : Len(pbServiceMap[n]) <= Cardinality(Clients)

\* However often clients reconnect, the center lists each of them at most
\* once (the search of registerReq).
NoDoubleEntry == \A n \in Names : IsInjective(serviceMap[n])

\* Outside getServiceRes the file holds what the memory holds, so that the
\* reload in getAllService never takes the memory back to an older list.
FileIsMemory == ~saving => cacheFile \in {NoFile, pbServiceMap}

\* Once connections and processes stay up, the center lists every client, and
\* the gateway gets all of them, whatever the restarts did before
\* (connetedCb after every reconnect; the loop of CServiceProxy).
EveryServiceKnown ==
    <>[](\A c \in Clients : /\ c \in ToSet(serviceMap[NameOf[c]])
                            /\ c \in ToSet(pbClientMap[NameOf[c]]))
=============================================================================
