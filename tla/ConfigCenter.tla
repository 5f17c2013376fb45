---------------------------- MODULE ConfigCenter ----------------------------
(***************************************************************************)
(* The configuration center (configserver/) with two of its clients        *)
(* (configclient/cconfigclient.cpp): a service that keeps its own          *)
(* configuration up to date, and the tool with which an administrator      *)
(* lists, edits and deletes configurations (configgui/).                   *)
(*                                                                         *)
(* Each handle of the center runs on its own thread; every operation on    *)
(* the table is one critical section of mysql_Mtx and is answered on the   *)
(* connection it came from.  A query may fail.  A key stands for ip and    *)
(* port; a content is a number, 0 for the empty privatepb.  The service    *)
(* does not state its ip (the callers of startGetConfig pass 0): the       *)
(* center takes the address of the connection.  A service that looks the   *)
(* center up begins here when its callback has found it.                   *)
(*                                                                         *)
(* Answers that only put a message on the screen are left out.             *)
(***************************************************************************)
EXTENDS Integers, SequencesExt

CONSTANTS
    Keys,        \* keys of configurations
    PortOf,      \* the port of each
    Local,       \* the key of the service
    PageCount,   \* configurations on one page of the list
    Pages,       \* pages that are asked for
    MaxOps,      \* bound: operations of the tool
    MaxTrouble   \* bound: failed queries, lost connections, restarts

Clients == {"service", "tool"}
Contents == 0..MaxOps
\* The key of an answer in which ip and port are not set.
NoKey == "none"

ASSUME KeysAssumption == Local \in Keys /\ NoKey \notin Keys /\ DOMAIN PortOf = Keys
ASSUME PagesAssumption == PageCount \in Nat \ {0} /\ Pages \subseteq Nat \ {0}
ASSUME BoundsAssumption == MaxOps \in Nat /\ MaxTrouble \in Nat

NotCached == -1
NoList == [call |-> 0, keys |-> <<>>]

VARIABLES
    table,        \* cms_service_config: [key, val] by id
    lastId,       \* AUTO_INCREMENT of id
    conn,         \* bev_ of each client: "none", "connecting", "up"
    toCenter,     \* requests of each client, also those still in its buffer
    toClient,     \* answers to each client
    cur,          \* curServiceConfig of the service
    cacheFile,    \* [port]_conf.cache
    saving,       \* the file is truncated and not yet written
    startPc,      \* startGetConfig with the center's address: "waiting" for the
                  \* connection, "timer" when there is a timer, "failed" when it
                  \* gave up; "lookup": the one without, whose callback looks the
                  \* center up once and connects
    toolPc,       \* the tool's own thread: "idle", "send", "wait", "load", "edit"
    toolKey,      \* the key it works on
    toolPage,     \* the page it asks for
    configMap,    \* configMap of the tool
    allConfigs,   \* allConfigs of the tool; the number of the call is a history
    calls,        \* calls of downloadAllConfig so far
    keyOf,        \* history: the key of every content that was ever uploaded
    blind,        \* history: an upload was done although its select failed
    stale,        \* history: a list asked for by an earlier call may still come
    returned,     \* history: what the last call of downloadAllConfig returned
    ops, trouble  \* bounds

serviceVars == <<cur, cacheFile, saving, startPc>>
toolVars == <<toolPc, toolKey, toolPage, configMap, allConfigs, calls, stale, returned>>
centerVars == <<table, lastId, blind>>
netVars == <<conn, toCenter, toClient>>
vars == <<table, lastId, conn, toCenter, toClient, cur, cacheFile, saving, startPc, toolPc,
          toolKey, toolPage, configMap, allConfigs, calls, keyOf, blind, stale, returned, ops,
          trouble>>

Down(k) == [type |-> "DOWNLOAD", key |-> k]
Up(k, v) == [type |-> "UPLOAD", key |-> k, val |-> v]
Del(k) == [type |-> "DELETE", key |-> k]
ListReq(p, c) == [type |-> "LIST", page |-> p, call |-> c]
Conf(k, v) == [type |-> "CONFIG", key |-> k, val |-> v]
ListRes(c, ks) == [type |-> "LIST", call |-> c, keys |-> ks]

\* The init() of the service sends a first request into the buffer.  Without the
\* center's address that is after the callback has found and connected it.
Init ==
    /\ table = <<>> /\ lastId = 0
    /\ conn = [c \in Clients |-> "connecting"]
    /\ toCenter = [c \in Clients |-> IF c = "service" THEN <<Down(Local)>> ELSE <<>>]
    /\ toClient = [c \in Clients |-> <<>>]
    /\ cur = 0 /\ cacheFile = 0 /\ saving = FALSE
    /\ startPc \in {"waiting", "lookup"}
    /\ toolPc = "idle" /\ toolKey = NoKey /\ toolPage = 1
    /\ configMap = [k \in Keys \cup {NoKey} |-> NotCached]
    /\ allConfigs = NoList /\ calls = 0
    /\ keyOf = <<>> /\ blind = FALSE /\ stale = FALSE
    /\ returned = [call |-> 0, keys |-> <<>>, clean |-> TRUE]
    /\ ops = 0 /\ trouble = 0

\* Wrong: no test of bev_.
Sent_Untested(c, m) == [toCenter EXCEPT ![c] = Append(@, m)]
\* writeMsg: without a bufferevent the message is gone.
Sent(c, m) ==
    IF conn[c] = "none" THEN toCenter ELSE [toCenter EXCEPT ![c] = Append(@, m)]

-----------------------------------------------------------------------------
(* The network. *)

\* The reconnect timer, or a user's call of downloadAllConfig (autoConnect).
Connect(c) ==
    /\ conn[c] = "none"
    /\ conn' = [conn EXCEPT ![c] = "connecting"]
    /\ UNCHANGED <<centerVars, toCenter, toClient, serviceVars, toolVars, keyOf, ops,
                   trouble>>

\* CComeTask::init returns before it sets that timer when it has no address.
Reconnects(c) == c = "tool" \/ startPc # "lookup"

Connected(c) ==
    /\ conn[c] = "connecting"
    /\ conn' = [conn EXCEPT ![c] = "up"]
    /\ UNCHANGED <<centerVars, toCenter, toClient, serviceVars, toolVars, keyOf, ops,
                   trouble>>

\* closeBev: what is in the buffers is gone.
Closed(c) ==
    /\ conn' = [conn EXCEPT ![c] = "none"]
    /\ toCenter' = [toCenter EXCEPT ![c] = <<>>]
    /\ toClient' = [toClient EXCEPT ![c] = <<>>]

Lose(c) ==
    /\ conn[c] # "none" /\ trouble < MaxTrouble
    /\ Closed(c)
    /\ trouble' = trouble + 1
    /\ UNCHANGED <<centerVars, serviceVars, toolVars, keyOf, ops>>

-----------------------------------------------------------------------------
(* The center. *)

\* Wrong: the rows are looked up by the port alone.
Selected_Port(k) == {i \in DOMAIN table : PortOf[table[i].key] = PortOf[k]}

\* The rows with this ip and port.
Selected(k) == {i \in DOMAIN table : table[i].key = k}

Updated(k, v) ==
    [i \in DOMAIN table |-> IF i \in Selected(k) THEN [key |-> k, val |-> v] ELSE table[i]]

Insert(k, v) ==
    /\ lastId' = lastId + 1
    /\ table' = [i \in DOMAIN table \cup {lastId'} |->
                    IF i = lastId' THEN [key |-> k, val |-> v] ELSE table[i]]

\* The request c's handle works on.
Handles(c, type) ==
    /\ conn[c] = "up" /\ toCenter[c] # <<>> /\ Head(toCenter[c]).type = type
    /\ toCenter' = [toCenter EXCEPT ![c] = Tail(@)]
    /\ UNCHANGED <<conn, serviceVars, toolVars, keyOf, ops>>

QueryFails == trouble < MaxTrouble /\ trouble' = trouble + 1
Answer(c, m) == toClient' = [toClient EXCEPT ![c] = Append(@, m)]

\* Wrong: no look whether there is a row.
HasRow_Never(k) == FALSE
HasRow(k) == Selected(k) # {}

\* uploadConfig: a row is updated if there is one.  When the select fails,
\* getResult returns no rows and a row is inserted all the same.
ServerUpload(c) ==
    /\ Handles(c, "UPLOAD")
    /\ LET m == Head(toCenter[c]) IN
        \/ /\ HasRow(m.key) /\ table' = Updated(m.key, m.val)
           /\ UNCHANGED <<lastId, blind, trouble>>
        \/ ~HasRow(m.key) /\ Insert(m.key, m.val) /\ UNCHANGED <<blind, trouble>>
        \/ QueryFails /\ UNCHANGED centerVars                       \* the last query
        \/ QueryFails /\ Insert(m.key, m.val) /\ blind' = TRUE      \* the select
    /\ UNCHANGED toClient

\* The first row, and the empty content if there is none or the query fails.
FirstVal(k) ==
    IF Selected(k) = {} THEN 0
    ELSE table[Min(Selected(k))].val

ServerDownload(c) ==
    /\ Handles(c, "DOWNLOAD")
    /\ LET k == Head(toCenter[c]).key IN
        \/ Answer(c, Conf(k, FirstVal(k))) /\ UNCHANGED trouble
        \/ Answer(c, Conf(k, 0)) /\ QueryFails
    /\ UNCHANGED centerVars

\* order by id desc limit (page - 1) * pageCount, pageCount
PageOf(p) ==
    LET ids == SetToSortSeq(DOMAIN table, >)
    IN [n \in 1 .. Min({PageCount, Max({0, Len(ids) - (p - 1) * PageCount})}) |->
            table[ids[(p - 1) * PageCount + n]].key]

ServerList(c) ==
    /\ Handles(c, "LIST")
    /\ LET m == Head(toCenter[c]) IN
        \/ Answer(c, ListRes(m.call, PageOf(m.page))) /\ UNCHANGED trouble
        \/ Answer(c, ListRes(m.call, <<>>)) /\ QueryFails
    /\ UNCHANGED centerVars

\* delete ... where ip and port
Remaining(k) == Restrict(table, DOMAIN table \ Selected(k))

\* A failed delete is answered with the type of a configuration; the client
\* takes it for one without ip and port.
ServerDelete(c) ==
    /\ Handles(c, "DELETE")
    /\ LET k == Head(toCenter[c]).key IN
        \/ /\ table' = Remaining(k)
           /\ UNCHANGED <<toClient, trouble>>
        \/ Answer(c, Conf(NoKey, 0)) /\ QueryFails /\ UNCHANGED table
    /\ UNCHANGED <<lastId, blind>>

-----------------------------------------------------------------------------
(* The service. *)

\* waitforConnected of the startGetConfig that takes the server's address: only
\* after it succeeded is there a timer.
StartConnected ==
    /\ startPc = "waiting" /\ conn["service"] = "up"
    /\ startPc' = "timer"
    /\ UNCHANGED <<centerVars, netVars, cur, cacheFile, saving, toolVars, keyOf, ops,
                   trouble>>

StartTimesOut ==
    /\ startPc = "waiting" /\ conn["service"] # "up"
    /\ startPc' = "failed"
    /\ UNCHANGED <<centerVars, netVars, cur, cacheFile, saving, toolVars, keyOf, ops,
                   trouble>>

Unanswered(c) == toCenter[c] # <<>> \/ toClient[c] # <<>>

\* timerCb.  The cap on unanswered requests is a bound of the model; the timer
\* asks every 3 s.
TimerCb ==
    /\ startPc \in {"timer", "lookup"} /\ ~saving /\ ~Unanswered("service")
    /\ toCenter' = Sent("service", Down(Local))
    /\ UNCHANGED <<centerVars, conn, toClient, serviceVars, toolVars, keyOf, ops, trouble>>

\* A user of the same client downloads another configuration.
DownloadOther ==
    /\ ~Unanswered("service") /\ ops < MaxOps
    /\ \E k \in Keys \ {Local} : toCenter' = Sent("service", Down(k))
    /\ ops' = ops + 1
    /\ UNCHANGED <<centerVars, conn, toClient, serviceVars, toolVars, keyOf, trouble>>

\* Wrong: an empty localIp_ is compared as it is.
IsLocal_EmptyIp(k) == FALSE
\* The keys are compared with the answer's own ip, as localIp_ is empty.
IsLocal(k) == k # NoKey /\ PortOf[k] = PortOf[Local]

\* downloadConfigRes: memory is set, then the file is truncated.
DownloadConfigRes ==
    /\ toClient["service"] # <<>> /\ ~saving
    /\ LET m == Head(toClient["service"]) IN
        IF IsLocal(m.key)
        THEN cur' = m.val /\ cacheFile' = 0 /\ saving' = TRUE
        ELSE UNCHANGED <<cur, cacheFile, saving>>
    /\ toClient' = [toClient EXCEPT !["service"] = Tail(@)]
    /\ UNCHANGED <<centerVars, conn, toCenter, startPc, toolVars, keyOf, ops, trouble>>

SaveFile ==
    /\ saving
    /\ cacheFile' = cur /\ saving' = FALSE
    /\ UNCHANGED <<centerVars, netVars, cur, startPc, toolVars, keyOf, ops, trouble>>

\* One startGetConfig reads the file, the other waits for the connection.
ServiceRestart ==
    /\ trouble < MaxTrouble /\ trouble' = trouble + 1
    /\ \/ startPc = "lookup" /\ cur' = cacheFile /\ UNCHANGED startPc
       \/ startPc # "lookup" /\ cur' = 0 /\ startPc' = "waiting"
    /\ conn' = [conn EXCEPT !["service"] = "connecting"]
    /\ toCenter' = [toCenter EXCEPT !["service"] = <<Down(Local)>>]
    /\ toClient' = [toClient EXCEPT !["service"] = <<>>]
    /\ saving' = FALSE
    /\ UNCHANGED <<centerVars, cacheFile, toolVars, keyOf, ops>>

-----------------------------------------------------------------------------
(* The tool: its event thread. *)

ToolConfigRes ==
    /\ toClient["tool"] # <<>> /\ Head(toClient["tool"]).type = "CONFIG"
    /\ LET m == Head(toClient["tool"]) IN configMap' = [configMap EXCEPT ![m.key] = m.val]
    /\ toClient' = [toClient EXCEPT !["tool"] = Tail(@)]
    /\ UNCHANGED <<centerVars, conn, toCenter, serviceVars, toolPc, toolKey, toolPage,
                   allConfigs, calls, stale, returned, keyOf, ops, trouble>>

DownloadAllConfigRes ==
    /\ toClient["tool"] # <<>> /\ Head(toClient["tool"]).type = "LIST"
    /\ LET m == Head(toClient["tool"]) IN
        allConfigs' = [call |-> m.call, keys |-> m.keys]
    /\ toClient' = [toClient EXCEPT !["tool"] = Tail(@)]
    /\ UNCHANGED <<centerVars, conn, toCenter, serviceVars, toolPc, toolKey, toolPage,
                   configMap, calls, stale, returned, keyOf, ops, trouble>>

-----------------------------------------------------------------------------
(* The tool: the thread of its user. *)

ToolBegins(pc) ==
    /\ toolPc = "idle" /\ ops < MaxOps
    /\ ops' = ops + 1 /\ toolPc' = pc

\* Wrong: the list of the call before stays.
ListAtStart_Kept == allConfigs
\* downloadAllConfig clears the list of the call before.
ListAtStart == NoList

\* A list on its way to the tool, or a request for one.
ListPending ==
    \E i \in DOMAIN toCenter["tool"] \cup DOMAIN toClient["tool"] :
        \/ i \in DOMAIN toCenter["tool"] /\ toCenter["tool"][i].type = "LIST"
        \/ i \in DOMAIN toClient["tool"] /\ toClient["tool"][i].type = "LIST"

\* The window closes its connection before it asks, other callers do not.
ListStart ==
    /\ ToolBegins("send") /\ toolPage' \in Pages
    /\ allConfigs' = ListAtStart /\ calls' = calls + 1
    /\ \/ Closed("tool") /\ stale' = FALSE
       \/ stale' = ListPending /\ UNCHANGED netVars
    /\ UNCHANGED <<centerVars, serviceVars, toolKey, configMap, returned, keyOf, trouble>>

\* autoConnect, then the request.
ListSend ==
    /\ toolPc = "send"
    /\ \/ /\ conn["tool"] = "up"
          /\ toCenter' = Sent("tool", ListReq(toolPage, calls))
          /\ toolPc' = "wait" /\ UNCHANGED returned
       \/ /\ conn["tool"] # "up"    \* timeoutSec is over
          /\ returned' = [call |-> calls, keys |-> <<>>, clean |-> ~stale]
          /\ toolPc' = "idle" /\ UNCHANGED toCenter
    /\ UNCHANGED <<centerVars, conn, toClient, serviceVars, toolKey, toolPage, configMap, allConfigs,
                   calls, stale, keyOf, ops, trouble>>

\* A list is there, or the time is over.
ListReturn ==
    /\ toolPc = "wait"
    /\ returned' = IF allConfigs # NoList
                   THEN [call |-> allConfigs.call, keys |-> allConfigs.keys,
                         clean |-> ~stale]
                   ELSE [call |-> calls, keys |-> <<>>, clean |-> ~stale]
    /\ toolPc' = "idle"
    /\ UNCHANGED <<centerVars, netVars, serviceVars, toolKey, toolPage, configMap, allConfigs,
                   calls, stale, keyOf, ops, trouble>>

DeleteConfig ==
    /\ ToolBegins("idle")
    /\ \E k \in Keys : toCenter' = Sent("tool", Del(k))
    /\ UNCHANGED <<centerVars, conn, toClient, serviceVars, toolKey, toolPage, configMap,
                   allConfigs, calls,
                   stale, returned, keyOf, trouble>>

\* ConfigEdit::loadConfig asks for the configuration ...
LoadConfig ==
    /\ ToolBegins("load") /\ toolKey' \in Keys
    /\ toCenter' = Sent("tool", Down(toolKey'))
    /\ UNCHANGED <<centerVars, conn, toClient, serviceVars, toolPage, configMap, allConfigs, calls,
                   stale, returned, keyOf, trouble>>

\* ... and takes what configMap has, an empty one or none at all ends it.
GetConfig ==
    /\ toolPc = "load"
    /\ toolPc' = IF configMap[toolKey] \in {NotCached, 0} THEN "idle" ELSE "edit"
    /\ UNCHANGED <<centerVars, netVars, serviceVars, toolKey, toolPage, configMap, allConfigs,
                   calls, stale, returned, keyOf, ops, trouble>>

\* ConfigEdit::save of an edited or (addConfig) a new configuration.
Upload(k) ==
    /\ keyOf' = Append(keyOf, k)
    /\ toCenter' = Sent("tool", Up(k, Len(keyOf) + 1))
    /\ UNCHANGED <<centerVars, conn, toClient, serviceVars, toolKey, toolPage, configMap,
                   allConfigs, calls, stale, returned, trouble>>

SaveEdited == toolPc = "edit" /\ toolPc' = "idle" /\ Upload(toolKey) /\ UNCHANGED ops
\* The dialog is closed without saving.
CancelEdit ==
    /\ toolPc = "edit" /\ toolPc' = "idle"
    /\ UNCHANGED <<centerVars, netVars, serviceVars, toolKey, toolPage, configMap, allConfigs,
                   calls, stale, returned, keyOf, ops, trouble>>
SaveNew == ToolBegins("idle") /\ \E k \in Keys : Upload(k)

-----------------------------------------------------------------------------

Server(c) == ServerUpload(c) \/ ServerDownload(c) \/ ServerList(c) \/ ServerDelete(c)
ToolThread == ListStart \/ ListSend \/ ListReturn \/ DeleteConfig \/ LoadConfig
                  \/ GetConfig \/ SaveEdited \/ CancelEdit \/ SaveNew

Next ==
    \/ \E c \in Clients : Connect(c) \/ Connected(c) \/ Lose(c) \/ Server(c)
    \/ StartConnected \/ StartTimesOut \/ TimerCb \/ DownloadOther
    \/ DownloadConfigRes \/ SaveFile \/ ServiceRestart
    \/ ToolConfigRes \/ DownloadAllConfigRes \/ ToolThread

Spec == Init /\ [][Next]_vars

\* Reconnection is a timer, where there is one; handles and event threads serve what arrives, the
\* timer of the service fires every 3 s.
FairSpec ==
    /\ Spec
    /\ \A c \in Clients :
        /\ WF_vars(Reconnects(c) /\ Connect(c))
        /\ WF_vars(Connected(c)) /\ WF_vars(Server(c))
    /\ SF_vars(TimerCb) /\ WF_vars(DownloadConfigRes) /\ WF_vars(SaveFile)

-----------------------------------------------------------------------------
(* Properties. *)

\* Types.
TypeOK ==
    /\ lastId \in Nat
    /\ \E ids \in SUBSET (1..lastId) : table \in [ids -> [key : Keys, val : 1..MaxOps]]
    /\ conn \in [Clients -> {"none", "connecting", "up"}]
    /\ \A c \in Clients : conn[c] = "none" => ~Unanswered(c)
    /\ cur \in Contents /\ cacheFile \in Contents /\ saving \in BOOLEAN
    /\ startPc \in {"waiting", "timer", "failed", "lookup"}
    /\ toolPc \in {"idle", "send", "wait", "load", "edit"}
    /\ toolKey \in Keys \cup {NoKey} /\ toolPage \in Pages \cup {1}
    /\ configMap \in [Keys \cup {NoKey} -> Contents \cup {NotCached}]
    /\ calls \in 0..MaxOps /\ keyOf \in Seq(Keys)
    /\ blind \in BOOLEAN /\ stale \in BOOLEAN
    /\ ops \in 0..MaxOps /\ trouble \in 0..MaxTrouble

\* A key has one row as long as no upload went on after a failed select
\* (uploadConfig: "if there is such a row already, it is modified").
OneRowPerKey ==
    ~blind => \A i, j \in DOMAIN table : table[i].key = table[j].key => i = j

\* Nobody is given a content that was uploaded for another key, whatever
\* uploads, edits, deletes and failed queries came between: the center answers
\* with one of the key, the tool's map has one of the key, and the service, in
\* memory and in its file, one of its port.
ContentsKeepTheirKey ==
    /\ \A k \in Keys : FirstVal(k) # 0 => keyOf[FirstVal(k)] = k
    /\ \A k \in Keys : configMap[k] > 0 => keyOf[configMap[k]] = k
    /\ \A v \in {cur, cacheFile} \ {0} : PortOf[keyOf[v]] = PortOf[Local]

\* A call of downloadAllConfig returns a list asked for by that call and no
\* other, unless an earlier call gave up while its list was still to come.
OwnList == returned.clean => returned.call = calls \/ toolPc \in {"send", "wait"}

Follows(v) == cur = v /\ (saving \/ cacheFile = v)

\* When the service has its timer and the table stays as it is, memory and cache
\* file end up as the table says, after any lost connections and restarts;
\* without a reconnect timer only if the connection is not lost for good.
FollowsTable ==
    \A v \in Contents :
        <>[](/\ startPc \in {"timer", "lookup"} /\ FirstVal(Local) = v
             /\ Reconnects("service") \/ conn["service"] # "none") => <>[]Follows(v)
=============================================================================
