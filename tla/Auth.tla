-------------------------------- MODULE Auth --------------------------------
(***************************************************************************)
(* The authentication service (cauth/): CService accepts connections and   *)
(* gives each a CAuthHandle on a thread of its pool; CAuthDAO answers      *)
(* logins with statements on the one CMysql of the process (cmysql/);      *)
(* CAuthClient sends logins and waits for what its event thread stores.    *)
(*                                                                         *)
(* login() takes no mutex, so that logins on two threads interleave on the *)
(* MySQL connection.  The client library is not made for that; what it     *)
(* does is taken from its protocol: statements are executed in the order   *)
(* they are sent, whoever reads next gets the next answer, and a reader    *)
(* that finds the answers out of order loses the connection.  That the     *)
(* process may crash is left out.                                          *)
(*                                                                         *)
(* The role of a user is identified with the user, a token with the id of  *)
(* its row in cms_token; rows that expired are left in the table.          *)
(***************************************************************************)
EXTENDS Integers, FiniteSets, SequencesExt

CONSTANTS
    Clients,       \* processes with a CAuthClient
    Users,
    Known,         \* users in cms_auth at the start
    Forbidden,     \* user names with a semicolon or a quote
    Threads,       \* threads of the pool for handles
    MaxTries,      \* bound: logins and added users
    MaxTrouble     \* bound: lost connections and failed statements

ASSUME UsersAssumption ==
    IsFiniteSet(Users) /\ Known \subseteq Users /\ Forbidden \subseteq Users
ASSUME ClientsAssumption == IsFiniteSet(Clients) /\ Threads \in Nat \ {0}
ASSUME BoundsAssumption == MaxTries \in Nat /\ MaxTrouble \in Nat

Pool == 1..Threads
Conns == 1..(Cardinality(Clients) + MaxTrouble)
Tries == 1..MaxTries
Garbage == "garbage"    \* what is read from a row that was freed or is another's
NoRow == [kind |-> "none"]
NoEntry == [res |-> "none"]
\* With the error that every return before the last sets, but for the first.
NoWork == [named |-> FALSE, role |-> Garbage, id |-> 0, token |-> 0, res |-> "ERROR"]
\* An answer nobody has set: OK is its default (cmsgcom.proto).
Untouched == [named |-> FALSE, role |-> Garbage, id |-> 0, token |-> 0, res |-> "OK"]

VARIABLES
    tries,      \* history: [client, type, user, right] of each request, in order
    sent,       \* history: requests that were written to a connection
    answered,   \* history: the answer that was made to each login
    mixed,      \* history: logins that shared the MySQL connection with another
    late,       \* history: logins begun before the answer to an earlier one came
    shown,      \* history: the login whose answer getLoginInfo gave to each login
    conn,       \* the connection of each client, 0: none
    accepted,   \* connections accepted so far
    toServer,   \* requests of each connection
    toClient,   \* answers on each connection
    callPc,     \* the thread of the user: "idle", "send", "wait"
    loginMap,   \* loginMap_ of each client
    pc, stmt,   \* where a thread of the pool is, and in which statement
    job,        \* its request: [conn, try]
    got,        \* the first of the rows getResult has returned so far
    work,       \* the local variables and the answer of login()
    accounts,   \* cms_auth
    tokens,     \* cms_token: [user, role, try], the try being a history
    status,     \* of mysql_: "ready", or "result" when rows wait to be stored
    inFlight,   \* answers of the database that nobody has read
    pending,    \* the rows that wait
    result,     \* the rows of result_ not fetched yet
    valid,      \* threads whose rows are in the memory of result_
    affected, insertId,   \* mysql_affected_rows() > 0, mysql_insert_id()
    trouble     \* bound

histVars == <<tries, sent, answered, mixed, late, shown>>
netVars == <<conn, accepted, toServer, toClient>>
clientVars == <<callPc, loginMap>>
dbVars == <<accounts, tokens>>
mysqlVars == <<status, inFlight, pending, result, valid, affected, insertId>>
threadVars == <<pc, stmt, job, got, work>>
vars == <<histVars, netVars, clientVars, dbVars, mysqlVars, threadVars, trouble>>

NoJob == [conn |-> 0, try |-> 0]

Init ==
    /\ tries = <<>> /\ sent = {} /\ answered = [k \in Tries |-> NoEntry]
    /\ mixed = {} /\ late = {} /\ shown = [k \in Tries |-> 0]
    /\ conn = [c \in Clients |-> 0] /\ accepted = 0
    /\ toServer = [n \in Conns |-> <<>>] /\ toClient = [n \in Conns |-> <<>>]
    /\ callPc = [c \in Clients |-> "idle"]
    /\ loginMap = [c \in Clients |-> [u \in Users |-> NoEntry]]
    /\ accounts = Known /\ tokens = <<>>
    /\ status = "ready" /\ inFlight = <<>> /\ pending = <<>> /\ result = <<>>
    /\ valid = {} /\ affected = FALSE /\ insertId = 0
    /\ pc = [t \in Pool |-> "idle"] /\ stmt = [t \in Pool |-> "none"]
    /\ job = [t \in Pool |-> NoJob] /\ got = [t \in Pool |-> NoRow]
    /\ work = [t \in Pool |-> NoWork]
    /\ trouble = 0

-----------------------------------------------------------------------------
(* Connections: CService, and the reconnecting CServiceClient. *)

\* listenCb gives the n-th connection to the next thread of the pool.
ThreadOf(n) == ((n - 1) % Threads) + 1

Connect(c) ==
    /\ conn[c] = 0
    /\ accepted' = accepted + 1
    /\ conn' = [conn EXCEPT ![c] = accepted + 1]
    /\ UNCHANGED <<histVars, toServer, toClient, clientVars, dbVars, mysqlVars,
                   threadVars, trouble>>

\* What is on its way is gone; a login that has begun goes on.
ConnectionLost(c) ==
    /\ conn[c] # 0
    /\ trouble < MaxTrouble /\ trouble' = trouble + 1
    /\ conn' = [conn EXCEPT ![c] = 0]
    /\ toServer' = [toServer EXCEPT ![conn[c]] = <<>>]
    /\ toClient' = [toClient EXCEPT ![conn[c]] = <<>>]
    /\ UNCHANGED <<histVars, accepted, clientVars, dbVars, mysqlVars, threadVars>>

IsUp(n) == \E c \in Clients : conn[c] = n

-----------------------------------------------------------------------------
(* CAuthClient. *)

Current(c) == SelectLastInSeq(tries, LAMBDA r : r.client = c /\ r.type = "login")

\* Wrong: what is known of the user stays until the answer.
Forgotten_Kept(m, u) == m
\* loginMap_.erase
Forgotten(m, u) == [m EXCEPT ![u] = NoEntry]

\* The logins of the client for u whose answers can still come.
Open(c, u) ==
    {k \in sent : /\ tries[k].client = c /\ tries[k].user = u
                  /\ tries[k].type = "login" /\ conn[c] # 0
                  /\ \/ k \in ToSet(toServer[conn[c]])
                     \/ [conn |-> conn[c], try |-> k] \in {job[t] : t \in Pool}
                     \/ k \in {a.try : a \in ToSet(toClient[conn[c]])}}

\* LoginReq, by the thread of the window: forget the user, then send.
LoginReq(c, u, right) ==
    /\ callPc[c] = "idle" /\ Len(tries) < MaxTries
    /\ tries' = Append(tries, [client |-> c, type |-> "login", user |-> u, right |-> right])
    /\ loginMap' = [loginMap EXCEPT ![c] = Forgotten(@, u)]
    /\ late' = IF Open(c, u) = {} THEN late ELSE late \cup {Len(tries) + 1}
    /\ callPc' = [callPc EXCEPT ![c] = "send"]
    /\ UNCHANGED <<sent, answered, mixed, shown, netVars, dbVars, mysqlVars, threadVars,
                   trouble>>

\* sendMsg; its result is not looked at.
SendLogin(c) ==
    /\ callPc[c] = "send"
    /\ callPc' = [callPc EXCEPT ![c] = "wait"]
    /\ IF conn[c] = 0 THEN UNCHANGED <<sent, toServer>>
       ELSE /\ sent' = sent \cup {Current(c)}
            /\ toServer' = [toServer EXCEPT ![conn[c]] = Append(@, Current(c))]
    /\ UNCHANGED <<tries, answered, mixed, late, shown, conn, accepted, toClient, loginMap,
                   dbVars, mysqlVars, threadVars, trouble>>

\* addUserReq: nobody waits for the answer.
AddUserReq(c, u) ==
    /\ conn[c] # 0 /\ callPc[c] = "idle" /\ Len(tries) < MaxTries
    /\ tries' = Append(tries, [client |-> c, type |-> "add", user |-> u, right |-> TRUE])
    /\ sent' = sent \cup {Len(tries) + 1}
    /\ toServer' = [toServer EXCEPT ![conn[c]] = Append(@, Len(tries) + 1)]
    /\ UNCHANGED <<answered, mixed, late, shown, conn, accepted, toClient, clientVars,
                   dbVars, mysqlVars, threadVars, trouble>>

\* LoginRes, on the event thread: an answer without a user name is dropped.
LoginRes(c) ==
    /\ conn[c] # 0 /\ toClient[conn[c]] # <<>>
    /\ LET a == Head(toClient[conn[c]])
       IN  loginMap' = IF a.named THEN [loginMap EXCEPT ![c][a.user] = a] ELSE loginMap
    /\ toClient' = [toClient EXCEPT ![conn[c]] = Tail(@)]
    /\ UNCHANGED <<histVars, conn, accepted, toServer, callPc, dbVars, mysqlVars,
                   threadVars, trouble>>

\* getLoginInfo finds an answer, good or bad.
LoginFound(c) ==
    /\ callPc[c] = "wait"
    /\ LET a == loginMap[c][tries[Current(c)].user]
       IN  /\ a # NoEntry
           /\ shown' = IF a.res = "OK" THEN [shown EXCEPT ![Current(c)] = a.try] ELSE shown
    /\ callPc' = [callPc EXCEPT ![c] = "idle"]
    /\ UNCHANGED <<tries, sent, answered, mixed, late, netVars, loginMap, dbVars, mysqlVars,
                   threadVars, trouble>>

\* timeoutMs is over.
LoginGivenUp(c) ==
    /\ callPc[c] = "wait" /\ loginMap[c][tries[Current(c)].user] = NoEntry
    /\ callPc' = [callPc EXCEPT ![c] = "idle"]
    /\ UNCHANGED <<histVars, netVars, loginMap, dbVars, mysqlVars, threadVars, trouble>>

-----------------------------------------------------------------------------
(* The MySQL connection of the process. *)

User(t) == tries[job[t].try].user

\* Wrong: the token is looked for by the name of the user.
TokenRows_ByName(t) ==
    LET own == {k \in DOMAIN tokens : tokens[k].user = User(t)}
    IN  IF own = {} THEN <<>> ELSE <<[kind |-> "token", id |-> Min(own)]>>
\* select token from cms_token where id=...
TokenRows(t) ==
    IF work[t].id \in DOMAIN tokens THEN <<[kind |-> "token", id |-> work[t].id]>> ELSE <<>>

Rows(r) == [kind |-> "rows", rows |-> r]
Done(some, id) == [kind |-> "ok", some |-> some, id |-> id]
Failure == [kind |-> "failed"]

Sends(a) == inFlight' = Append(inFlight, a)

\* The database executes the statement of thread t and sends the answer.  No row
\* has expired.
Executed(t) ==
    \/ /\ stmt[t] = "user"
       /\ Sends(Rows(IF User(t) \in accounts /\ tries[job[t].try].right
                     THEN <<[kind |-> "user", user |-> User(t)]>> ELSE <<>>))
       /\ UNCHANGED dbVars
    \/ /\ stmt[t] = "insert"
       /\ tokens' = Append(tokens, [user |-> User(t), role |-> work[t].role,
                                    try |-> job[t].try])
       /\ Sends(Done(TRUE, Len(tokens) + 1)) /\ UNCHANGED accounts
    \/ stmt[t] = "token" /\ Sends(Rows(TokenRows(t))) /\ UNCHANGED dbVars
    \/ stmt[t] = "delete" /\ Sends(Done(FALSE, 0)) /\ UNCHANGED dbVars
    \/ /\ stmt[t] = "add" /\ User(t) \notin accounts
       /\ accounts' = accounts \cup {User(t)}
       /\ Sends(Done(TRUE, Cardinality(accounts) + 1)) /\ UNCHANGED tokens
    \/ /\ stmt[t] = "add" /\ User(t) \in accounts \cup Forbidden    \* a quote spoils it
       /\ Sends(Failure) /\ UNCHANGED dbVars

Goto(t, p) == pc' = [pc EXCEPT ![t] = p] /\ UNCHANGED <<stmt, job, got, work>>

Begin(t, p, s) ==
    /\ pc' = [pc EXCEPT ![t] = p] /\ stmt' = [stmt EXCEPT ![t] = s]
    /\ got' = [got EXCEPT ![t] = NoRow] /\ UNCHANGED job

\* What login() and addUser() do when a statement went wrong: every answer but
\* that of the last statement, whose result is not looked at, is an error.
Failed(t) ==
    Goto(t, "answer")

\* mysql_free_result, the first call of getResult: the rows of every thread are in
\* this memory.
FreeResult == result' = <<>> /\ valid' = {}

\* mysql_real_query sends the statement, unless rows wait to be stored.
Query(t) ==
    /\ pc[t] = "query"
    /\ \/ /\ status = "ready"
          /\ \/ Executed(t) /\ UNCHANGED trouble
             \/ /\ trouble < MaxTrouble /\ trouble' = trouble + 1
                /\ Sends(Failure) /\ UNCHANGED dbVars
          /\ Goto(t, "read")
       \/ /\ status = "result"
          /\ Failed(t)
          /\ UNCHANGED <<inFlight, dbVars, trouble>>
    /\ UNCHANGED <<histVars, netVars, clientVars, status, pending, result, valid, affected,
                   insertId>>

\* Wrong: an answer that was read is left for the next reader.
Unread_Kept == inFlight
\* Answers come in the order of the statements; each is read once.
Unread == Tail(inFlight)

\* The second half of mysql_real_query reads an answer.
Read(t) ==
    /\ pc[t] = "read"
    /\ \/ /\ inFlight # <<>>
          /\ inFlight' = Unread
          /\ LET a == Head(inFlight)
             IN  \/ /\ a.kind = "rows"
                    /\ status' = "result" /\ pending' = a.rows /\ affected' = FALSE
                    /\ insertId' = 0
                 \/ /\ a.kind = "ok"
                    /\ affected' = a.some /\ insertId' = a.id
                    /\ UNCHANGED <<status, pending>>
                 \/ /\ a.kind = "failed"
                    /\ UNCHANGED <<status, pending, affected, insertId>>
          /\ IF Head(inFlight).kind = "failed" THEN Failed(t)
             ELSE Goto(t, CASE stmt[t] \in {"user", "token"} -> "store"
                            [] stmt[t] \in {"insert", "add"} -> "check"
                            [] stmt[t] = "delete" -> "answer")
       \/ /\ Len(inFlight) # 1     \* nothing to read, or out of order
          /\ inFlight' = <<>>
          /\ UNCHANGED <<status, pending, affected, insertId>>
          /\ Failed(t)
    /\ UNCHANGED <<histVars, netVars, clientVars, dbVars, result, valid, trouble>>

\* CMysql::insert looks at the number of rows.
CheckInserted(t) ==
    /\ pc[t] = "check"
    /\ IF affected /\ stmt[t] = "insert" THEN Goto(t, "id") ELSE Failed(t)
    /\ UNCHANGED <<histVars, netVars, clientVars, dbVars, mysqlVars, trouble>>

\* Wrong: mysql_use_result in the place of mysql_store_result.
StatusAfterStore_Use == "result"
\* mysql_store_result takes all rows off the connection.
StatusAfterStore == "ready"

\* storeResult; without rows that wait getResult returns none.
Store(t) ==
    /\ pc[t] = "store"
    /\ valid' = {}
    /\ \/ /\ status = "result"
          /\ result' = pending /\ affected' = (pending # <<>>)
          /\ status' = StatusAfterStore /\ pending' = <<>>
          /\ Goto(t, "fetch")
       \/ /\ status = "ready"
          /\ result' = <<>> /\ UNCHANGED <<status, pending, affected>>
          /\ Failed(t)
    /\ UNCHANGED <<histVars, netVars, clientVars, dbVars, inFlight, insertId, trouble>>

\* fetchRow until there is no row; login() uses the first.
Fetch(t) ==
    /\ pc[t] = "fetch" /\ result' = <<>>
    /\ \/ /\ result # <<>>
          /\ got' = [got EXCEPT ![t] = Head(result)] /\ valid' = valid \cup {t}
          /\ pc' = [pc EXCEPT ![t] = "use"] /\ UNCHANGED <<stmt, job, work>>
       \/ result = <<>> /\ Failed(t) /\ UNCHANGED valid
    /\ UNCHANGED <<histVars, netVars, clientVars, dbVars, status, inFlight, pending,
                   affected, insertId, trouble>>

-----------------------------------------------------------------------------
(* CAuthHandle and CAuthDAO. *)

\* login() returns at once for a name that could spoil its statement, and leaves
\* the answer as it is.
Refused(k) == tries[k].type = "login" /\ tries[k].user \in Forbidden

\* A handle reads its next request; loginReq and addUserReq run on its thread.
\* addUser takes authMtx, which only other calls of addUser take.
Receive(n) ==
    LET t == ThreadOf(n)
        k == Head(toServer[n])
        busy == {u \in Pool : pc[u] # "idle"}
    IN
    /\ toServer[n] # <<>> /\ pc[t] = "idle"
    /\ tries[k].type = "add" => \A u \in busy : stmt[u] # "add"
    /\ toServer' = [toServer EXCEPT ![n] = Tail(@)]
    /\ job' = [job EXCEPT ![t] = [conn |-> n, try |-> k]]
    /\ mixed' = IF busy = {} THEN mixed ELSE mixed \cup {k} \cup {job[u].try : u \in busy}
    /\ work' = [work EXCEPT ![t] = IF Refused(k) THEN Untouched ELSE NoWork]
    /\ pc' = [pc EXCEPT ![t] = IF Refused(k) THEN "answer" ELSE "query"]
    /\ stmt' = [stmt EXCEPT ![t] = IF tries[k].type = "login" THEN "user" ELSE "add"]
    /\ IF tries[k].type = "login" /\ ~Refused(k) THEN FreeResult
       ELSE UNCHANGED <<result, valid>>
    /\ got' = [got EXCEPT ![t] = NoRow]
    /\ UNCHANGED <<tries, sent, answered, late, shown, conn, accepted, toClient, clientVars,
                   dbVars, status, inFlight, pending, affected, insertId, trouble>>

\* What login() reads of its row: a row that was freed may still be intact.
IntactRow(t, kind) == got[t].kind = kind
SureRow(t, kind) == IntactRow(t, kind) /\ t \in valid

\* The user is known: on with the token.
UseUser(t) ==
    /\ pc[t] = "use" /\ stmt[t] = "user"
    /\ \E r \in (IF IntactRow(t, "user") THEN {got[t].user} ELSE {})
                  \cup (IF SureRow(t, "user") THEN {} ELSE {Garbage}) :
        work' = [work EXCEPT ![t].named = TRUE, ![t].role = r]
    /\ Begin(t, "query", "insert")
    /\ UNCHANGED <<histVars, netVars, clientVars, dbVars, mysqlVars, trouble>>

\* getInsertId, and on with the row of that id.
ReadId(t) ==
    /\ pc[t] = "id"
    /\ work' = [work EXCEPT ![t].id = insertId]
    /\ Begin(t, "query", "token") /\ FreeResult
    /\ UNCHANGED <<histVars, netVars, clientVars, dbVars, status, inFlight, pending,
                   affected, insertId, trouble>>

\* The token is there: on with the expired ones.
UseToken(t) ==
    /\ pc[t] = "use" /\ stmt[t] = "token"
    /\ \E k \in (IF IntactRow(t, "token") THEN {got[t].id} ELSE {})
                  \cup (IF SureRow(t, "token") THEN {} ELSE {0}) :
        work' = [work EXCEPT ![t].token = k, ![t].res = "OK"]
    /\ Begin(t, "query", "delete")
    /\ UNCHANGED <<histVars, netVars, clientVars, dbVars, mysqlVars, trouble>>

AnswerOf(t) ==
    [res |-> work[t].res, named |-> work[t].named, user |-> User(t), role |-> work[t].role,
     token |-> work[t].token, try |-> job[t].try]

\* Wrong: loginReq returns when login() failed.
Answers_OkOnly(t) == work[t].res = "OK"
\* loginReq sends the answer of login() whatever it returned.
Answers(t) == TRUE

Answer(t) ==
    /\ pc[t] = "answer"
    /\ IF stmt[t] = "add" \/ ~Answers(t) THEN UNCHANGED <<answered, toClient>>
       ELSE /\ answered' = [answered EXCEPT ![job[t].try] = AnswerOf(t)]
            /\ toClient' = IF IsUp(job[t].conn)
                           THEN [toClient EXCEPT ![job[t].conn] = Append(@, AnswerOf(t))]
                           ELSE toClient
    /\ pc' = [pc EXCEPT ![t] = "idle"] /\ stmt' = [stmt EXCEPT ![t] = "none"]
    /\ job' = [job EXCEPT ![t] = NoJob] /\ got' = [got EXCEPT ![t] = NoRow]
    /\ work' = [work EXCEPT ![t] = NoWork] /\ valid' = valid \ {t}
    /\ UNCHANGED <<tries, sent, mixed, late, shown, conn, accepted, toServer, clientVars,
                   dbVars, status, inFlight, pending, result, affected, insertId, trouble>>

-----------------------------------------------------------------------------

ThreadStep(t) ==
    \/ Query(t) \/ Read(t) \/ CheckInserted(t) \/ Store(t) \/ Fetch(t)
    \/ UseUser(t) \/ ReadId(t) \/ UseToken(t) \/ Answer(t)

ClientStep(c) ==
    \/ Connect(c) \/ ConnectionLost(c)
    \/ (\E u \in Users : AddUserReq(c, u) \/ \E right \in BOOLEAN : LoginReq(c, u, right))
    \/ SendLogin(c) \/ LoginRes(c) \/ LoginFound(c) \/ LoginGivenUp(c)

Next ==
    \/ \E c \in Clients : ClientStep(c)
    \/ \E n \in Conns : Receive(n)
    \/ \E t \in Pool : ThreadStep(t)

Spec == Init /\ [][Next]_vars

\* The threads of the pool go on, and an event loop serves each connection that
\* has something to read.
FairSpec ==
    /\ Spec
    /\ \A t \in Pool : WF_vars(ThreadStep(t))
    /\ \A n \in Conns : SF_vars(Receive(n))

-----------------------------------------------------------------------------
(* Properties. *)

TypeOK ==
    /\ tries \in Seq([client : Clients, type : {"login", "add"}, user : Users,
                      right : BOOLEAN])
    /\ Len(tries) <= MaxTries /\ sent \subseteq Tries
    /\ mixed \subseteq Tries /\ late \subseteq Tries /\ shown \in [Tries -> 0..MaxTries]
    /\ conn \in [Clients -> {0} \cup Conns] /\ accepted \in {0} \cup Conns
    /\ toServer \in [Conns -> Seq(Tries)]
    /\ callPc \in [Clients -> {"idle", "send", "wait"}]
    /\ pc \in [Pool -> {"idle", "query", "read", "check", "store", "fetch", "use",
                        "id", "answer"}]
    /\ stmt \in [Pool -> {"none", "user", "insert", "token", "delete", "add"}]
    /\ accounts \subseteq Users
    /\ \A t \in Pool : /\ work[t].role \in Users \cup {Garbage}
                       /\ work[t].token \in 0..MaxTries
                       /\ stmt[t] # "none" <=> pc[t] # "idle"
    /\ status \in {"ready", "result"} /\ valid \subseteq Pool
    /\ insertId \in 0..(MaxTries + Cardinality(Users))
    /\ Len(inFlight) <= Cardinality({t \in Pool : pc[t] = "read"})
    /\ trouble \in 0..MaxTrouble

\* A login that had the MySQL connection for itself and is answered with OK had the
\* right password, and has a token that was made for it, in its name and role
\* (CAuthDAO::login: the row just inserted, found by its id).  The one other OK is
\* that of a forbidden name: it has neither a token nor the name of the user, so
\* that LoginRes drops it.
TokenIsOwn ==
    \A k \in Tries \ mixed :
        answered[k] # NoEntry /\ answered[k].res = "OK" =>
            \/ /\ answered[k].named /\ tries[k].right
               /\ answered[k].role = tries[k].user /\ answered[k].token \in DOMAIN tokens
               /\ tokens[answered[k].token] = [user |-> tries[k].user, role |-> tries[k].user,
                                               try |-> k]
            \/ /\ tries[k].user \in Forbidden
               /\ answered[k].token = 0 /\ ~answered[k].named

\* getLoginInfo reports what the database said to a login of this client for this
\* user, never a later one, and to this very login unless the answer to an earlier
\* one was still to come (LoginReq forgets before it asks, the connection keeps the
\* order).
OwnAnswer ==
    \A k \in Tries : shown[k] # 0 =>
        LET j == shown[k]
        IN  /\ j <= k /\ tries[j].type = "login"
            /\ tries[j].client = tries[k].client /\ tries[j].user = tries[k].user
            /\ k \notin late => j = k

\* Until two requests have shared the MySQL connection nothing of one is left on
\* it for the next: otherwise every later query is out of sync (getResult).
CleanBetweenLogins ==
    mixed = {} /\ (\A t \in Pool : pc[t] = "idle") => status = "ready" /\ inFlight = <<>>

LoginWaits(n, k) ==
    k \in ToSet(toServer[n]) /\ tries[k].type = "login"

\* Every login that reaches the service on a connection that stays is answered,
\* right or wrong and whatever other logins do to its statements (loginReq).
EveryLoginAnswered ==
    \A n \in Conns, k \in Tries :
        LoginWaits(n, k) ~> (answered[k] # NoEntry \/ ~IsUp(n))
=============================================================================
