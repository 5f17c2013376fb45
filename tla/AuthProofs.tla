----------------------------- MODULE AuthProofs -----------------------------
(* What is proved of Auth, for every number of clients, users, threads,      *)
(* requests and failures.                                                    *)
EXTENDS Auth, SequenceTheorems, FiniteSetTheorems, WellFoundedInduction, TLAPS

-----------------------------------------------------------------------------
(* Types, as far as the properties rest on them. *)

Requests == [client : Clients, type : {"login", "add"}, user : Users, right : BOOLEAN]

\* The clients that have a connection.
Linked == {c \in Clients : conn[c] # 0}

\* The threads that wait for the database.
Readers == {t \in Pool : pc[t] = "read"}

\* Every loss of a connection makes room for the next.
NetTypes ==
    /\ tries \in Seq(Requests) /\ Len(tries) <= MaxTries
    /\ conn \in [Clients -> Nat] /\ accepted \in Nat /\ trouble \in 0..MaxTrouble
    /\ accepted <= Cardinality(Linked) + trouble
    /\ \A c \in Clients : conn[c] <= accepted
    /\ toServer \in [Conns -> Seq(Nat)]
    /\ DOMAIN toClient = Conns /\ \A n \in Conns : \E S : toClient[n] \in Seq(S)
    /\ callPc \in [Clients -> {"idle", "send", "wait"}]
    /\ DOMAIN loginMap = Clients /\ \A c \in Clients : DOMAIN loginMap[c] = Users
    /\ DOMAIN shown = Tries /\ DOMAIN answered = Tries

IsWork(w) == w = [named |-> w.named, role |-> w.role, id |-> w.id, token |-> w.token,
                  res |-> w.res]

\* No more answers of the database are unread than there are readers.
ThreadTypes ==
    /\ pc \in [Pool -> {"idle", "query", "read", "check", "store", "fetch", "use",
                        "id", "answer"}]
    /\ stmt \in [Pool -> {"none", "user", "insert", "token", "delete", "add"}]
    /\ \A t \in Pool : stmt[t] = "none" => pc[t] = "idle"
    /\ job \in [Pool -> [conn : Nat, try : Nat]]
    /\ DOMAIN got = Pool /\ DOMAIN work = Pool /\ \A t \in Pool : IsWork(work[t])
    /\ status \in {"ready", "result"}
    /\ \E S : inFlight \in Seq(S)
    /\ \E S : tokens \in Seq(S)
    /\ Len(inFlight) <= Cardinality(Readers)

-----------------------------------------------------------------------------
(* Operators. *)

\* What Append, Tail and Head do to the elements of a sequence.
LEMMA ElementsOf ==
    ASSUME NEW S, NEW s \in Seq(S)
    PROVE  /\ s # <<>> => /\ Tail(s) \in Seq(S) /\ ToSet(Tail(s)) \subseteq ToSet(s)
                          /\ Head(s) \in ToSet(s) /\ Len(Tail(s)) = Len(s) - 1
                          /\ Len(s) # 0
           /\ \A e : /\ Append(s, e) \in Seq(S \cup {e})
                     /\ ToSet(Append(s, e)) = ToSet(s) \cup {e}
                     /\ Len(Append(s, e)) = Len(s) + 1
                     /\ \A n \in 1 .. Len(s) : Append(s, e)[n] = s[n]
                     /\ Append(s, e)[Len(s) + 1] = e
<1>1. Len(s) \in Nat /\ DOMAIN s = 1 .. Len(s) /\ \A n \in 1 .. Len(s) : s[n] \in S
    BY LenProperties, ElementOfSeq
<1>2. ASSUME s # <<>>
      PROVE  /\ Tail(s) \in Seq(S) /\ ToSet(Tail(s)) \subseteq ToSet(s)
             /\ Head(s) \in ToSet(s) /\ Len(Tail(s)) = Len(s) - 1 /\ Len(s) # 0
    <2>1. /\ Tail(s) \in Seq(S) /\ Len(Tail(s)) = Len(s) - 1 /\ Len(s) # 0
          /\ \A n \in 1 .. Len(Tail(s)) : Tail(s)[n] = s[n + 1]
        BY <1>2, HeadTailProperties, EmptySeq
    <2>2. DOMAIN Tail(s) = 1 .. Len(Tail(s))
        BY <2>1, LenProperties
    <2>3. Head(s) = s[1]
        BY <1>2
    <2> QED
        BY <1>1, <2>1, <2>2, <2>3 DEF ToSet
<1>3. ASSUME NEW e
      PROVE  /\ Append(s, e) \in Seq(S \cup {e}) /\ ToSet(Append(s, e)) = ToSet(s) \cup {e}
             /\ Len(Append(s, e)) = Len(s) + 1
             /\ \A n \in 1 .. Len(s) : Append(s, e)[n] = s[n]
             /\ Append(s, e)[Len(s) + 1] = e
    <2> DEFINE T == S \cup {e}
    <2>1. s \in Seq(T) /\ e \in T
        BY SeqMonotonic
    <2> HIDE DEF T
    <2>2. /\ Append(s, e) \in Seq(T) /\ Len(Append(s, e)) = Len(s) + 1
          /\ \A n \in 1 .. Len(s) : Append(s, e)[n] = s[n]
          /\ Append(s, e)[Len(s) + 1] = e
        BY <2>1, AppendProperties
    <2>3. DOMAIN Append(s, e) = 1 .. Len(s) + 1
        BY <2>2, LenProperties
    <2>4. ToSet(Append(s, e)) = ToSet(s) \cup {e}
        BY <1>1, <2>2, <2>3 DEF ToSet
    <2> QED
        BY <2>2, <2>4 DEF T
<1> QED
    BY <1>2, <1>3

LEMMA MaxIsIn ==
    ASSUME NEW n \in Nat, NEW I \in SUBSET (1 .. n), I # {}
    PROVE  Max(I) \in I /\ \A x \in I : Max(I) >= x
<1> DEFINE T == {(x + 1) .. n : x \in I}
           S == 1 .. n
<1>1. T \subseteq FiniteSubsetsOf(S) /\ T # {}
    <2>1. IsFiniteSet(S)
        BY FS_Interval
    <2>2. FiniteSubsetsOf(S) = SUBSET S
        <3> HIDE DEF S
        <3> QED
            BY <2>1, FS_FiniteSubsetsOfFinite
    <2>3. T \subseteq SUBSET S
        OBVIOUS
    <2> QED
        BY <2>2, <2>3
<1>2. PICK t \in T : \A u \in T : <<u, t>> \notin StrictSubsetOrdering(S)
    <2> HIDE DEF T, S
    <2> QED
        BY <1>1, FS_StrictSubsetOrderingWellFounded, WFMin
<1>3. PICK x \in I : t = (x + 1) .. n
    BY <1>2
<1>4. \A y \in I : x >= y
    <2> SUFFICES ASSUME NEW y \in I, x < y
                 PROVE  FALSE
        OBVIOUS
    <2>1. (y + 1) .. n \in T /\ t \in T
        BY <1>2
    <2>2. (y + 1) .. n \subseteq t /\ t \subseteq S /\ (y + 1) .. n \subseteq S
        BY <1>3
    <2>3. y \in t /\ y \notin (y + 1) .. n
        BY <1>3
    <2>4. <<(y + 1) .. n, t>> \in StrictSubsetOrdering(S)
        BY <2>2, <2>3 DEF StrictSubsetOrdering
    <2> QED
        BY <1>2, <2>1, <2>4
<1> QED
    BY <1>4 DEF Max

\* The logins of a client.
LoginsOf(c) == {k \in 1 .. Len(tries) : tries[k].client = c /\ tries[k].type = "login"}

\* Current is the last of them.
LEMMA CurrentFacts ==
    ASSUME tries \in Seq(Requests), NEW c
    PROVE  /\ LoginsOf(c) = {} => Current(c) = 0
           /\ LoginsOf(c) # {} => Current(c) \in LoginsOf(c) /\ Current(c) = Max(LoginsOf(c))
<1>1. Current(c) = IF LoginsOf(c) # {} THEN Max(LoginsOf(c)) ELSE 0
    BY DEF Current, SelectLastInSeq, LoginsOf
<1>2. Len(tries) \in Nat /\ LoginsOf(c) \in SUBSET (1 .. Len(tries))
    BY LenProperties DEF LoginsOf
<1> QED
    BY <1>1, <1>2, MaxIsIn

LEMMA CurrentKept ==
    ASSUME UNCHANGED tries, NEW c
    PROVE  Current(c)' = Current(c) /\ LoginsOf(c)' = LoginsOf(c)
<1>1. Current(c) = IF LoginsOf(c) # {} THEN Max(LoginsOf(c)) ELSE 0
    BY DEF Current, SelectLastInSeq, LoginsOf
<1>2. Current(c)' = IF LoginsOf(c)' # {} THEN Max(LoginsOf(c)') ELSE 0
    BY DEF Current, SelectLastInSeq, LoginsOf
<1>3. LoginsOf(c)' = LoginsOf(c)
    BY DEF LoginsOf
<1> QED
    BY <1>1, <1>2, <1>3

\* A request that is made becomes current for its client, if it is a login, and
\* changes nothing else.
LEMMA NextRequest ==
    ASSUME tries \in Seq(Requests), NEW r \in Requests, tries' = Append(tries, r)
    PROVE  /\ tries' \in Seq(Requests) /\ Len(tries') = Len(tries) + 1
           /\ Len(tries) \in Nat
           /\ \A k \in 1 .. Len(tries) : tries'[k] = tries[k]
           /\ tries'[Len(tries) + 1] = r
           /\ r.type = "login" => Current(r.client)' = Len(tries) + 1
           /\ \A c \in Clients : c # r.client \/ r.type # "login"
                  => Current(c)' = Current(c) /\ LoginsOf(c)' = LoginsOf(c)
<1>1. Len(tries) \in Nat
    BY LenProperties
<1>2. /\ tries' \in Seq(Requests) /\ Len(tries') = Len(tries) + 1
      /\ \A k \in 1 .. Len(tries) : tries'[k] = tries[k]
      /\ tries'[Len(tries) + 1] = r
    BY AppendProperties
<1>3. \A c : LoginsOf(c)' = LoginsOf(c) \cup
             (IF c = r.client /\ r.type = "login" THEN {Len(tries) + 1} ELSE {})
    BY <1>1, <1>2 DEF LoginsOf
<1>4. \A c : Current(c)' = IF LoginsOf(c)' # {} THEN Max(LoginsOf(c)') ELSE 0
    BY DEF Current, SelectLastInSeq, LoginsOf
<1>5. \A c : Current(c) = IF LoginsOf(c) # {} THEN Max(LoginsOf(c)) ELSE 0
    BY DEF Current, SelectLastInSeq, LoginsOf
<1>6. ASSUME r.type = "login"
      PROVE  Current(r.client)' = Len(tries) + 1
    <2> DEFINE I == LoginsOf(r.client)'
               n == Len(tries) + 1
    <2>1. I \in SUBSET (1 .. n) /\ n \in I /\ n \in Nat
        BY <1>1, <1>3, <1>6 DEF LoginsOf
    <2> HIDE DEF I, n
    <2>2. Max(I) \in I /\ Max(I) >= n
        BY <2>1, MaxIsIn
    <2>3. Max(I) = n
        <3>1. PICK x : x = Max(I)
            OBVIOUS
        <3>2. x \in 1 .. n /\ x >= n
            BY <2>1, <2>2, <3>1
        <3>3. x = n
            BY <2>1, <3>2
        <3> QED
            BY <3>1, <3>3
    <2> QED
        BY <1>4, <2>1, <2>3 DEF I, n
<1> QED
    BY <1>1, <1>2, <1>3, <1>4, <1>5, <1>6

-----------------------------------------------------------------------------
(* The types are kept. *)

LEMMA NetTypesInit == Init => NetTypes
<1> SUFFICES ASSUME Init PROVE NetTypes
    OBVIOUS
<1> USE DEF Init
<1>1. tries \in Seq(Requests) /\ Len(tries) = 0 /\ accepted = 0 /\ trouble = 0
    OBVIOUS
<1>2. /\ conn \in [Clients -> Nat] /\ callPc \in [Clients -> {"idle", "send", "wait"}]
      /\ toServer \in [Conns -> Seq(Nat)] /\ DOMAIN toClient = Conns
      /\ \A n \in Conns : toClient[n] \in Seq({})
      /\ \A c \in Clients : conn[c] = 0
    OBVIOUS
<1>3. Linked = {}
    BY <1>2 DEF Linked
<1>4. /\ DOMAIN loginMap = Clients /\ \A c \in Clients : DOMAIN loginMap[c] = Users
      /\ DOMAIN shown = Tries /\ DOMAIN answered = Tries
    OBVIOUS
<1> HIDE DEF Init
<1> QED
    BY <1>1, <1>2, <1>3, <1>4, FS_EmptySet, BoundsAssumption DEF NetTypes

LEMMA ThreadTypesInit == Init => ThreadTypes
<1> SUFFICES ASSUME Init PROVE ThreadTypes
    OBVIOUS
<1> USE DEF Init
<1>1. /\ pc = [t \in Pool |-> "idle"] /\ stmt = [t \in Pool |-> "none"]
      /\ job \in [Pool -> [conn : Nat, try : Nat]]
      /\ DOMAIN got = Pool /\ DOMAIN work = Pool /\ status = "ready"
    BY DEF NoJob
<1>2. inFlight = <<>> /\ tokens = <<>>
    OBVIOUS
<1>3. inFlight \in Seq({}) /\ tokens \in Seq({}) /\ Len(inFlight) = 0
    BY <1>2
<1>4. \A t \in Pool : IsWork(work[t])
    BY DEF IsWork, NoWork
<1>5. Readers = {}
    BY <1>1 DEF Readers
<1> HIDE DEF Init
<1> QED
    BY <1>1, <1>3, <1>4, <1>5, FS_EmptySet DEF ThreadTypes

LEMMA LinkedFinite ==
    conn \in [Clients -> Nat] =>
        /\ IsFiniteSet(Linked) /\ Cardinality(Linked) \in Nat
        /\ Cardinality(Clients) \in Nat /\ Cardinality(Linked) <= Cardinality(Clients)
        /\ \A c \in Clients \ Linked : Cardinality(Linked) + 1 <= Cardinality(Clients)
<1>1. IsFiniteSet(Clients) /\ Linked \subseteq Clients
    BY ClientsAssumption DEF Linked
<1>2. /\ IsFiniteSet(Linked) /\ Cardinality(Linked) \in Nat
      /\ Cardinality(Clients) \in Nat /\ Cardinality(Linked) <= Cardinality(Clients)
    BY <1>1, FS_Subset, FS_CardinalityType
<1>3. ASSUME NEW c \in Clients \ Linked
      PROVE  Cardinality(Linked) + 1 <= Cardinality(Clients)
    <2>1. Cardinality(Linked \cup {c}) = Cardinality(Linked) + 1
        BY <1>2, FS_AddElement
    <2>2. Linked \cup {c} \in SUBSET Clients
        BY <1>1
    <2> QED
        BY <1>1, <2>1, <2>2, FS_Subset
<1> QED
    BY <1>2, <1>3

\* There is a number for every connection.
LEMMA NumbersSuffice ==
    ASSUME NetTypes
    PROVE  /\ \A c \in Clients : conn[c] # 0 => conn[c] \in Conns
           /\ \A c \in Clients : conn[c] = 0 => accepted + 1 \in Conns
<1>1. /\ accepted \in Nat /\ trouble \in 0..MaxTrouble /\ MaxTrouble \in Nat
      /\ conn \in [Clients -> Nat] /\ accepted <= Cardinality(Linked) + trouble
      /\ \A c \in Clients : conn[c] <= accepted
    BY BoundsAssumption DEF NetTypes
<1>2. /\ Cardinality(Linked) \in Nat /\ Cardinality(Clients) \in Nat
      /\ Cardinality(Linked) <= Cardinality(Clients)
      /\ \A c \in Clients \ Linked : Cardinality(Linked) + 1 <= Cardinality(Clients)
    BY <1>1, LinkedFinite
<1>3. ASSUME NEW c \in Clients, conn[c] # 0
      PROVE  conn[c] \in Conns
    <2>1. conn[c] \in Nat /\ conn[c] >= 1 /\ conn[c] <= accepted
        BY <1>1, <1>3
    <2>2. accepted <= Cardinality(Clients) + MaxTrouble
        BY <1>1, <1>2
    <2> QED
        BY <1>1, <1>2, <2>1, <2>2 DEF Conns
<1>4. ASSUME NEW c \in Clients, conn[c] = 0
      PROVE  accepted + 1 \in Conns
    <2>1. c \in Clients \ Linked
        BY <1>4 DEF Linked
    <2>2. Cardinality(Linked) + 1 <= Cardinality(Clients)
        BY <1>2, <2>1
    <2> QED
        BY <1>1, <1>2, <2>2 DEF Conns
<1> QED
    BY <1>3, <1>4

LEMMA ReadersFinite == IsFiniteSet(Readers) /\ Cardinality(Readers) \in Nat
<1>1. IsFiniteSet(Pool)
    BY ClientsAssumption, FS_Interval DEF Pool
<1>2. Readers \in SUBSET Pool
    BY DEF Readers
<1> QED
    BY <1>1, <1>2, FS_Subset, FS_CardinalityType

\* The readers after thread t went to p.
LEMMA ReadersStep ==
    ASSUME ThreadTypes, NEW t \in Pool, NEW p, pc' = [pc EXCEPT ![t] = p]
    PROVE  /\ p = "read" /\ pc[t] # "read" => Cardinality(Readers') = Cardinality(Readers) + 1
           /\ p # "read" /\ pc[t] # "read" => Readers' = Readers
           /\ p # "read" /\ pc[t] = "read" => Cardinality(Readers') = Cardinality(Readers) - 1
<1>1. \A u \in Pool : pc'[u] = IF u = t THEN p ELSE pc[u]
    BY DEF ThreadTypes
<1>2. IsFiniteSet(Readers)
    BY ReadersFinite
<1>3. p = "read" => Readers' = Readers \cup {t}
    BY <1>1 DEF Readers
<1>4. p # "read" => Readers' = Readers \ {t}
    BY <1>1 DEF Readers
<1>5. t \in Readers <=> pc[t] = "read"
    BY DEF Readers
<1> QED
    BY <1>2, <1>3, <1>4, <1>5, FS_AddElement, FS_RemoveElement

\* Connections.
LEMMA NetTypesConnect ==
    ASSUME NetTypes, NEW c \in Clients, Connect(c) \/ ConnectionLost(c)
    PROVE  NetTypes'
<1>1. /\ conn \in [Clients -> Nat] /\ accepted \in Nat /\ trouble \in 0..MaxTrouble
      /\ accepted <= Cardinality(Linked) + trouble /\ MaxTrouble \in Nat
      /\ Cardinality(Linked) \in Nat /\ IsFiniteSet(Linked)
    BY LinkedFinite, BoundsAssumption DEF NetTypes
<1>2. UNCHANGED <<tries, callPc, loginMap, shown, answered>>
    BY DEF Connect, ConnectionLost, histVars, clientVars
<1>3. CASE Connect(c)
    <2>1. /\ conn[c] = 0 /\ accepted' = accepted + 1 /\ trouble' = trouble
          /\ conn' = [conn EXCEPT ![c] = accepted + 1] /\ UNCHANGED <<toServer, toClient>>
        BY <1>3 DEF Connect
    <2>2. Linked' = Linked \cup {c} /\ c \notin Linked
        BY <1>1, <2>1 DEF Linked
    <2>3. Cardinality(Linked') = Cardinality(Linked) + 1
        BY <1>1, <2>2, FS_AddElement
    <2>4. conn' \in [Clients -> Nat] /\ \A d \in Clients : conn'[d] <= accepted'
        BY <1>1, <2>1 DEF NetTypes
    <2> QED
        BY <1>1, <1>2, <2>1, <2>3, <2>4 DEF NetTypes
<1>4. CASE ConnectionLost(c)
    <2>1. /\ conn[c] # 0 /\ accepted' = accepted /\ trouble' = trouble + 1
          /\ trouble < MaxTrouble /\ conn' = [conn EXCEPT ![c] = 0]
          /\ toServer' = [toServer EXCEPT ![conn[c]] = <<>>]
          /\ toClient' = [toClient EXCEPT ![conn[c]] = <<>>]
        BY <1>4 DEF ConnectionLost
    <2>2. Linked' = Linked \ {c} /\ c \in Linked
        BY <1>1, <2>1 DEF Linked
    <2>3. Cardinality(Linked') = Cardinality(Linked) - 1
        BY <1>1, <2>2, FS_RemoveElement
    <2>4. conn' \in [Clients -> Nat] /\ \A d \in Clients : conn'[d] <= accepted'
        BY <1>1, <2>1 DEF NetTypes
    <2>5. toServer' \in [Conns -> Seq(Nat)] /\ DOMAIN toClient' = Conns
        <3>1. toServer \in [Conns -> Seq(Nat)] /\ DOMAIN toClient = Conns
            BY DEF NetTypes
        <3>2. <<>> \in Seq(Nat)
            BY EmptySeq
        <3> QED
            BY <2>1, <3>1, <3>2
    <2>6. \A n \in Conns : \E S : toClient'[n] \in Seq(S)
        <3>1. <<>> \in Seq({})
            BY EmptySeq
        <3>2. \A n \in Conns : toClient'[n] = <<>> \/ toClient'[n] = toClient[n]
            BY <2>1 DEF NetTypes
        <3> QED
            BY <3>1, <3>2 DEF NetTypes
    <2>7. trouble' \in 0..MaxTrouble /\ accepted' <= Cardinality(Linked') + trouble'
        BY <1>1, <2>1, <2>3
    <2> QED
        BY <1>1, <1>2, <2>1, <2>4, <2>5, <2>6, <2>7 DEF NetTypes
<1> QED
    BY <1>3, <1>4

\* What leaves connections alone.
LEMMA NetTypesFrame ==
    ASSUME NetTypes, UNCHANGED <<conn, accepted>>,
           trouble' \in 0..MaxTrouble, trouble <= trouble',
           tries' \in Seq(Requests) /\ Len(tries') <= MaxTries,
           toServer' \in [Conns -> Seq(Nat)],
           DOMAIN toClient' = Conns /\ \A n \in Conns : \E S : toClient'[n] \in Seq(S),
           callPc' \in [Clients -> {"idle", "send", "wait"}],
           DOMAIN loginMap' = Clients /\ \A c \in Clients : DOMAIN loginMap'[c] = Users,
           DOMAIN shown' = Tries, DOMAIN answered' = Tries
    PROVE  NetTypes'
<1>1. Linked' = Linked /\ Cardinality(Linked) \in Nat
    BY LinkedFinite DEF NetTypes, Linked
<1> QED
    BY <1>1, BoundsAssumption DEF NetTypes

\* A client at work.
LEMMA NetTypesClient ==
    ASSUME NetTypes, NEW c \in Clients,
           \/ \E u \in Users : AddUserReq(c, u) \/ \E right \in BOOLEAN : LoginReq(c, u, right)
           \/ SendLogin(c) \/ LoginRes(c) \/ LoginFound(c) \/ LoginGivenUp(c)
    PROVE  NetTypes'
<1>1. /\ UNCHANGED <<conn, accepted, trouble, answered>>
      /\ trouble \in 0..MaxTrouble /\ MaxTries \in Nat
    BY BoundsAssumption DEF AddUserReq, LoginReq, SendLogin, LoginRes, LoginFound, LoginGivenUp, histVars,
        netVars, NetTypes
<1>2. tries' \in Seq(Requests) /\ Len(tries') <= MaxTries
    <2>1. CASE UNCHANGED tries
        BY <2>1 DEF NetTypes
    <2>2. ASSUME NEW r \in Requests, tries' = Append(tries, r), Len(tries) < MaxTries
          PROVE  tries' \in Seq(Requests) /\ Len(tries') <= MaxTries
        BY <1>1, <2>2, NextRequest DEF NetTypes
    <2>3. \/ UNCHANGED tries
          \/ Len(tries) < MaxTries /\ \E r \in Requests : tries' = Append(tries, r)
        BY DEF AddUserReq, LoginReq, SendLogin, LoginRes, LoginFound, LoginGivenUp, histVars,
            Requests
    <2> QED
        BY <2>1, <2>2, <2>3
<1>3. toServer' \in [Conns -> Seq(Nat)]
    <2>1. CASE UNCHANGED toServer
        BY <2>1 DEF NetTypes
    <2>2. ASSUME NEW n, NEW k \in Nat, toServer' = [toServer EXCEPT ![n] = Append(@, k)]
          PROVE  toServer' \in [Conns -> Seq(Nat)]
        BY <2>2, AppendProperties DEF NetTypes
    <2>3. Current(c) \in Nat /\ Len(tries) + 1 \in Nat
        <3>1. tries \in Seq(Requests) /\ Len(tries) \in Nat
            BY LenProperties DEF NetTypes
        <3>2. LoginsOf(c) \subseteq Nat
            BY <3>1 DEF LoginsOf
        <3> QED
            BY <3>1, <3>2, CurrentFacts
    <2>4. \/ UNCHANGED toServer
          \/ \E k \in Nat : toServer' = [toServer EXCEPT ![conn[c]] = Append(@, k)]
        BY <2>3 DEF AddUserReq, LoginReq, SendLogin, LoginRes, LoginFound, LoginGivenUp, netVars
    <2> QED
        BY <2>1, <2>2, <2>4
<1>4. DOMAIN toClient' = Conns /\ \A n \in Conns : \E S : toClient'[n] \in Seq(S)
    <2>1. CASE UNCHANGED toClient
        BY <2>1 DEF NetTypes
    <2>2. CASE LoginRes(c)
        <3>1. /\ conn[c] \in Conns /\ toClient[conn[c]] # <<>>
              /\ toClient' = [toClient EXCEPT ![conn[c]] = Tail(@)]
            BY <2>2, NumbersSuffice DEF LoginRes
        <3>2. PICK S : toClient[conn[c]] \in Seq(S)
            BY <3>1 DEF NetTypes
        <3>3. Tail(toClient[conn[c]]) \in Seq(S)
            BY <3>1, <3>2, ElementsOf
        <3> QED
            BY <3>1, <3>3 DEF NetTypes
    <2> QED
        BY <2>1, <2>2 DEF AddUserReq, LoginReq, SendLogin, LoginFound, LoginGivenUp, netVars
<1>5. /\ callPc' \in [Clients -> {"idle", "send", "wait"}]
      /\ DOMAIN shown' = Tries
    BY DEF NetTypes, AddUserReq, LoginReq, SendLogin, LoginRes, LoginFound, LoginGivenUp,
        histVars, clientVars
<1>6. DOMAIN loginMap' = Clients /\ \A d \in Clients : DOMAIN loginMap'[d] = Users
    <2>1. CASE UNCHANGED loginMap
        BY <2>1 DEF NetTypes
    <2>2. ASSUME NEW u, loginMap' = [loginMap EXCEPT ![c] = [@ EXCEPT ![u] = NoEntry]]
          PROVE  DOMAIN loginMap' = Clients /\ \A d \in Clients : DOMAIN loginMap'[d] = Users
        BY <2>2 DEF NetTypes
    <2>3. ASSUME NEW u, NEW a, loginMap' = [loginMap EXCEPT ![c] = [@ EXCEPT ![u] = a]]
          PROVE  DOMAIN loginMap' = Clients /\ \A d \in Clients : DOMAIN loginMap'[d] = Users
        BY <2>3 DEF NetTypes
    <2>4. \/ UNCHANGED loginMap
          \/ \E u \in Users : loginMap' = [loginMap EXCEPT ![c] = [@ EXCEPT ![u] = NoEntry]]
          \/ \E u, a : loginMap' = [loginMap EXCEPT ![c] = [@ EXCEPT ![u] = a]]
        BY DEF AddUserReq, LoginReq, SendLogin, LoginRes, LoginFound, LoginGivenUp, clientVars,
            Forgotten
    <2> QED
        BY <2>1, <2>2, <2>3, <2>4
<1>7. UNCHANGED <<conn, accepted>> /\ trouble' \in 0..MaxTrouble /\ trouble <= trouble'
      /\ DOMAIN answered' = Tries
    BY <1>1, BoundsAssumption DEF NetTypes
<1> QED
    BY <1>2, <1>3, <1>4, <1>5, <1>6, <1>7, NetTypesFrame

Places == {"idle", "query", "read", "check", "store", "fetch", "use", "id", "answer"}
Statements == {"none", "user", "insert", "token", "delete", "add"}

\* What login() does to its local variables.
LEMMA WorkChanges ==
    ASSUME NEW w, IsWork(w), NEW x, NEW y
    PROVE  /\ IsWork([w EXCEPT !.named = y, !.role = x])
           /\ IsWork([w EXCEPT !.token = x, !.res = "OK"])
<1>1. PICK a, b, c, d, e : w = [named |-> a, role |-> b, id |-> c, token |-> d, res |-> e]
    BY DEF IsWork
<1>2. [w EXCEPT !.named = y, !.role = x]
          = [named |-> y, role |-> x, id |-> c, token |-> d, res |-> e]
    <2>1. [w EXCEPT !.named = y] = [named |-> y, role |-> b, id |-> c, token |-> d, res |-> e]
        BY <1>1
    <2>2. [w EXCEPT !.named = y, !.role = x] = [[w EXCEPT !.named = y] EXCEPT !.role = x]
        OBVIOUS
    <2>3. [[named |-> y, role |-> b, id |-> c, token |-> d, res |-> e] EXCEPT !.role = x]
              = [named |-> y, role |-> x, id |-> c, token |-> d, res |-> e]
        OBVIOUS
    <2> QED
        BY <2>1, <2>2, <2>3
<1>3. [w EXCEPT !.token = x, !.res = "OK"]
          = [named |-> a, role |-> b, id |-> c, token |-> x, res |-> "OK"]
    <2>1. [w EXCEPT !.token = x] = [named |-> a, role |-> b, id |-> c, token |-> x, res |-> e]
        BY <1>1
    <2>2. [w EXCEPT !.token = x, !.res = "OK"] = [[w EXCEPT !.token = x] EXCEPT !.res = "OK"]
        OBVIOUS
    <2>3. [[named |-> a, role |-> b, id |-> c, token |-> x, res |-> e] EXCEPT !.res = "OK"]
              = [named |-> a, role |-> b, id |-> c, token |-> x, res |-> "OK"]
        OBVIOUS
    <2> QED
        BY <2>1, <2>2, <2>3
<1>4. IsWork([named |-> y, role |-> x, id |-> c, token |-> d, res |-> e])
    BY DEF IsWork
<1>5. IsWork([named |-> a, role |-> b, id |-> c, token |-> x, res |-> "OK"])
    BY DEF IsWork
<1> QED
    BY <1>1, <1>2, <1>3, <1>4, <1>5

IsNamed(v, w, x, y) == v = [w EXCEPT !.named = y, !.role = x]
IsConfirmed(v, w, x) == v = [w EXCEPT !.token = x, !.res = "OK"]

LEMMA WorkFields ==
    ASSUME NEW w, IsWork(w), NEW v, NEW x, NEW y
    PROVE  /\ IsNamed(v, w, x, y) => v.named = y /\ v.role = x /\ v.res = w.res
           /\ IsConfirmed(v, w, x) => v.token = x /\ v.role = w.role /\ v.named = w.named
<1>1. PICK a, b, c, d, e : w = [named |-> a, role |-> b, id |-> c, token |-> d, res |-> e]
    BY DEF IsWork
<1>2. w.named = a /\ w.role = b /\ w.res = e
    BY <1>1
<1>3. ASSUME IsNamed(v, w, x, y)
      PROVE  v.named = y /\ v.role = x /\ v.res = w.res
    <2>1. v = [named |-> y, role |-> x, id |-> c, token |-> d, res |-> e]
        BY <1>1, <1>3 DEF IsNamed
    <2> QED
        BY <1>2, <2>1
<1>4. ASSUME IsConfirmed(v, w, x)
      PROVE  v.token = x /\ v.role = w.role /\ v.named = w.named
    <2>1. v = [named |-> a, role |-> b, id |-> c, token |-> x, res |-> "OK"]
        BY <1>1, <1>4 DEF IsConfirmed
    <2> QED
        BY <1>2, <2>1
<1> QED
    BY <1>3, <1>4

\* A thread goes from one place to another, neither of them "read".
LEMMA ThreadTypesFrame ==
    ASSUME ThreadTypes, NEW t \in Pool, NEW p \in Places, p # "read", pc[t] # "read",
           pc' = [pc EXCEPT ![t] = p],
           stmt' \in [Pool -> Statements], \A u \in Pool : stmt'[u] = "none" => pc'[u] = "idle",
           job' \in [Pool -> [conn : Nat, try : Nat]],
           DOMAIN got' = Pool, DOMAIN work' = Pool, \A u \in Pool : IsWork(work'[u]),
           status' \in {"ready", "result"}, UNCHANGED <<inFlight, tokens>>
    PROVE  ThreadTypes'
<1>1. pc' \in [Pool -> Places]
    BY DEF ThreadTypes, Places
<1>2. Readers' = Readers
    BY ReadersStep
<1> QED
    BY <1>1, <1>2 DEF ThreadTypes, Places, Statements

\* Threads that do not ask the database.
LEMMA ThreadTypesQuiet ==
    ASSUME ThreadTypes, NEW t \in Pool,
           CheckInserted(t) \/ Store(t) \/ Fetch(t) \/ UseUser(t) \/ ReadId(t) \/ UseToken(t)
               \/ Answer(t)
    PROVE  ThreadTypes'
<1>1. UNCHANGED <<inFlight, tokens>>
    BY DEF CheckInserted, Store, Fetch, UseUser, ReadId, UseToken, Answer, mysqlVars, dbVars
<1>2. PICK p \in Places : p # "read" /\ pc' = [pc EXCEPT ![t] = p]
    BY DEF CheckInserted, Store, Fetch, UseUser, ReadId, UseToken, Answer, Goto, Failed, Begin,
        Places
<1>3. pc[t] # "read"
    BY DEF CheckInserted, Store, Fetch, UseUser, ReadId, UseToken, Answer
<1>4. stmt' \in [Pool -> Statements]
    BY DEF CheckInserted, Store, Fetch, UseUser, ReadId, UseToken, Answer, Goto, Failed, Begin,
        Statements, ThreadTypes
<1>9. \A u \in Pool : stmt'[u] = "none" => pc'[u] = "idle"
    BY DEF CheckInserted, Store, Fetch, UseUser, ReadId, UseToken, Answer, Goto, Failed, Begin,
        ThreadTypes
<1>5. job' \in [Pool -> [conn : Nat, try : Nat]]
    BY DEF CheckInserted, Store, Fetch, UseUser, ReadId, UseToken, Answer, Goto, Failed, Begin,
        ThreadTypes, NoJob
<1>6. DOMAIN got' = Pool
    BY DEF CheckInserted, Store, Fetch, UseUser, ReadId, UseToken, Answer, Goto, Failed, Begin,
        ThreadTypes
<1>7. DOMAIN work' = Pool /\ \A u \in Pool : IsWork(work'[u])
    <2>1. CASE UNCHANGED work
        BY <2>1 DEF ThreadTypes
    <2>2. ASSUME NEW w, IsWork(w), work' = [work EXCEPT ![t] = w]
          PROVE  DOMAIN work' = Pool /\ \A u \in Pool : IsWork(work'[u])
        BY <2>2 DEF ThreadTypes
    <2>3. ASSUME NEW r, work' = [work EXCEPT ![t] = [@ EXCEPT !.named = TRUE, !.role = r]]
          PROVE  \E w : IsWork(w) /\ work' = [work EXCEPT ![t] = w]
        <3>1. IsWork(work[t])
            BY DEF ThreadTypes
        <3>2. IsWork([work[t] EXCEPT !.named = TRUE, !.role = r])
            BY <3>1, WorkChanges
        <3> QED
            BY <2>3, <3>2 DEF ThreadTypes
    <2>4. ASSUME NEW k, work' = [work EXCEPT ![t] = [@ EXCEPT !.token = k, !.res = "OK"]]
          PROVE  \E w : IsWork(w) /\ work' = [work EXCEPT ![t] = w]
        <3>1. IsWork(work[t])
            BY DEF ThreadTypes
        <3>2. IsWork([work[t] EXCEPT !.token = k, !.res = "OK"])
            BY <3>1, WorkChanges
        <3> QED
            BY <2>4, <3>2 DEF ThreadTypes
    <2>5. ASSUME NEW k, work' = [work EXCEPT ![t] = [@ EXCEPT !.id = k]]
          PROVE  \E w : IsWork(w) /\ work' = [work EXCEPT ![t] = w]
        <3>1. IsWork(work[t])
            BY DEF ThreadTypes
        <3>2. IsWork([work[t] EXCEPT !.id = k])
            BY <3>1 DEF IsWork
        <3> QED
            BY <2>5, <3>2 DEF ThreadTypes
    <2>6. CASE UseUser(t)
        <3>1. PICK r : work' = [work EXCEPT ![t] = [@ EXCEPT !.named = TRUE, !.role = r]]
            BY <2>6 DEF UseUser, ThreadTypes
        <3> QED
            BY <2>2, <2>3, <3>1
    <2>7. CASE UseToken(t)
        <3>1. PICK k : work' = [work EXCEPT ![t] = [@ EXCEPT !.token = k, !.res = "OK"]]
            BY <2>7 DEF UseToken, ThreadTypes
        <3> QED
            BY <2>2, <2>4, <3>1
    <2>8. CASE ReadId(t)
        <3>1. work' = [work EXCEPT ![t] = [@ EXCEPT !.id = insertId]]
            BY <2>8 DEF ReadId, ThreadTypes
        <3> QED
            BY <2>2, <2>5, <3>1
    <2>9. CASE Answer(t)
        <3>1. work' = [work EXCEPT ![t] = NoWork] /\ IsWork(NoWork)
            BY <2>9 DEF Answer, IsWork, NoWork
        <3> QED
            BY <2>2, <3>1
    <2>10. CASE CheckInserted(t) \/ Store(t) \/ Fetch(t)
        BY <2>1, <2>10 DEF CheckInserted, Store, Fetch, Goto, Failed
    <2> QED
        BY <2>6, <2>7, <2>8, <2>9, <2>10
<1>8. status' \in {"ready", "result"}
    BY DEF CheckInserted, Store, Fetch, UseUser, ReadId, UseToken, Answer, mysqlVars, ThreadTypes,
        StatusAfterStore
<1> QED
    BY <1>1, <1>2, <1>3, <1>4, <1>5, <1>6, <1>7, <1>8, <1>9, ThreadTypesFrame

\* The database is asked.
LEMMA ThreadTypesQuery ==
    ASSUME ThreadTypes, NEW t \in Pool, Query(t)
    PROVE  ThreadTypes'
<1>1. /\ pc[t] = "query" /\ UNCHANGED <<stmt, job, got, work, status>>
    BY DEF Query, Goto, Failed
<1>2. CASE pc' = [pc EXCEPT ![t] = "read"] /\ \E a : Sends(a)
    <2>1. PICK a : inFlight' = Append(inFlight, a)
        BY <1>2 DEF Sends
    <2>2. PICK S : inFlight \in Seq(S)
        BY DEF ThreadTypes
    <2>3. inFlight' \in Seq(S \cup {a}) /\ Len(inFlight') = Len(inFlight) + 1
        BY <2>1, <2>2, ElementsOf
    <2>4. Cardinality(Readers') = Cardinality(Readers) + 1
        BY <1>1, <1>2, ReadersStep
    <2>5. \E T : tokens' \in Seq(T)
        <3>1. UNCHANGED tokens \/ \E r : tokens' = Append(tokens, r)
            BY DEF Query, Executed, dbVars
        <3>2. PICK T : tokens \in Seq(T)
            BY DEF ThreadTypes
        <3>3. ASSUME NEW r, tokens' = Append(tokens, r)
              PROVE  tokens' \in Seq(T \cup {r})
            BY <3>2, <3>3, ElementsOf
        <3> QED
            BY <3>1, <3>2, <3>3
    <2>6. Len(inFlight) \in Nat /\ Len(inFlight) <= Cardinality(Readers)
        BY <2>2, LenProperties DEF ThreadTypes
    <2>7. Len(inFlight') <= Cardinality(Readers')
        BY <2>3, <2>4, <2>6, ReadersFinite
    <2>8. pc' \in [Pool -> Places]
        BY <1>2 DEF ThreadTypes, Places
    <2> QED
        BY <1>1, <1>2, <2>3, <2>5, <2>7, <2>8 DEF ThreadTypes, Places
<1>3. CASE pc' = [pc EXCEPT ![t] = "answer"] /\ UNCHANGED <<inFlight, tokens>>
    BY <1>1, <1>3, ThreadTypesFrame DEF ThreadTypes, Places, Statements
<1> QED
    BY <1>2, <1>3 DEF Query, Executed, Goto, Failed, dbVars

\* An answer of the database is read.
LEMMA ThreadTypesRead ==
    ASSUME ThreadTypes, NEW t \in Pool, Read(t)
    PROVE  ThreadTypes'
<1>1. /\ pc[t] = "read" /\ UNCHANGED <<stmt, job, got, work, tokens>>
      /\ status' \in {"ready", "result"}
    BY DEF Read, Goto, Failed, dbVars, ThreadTypes
<1>2. PICK p \in Places : p # "read" /\ pc' = [pc EXCEPT ![t] = p]
    <2>1. CASE Failed(t)
        BY <2>1 DEF Failed, Goto, Places
    <2>2. CASE ~Failed(t)
        <3>1. Goto(t, CASE stmt[t] \in {"user", "token"} -> "store"
                            [] stmt[t] \in {"insert", "add"} -> "check"
                            [] stmt[t] = "delete" -> "answer")
            BY <2>2 DEF Read
        <3>2. stmt[t] \in {"user", "token", "insert", "add", "delete"}
            BY <1>1 DEF ThreadTypes
        <3> QED
            BY <3>1, <3>2 DEF Goto, Places
    <2> QED
        BY <2>1, <2>2
<1>3. Cardinality(Readers') = Cardinality(Readers) - 1 /\ Cardinality(Readers) \in Nat
      /\ Cardinality(Readers') \in Nat
    <2>1. Cardinality(Readers') = Cardinality(Readers) - 1
        BY <1>1, <1>2, ReadersStep
    <2>2. Cardinality(Readers') \in Nat
        <3>1. Readers' \in SUBSET Pool /\ IsFiniteSet(Pool)
            BY ClientsAssumption, FS_Interval DEF Pool, Readers
        <3> QED
            BY <3>1, FS_Subset, FS_CardinalityType
    <2> QED
        BY <2>1, <2>2, ReadersFinite
<1>4. PICK S : inFlight \in Seq(S)
    BY DEF ThreadTypes
<1>5. inFlight' \in Seq(S) /\ Len(inFlight') <= Cardinality(Readers')
    <2>1. Len(inFlight) \in Nat /\ Len(inFlight) <= Cardinality(Readers)
        BY <1>4, LenProperties DEF ThreadTypes
    <2>2. CASE inFlight # <<>> /\ inFlight' = Tail(inFlight)
        BY <1>3, <1>4, <2>1, <2>2, ElementsOf
    <2>3. CASE inFlight' = <<>>
        BY <1>3, <2>3, EmptySeq
    <2> QED
        BY <2>2, <2>3 DEF Read, Unread
<1>6. pc' \in [Pool -> Places]
    BY <1>2 DEF ThreadTypes, Places
<1>7. \A u \in Pool : stmt'[u] = "none" => pc'[u] = "idle"
    <2>1. \A u \in Pool : pc'[u] = IF u = t THEN p ELSE pc[u]
        BY <1>2 DEF ThreadTypes
    <2> QED
        BY <1>1, <2>1 DEF ThreadTypes
<1> QED
    BY <1>1, <1>4, <1>5, <1>6, <1>7 DEF ThreadTypes, Places

\* A handle reads a request.
LEMMA ReceiveBegins ==
    ASSUME NEW n \in Conns, Receive(n)
    PROVE  /\ \E p \in {"query", "answer"} : pc' = [pc EXCEPT ![ThreadOf(n)] = p]
           /\ \E w \in {NoWork, Untouched} : work' = [work EXCEPT ![ThreadOf(n)] = w]
<1>1. PICK t, k : t = ThreadOf(n) /\ k = Head(toServer[n])
    OBVIOUS
<1>2. /\ work' = [work EXCEPT ![t] = IF Refused(k) THEN Untouched ELSE NoWork]
      /\ pc' = [pc EXCEPT ![t] = IF Refused(k) THEN "answer" ELSE "query"]
    BY <1>1 DEF Receive
<1> QED
    BY <1>1, <1>2

LEMMA TypesReceive ==
    ASSUME NetTypes, ThreadTypes, NEW n \in Conns, Receive(n)
    PROVE  NetTypes' /\ ThreadTypes' /\ ThreadOf(n) \in Pool
<1> DEFINE t == ThreadOf(n)
           k == Head(toServer[n])
<1>1. t \in Pool
    <2>1. n \in Nat /\ n >= 1 /\ Threads \in Nat \ {0}
        BY ClientsAssumption DEF Conns
    <2>2. (n - 1) % Threads \in 0 .. (Threads - 1)
        BY <2>1
    <2> QED
        BY <2>1, <2>2 DEF ThreadOf, Pool
<1>2. /\ toServer[n] # <<>> /\ pc[t] = "idle" /\ toServer' = [toServer EXCEPT ![n] = Tail(@)]
      /\ job' = [job EXCEPT ![t] = [conn |-> n, try |-> k]]
      /\ \E w \in {NoWork, Untouched} : work' = [work EXCEPT ![t] = w]
      /\ \E p \in {"query", "answer"} : pc' = [pc EXCEPT ![t] = p]
      /\ \E s \in {"user", "add"} : stmt' = [stmt EXCEPT ![t] = s]
      /\ got' = [got EXCEPT ![t] = NoRow]
      /\ UNCHANGED <<tries, answered, shown, conn, accepted, toClient, clientVars, dbVars, status,
                     inFlight, trouble>>
    <2>1. /\ \E w \in {NoWork, Untouched} : work' = [work EXCEPT ![t] = w]
          /\ \E p \in {"query", "answer"} : pc' = [pc EXCEPT ![t] = p]
        BY ReceiveBegins
    <2>2. \E s \in {"user", "add"} : stmt' = [stmt EXCEPT ![t] = s]
        BY DEF Receive
    <2> QED
        BY <2>1, <2>2 DEF Receive
<1>3. toServer[n] \in Seq(Nat) /\ k \in Nat /\ Tail(toServer[n]) \in Seq(Nat)
    <2>1. toServer[n] \in Seq(Nat)
        BY DEF NetTypes
    <2> QED
        BY <1>2, <2>1, HeadTailProperties
<1> HIDE DEF t, k
<1>4. ThreadTypes'
    <2>1. job' \in [Pool -> [conn : Nat, try : Nat]]
        <3>1. n \in Nat
            BY DEF Conns
        <3> QED
            BY <1>2, <1>3, <3>1 DEF ThreadTypes
    <2>2. stmt' \in [Pool -> Statements] /\ \A u \in Pool : stmt'[u] = "none" => pc'[u] = "idle"
        BY <1>1, <1>2 DEF ThreadTypes, Statements
    <2>3. DOMAIN got' = Pool /\ DOMAIN work' = Pool /\ \A u \in Pool : IsWork(work'[u])
        <3>1. IsWork(NoWork) /\ IsWork(Untouched)
            BY DEF IsWork, NoWork, Untouched
        <3> QED
            BY <1>1, <1>2, <3>1 DEF ThreadTypes
    <2>4. status' \in {"ready", "result"} /\ UNCHANGED <<inFlight, tokens>>
        BY <1>2 DEF ThreadTypes, dbVars
    <2>5. "query" \in Places /\ "answer" \in Places
        BY DEF Places
    <2>6. PICK p \in {"query", "answer"} : pc' = [pc EXCEPT ![t] = p]
        BY <1>2
    <2> QED
        BY <1>1, <1>2, <2>1, <2>2, <2>3, <2>4, <2>5, <2>6, ThreadTypesFrame
<1>5. NetTypes'
    <2>1. toServer' \in [Conns -> Seq(Nat)]
        BY <1>2, <1>3 DEF NetTypes
    <2> QED
        BY <1>2, <2>1, NetTypesFrame, BoundsAssumption DEF NetTypes, clientVars
<1> QED
    BY <1>1, <1>4, <1>5 DEF t

\* A thread of the pool goes on.
LEMMA TypesThread ==
    ASSUME NetTypes, ThreadTypes, NEW t \in Pool, ThreadStep(t)
    PROVE  NetTypes' /\ ThreadTypes'
<1>1. ThreadTypes'
    BY ThreadTypesQuiet, ThreadTypesQuery, ThreadTypesRead DEF ThreadStep
<1>2. /\ UNCHANGED <<tries, shown, conn, accepted, toServer, clientVars>>
      /\ trouble' \in 0..MaxTrouble /\ trouble <= trouble'
    <2>1. trouble \in 0..MaxTrouble
        BY DEF NetTypes
    <2>2. UNCHANGED trouble \/ (trouble < MaxTrouble /\ trouble' = trouble + 1)
        BY DEF ThreadStep, Query, Read, CheckInserted, Store, Fetch, UseUser, ReadId, UseToken, Answer
    <2>3. UNCHANGED <<tries, shown, conn, accepted, toServer, clientVars>>
        BY DEF ThreadStep, Query, Read, CheckInserted, Store, Fetch, UseUser, ReadId, UseToken, Answer,
            histVars, netVars
    <2> QED
        BY <2>1, <2>2, <2>3, BoundsAssumption
<1>3. /\ DOMAIN answered' = Tries /\ DOMAIN toClient' = Conns
      /\ \A n \in Conns : \E S : toClient'[n] \in Seq(S)
    <2>1. CASE UNCHANGED <<answered, toClient>>
        BY <2>1 DEF NetTypes
    <2>2. CASE Answer(t)
        <3>1. DOMAIN answered' = Tries
            BY <2>2 DEF Answer, NetTypes
        <3>2. CASE UNCHANGED toClient
            BY <3>1, <3>2 DEF NetTypes
        <3>3. ASSUME NEW m, NEW a, toClient' = [toClient EXCEPT ![m] = Append(@, a)]
              PROVE  DOMAIN toClient' = Conns /\ \A n \in Conns : \E S : toClient'[n] \in Seq(S)
            <4>1. DOMAIN toClient' = Conns /\ \A n \in Conns :
                       toClient'[n] = IF n = m THEN Append(toClient[n], a) ELSE toClient[n]
                BY <3>3 DEF NetTypes
            <4>2. ASSUME NEW n \in Conns
                  PROVE  \E S : toClient'[n] \in Seq(S)
                <5>1. PICK S : toClient[n] \in Seq(S)
                    BY DEF NetTypes
                <5>2. Append(toClient[n], a) \in Seq(S \cup {a})
                    BY <5>1, ElementsOf
                <5> QED
                    BY <4>1, <5>1, <5>2
            <4> QED
                BY <4>1, <4>2
        <3> QED
            BY <2>2, <3>1, <3>2, <3>3 DEF Answer
    <2> QED
        BY <2>1, <2>2 DEF ThreadStep, Query, Read, CheckInserted, Store, Fetch, UseUser, ReadId, UseToken,
            histVars, netVars
<1> QED
    BY <1>1, <1>2, <1>3, NetTypesFrame DEF NetTypes, clientVars

LEMMA TypesInit == Init => NetTypes /\ ThreadTypes
BY NetTypesInit, ThreadTypesInit

LEMMA TypesStep == NetTypes /\ ThreadTypes /\ [Next]_vars => NetTypes' /\ ThreadTypes'
<1> SUFFICES ASSUME NetTypes, ThreadTypes, [Next]_vars PROVE NetTypes' /\ ThreadTypes'
    OBVIOUS
<1>1. ASSUME UNCHANGED <<threadVars, mysqlVars, dbVars>>
      PROVE  ThreadTypes'
    BY <1>1 DEF ThreadTypes, Readers, threadVars, mysqlVars, dbVars
<1>2. ASSUME NEW c \in Clients, ClientStep(c)
      PROVE  NetTypes' /\ ThreadTypes'
    <2>1. UNCHANGED <<threadVars, mysqlVars, dbVars>>
        BY <1>2 DEF ClientStep, Connect, ConnectionLost, AddUserReq, LoginReq, SendLogin, LoginRes,
            LoginFound, LoginGivenUp
    <2> QED
        BY <1>1, <1>2, <2>1, NetTypesConnect, NetTypesClient DEF ClientStep
<1>3. CASE UNCHANGED vars
    <2>1. ThreadTypes'
        BY <1>1, <1>3 DEF vars
    <2>2. NetTypes'
        BY <1>3 DEF vars, NetTypes, Linked, histVars, netVars, clientVars
    <2> QED
        BY <2>1, <2>2
<1> QED
    BY <1>2, <1>3, TypesReceive, TypesThread DEF Next
-----------------------------------------------------------------------------
(* The answers on a connection. *)

\* The requests of which there is something on connection n.
On(n) ==
    ToSet(toServer[n]) \cup {job[t].try : t \in {u \in Pool : job[u].conn = n}}
        \cup {a.try : a \in ToSet(toClient[n])}

Login(k) == k \in 1 .. Len(tries) /\ tries[k].type = "login"

\* Connections are not shared, and a thread has a login unless it adds a user.
OwnConn ==
    /\ \A c, d \in Clients : conn[c] = conn[d] /\ conn[c] # 0 => c = d
    /\ \A t \in Pool : pc[t] # "idle" /\ stmt[t] # "add" => tries[job[t].try].type = "login"
    /\ \A t \in Pool : pc[t] = "id" => stmt[t] = "insert"

\* Each connection carries what its client sent, and the answers to it.
OnInv ==
    \A n \in Conns :
        /\ \A k \in On(n) : /\ k \in 1 .. Len(tries) /\ k \in sent /\ n <= accepted
                            /\ \A c \in Clients : conn[c] = n => tries[k].client = c
        /\ \A a \in ToSet(toClient[n]) :
               tries[a.try].type = "login" /\ a.user = tries[a.try].user

\* Nothing else is known of the user of the login that is waited for, or on its way.
Expected(c) ==
    LET k == Current(c)
        u == tries[k].user
    IN  /\ loginMap[c][u] = NoEntry \/ loginMap[c][u].try = k
        /\ conn[c] # 0 =>
               \A j \in On(conn[c]) : tries[j].type = "login" /\ tries[j].user = u => j = k

ExpectInv ==
    \A c \in Clients : callPc[c] # "idle"
        => /\ Current(c) \in LoginsOf(c)
           /\ Current(c) \notin late => Expected(c)

LEMMA ElementsAppended ==
    ASSUME NEW S, NEW s \in Seq(S), NEW e
    PROVE  ToSet(Append(s, e)) = ToSet(s) \cup {e}
BY ElementsOf

LEMMA OnIs ==
    ASSUME NEW n, NEW k
    PROVE  k \in On(n) <=> \/ k \in ToSet(toServer[n])
                           \/ \E t \in Pool : job[t].conn = n /\ k = job[t].try
                           \/ \E a \in ToSet(toClient[n]) : k = a.try
BY DEF On

\* The part of OnInv that speaks of requests, for more requests, fewer things on
\* the connections and new connections.
LEMMA OnInvKept ==
    ASSUME NetTypes, OnInv, accepted' \in Nat,
           \A k \in 1 .. Len(tries) : k \in 1 .. Len(tries') /\ tries'[k] = tries[k],
           sent \subseteq sent', accepted <= accepted',
           \A c \in Clients, n \in Conns : conn'[c] = n => conn[c] = n \/ n = accepted + 1,
           \A n \in Conns : On(n)' \subseteq On(n),
           \A n \in Conns : \A a \in ToSet(toClient'[n]) :
               \/ a \in ToSet(toClient[n])
               \/ a.try \in On(n) /\ tries[a.try].type = "login" /\ a.user = tries[a.try].user
    PROVE  OnInv'
<1>1. accepted \in Nat
    BY DEF NetTypes
<1>2. ASSUME NEW n \in Conns, NEW k \in On(n)'
      PROVE  /\ k \in 1 .. Len(tries') /\ k \in sent' /\ n <= accepted'
             /\ \A c \in Clients : conn'[c] = n => tries'[k].client = c
    <2>1. /\ k \in On(n) /\ k \in 1 .. Len(tries) /\ k \in sent /\ n <= accepted /\ n \in Nat
          /\ \A c \in Clients : conn[c] = n => tries[k].client = c
        BY <1>2 DEF OnInv, Conns
    <2>2. \A c \in Clients : conn'[c] = n => conn[c] = n
        BY <1>1, <2>1
    <2> QED
        BY <1>1, <2>1, <2>2
<1>3. ASSUME NEW n \in Conns, NEW a \in ToSet(toClient'[n])
      PROVE  tries'[a.try].type = "login" /\ a.user = tries'[a.try].user
    <2>1. a \in ToSet(toClient[n]) => a.try \in On(n)
        BY OnIs
    <2>2. a.try \in On(n) /\ tries[a.try].type = "login" /\ a.user = tries[a.try].user
        BY <1>3, <2>1 DEF OnInv
    <2>3. a.try \in 1 .. Len(tries)
        BY <2>2 DEF OnInv
    <2> QED
        BY <2>2, <2>3
<1> QED
    BY <1>2, <1>3 DEF OnInv

\* What is on the connections after a request was written to connection m.
LEMMA OnWritten ==
    ASSUME NetTypes, NEW m \in Conns, NEW k \in Nat,
           toServer' = [toServer EXCEPT ![m] = Append(@, k)], UNCHANGED <<toClient, job>>
    PROVE  \A n \in Conns : On(n)' = IF n = m THEN On(n) \cup {k} ELSE On(n)
<1>1. ASSUME NEW n \in Conns
      PROVE  On(n)' = IF n = m THEN On(n) \cup {k} ELSE On(n)
    <2>1. toServer[n] \in Seq(Nat)
        BY DEF NetTypes
    <2>2. ToSet(toServer'[n]) = IF n = m THEN ToSet(toServer[n]) \cup {k} ELSE ToSet(toServer[n])
        <3>1. ToSet(Append(toServer[n], k)) = ToSet(toServer[n]) \cup {k}
            BY <2>1, ElementsAppended
        <3> QED
            BY <3>1 DEF NetTypes
    <2> QED
        BY <2>2 DEF On
<1> QED
    BY <1>1

\* The same after a request or an answer was read, or an answer written.
LEMMA OnRead ==
    ASSUME NetTypes, ThreadTypes
    PROVE  /\ \A n \in Conns : Receive(n) => \A m \in Conns : On(m)' \subseteq On(m)
           /\ \A c \in Clients : LoginRes(c) \/ ConnectionLost(c) =>
                  \A m \in Conns : /\ On(m)' \subseteq On(m)
                                   /\ ToSet(toClient'[m]) \subseteq ToSet(toClient[m])
           /\ \A t \in Pool : Answer(t) =>
                  \A m \in Conns : On(m)' \subseteq On(m)
<1>1. ASSUME NEW n \in Conns, Receive(n), NEW m \in Conns
      PROVE  On(m)' \subseteq On(m)
    <2>1. ThreadOf(n) \in Pool
        BY <1>1, TypesReceive
    <2>2. PICK k : k = Head(toServer[n])
        OBVIOUS
    <2>3. PICK t \in Pool : t = ThreadOf(n)
        BY <2>1
    <2>4. /\ toServer[n] # <<>> /\ toServer' = [toServer EXCEPT ![n] = Tail(@)]
          /\ job' = [job EXCEPT ![t] = [conn |-> n, try |-> k]] /\ UNCHANGED toClient
        BY <1>1, <2>2, <2>3 DEF Receive
    <2>5. k \in ToSet(toServer[n]) /\ ToSet(toServer'[m]) \subseteq ToSet(toServer[m])
        <3>1. \A i \in Conns : toServer[i] \in Seq(Nat)
            BY DEF NetTypes
        <3> QED
            BY <2>2, <2>4, <3>1, ElementsOf DEF NetTypes
    <2>6. \A u \in Pool : job'[u] = IF u = t THEN [conn |-> n, try |-> k] ELSE job[u]
        BY <2>4 DEF ThreadTypes
    <2> QED
        BY <2>4, <2>5, <2>6 DEF On
<1>2. ASSUME NEW c \in Clients, LoginRes(c) \/ ConnectionLost(c), NEW m \in Conns
      PROVE  On(m)' \subseteq On(m) /\ ToSet(toClient'[m]) \subseteq ToSet(toClient[m])
    <2>1. UNCHANGED job /\ conn[c] # 0
        BY <1>2 DEF LoginRes, ConnectionLost, threadVars
    <2>2. PICK n \in Conns : n = conn[c]
        BY <2>1, NumbersSuffice
    <2>3. PICK S : toClient[m] \in Seq(S)
        BY DEF NetTypes
    <2>4. toServer'[m] = toServer[m] \/ toServer'[m] = <<>>
        BY <1>2, <2>2 DEF LoginRes, ConnectionLost, NetTypes
    <2>5. toClient'[m] = toClient[m] \/ toClient'[m] = <<>>
          \/ (toClient[m] # <<>> /\ toClient'[m] = Tail(toClient[m]))
        BY <1>2, <2>2 DEF LoginRes, ConnectionLost, NetTypes
    <2>6. ToSet(<<>>) = {}
        BY DEF ToSet
    <2>7. ToSet(toServer'[m]) \subseteq ToSet(toServer[m])
        BY <2>4, <2>6
    <2>8. ToSet(toClient'[m]) \subseteq ToSet(toClient[m])
        BY <2>3, <2>5, <2>6, ElementsOf
    <2> QED
        BY <2>1, <2>7, <2>8 DEF On
<1>3. ASSUME NEW t \in Pool, Answer(t), NEW m \in Conns
      PROVE  On(m)' \subseteq On(m)
    <2>1. UNCHANGED toServer /\ job' = [job EXCEPT ![t] = NoJob]
        BY <1>3 DEF Answer
    <2>2. \A u \in Pool : job'[u] = IF u = t THEN NoJob ELSE job[u]
        BY <2>1 DEF ThreadTypes
    <2>3. m # 0 /\ NoJob.conn = 0
        BY DEF Conns, NoJob
    <2>4. \A a \in ToSet(toClient'[m]) : a \in ToSet(toClient[m]) \/ a.try \in On(m)
        <3>1. CASE UNCHANGED toClient
            BY <3>1
        <3>2. ASSUME NEW a, a = AnswerOf(t),
                     toClient' = [toClient EXCEPT ![job[t].conn] = Append(@, a)]
              PROVE  \A b \in ToSet(toClient'[m]) : b \in ToSet(toClient[m]) \/ b.try \in On(m)
            <4>1. PICK S : toClient[m] \in Seq(S)
                BY DEF NetTypes
            <4>2. ToSet(Append(toClient[m], a)) = ToSet(toClient[m]) \cup {a}
                BY <4>1, ElementsAppended
            <4>3. job[t].conn = m => a.try \in On(m)
                BY <3>2, OnIs DEF AnswerOf
            <4>4. toClient'[m] = IF m = job[t].conn THEN Append(toClient[m], a) ELSE toClient[m]
                BY <3>2 DEF NetTypes
            <4> QED
                BY <4>2, <4>3, <4>4
        <3> QED
            BY <1>3, <3>1, <3>2 DEF Answer
    <2>5. \A k \in On(m)' : \/ k \in ToSet(toServer[m])
                            \/ \E u \in Pool : job[u].conn = m /\ k = job[u].try
                            \/ \E a \in ToSet(toClient'[m]) : k = a.try
        BY <2>1, <2>2, <2>3 DEF On
    <2> QED
        BY <2>4, <2>5, OnIs
<1> QED
    BY <1>1, <1>2, <1>3

LEMMA RequestsKept ==
    ASSUME tries \in Seq(Requests),
           UNCHANGED tries \/ \E r \in Requests : tries' = Append(tries, r)
    PROVE  \A k \in 1 .. Len(tries) : k \in 1 .. Len(tries') /\ tries'[k] = tries[k]
<1>1. CASE UNCHANGED tries
    BY <1>1
<1>2. ASSUME NEW r \in Requests, tries' = Append(tries, r)
      PROVE  \A k \in 1 .. Len(tries) : k \in 1 .. Len(tries') /\ tries'[k] = tries[k]
    BY <1>2, NextRequest
<1> QED
    BY <1>1, <1>2

\* OwnConn while no request is taken by a thread.
LEMMA OwnConnKept ==
    ASSUME NetTypes, OwnConn, OnInv,
           \A k \in 1 .. Len(tries) : tries'[k] = tries[k],
           \A t \in Pool : pc[t] # "idle" => job[t].try \in 1 .. Len(tries),
           \A t \in Pool : pc'[t] # "idle" => pc[t] # "idle" /\ job'[t] = job[t],
           \A t \in Pool : pc'[t] # "idle" => (stmt'[t] # "add" => stmt[t] # "add"),
           \A t \in Pool : pc'[t] = "id" => stmt'[t] = "insert",
           \A c, d \in Clients : conn'[c] = conn'[d] /\ conn'[c] # 0 => c = d
    PROVE  OwnConn'
BY DEF OwnConn

LEMMA ThreadsKeepJobs ==
    ASSUME NetTypes, ThreadTypes, OwnConn, NEW t \in Pool, ThreadStep(t)
    PROVE  \A u \in Pool : /\ pc'[u] # "idle" => /\ pc[u] # "idle" /\ job'[u] = job[u]
                                                 /\ stmt'[u] # "add" => stmt[u] # "add"
                           /\ pc'[u] = "id" => stmt'[u] = "insert"
<1>1. \A u \in Pool : u # t => pc'[u] = pc[u] /\ stmt'[u] = stmt[u] /\ job'[u] = job[u]
    BY DEF ThreadStep, Query, Read, CheckInserted, Store, Fetch, UseUser, ReadId, UseToken, Answer,
        Goto, Failed, Begin, ThreadTypes
<1>2. CASE Query(t) \/ Read(t) \/ CheckInserted(t) \/ Store(t)
    <2>1. pc[t] # "idle" /\ UNCHANGED <<stmt, job>>
        BY <1>2 DEF Query, Read, CheckInserted, Store, Goto, Failed
    <2>2. pc'[t] = "id" => stmt[t] = "insert"
        BY <1>2 DEF Query, Read, CheckInserted, Store, Goto, Failed, ThreadTypes
    <2> QED
        BY <1>1, <2>1, <2>2 DEF OwnConn
<1>3. CASE Fetch(t)
    <2>1. pc[t] # "idle" /\ UNCHANGED <<stmt, job>> /\ pc'[t] # "id"
        BY <1>3 DEF Fetch, Goto, Failed, ThreadTypes
    <2> QED
        BY <1>1, <2>1 DEF OwnConn
<1>4. CASE UseUser(t) \/ ReadId(t) \/ UseToken(t)
    <2>1. /\ pc[t] # "idle" /\ UNCHANGED job /\ pc'[t] = "query"
          /\ stmt[t] \in {"user", "token"} \/ pc[t] = "id"
        BY <1>4 DEF UseUser, ReadId, UseToken, Begin, ThreadTypes
    <2> QED
        BY <1>1, <2>1 DEF OwnConn
<1>5. CASE Answer(t)
    <2>1. pc'[t] = "idle"
        BY <1>5 DEF Answer, ThreadTypes
    <2> QED
        BY <1>1, <2>1 DEF OwnConn
<1> QED
    BY <1>2, <1>3, <1>4, <1>5 DEF ThreadStep

\* What a thread works on came over its connection.
JobInv ==
    \A t \in Pool : pc[t] # "idle" => job[t].try \in 1 .. Len(tries)

NetInv == NetTypes /\ ThreadTypes /\ OwnConn /\ OnInv /\ JobInv

LEMMA NetInvInit == Init => NetInv
<1> SUFFICES ASSUME Init PROVE NetInv
    OBVIOUS
<1>1. NetTypes /\ ThreadTypes
    BY TypesInit
<1>2. OwnConn /\ JobInv
    BY DEF Init, OwnConn, JobInv
<1>3. \A n \in Conns : On(n) = {} /\ ToSet(toClient[n]) = {}
    <2>1. /\ \A n \in Conns : toServer[n] = <<>> /\ toClient[n] = <<>> /\ n # 0
          /\ \A t \in Pool : job[t].conn = 0
        BY DEF Init, NoJob, Conns
    <2>2. ToSet(<<>>) = {}
        BY DEF ToSet
    <2> QED
        BY <2>1, <2>2 DEF On
<1> QED
    BY <1>1, <1>2, <1>3 DEF NetInv, OnInv

\* The client's actions: no thread moves.
LEMMA NetInvConnect ==
    ASSUME NetInv, NetTypes', ThreadTypes', NEW c \in Clients, Connect(c) \/ ConnectionLost(c)
    PROVE  NetInv'
<1> USE DEF NetInv
<1>1. /\ UNCHANGED <<tries, sent, pc, stmt, job>>
      /\ accepted' \in Nat /\ accepted \in Nat /\ accepted <= accepted'
    BY DEF Connect, ConnectionLost, histVars, threadVars, NetTypes
<1>2. \A d \in Clients, n \in Conns : conn'[d] = n => conn[d] = n \/ n = accepted + 1
    <2>1. \A n \in Conns : n # 0
        BY DEF Conns
    <2> QED
        BY <2>1 DEF Connect, ConnectionLost, NetTypes
<1>3. \A d, e \in Clients : conn'[d] = conn'[e] /\ conn'[d] # 0 => d = e
    <2>1. \A d \in Clients : conn[d] \in Nat /\ conn[d] # accepted + 1
        BY DEF NetTypes
    <2>2. CASE conn' = [conn EXCEPT ![c] = accepted + 1]
        BY <2>1, <2>2 DEF OwnConn, NetTypes
    <2>3. CASE conn' = [conn EXCEPT ![c] = 0]
        BY <2>3 DEF OwnConn, NetTypes
    <2> QED
        BY <2>2, <2>3 DEF Connect, ConnectionLost
<1>4. OwnConn' /\ JobInv'
    BY <1>1, <1>3 DEF OwnConn, JobInv
<1>5. \A n \in Conns : On(n)' \subseteq On(n) /\ ToSet(toClient'[n]) \subseteq ToSet(toClient[n])
    <2>1. CASE Connect(c)
        BY <2>1 DEF Connect, On, threadVars
    <2> QED
        BY <2>1, OnRead
<1>6. OnInv'
    BY <1>1, <1>2, <1>5, OnInvKept
<1> QED
    BY <1>4, <1>6

LEMMA NetInvClient ==
    ASSUME NetInv, NetTypes', ThreadTypes', NEW c \in Clients,
           SendLogin(c) => Current(c) \in LoginsOf(c),
           \/ \E u \in Users : AddUserReq(c, u) \/ \E right \in BOOLEAN : LoginReq(c, u, right)
           \/ SendLogin(c) \/ LoginRes(c) \/ LoginFound(c) \/ LoginGivenUp(c)
    PROVE  NetInv'
<1> USE DEF NetInv
<1>1. /\ UNCHANGED <<conn, accepted, pc, stmt, job>> /\ accepted \in Nat
      /\ sent \subseteq sent'
    BY DEF AddUserReq, LoginReq, SendLogin, LoginRes, LoginFound, LoginGivenUp, histVars, netVars,
        threadVars, NetTypes
<1>2. UNCHANGED tries \/ \E r \in Requests : tries' = Append(tries, r)
    BY DEF AddUserReq, LoginReq, SendLogin, LoginRes, LoginFound, LoginGivenUp, histVars, Requests
<1>3. \A k \in 1 .. Len(tries) : k \in 1 .. Len(tries') /\ tries'[k] = tries[k]
    BY <1>2, RequestsKept DEF NetTypes
<1>4. OwnConn' /\ JobInv'
    BY <1>1, <1>3 DEF OwnConn, JobInv
<1>5. ASSUME UNCHANGED <<toServer, toClient>>
      PROVE  OnInv'
    <2>1. \A n \in Conns : On(n)' = On(n)
        BY <1>1, <1>5 DEF On
    <2> QED
        BY <1>1, <1>3, <1>5, <2>1, OnInvKept
<1>6. ASSUME LoginRes(c)
      PROVE  OnInv'
    BY <1>1, <1>3, <1>6, OnRead, OnInvKept
<1>7. ASSUME NEW k \in Nat, k \in 1 .. Len(tries'), k \in sent', tries'[k].client = c, conn[c] # 0,
             toServer' = [toServer EXCEPT ![conn[c]] = Append(@, k)], UNCHANGED toClient
      PROVE  OnInv'
    <2>1. PICK m \in Conns : m = conn[c]
        BY <1>7, NumbersSuffice
    <2>2. \A n \in Conns : On(n)' = IF n = m THEN On(n) \cup {k} ELSE On(n)
        BY <1>1, <1>7, <2>1, OnWritten
    <2>3. m <= accepted /\ \A d \in Clients : conn[d] = m => d = c
        BY <1>7, <2>1 DEF NetTypes, OwnConn
    <2>4. ASSUME NEW n \in Conns, NEW j \in On(n)'
          PROVE  /\ j \in 1 .. Len(tries') /\ j \in sent' /\ n <= accepted'
                 /\ \A d \in Clients : conn'[d] = n => tries'[j].client = d
        <3>1. CASE j \in On(n)
            BY <1>1, <1>3, <3>1 DEF OnInv
        <3>2. CASE j = k /\ n = m
            BY <1>1, <1>7, <2>3, <3>2
        <3> QED
            BY <2>2, <2>4, <3>1, <3>2
    <2>5. ASSUME NEW n \in Conns, NEW a \in ToSet(toClient[n])
          PROVE  tries'[a.try].type = "login" /\ a.user = tries'[a.try].user
        <3>1. a.try \in 1 .. Len(tries)
            BY OnIs DEF OnInv
        <3> QED
            BY <1>3, <3>1 DEF OnInv
    <2> QED
        BY <1>7, <2>4, <2>5 DEF OnInv
<1>8. ASSUME SendLogin(c)
      PROVE  OnInv'
    <2>1. CASE conn[c] = 0
        BY <1>5, <1>8, <2>1 DEF SendLogin
    <2>2. CASE conn[c] # 0
        <3>1. PICK k : k = Current(c)
            OBVIOUS
        <3>2. /\ sent' = sent \cup {k} /\ toServer' = [toServer EXCEPT ![conn[c]] = Append(@, k)]
              /\ UNCHANGED <<toClient, tries>>
            BY <1>8, <2>2, <3>1 DEF SendLogin
        <3>3. k \in Nat /\ k \in 1 .. Len(tries) /\ tries[k].client = c
            BY <1>8, <3>1 DEF LoginsOf
        <3> QED
            BY <1>7, <2>2, <3>2, <3>3
    <2> QED
        BY <2>1, <2>2
<1>9. ASSUME NEW u \in Users, AddUserReq(c, u)
      PROVE  OnInv'
    <2>1. PICK k : k = Len(tries) + 1
        OBVIOUS
    <2>2. PICK r \in Requests : r.client = c /\ tries' = Append(tries, r)
        BY <1>9 DEF AddUserReq, Requests
    <2>3. k \in Nat /\ k \in 1 .. Len(tries') /\ tries'[k] = r
        BY <2>1, <2>2, NextRequest DEF NetTypes
    <2>4. /\ sent' = sent \cup {k} /\ toServer' = [toServer EXCEPT ![conn[c]] = Append(@, k)]
          /\ UNCHANGED toClient /\ conn[c] # 0
        BY <1>9, <2>1 DEF AddUserReq
    <2> QED
        BY <1>7, <2>2, <2>3, <2>4
<1>10. ASSUME NEW u \in Users, NEW right \in BOOLEAN, LoginReq(c, u, right)
       PROVE  OnInv'
    BY <1>5, <1>10 DEF LoginReq, netVars
<1>11. ASSUME LoginFound(c) \/ LoginGivenUp(c)
       PROVE  OnInv'
    BY <1>5, <1>11 DEF LoginFound, LoginGivenUp, netVars
<1> QED
    BY <1>4, <1>6, <1>8, <1>9, <1>10, <1>11

LEMMA NetInvReceive ==
    ASSUME NetInv, NetTypes', ThreadTypes', NEW n \in Conns, Receive(n)
    PROVE  NetInv'
<1> USE DEF NetInv
<1>1. PICK t \in Pool : t = ThreadOf(n)
    BY TypesReceive
<1>2. PICK k : k = Head(toServer[n])
    OBVIOUS
<1>10. PICK p \in {"query", "answer"} : pc' = [pc EXCEPT ![t] = p]
    BY <1>1, ReceiveBegins
<1>3. /\ toServer[n] # <<>> /\ pc[t] = "idle"
      /\ job' = [job EXCEPT ![t] = [conn |-> n, try |-> k]]
      /\ stmt' = [stmt EXCEPT ![t] = IF tries[k].type = "login" THEN "user" ELSE "add"]
      /\ UNCHANGED <<tries, sent, conn, accepted, toClient>>
    BY <1>1, <1>2 DEF Receive
<1>4. accepted \in Nat /\ tries \in Seq(Requests)
    BY DEF NetTypes
<1>5. OnInv'
    BY <1>3, <1>4, OnRead, OnInvKept
<1>6. k \in 1 .. Len(tries)
    <2>1. toServer[n] \in Seq(Nat)
        BY DEF NetTypes
    <2>2. k \in ToSet(toServer[n])
        BY <1>2, <1>3, <2>1, ElementsOf
    <2> QED
        BY <2>2, OnIs DEF OnInv
<1>7. /\ \A u \in Pool : pc'[u] = IF u = t THEN p ELSE pc[u]
      /\ \A u \in Pool : job'[u] = IF u = t THEN [conn |-> n, try |-> k] ELSE job[u]
      /\ \A u \in Pool : stmt'[u] = IF u = t THEN IF tries[k].type = "login" THEN "user" ELSE "add"
                                    ELSE stmt[u]
    BY <1>3, <1>10 DEF ThreadTypes
<1>8. JobInv'
    BY <1>3, <1>6, <1>7 DEF JobInv
<1>9. OwnConn'
    BY <1>3, <1>7 DEF OwnConn
<1> QED
    BY <1>5, <1>8, <1>9

LEMMA NetInvThread ==
    ASSUME NetInv, NetTypes', ThreadTypes', NEW t \in Pool, ThreadStep(t)
    PROVE  NetInv'
<1> USE DEF NetInv
<1>1. /\ UNCHANGED <<tries, sent, conn, accepted, toServer>> /\ accepted \in Nat
    BY DEF ThreadStep, Query, Read, CheckInserted, Store, Fetch, UseUser, ReadId, UseToken, Answer,
        histVars, netVars, NetTypes
<1>2. \A u \in Pool : /\ pc'[u] # "idle" => /\ pc[u] # "idle" /\ job'[u] = job[u]
                                            /\ stmt'[u] # "add" => stmt[u] # "add"
                      /\ pc'[u] = "id" => stmt'[u] = "insert"
    BY ThreadsKeepJobs
<1>3. JobInv'
    BY <1>1, <1>2 DEF JobInv
<1>4. OwnConn'
    BY <1>1, <1>2 DEF OwnConn
<1>5. CASE Answer(t)
    <2>1. \A n \in Conns : On(n)' \subseteq On(n)
        BY <1>5, OnRead
    <2>2. ASSUME NEW n \in Conns, NEW a \in ToSet(toClient'[n])
          PROVE  \/ a \in ToSet(toClient[n])
                 \/ a.try \in On(n) /\ tries[a.try].type = "login" /\ a.user = tries[a.try].user
        <3>1. CASE UNCHANGED toClient
            BY <2>2, <3>1
        <3>2. ASSUME NEW b, b = AnswerOf(t), stmt[t] # "add",
                     toClient' = [toClient EXCEPT ![job[t].conn] = Append(@, b)]
              PROVE  \/ a \in ToSet(toClient[n])
                     \/ a.try \in On(n) /\ tries[a.try].type = "login" /\ a.user = tries[a.try].user
            <4>1. PICK S : toClient[n] \in Seq(S)
                BY DEF NetTypes
            <4>2. ToSet(Append(toClient[n], b)) = ToSet(toClient[n]) \cup {b}
                BY <4>1, ElementsAppended
            <4>3. b.try = job[t].try /\ b.user = tries[b.try].user
                BY <3>2 DEF AnswerOf, User
            <4>4. tries[b.try].type = "login"
                BY <1>5, <3>2, <4>3 DEF OwnConn, Answer
            <4>5. job[t].conn = n => b.try \in On(n)
                BY <4>3, OnIs
            <4>6. toClient'[n] = IF n = job[t].conn THEN Append(toClient[n], b) ELSE toClient[n]
                BY <3>2 DEF NetTypes
            <4> QED
                BY <2>2, <4>2, <4>3, <4>4, <4>5, <4>6
        <3> QED
            BY <1>5, <3>1, <3>2 DEF Answer
    <2> QED
        BY <1>1, <1>3, <1>4, <2>1, <2>2, OnInvKept
<1>6. CASE ~Answer(t)
    <2>1. UNCHANGED <<toClient, job>>
        BY <1>6 DEF ThreadStep, Query, Read, CheckInserted, Store, Fetch, UseUser, ReadId, UseToken,
            netVars, Begin, Goto, Failed
    <2>2. \A n \in Conns : On(n)' = On(n)
        BY <1>1, <2>1 DEF On
    <2> QED
        BY <1>1, <1>3, <1>4, <2>1, <2>2, OnInvKept
<1> QED
    BY <1>5, <1>6

-----------------------------------------------------------------------------
(* What getLoginInfo finds. *)

\* A client knows answers to its own logins, each under the user it was for.
KnownInv ==
    \A c \in Clients, u \in Users :
        \/ loginMap[c][u] = NoEntry
        \/ loginMap[c][u].try \in LoginsOf(c) /\ tries[loginMap[c][u].try].user = u

\* Login k was shown the answer to j.
IsShown(j, k) ==
    /\ k \in 1 .. Len(tries) /\ j \in 1 .. Len(tries) /\ j <= k /\ tries[j].type = "login"
    /\ tries[j].client = tries[k].client /\ tries[j].user = tries[k].user

\* A login that is shown the answer to another was begun too late.
ShownInv ==
    \A k \in Tries : shown[k] # 0 => IsShown(shown[k], k) /\ (k \notin late => shown[k] = k)

AnswerInv == NetInv /\ ExpectInv /\ KnownInv /\ ShownInv

\* ExpectInv while the requests of the waiting clients stay, and the answers known
\* and the things on the connections become fewer.
LEMMA ExpectKept ==
    ASSUME NetInv, ExpectInv, UNCHANGED <<tries, late>>,
           \A c \in Clients : callPc'[c] # "idle" => callPc[c] # "idle",
           \A c \in Clients : \A u \in Users :
               \/ loginMap'[c][u] = loginMap[c][u]
               \/ /\ conn[c] # 0 /\ loginMap'[c][u].try \in On(conn[c])
                  /\ tries[loginMap'[c][u].try].type = "login"
                  /\ tries[loginMap'[c][u].try].user = u,
           \A n \in Conns : On(n)' \subseteq On(n),
           \A c \in Clients : conn'[c] # 0 =>
               \/ conn'[c] = conn[c] \/ On(conn[c])' = {}
    PROVE  ExpectInv'
<1> SUFFICES ASSUME NEW c \in Clients, callPc'[c] # "idle"
             PROVE  /\ Current(c)' \in LoginsOf(c)'
                    /\ Current(c)' \notin late' => Expected(c)'
    BY DEF ExpectInv
<1>1. callPc[c] # "idle" /\ Current(c)' = Current(c) /\ LoginsOf(c)' = LoginsOf(c)
    BY CurrentKept
<1>2. Current(c) \in LoginsOf(c)
    BY <1>1 DEF ExpectInv
<1>3. PICK k : k = Current(c)
    OBVIOUS
<1>4. PICK u \in Users : u = tries[k].user
    <2>1. tries[k] \in Requests
        BY <1>2, <1>3, ElementOfSeq DEF LoginsOf, NetInv, NetTypes
    <2> QED
        BY <2>1 DEF Requests
<1>5. ASSUME k \notin late
      PROVE  Expected(c)'
    <2>1. /\ loginMap[c][u] = NoEntry \/ loginMap[c][u].try = k
          /\ conn[c] # 0 =>
               \A j \in On(conn[c]) : tries[j].type = "login" /\ tries[j].user = u => j = k
        BY <1>1, <1>3, <1>4, <1>5 DEF ExpectInv, Expected
    <2>2. loginMap'[c][u] = NoEntry \/ loginMap'[c][u].try = k
        BY <2>1
    <2>3. conn'[c] # 0 => \A j \in On(conn[c])' :
                              tries[j].type = "login" /\ tries[j].user = u => j = k
        <3>1. CASE conn'[c] = conn[c] /\ conn[c] # 0
            <4>1. PICK n \in Conns : n = conn[c]
                BY <3>1, NumbersSuffice DEF NetInv
            <4>2. n = conn'[c]
                BY <3>1, <4>1
            <4>3. On(conn[c])' = On(n)'
                BY <4>2 DEF On
            <4>4. On(n)' \subseteq On(n)
                OBVIOUS
            <4> QED
                BY <2>1, <3>1, <4>1, <4>3, <4>4
        <3> QED
            BY <3>1
    <2> QED
        BY <1>1, <1>3, <1>4, <2>2, <2>3 DEF Expected
<1> QED
    BY <1>1, <1>2, <1>3, <1>5

LEMMA AnswerInvInit == Init => AnswerInv
<1> SUFFICES ASSUME Init PROVE AnswerInv
    OBVIOUS
<1>1. ExpectInv
    BY DEF Init, ExpectInv
<1>2. ShownInv
    BY DEF Init, ShownInv
<1>3. KnownInv
    BY DEF Init, KnownInv
<1> QED
    BY <1>1, <1>2, <1>3, NetInvInit DEF AnswerInv

\* A login begins: nothing is known of its user, and late it is unless nothing of an
\* earlier one is on the way.
LEMMA ExpectLoginReq ==
    ASSUME NetInv, ExpectInv, NEW c \in Clients, NEW u \in Users, NEW right \in BOOLEAN,
           LoginReq(c, u, right)
    PROVE  ExpectInv' /\ late \subseteq late'
<1>1. PICK r \in Requests : /\ r = [client |-> c, type |-> "login", user |-> u, right |-> right]
                            /\ r.client = c /\ r.type = "login" /\ r.user = u
    <2> DEFINE q == [client |-> c, type |-> "login", user |-> u, right |-> right]
    <2>1. q \in Requests
        BY DEF Requests
    <2>2. q.client = c /\ q.type = "login" /\ q.user = u
        BY Zenon
    <2> QED
        BY <2>1, <2>2
<1>2. PICK k : k = Len(tries) + 1
    OBVIOUS
<1>3. /\ tries \in Seq(Requests) /\ tries' = Append(tries, r)
      /\ loginMap' = [loginMap EXCEPT ![c] = [@ EXCEPT ![u] = NoEntry]]
      /\ late' = IF Open(c, u) = {} THEN late ELSE late \cup {k}
      /\ callPc' = [callPc EXCEPT ![c] = "send"]
      /\ UNCHANGED <<conn, toServer, toClient, job, sent>>
    BY <1>1, <1>2 DEF LoginReq, NetInv, NetTypes, Forgotten, netVars, threadVars
<1>4. /\ Len(tries') = k /\ k \in Nat /\ \A j \in 1 .. Len(tries) : tries'[j] = tries[j]
      /\ tries'[k] = r /\ Len(tries) \in Nat
      /\ \A d \in Clients : d # c => Current(d)' = Current(d) /\ LoginsOf(d)' = LoginsOf(d)
    BY <1>1, <1>2, <1>3, NextRequest
<1>5. Current(c)' = k
    BY <1>1, <1>2, <1>3, NextRequest
<1>6. k \in LoginsOf(c)'
    <2>1. k \in 1 .. Len(tries')
        BY <1>2, <1>4
    <2> QED
        BY <1>1, <1>4, <2>1 DEF LoginsOf
<1>7. /\ DOMAIN loginMap = Clients /\ \A d \in Clients : DOMAIN loginMap[d] = Users
      /\ callPc \in [Clients -> {"idle", "send", "wait"}]
    BY DEF NetInv, NetTypes
<1>8. ASSUME NEW d \in Clients, callPc'[d] # "idle", Current(d)' \notin late'
      PROVE  Expected(d)'
    <2>1. \A n : On(n)' = On(n)
        BY <1>3 DEF On
    <2>2. ASSUME conn[d] # 0
          PROVE  \A j \in On(conn[d]) : /\ j \in 1 .. Len(tries) /\ tries'[j] = tries[j]
                                        /\ j \in sent /\ tries[j].client = d
        <3>1. conn[d] \in Conns
            BY <2>2, NumbersSuffice DEF NetInv
        <3> QED
            BY <1>4, <3>1 DEF NetInv, OnInv
    <2>3. CASE d = c
        <3>1. loginMap'[c][u] = NoEntry /\ tries'[k].user = u
            BY <1>1, <1>3, <1>4, <1>7
        <3>2. Open(c, u) = {}
            BY <1>3, <1>5, <1>8, <2>3
        <3>3. ASSUME conn[c] # 0, NEW j \in On(conn[c]), tries'[j].type = "login",
                     tries'[j].user = u
              PROVE  FALSE
            <4>1. /\ j \in sent /\ tries[j].client = c /\ tries[j].user = u
                  /\ tries[j].type = "login"
                BY <2>2, <2>3, <3>3
            <4>2. \/ j \in ToSet(toServer[conn[c]])
                  \/ [conn |-> conn[c], try |-> j] \in {job[t] : t \in Pool}
                  \/ j \in {a.try : a \in ToSet(toClient[conn[c]])}
                <5>1. \A t \in Pool : job[t] = [conn |-> job[t].conn, try |-> job[t].try]
                    BY DEF NetInv, ThreadTypes
                <5> QED
                    BY <3>3, <5>1, OnIs
            <4> QED
                BY <3>2, <3>3, <4>1, <4>2 DEF Open
        <3> QED
            BY <1>3, <1>5, <2>1, <2>3, <3>1, <3>3 DEF Expected
    <2>4. CASE d # c
        <3>1. callPc[d] # "idle" /\ Current(d)' = Current(d) /\ Current(d) \notin late
            BY <1>3, <1>4, <1>7, <1>8, <2>4
        <3>2. Current(d) \in LoginsOf(d) /\ Expected(d)
            BY <3>1 DEF ExpectInv
        <3>3. tries'[Current(d)] = tries[Current(d)]
            BY <1>4, <3>2 DEF LoginsOf
        <3>4. loginMap'[d] = loginMap[d]
            BY <1>3, <1>7, <2>4
        <3>5. conn[d] # 0 => \A j \in On(conn[d]) : tries'[j] = tries[j]
            BY <2>2
        <3> QED
            BY <1>3, <2>1, <3>1, <3>2, <3>3, <3>4, <3>5 DEF Expected
    <2> QED
        BY <2>3, <2>4
<1>9. ASSUME NEW d \in Clients, callPc'[d] # "idle"
      PROVE  Current(d)' \in LoginsOf(d)'
    <2>1. CASE d = c
        BY <1>5, <1>6, <2>1
    <2>2. CASE d # c
        <3>1. callPc[d] # "idle"
            BY <1>3, <1>7, <1>9, <2>2
        <3> QED
            BY <1>4, <2>2, <3>1 DEF ExpectInv
    <2> QED
        BY <2>1, <2>2
<1> QED
    BY <1>3, <1>8, <1>9 DEF ExpectInv

\* One more request is written to the connection of client c, which asks for another
\* thing than the login that is waited for, or is that login.
LEMMA ExpectWritten ==
    ASSUME NetInv, ExpectInv, NEW c \in Clients, conn[c] # 0, NEW k \in Nat,
           \A j \in 1 .. Len(tries) : tries'[j] = tries[j],
           \A d \in Clients : Current(d)' = Current(d) /\ LoginsOf(d)' = LoginsOf(d),
           toServer' = [toServer EXCEPT ![conn[c]] = Append(@, k)],
           UNCHANGED <<conn, toClient, job, loginMap, late>>,
           \A d \in Clients : callPc'[d] # "idle" => callPc[d] # "idle",
           callPc[c] = "idle" \/ k = Current(c)
    PROVE  ExpectInv'
<1>1. PICK m \in Conns : m = conn[c]
    BY NumbersSuffice DEF NetInv
<1>2. \A n \in Conns : On(n)' = IF n = m THEN On(n) \cup {k} ELSE On(n)
    BY <1>1, OnWritten DEF NetInv
<1>3. ASSUME NEW d \in Clients, callPc'[d] # "idle"
      PROVE  Current(d)' \in LoginsOf(d)' /\ (Current(d)' \notin late' => Expected(d)')
    <2>1. callPc[d] # "idle" /\ Current(d) \in LoginsOf(d)
        BY <1>3 DEF ExpectInv
    <2>2. PICK i : i = Current(d)
        OBVIOUS
    <2>3. i \in 1 .. Len(tries) /\ tries'[i] = tries[i] /\ Current(d)' = i
        BY <2>1, <2>2 DEF LoginsOf
    <2>4. ASSUME i \notin late
          PROVE  Expected(d)'
        <3>1. /\ loginMap[d][tries[i].user] = NoEntry \/ loginMap[d][tries[i].user].try = i
              /\ conn[d] # 0 => \A j \in On(conn[d]) :
                     tries[j].type = "login" /\ tries[j].user = tries[i].user => j = i
            BY <2>1, <2>2, <2>4 DEF ExpectInv, Expected
        <3>2. ASSUME conn[d] # 0, NEW j \in On(conn[d])', tries'[j].type = "login",
                     tries'[j].user = tries[i].user
              PROVE  j = i
            <4>1. PICK n \in Conns : n = conn[d]
                BY <3>2, NumbersSuffice DEF NetInv
            <4>2. j \in On(n)'
                <5>1. n = conn'[d]
                    BY <4>1
                <5> QED
                    BY <3>2, <5>1 DEF On
            <4>3. CASE j \in On(n)
                <5>1. j \in 1 .. Len(tries)
                    BY <4>3 DEF NetInv, OnInv
                <5> QED
                    BY <3>1, <3>2, <4>1, <4>3, <5>1
            <4>4. CASE j = k /\ n = m
                <5>1. d = c
                    BY <1>1, <3>2, <4>1, <4>4 DEF NetInv, OwnConn
                <5> QED
                    BY <2>1, <2>2, <4>4, <5>1
            <4> QED
                BY <1>2, <4>2, <4>3, <4>4
        <3> QED
            BY <2>2, <2>3, <3>1, <3>2 DEF Expected
    <2> QED
        BY <2>1, <2>2, <2>3, <2>4
<1> QED
    BY <1>3 DEF ExpectInv

LEMMA ExpectStep ==
    ASSUME NetInv, ExpectInv, [Next]_vars
    PROVE  ExpectInv'
<1>1. /\ DOMAIN loginMap = Clients /\ \A c \in Clients : DOMAIN loginMap[c] = Users
      /\ callPc \in [Clients -> {"idle", "send", "wait"}] /\ tries \in Seq(Requests)
    BY DEF NetInv, NetTypes
<1>2. ASSUME NEW c \in Clients, Connect(c)
      PROVE  ExpectInv'
    <2>1. /\ conn' = [conn EXCEPT ![c] = accepted + 1] /\ conn[c] = 0
          /\ UNCHANGED <<tries, late, callPc, loginMap, toServer, toClient, job>>
        BY <1>2 DEF Connect, histVars, clientVars, threadVars
    <2>2. \A n : On(n)' = On(n)
        BY <2>1 DEF On
    <2>3. PICK n \in Conns : n = accepted + 1 /\ accepted \in Nat
        BY <2>1, NumbersSuffice DEF NetInv, NetTypes
    <2>4. On(n) = {}
        BY <2>3 DEF NetInv, OnInv
    <2>5. \A d \in Clients : conn'[d] = IF d = c THEN n ELSE conn[d]
        BY <2>1, <2>3 DEF NetInv, NetTypes
    <2>6. \A d \in Clients : conn'[d] = conn[d] \/ On(conn[d])' = {}
        <3>1. On(conn[c])' = {}
            BY <2>1, <2>4, <2>5 DEF On
        <3> QED
            BY <2>5, <3>1
    <2> QED
        BY <2>1, <2>2, <2>6, ExpectKept
<1>3. ASSUME NEW c \in Clients, ConnectionLost(c)
      PROVE  ExpectInv'
    <2>1. /\ conn' = [conn EXCEPT ![c] = 0] /\ UNCHANGED <<tries, late, callPc, loginMap>>
        BY <1>3 DEF ConnectionLost, histVars, clientVars
    <2>2. \A d \in Clients : conn'[d] # 0 => conn'[d] = conn[d]
        BY <2>1 DEF NetInv, NetTypes
    <2>3. \A n \in Conns : On(n)' \subseteq On(n)
        BY <1>3, OnRead DEF NetInv
    <2> QED
        BY <2>1, <2>2, <2>3, ExpectKept
<1>4. ASSUME NEW c \in Clients, NEW u \in Users, NEW right \in BOOLEAN, LoginReq(c, u, right)
      PROVE  ExpectInv'
    BY <1>4, ExpectLoginReq
<1>5. ASSUME NEW c \in Clients, NEW u \in Users, AddUserReq(c, u)
      PROVE  ExpectInv'
    <2>1. PICK r \in Requests : r.type # "login" /\ tries' = Append(tries, r)
        BY <1>5 DEF AddUserReq, Requests
    <2>2. /\ \A j \in 1 .. Len(tries) : tries'[j] = tries[j] /\ Len(tries) \in Nat
          /\ \A d \in Clients : Current(d)' = Current(d) /\ LoginsOf(d)' = LoginsOf(d)
          /\ Len(tries) \in Nat
        BY <1>1, <2>1, NextRequest
    <2>3. PICK k \in Nat : k = Len(tries) + 1
        BY <2>2
    <2>4. /\ conn[c] # 0 /\ callPc[c] = "idle" /\ toServer' = [toServer EXCEPT ![conn[c]] = Append(@, k)]
          /\ UNCHANGED <<conn, toClient, job, loginMap, late, callPc>>
        BY <1>5, <2>3 DEF AddUserReq, clientVars, threadVars
    <2> QED
        BY <2>2, <2>4, ExpectWritten
<1>6. ASSUME NEW c \in Clients, SendLogin(c)
      PROVE  ExpectInv'
    <2>1. /\ callPc[c] = "send" /\ callPc' = [callPc EXCEPT ![c] = "wait"]
          /\ UNCHANGED <<tries, late, conn, toClient, loginMap, job>>
        BY <1>6 DEF SendLogin, threadVars
    <2>2. \A d \in Clients : callPc'[d] # "idle" => callPc[d] # "idle"
        BY <1>1, <2>1
    <2>3. \A d \in Clients : Current(d)' = Current(d) /\ LoginsOf(d)' = LoginsOf(d)
        BY <2>1, CurrentKept
    <2>4. CASE conn[c] = 0
        <3>1. UNCHANGED toServer
            BY <1>6, <2>4 DEF SendLogin
        <3>2. \A n : On(n)' = On(n)
            BY <2>1, <3>1 DEF On
        <3> QED
            BY <2>1, <2>2, <3>2, ExpectKept
    <2>5. CASE conn[c] # 0
        <3>1. Current(c) \in LoginsOf(c)
            BY <2>1 DEF ExpectInv
        <3>2. PICK k \in Nat : k = Current(c)
            BY <3>1 DEF LoginsOf
        <3>3. toServer' = [toServer EXCEPT ![conn[c]] = Append(@, k)]
            BY <1>6, <2>5, <3>2 DEF SendLogin
        <3> QED
            BY <2>1, <2>2, <2>3, <2>5, <3>2, <3>3, ExpectWritten
    <2> QED
        BY <2>4, <2>5
<1>7. ASSUME NEW c \in Clients, LoginRes(c)
      PROVE  ExpectInv'
    <2>1. /\ conn[c] # 0 /\ toClient[conn[c]] # <<>> /\ UNCHANGED <<tries, late, callPc, conn>>
        BY <1>7 DEF LoginRes, histVars
    <2>2. PICK n \in Conns : n = conn[c]
        BY <2>1, NumbersSuffice DEF NetInv
    <2>3. PICK a : a = Head(toClient[n])
        OBVIOUS
    <2>4. a \in ToSet(toClient[n])
        <3>1. PICK S : toClient[n] \in Seq(S)
            BY DEF NetInv, NetTypes
        <3> QED
            BY <2>1, <2>2, <2>3, <3>1, ElementsOf
    <2>5. a.try \in On(conn[c]) /\ tries[a.try].type = "login" /\ tries[a.try].user = a.user
        BY <2>2, <2>4, OnIs DEF NetInv, OnInv
    <2>6. loginMap' = loginMap \/ loginMap' = [loginMap EXCEPT ![c] = [@ EXCEPT ![a.user] = a]]
        BY <1>7, <2>2, <2>3 DEF LoginRes
    <2>7. \A d \in Clients : \A u \in Users :
              loginMap'[d][u] = loginMap[d][u] \/ (d = c /\ u = a.user /\ loginMap'[d][u] = a)
        BY <1>1, <2>6
    <2>8. \A m \in Conns : On(m)' \subseteq On(m)
        BY <1>7, OnRead DEF NetInv
    <2> QED
        BY <2>1, <2>5, <2>7, <2>8, ExpectKept
<1>8. ASSUME NEW c \in Clients, LoginFound(c) \/ LoginGivenUp(c)
      PROVE  ExpectInv'
    <2>1. /\ UNCHANGED <<tries, late, conn, toServer, toClient, loginMap, job>>
          /\ callPc' = [callPc EXCEPT ![c] = "idle"]
        BY <1>8 DEF LoginFound, LoginGivenUp, histVars, netVars, threadVars
    <2>2. \A n : On(n)' = On(n)
        BY <2>1 DEF On
    <2>3. \A d \in Clients : callPc'[d] # "idle" => callPc[d] # "idle"
        BY <1>1, <2>1
    <2> QED
        BY <2>1, <2>2, <2>3, ExpectKept
<1>9. ASSUME NEW n \in Conns, Receive(n)
      PROVE  ExpectInv'
    <2>1. UNCHANGED <<tries, late, conn, callPc, loginMap>>
        BY <1>9 DEF Receive, clientVars
    <2>2. \A m \in Conns : On(m)' \subseteq On(m)
        BY <1>9, OnRead DEF NetInv
    <2> QED
        BY <2>1, <2>2, ExpectKept
<1>10. ASSUME NEW t \in Pool, ThreadStep(t)
       PROVE  ExpectInv'
    <2>1. UNCHANGED <<tries, late, conn, callPc, loginMap>>
        BY <1>10 DEF ThreadStep, Query, Read, CheckInserted, Store, Fetch, UseUser, ReadId, UseToken,
            Answer, histVars, netVars, clientVars
    <2>2. \A m \in Conns : On(m)' \subseteq On(m)
        <3>1. CASE Answer(t)
            BY <3>1, OnRead DEF NetInv
        <3>2. CASE ~Answer(t)
            BY <1>10, <3>2 DEF ThreadStep, Query, Read, CheckInserted, Store, Fetch, UseUser, ReadId,
                UseToken, netVars, Begin, Goto, Failed, On
        <3> QED
            BY <3>1, <3>2
    <2> QED
        BY <2>1, <2>2, ExpectKept
<1>11. CASE UNCHANGED vars
    <2>1. UNCHANGED <<tries, late, conn, callPc, loginMap, toServer, toClient, job>>
        BY <1>11 DEF vars, histVars, netVars, clientVars, threadVars
    <2>2. \A m : On(m)' = On(m)
        BY <2>1 DEF On
    <2> QED
        BY <2>1, <2>2, ExpectKept
<1> QED
    BY <1>2, <1>3, <1>4, <1>5, <1>6, <1>7, <1>8, <1>9, <1>10, <1>11 DEF Next, ClientStep

LEMMA NetInvStep ==
    ASSUME NetInv, ExpectInv, [Next]_vars
    PROVE  NetInv'
<1>1. NetTypes' /\ ThreadTypes'
    BY TypesStep DEF NetInv
<1>2. ASSUME NEW c \in Clients, ClientStep(c)
      PROVE  NetInv'
    <2>1. SendLogin(c) => Current(c) \in LoginsOf(c)
        BY DEF SendLogin, ExpectInv
    <2> QED
        BY <1>1, <1>2, <2>1, NetInvConnect, NetInvClient DEF ClientStep
<1>3. CASE UNCHANGED vars
    <2>1. /\ UNCHANGED <<tries, sent, conn, accepted, toServer, toClient, pc, stmt, job>>
        BY <1>3 DEF vars, histVars, netVars, threadVars
    <2>2. \A n : On(n)' = On(n)
        BY <2>1 DEF On
    <2>3. OwnConn' /\ JobInv'
        BY <2>1 DEF NetInv, OwnConn, JobInv
    <2>4. OnInv'
        BY <2>1, <2>2 DEF NetInv, OnInv
    <2> QED
        BY <1>1, <2>3, <2>4 DEF NetInv
<1> QED
    BY <1>1, <1>2, <1>3, NetInvReceive, NetInvThread DEF Next

\* Requests are made one after another and stay as they are.
LEMMA RequestsStay ==
    ASSUME NetInv, [Next]_vars
    PROVE  \A k \in 1 .. Len(tries) : k \in 1 .. Len(tries') /\ tries'[k] = tries[k]
<1>1. ASSUME NEW c \in Clients, ClientStep(c)
      PROVE  UNCHANGED tries \/ \E r \in Requests : tries' = Append(tries, r)
    BY <1>1 DEF ClientStep, Connect, ConnectionLost, AddUserReq, LoginReq, SendLogin, LoginRes,
        LoginFound, LoginGivenUp, histVars, Requests
<1>2. ASSUME NEW n \in Conns, Receive(n)
      PROVE  UNCHANGED tries
    BY <1>2 DEF Receive
<1>3. ASSUME NEW t \in Pool, ThreadStep(t)
      PROVE  UNCHANGED tries
    BY <1>3 DEF ThreadStep, Query, Read, CheckInserted, Store, Fetch, UseUser, ReadId, UseToken,
        Answer, histVars
<1>4. UNCHANGED tries \/ \E r \in Requests : tries' = Append(tries, r)
    BY <1>1, <1>2, <1>3 DEF Next, vars, histVars
<1> QED
    BY <1>4, RequestsKept DEF NetInv, NetTypes

\* What a client knows stays, is forgotten, or comes from its connection.
LEMMA KnownStep ==
    ASSUME NetInv, KnownInv, [Next]_vars
    PROVE  KnownInv'
<1>1. \A k \in 1 .. Len(tries) : k \in 1 .. Len(tries') /\ tries'[k] = tries[k]
    BY RequestsStay
<1>2. \A c \in Clients : \A k \in LoginsOf(c) : k \in LoginsOf(c)' /\ tries'[k] = tries[k]
    BY <1>1 DEF LoginsOf
<1>3. DOMAIN loginMap = Clients /\ \A c \in Clients : DOMAIN loginMap[c] = Users
    BY DEF NetInv, NetTypes
<1>4. CASE \A c \in Clients, u \in Users :
               loginMap'[c][u] = loginMap[c][u] \/ loginMap'[c][u] = NoEntry
    BY <1>2, <1>4 DEF KnownInv
<1>5. ASSUME NEW c \in Clients, LoginRes(c)
      PROVE  KnownInv'
    <2>1. conn[c] # 0 /\ toClient[conn[c]] # <<>>
        BY <1>5 DEF LoginRes
    <2>2. PICK n \in Conns : n = conn[c]
        BY <2>1, NumbersSuffice DEF NetInv
    <2>3. PICK a : a = Head(toClient[n])
        OBVIOUS
    <2>4. a \in ToSet(toClient[n])
        <3>1. PICK S : toClient[n] \in Seq(S)
            BY DEF NetInv, NetTypes
        <3> QED
            BY <2>1, <2>2, <2>3, <3>1, ElementsOf
    <2>5. a.try \in LoginsOf(c) /\ tries[a.try].user = a.user
        <3>1. a.try \in On(n) /\ tries[a.try].type = "login" /\ tries[a.try].user = a.user
            BY <2>4, OnIs DEF NetInv, OnInv
        <3> QED
            BY <2>2, <3>1 DEF NetInv, OnInv, LoginsOf
    <2>6. loginMap' = loginMap \/ loginMap' = [loginMap EXCEPT ![c] = [@ EXCEPT ![a.user] = a]]
        BY <1>5, <2>2, <2>3 DEF LoginRes
    <2>7. \A d \in Clients : \A u \in Users :
              loginMap'[d][u] = loginMap[d][u] \/ (d = c /\ u = a.user /\ loginMap'[d][u] = a)
        BY <1>3, <2>6
    <2> QED
        BY <1>2, <2>5, <2>7 DEF KnownInv
<1>6. ASSUME NEW c \in Clients, NEW u \in Users, NEW right \in BOOLEAN, LoginReq(c, u, right)
      PROVE  KnownInv'
    <2>1. loginMap' = [loginMap EXCEPT ![c] = [@ EXCEPT ![u] = NoEntry]]
        BY <1>6 DEF LoginReq, Forgotten
    <2> QED
        BY <1>3, <1>4, <2>1
<1>7. ASSUME NEW c \in Clients, ClientStep(c), ~LoginRes(c),
             ~\E u \in Users : \E right \in BOOLEAN : LoginReq(c, u, right)
      PROVE  UNCHANGED loginMap
    BY <1>7 DEF ClientStep, Connect, ConnectionLost, AddUserReq, SendLogin, LoginFound,
        LoginGivenUp, clientVars
<1>8. ASSUME NEW n \in Conns, Receive(n)
      PROVE  UNCHANGED loginMap
    BY <1>8 DEF Receive, clientVars
<1>9. ASSUME NEW t \in Pool, ThreadStep(t)
      PROVE  UNCHANGED loginMap
    BY <1>9 DEF ThreadStep, Query, Read, CheckInserted, Store, Fetch, UseUser, ReadId, UseToken,
        Answer, clientVars
<1>10. CASE UNCHANGED loginMap
    BY <1>4, <1>10
<1> QED
    BY <1>5, <1>6, <1>7, <1>8, <1>9, <1>10 DEF Next, vars, clientVars

LEMMA ShownStep ==
    ASSUME NetInv, ExpectInv, KnownInv, ShownInv, [Next]_vars
    PROVE  ShownInv'
<1>5. \A j, k : IsShown(j, k) => IsShown(j, k)'
    BY RequestsStay DEF IsShown
<1>1. late \subseteq late'
    <2>1. ASSUME NEW c \in Clients, ClientStep(c)
          PROVE  late \subseteq late'
        BY <2>1 DEF ClientStep, Connect, ConnectionLost, AddUserReq, LoginReq, SendLogin, LoginRes,
            LoginFound, LoginGivenUp, histVars
    <2>2. ASSUME NEW n \in Conns, Receive(n)
          PROVE  late \subseteq late'
        BY <2>2 DEF Receive
    <2>3. ASSUME NEW t \in Pool, ThreadStep(t)
          PROVE  late \subseteq late'
        BY <2>3 DEF ThreadStep, Query, Read, CheckInserted, Store, Fetch, UseUser, ReadId, UseToken,
            Answer, histVars
    <2> QED
        BY <2>1, <2>2, <2>3 DEF Next, vars, histVars
<1>2. CASE UNCHANGED shown
    BY <1>1, <1>2, <1>5 DEF ShownInv
<1>3. ASSUME NEW c \in Clients, LoginFound(c)
      PROVE  ShownInv'
    <2>1. PICK k : k = Current(c)
        OBVIOUS
    <2>2. callPc[c] # "idle" /\ UNCHANGED late
        BY <1>3 DEF LoginFound
    <2>3. CASE shown' = [shown EXCEPT ![k] = loginMap[c][tries[k].user].try]
               /\ loginMap[c][tries[k].user] # NoEntry
        <3>1. k \notin late => loginMap[c][tries[k].user].try = k
            BY <2>1, <2>2, <2>3 DEF ExpectInv, Expected
        <3>2. \A j \in Tries : shown'[j] = IF j = k THEN loginMap[c][tries[k].user].try ELSE shown[j]
            BY <2>3 DEF NetInv, NetTypes
        <3>3. /\ tries \in Seq(Requests) /\ Len(tries) \in Nat /\ k \in LoginsOf(c)
              /\ \A j \in LoginsOf(c) : j <= k
            <4>1. tries \in Seq(Requests)
                BY DEF NetInv, NetTypes
            <4>2. k \in LoginsOf(c)
                BY <2>1, <2>2 DEF ExpectInv
            <4>3. k = Max(LoginsOf(c)) /\ LoginsOf(c) \in SUBSET (1 .. Len(tries)) /\ Len(tries) \in Nat
                BY <2>1, <4>1, <4>2, CurrentFacts, LenProperties DEF LoginsOf
            <4>4. \A j \in LoginsOf(c) : j <= k
                BY <4>2, <4>3, MaxIsIn
            <4> QED
                BY <4>1, <4>2, <4>3, <4>4
        <3>4. PICK u \in Users : u = tries[k].user
            <4>1. tries[k] \in Requests
                BY <3>3, ElementOfSeq DEF LoginsOf
            <4> QED
                BY <4>1 DEF Requests
        <3>5. PICK j : j = loginMap[c][u].try
            OBVIOUS
        <3>6. j \in LoginsOf(c) /\ tries[j].user = u
            BY <2>3, <3>4, <3>5 DEF KnownInv
        <3>7. IsShown(j, k)
            BY <3>3, <3>4, <3>6 DEF IsShown, LoginsOf
        <3>8. IsShown(j, k)'
            BY <1>5, <3>7
        <3> QED
            BY <1>5, <2>2, <3>1, <3>2, <3>4, <3>5, <3>8 DEF ShownInv
    <2> QED
        BY <1>2, <1>3, <2>1, <2>3 DEF LoginFound
<1>4. UNCHANGED shown \/ \E c \in Clients : LoginFound(c)
    <2>1. ASSUME NEW c \in Clients, ClientStep(c), ~LoginFound(c)
          PROVE  UNCHANGED shown
        BY <2>1 DEF ClientStep, Connect, ConnectionLost, AddUserReq, LoginReq, SendLogin, LoginRes,
            LoginGivenUp, histVars
    <2>2. ASSUME NEW n \in Conns, Receive(n)
          PROVE  UNCHANGED shown
        BY <2>2 DEF Receive
    <2>3. ASSUME NEW t \in Pool, ThreadStep(t)
          PROVE  UNCHANGED shown
        BY <2>3 DEF ThreadStep, Query, Read, CheckInserted, Store, Fetch, UseUser, ReadId, UseToken,
            Answer, histVars
    <2> QED
        BY <2>1, <2>2, <2>3 DEF Next, vars, histVars
<1> QED
    BY <1>2, <1>3, <1>4

LEMMA AnswerInvStep == AnswerInv /\ [Next]_vars => AnswerInv'
BY NetInvStep, ExpectStep, KnownStep, ShownStep DEF AnswerInv

\* getLoginInfo reports what the database said to a login of this client for this
\* user and not to a later one, and to this very login unless the answer to an earlier
\* one was still on its way when LoginReq forgot the user: OwnAnswer, for every number
\* of clients, users, threads and lost connections.
THEOREM OwnAnswerAlways == Spec => []OwnAnswer
<1>1. AnswerInv => OwnAnswer
    BY DEF AnswerInv, ShownInv, IsShown, OwnAnswer
<1> QED
    BY <1>1, AnswerInvInit, AnswerInvStep, PTL DEF Spec
-----------------------------------------------------------------------------
(* A login that has the MySQL connection for itself. *)

\* Row i of cms_token was made by the request of thread t, in the name of its user.
OwnRow(t, i) ==
    /\ i \in DOMAIN tokens
    /\ tokens[i] = [user |-> User(t), role |-> User(t), try |-> job[t].try]

UserRow(u) == [kind |-> "user", user |-> u]
TokenRow(i) == [kind |-> "token", id |-> i]

\* The rows that answer the select of thread t.
OwnRows(t, rows) ==
    \/ rows = <<>>
    \/ stmt[t] = "user" /\ tries[job[t].try].right /\ rows = <<UserRow(User(t))>>
    \/ stmt[t] = "token" /\ rows = <<TokenRow(work[t].id)>>

\* The answers of the database to the statement of thread t.
OwnReply(t, a) ==
    \/ a.kind = "failed"
    \/ a.kind = "rows" /\ stmt[t] \in {"user", "token"} /\ OwnRows(t, a.rows)
    \/ a.kind = "ok" /\ stmt[t] = "insert" /\ OwnRow(t, a.id)
    \/ a.kind = "ok" /\ stmt[t] \in {"add", "delete"}

\* The name was refused, and the answer is as it was.
Unchecked(t) == pc[t] = "answer" /\ work[t] = Untouched /\ User(t) \in Forbidden

\* What thread t has found out so far is its own.
OwnWork(t) ==
    /\ job[t].try \in 1 .. Len(tries)
    /\ pc[t] = "read" => inFlight = <<inFlight[1]>> /\ OwnReply(t, inFlight[1])
    /\ pc[t] = "store" => status = "result" /\ OwnRows(t, pending)
    /\ pc[t] = "fetch" => OwnRows(t, result)
    /\ pc[t] = "use" => t \in valid /\ OwnRows(t, <<got[t]>>)
    /\ pc[t] \in {"check", "id"} /\ stmt[t] = "insert" => OwnRow(t, insertId)
    /\ stmt[t] \in {"insert", "token", "delete"}
           => tries[job[t].try].right /\ work[t].role = User(t) /\ work[t].named
    /\ stmt[t] = "token" => OwnRow(t, work[t].id)
    /\ stmt[t] = "delete" => OwnRow(t, work[t].token)
    /\ work[t].res = "OK" => stmt[t] = "delete" \/ Unchecked(t)
    /\ pc[t] \in {"store", "fetch", "use"} => stmt[t] \in {"user", "token"}
    /\ pc[t] = "id" => stmt[t] = "insert"

\* A request that is not mixed has all the threads for itself.
Alone(t) == pc[t] # "idle" /\ job[t].try \notin mixed

AloneInv ==
    \A t \in Pool : Alone(t) => OwnWork(t) /\ \A u \in Pool \ {t} : pc[u] = "idle"

\* Until logins mix, only the thread that stores them leaves rows on the connection.
CleanInv == mixed = {} /\ status = "result" => \E t \in Pool : pc[t] = "store"

LEMMA NobodyReads ==
    ASSUME ThreadTypes, \A t \in Pool : pc[t] # "read"
    PROVE  inFlight = <<>>
<1>1. Readers = {}
    BY DEF Readers
<1>2. PICK S : inFlight \in Seq(S)
    BY DEF ThreadTypes
<1>3. Len(inFlight) \in Nat /\ Len(inFlight) <= 0
    BY <1>1, <1>2, FS_EmptySet, LenProperties DEF ThreadTypes
<1> QED
    BY <1>2, <1>3, EmptySeq

\* Rows of cms_token stay.
LEMMA OwnRowKept ==
    ASSUME ThreadTypes, NEW t \in Pool, NEW i, OwnRow(t, i), job'[t] = job[t],
           User(t)' = User(t), UNCHANGED tokens \/ \E r : tokens' = Append(tokens, r)
    PROVE  OwnRow(t, i)'
<1>1. PICK S : tokens \in Seq(S)
    BY DEF ThreadTypes
<1>2. DOMAIN tokens = 1 .. Len(tokens) /\ Len(tokens) \in Nat
    BY <1>1, LenProperties
<1>3. i \in DOMAIN tokens' /\ tokens'[i] = tokens[i]
    <2>1. CASE UNCHANGED tokens
        BY <2>1 DEF OwnRow
    <2>2. ASSUME NEW r, tokens' = Append(tokens, r)
          PROVE  i \in DOMAIN tokens' /\ tokens'[i] = tokens[i]
        <3>1. /\ Append(tokens, r) \in Seq(S \cup {r}) /\ Len(Append(tokens, r)) = Len(tokens) + 1
              /\ \A n \in 1 .. Len(tokens) : Append(tokens, r)[n] = tokens[n]
            BY <1>1, ElementsOf
        <3>2. DOMAIN Append(tokens, r) = 1 .. Len(tokens) + 1
            BY <3>1, LenProperties
        <3>3. i \in 1 .. Len(tokens)
            BY <1>2 DEF OwnRow
        <3>4. i \in DOMAIN Append(tokens, r) /\ Append(tokens, r)[i] = tokens[i]
            BY <1>2, <3>1, <3>2, <3>3
        <3> QED
            BY <2>2, <3>4
    <2> QED
        BY <2>1, <2>2
<1> QED
    BY <1>3 DEF OwnRow

\* The database executes the statement of a thread that is alone, or fails.
LEMMA OwnWorkQuery ==
    ASSUME ThreadTypes, NEW t \in Pool, OwnWork(t), \A u \in Pool \ {t} : pc[u] = "idle",
           Query(t), UNCHANGED <<tries, job>>
    PROVE  OwnWork(t)'
<1>1. /\ pc[t] = "query" /\ UNCHANGED <<stmt, work, got, status, pending, result, valid, insertId>>
    BY DEF Query, Goto, Failed
<1>2. inFlight = <<>>
    BY <1>1, NobodyReads
<1>3. User(t)' = User(t)
    BY DEF User
<1>4. stmt[t] \in {"user", "insert", "token", "delete", "add"}
    BY <1>1 DEF ThreadTypes
<1>5. UNCHANGED tokens \/ \E r : tokens' = Append(tokens, r)
    BY DEF Query, Executed, dbVars
<1>6. \A i : OwnRow(t, i) => OwnRow(t, i)'
    BY <1>3, <1>5, OwnRowKept
<1>7. CASE pc'[t] = "answer"
    BY <1>1, <1>3, <1>6, <1>7 DEF OwnWork, Unchecked
<1>8. ASSUME NEW a, inFlight' = Append(inFlight, a), OwnReply(t, a)', pc'[t] = "read"
      PROVE  OwnWork(t)'
    <2>1. inFlight' = <<a>>
        BY <1>2, <1>8
    <2> QED
        BY <1>1, <1>3, <1>6, <1>8, <2>1 DEF OwnWork, Unchecked
<1>9. ASSUME NEW a, Sends(a), a = Failure, pc' = [pc EXCEPT ![t] = "read"]
      PROVE  OwnWork(t)'
    <2>1. OwnReply(t, a)'
        BY <1>9 DEF OwnReply, Failure
    <2> QED
        BY <1>8, <1>9, <2>1 DEF Sends, ThreadTypes
<1>10. CASE Executed(t) /\ pc' = [pc EXCEPT ![t] = "read"]
    <2>1. pc'[t] = "read"
        BY <1>10 DEF ThreadTypes
    <2>2. CASE stmt[t] = "user"
        <3>1. PICK rows : /\ Sends(Rows(rows))
                          /\ rows = <<>> \/ (tries[job[t].try].right /\ rows = <<UserRow(User(t))>>)
            BY <1>10, <2>2 DEF Executed, UserRow
        <3>2. OwnRows(t, rows)'
            BY <1>1, <1>3, <2>2, <3>1 DEF OwnRows
        <3>3. OwnReply(t, Rows(rows))'
            BY <1>1, <2>2, <3>2 DEF OwnReply, Rows
        <3> QED
            BY <1>8, <2>1, <3>1, <3>3 DEF Sends
    <2>3. CASE stmt[t] = "insert"
        <3>1. PICK r : /\ r = [user |-> User(t), role |-> work[t].role, try |-> job[t].try]
                       /\ tokens' = Append(tokens, r) /\ Sends(Done(TRUE, Len(tokens) + 1))
            BY <1>10, <2>3 DEF Executed
        <3>2. work[t].role = User(t)
            BY <2>3 DEF OwnWork
        <3>3. PICK i : i = Len(tokens) + 1
            OBVIOUS
        <3>4. PICK S : tokens \in Seq(S)
            BY DEF ThreadTypes
        <3>5. /\ Append(tokens, r) \in Seq(S \cup {r}) /\ Len(Append(tokens, r)) = i
              /\ Append(tokens, r)[i] = r
            BY <3>3, <3>4, ElementsOf
        <3>6. Len(tokens) \in Nat /\ DOMAIN Append(tokens, r) = 1 .. i
            BY <3>4, <3>5, LenProperties
        <3>7. i \in DOMAIN tokens'
            BY <3>1, <3>3, <3>6
        <3>8. OwnRow(t, i)'
            BY <1>3, <3>1, <3>2, <3>5, <3>7 DEF OwnRow
        <3>9. OwnReply(t, Done(TRUE, i))'
            BY <1>1, <2>3, <3>8 DEF OwnReply, Done
        <3> QED
            BY <1>8, <2>1, <3>1, <3>3, <3>9 DEF Sends
    <2>4. CASE stmt[t] = "token"
        <3>1. work[t].id \in DOMAIN tokens
            BY <2>4 DEF OwnWork, OwnRow
        <3>2. PICK rows : Sends(Rows(rows)) /\ rows = <<TokenRow(work[t].id)>>
            BY <1>10, <2>4, <3>1 DEF Executed, TokenRows, TokenRow
        <3>3. OwnRows(t, rows)'
            BY <1>1, <2>4, <3>2 DEF OwnRows, TokenRow
        <3>4. OwnReply(t, Rows(rows))'
            BY <1>1, <2>4, <3>3 DEF OwnReply, Rows
        <3> QED
            BY <1>8, <2>1, <3>2, <3>4 DEF Sends
    <2>5. CASE stmt[t] \in {"add", "delete"}
        <3>1. PICK a : Sends(a) /\ a.kind \in {"ok", "failed"}
            BY <1>10, <2>5 DEF Executed, Done, Failure
        <3>2. OwnReply(t, a)'
            BY <1>1, <2>5, <3>1 DEF OwnReply
        <3> QED
            BY <1>8, <2>1, <3>1, <3>2 DEF Sends
    <2> QED
        BY <1>4, <2>2, <2>3, <2>4, <2>5
<1>11. \/ pc'[t] = "answer"
       \/ pc' = [pc EXCEPT ![t] = "read"] /\ (Executed(t) \/ Sends(Failure))
    BY DEF Query, Goto, Failed, ThreadTypes
<1> QED
    BY <1>7, <1>9, <1>10, <1>11

\* A thread that is alone reads the answer of the database.
LEMMA OwnWorkRead ==
    ASSUME ThreadTypes, NEW t \in Pool, OwnWork(t), Read(t), UNCHANGED <<tries, job>>
    PROVE  OwnWork(t)' /\ (status' = "result" => status = "result" \/ pc'[t] = "store")
<1>1. /\ pc[t] = "read" /\ UNCHANGED <<stmt, work, got, tokens, result, valid>>
    BY DEF Read, Goto, Failed, dbVars
<1>2. PICK a : inFlight = <<a>> /\ OwnReply(t, a)
    BY <1>1 DEF OwnWork
<1>3. Head(inFlight) = a /\ inFlight # <<>>
    BY <1>2
<1>4. User(t)' = User(t) /\ \A i : OwnRow(t, i)' = OwnRow(t, i)
    BY <1>1 DEF User, OwnRow
<1>5. CASE pc'[t] = "answer"
    <2>1. OwnWork(t)'
        BY <1>1, <1>4, <1>5 DEF OwnWork, Unchecked
    <2>2. status' = "result" => status = "result" \/ a.kind = "rows"
        BY <1>3 DEF Read
    <2>3. a.kind = "rows" => pc'[t] = "store" \/ UNCHANGED status
        <3>1. a.kind = "rows" => stmt[t] \in {"user", "token"}
            BY <1>2 DEF OwnReply
        <3> QED
            BY <1>3, <3>1 DEF Read, Goto, Failed, ThreadTypes
    <2> QED
        BY <2>1, <2>2, <2>3
<1>6. CASE a.kind = "rows" /\ stmt[t] \in {"user", "token"} /\ OwnRows(t, a.rows)
           /\ status' = "result" /\ pending' = a.rows /\ pc'[t] = "store"
    <2>1. OwnRows(t, pending)'
        BY <1>1, <1>4, <1>6 DEF OwnRows
    <2> QED
        BY <1>1, <1>4, <1>6, <2>1 DEF OwnWork, Unchecked
<1>7. CASE a.kind = "ok" /\ stmt[t] \in {"insert", "add"} /\ pc'[t] = "check"
           /\ insertId' = a.id /\ UNCHANGED <<status, pending>>
    <2>1. stmt[t] = "insert" => OwnRow(t, a.id)
        BY <1>2, <1>7 DEF OwnReply
    <2> QED
        BY <1>1, <1>4, <1>7, <2>1 DEF OwnWork, Unchecked
<1>8. \/ pc'[t] = "answer"
      \/ /\ a.kind = "rows" /\ stmt[t] \in {"user", "token"} /\ OwnRows(t, a.rows)
         /\ status' = "result" /\ pending' = a.rows /\ pc'[t] = "store"
      \/ /\ a.kind = "ok" /\ stmt[t] \in {"insert", "add"} /\ pc'[t] = "check"
         /\ insertId' = a.id /\ UNCHANGED <<status, pending>>
    <2>1. CASE a.kind = "rows"
        <3>1. stmt[t] \in {"user", "token"} /\ OwnRows(t, a.rows)
            BY <1>2, <2>1 DEF OwnReply
        <3> QED
            BY <1>3, <2>1, <3>1 DEF Read, Goto, Failed, ThreadTypes
    <2>2. CASE a.kind = "ok"
        <3>1. stmt[t] \in {"insert", "add", "delete"}
            BY <1>2, <2>2 DEF OwnReply
        <3> QED
            BY <1>3, <2>2, <3>1 DEF Read, Goto, Failed, ThreadTypes
    <2>3. CASE a.kind = "failed"
        BY <1>3, <2>3 DEF Read, Goto, Failed, ThreadTypes
    <2> QED
        BY <1>2, <2>1, <2>2, <2>3 DEF OwnReply
<1> QED
    BY <1>5, <1>6, <1>7, <1>8

\* It takes the rows of its select.
LEMMA OwnWorkRows ==
    ASSUME ThreadTypes, NEW t \in Pool, OwnWork(t), CheckInserted(t) \/ Store(t) \/ Fetch(t),
           UNCHANGED <<tries, job>>
    PROVE  OwnWork(t)'
<1>1. /\ UNCHANGED <<stmt, work, tokens, inFlight>> /\ pc[t] \in {"check", "store", "fetch"}
    BY DEF CheckInserted, Store, Fetch, Goto, Failed, dbVars, mysqlVars
<1>2. User(t)' = User(t) /\ \A i : OwnRow(t, i)' = OwnRow(t, i)
    BY <1>1 DEF User, OwnRow
<1>3. CASE pc'[t] = "answer"
    BY <1>1, <1>2, <1>3 DEF OwnWork, Unchecked
<1>4. CASE pc'[t] = "id"
    <2>1. pc[t] = "check" /\ stmt[t] = "insert" /\ UNCHANGED insertId
        BY <1>4 DEF CheckInserted, Store, Fetch, Goto, Failed, ThreadTypes, mysqlVars
    <2> QED
        BY <1>1, <1>2, <1>4, <2>1 DEF OwnWork, Unchecked
<1>5. CASE pc'[t] = "fetch"
    <2>1. pc[t] = "store" /\ result' = pending
        BY <1>5 DEF CheckInserted, Store, Fetch, Goto, Failed, ThreadTypes, mysqlVars
    <2>2. OwnRows(t, pending) /\ stmt[t] \in {"user", "token"}
        BY <2>1 DEF OwnWork
    <2>3. OwnRows(t, result)'
        BY <1>1, <1>2, <2>1, <2>2 DEF OwnRows
    <2> QED
        BY <1>1, <1>2, <1>5, <2>2, <2>3 DEF OwnWork, Unchecked
<1>6. CASE pc'[t] = "use"
    <2>1. /\ pc[t] = "fetch" /\ result # <<>> /\ got' = [got EXCEPT ![t] = Head(result)]
          /\ valid' = valid \cup {t}
        BY <1>6 DEF CheckInserted, Store, Fetch, Goto, Failed, ThreadTypes, mysqlVars
    <2>2. OwnRows(t, result) /\ stmt[t] \in {"user", "token"}
        BY <2>1 DEF OwnWork
    <2>3. <<got'[t]>> = result
        <3>1. \E r : result = <<r>>
            BY <2>1, <2>2 DEF OwnRows
        <3> QED
            BY <2>1, <3>1 DEF ThreadTypes
    <2>4. OwnRows(t, <<got[t]>>)'
        BY <1>1, <1>2, <2>2, <2>3 DEF OwnRows
    <2> QED
        BY <1>1, <1>2, <1>6, <2>1, <2>2, <2>4 DEF OwnWork, Unchecked
<1> QED
    BY <1>3, <1>4, <1>5, <1>6 DEF CheckInserted, Store, Fetch, Goto, Failed, ThreadTypes

\* It goes on with its row.
LEMMA OwnWorkUse ==
    ASSUME ThreadTypes, NEW t \in Pool, OwnWork(t), UseUser(t) \/ ReadId(t) \/ UseToken(t),
           UNCHANGED <<tries, job>>
    PROVE  OwnWork(t)'
<1>1. /\ UNCHANGED tokens /\ pc'[t] = "query"
      /\ \A s : stmt' = [stmt EXCEPT ![t] = s] => stmt'[t] = s
      /\ IsWork(work[t]) /\ DOMAIN work = Pool
    BY DEF UseUser, ReadId, UseToken, Begin, dbVars, ThreadTypes
<1>2. User(t)' = User(t) /\ \A i : OwnRow(t, i)' = OwnRow(t, i)
    BY <1>1 DEF User, OwnRow
<1>3. CASE UseUser(t)
    <2>1. pc[t] = "use" /\ stmt[t] = "user" /\ stmt'[t] = "insert"
        BY <1>1, <1>3 DEF UseUser, Begin
    <2>2. t \in valid /\ OwnRows(t, <<got[t]>>)
        BY <2>1 DEF OwnWork
    <2>3. tries[job[t].try].right /\ got[t] = UserRow(User(t))
        BY <2>1, <2>2 DEF OwnRows
    <2>4. got[t].kind = "user" /\ got[t].user = User(t)
        BY <2>3 DEF UserRow
    <2>5. PICK r : work' = [work EXCEPT ![t].named = TRUE, ![t].role = r] /\ r = User(t)
        BY <1>3, <2>2, <2>4 DEF UseUser, SureRow, IntactRow
    <2>6. work'[t] = [work[t] EXCEPT !.named = TRUE, !.role = r]
        BY <1>1, <2>5
    <2>7. work'[t].role = User(t) /\ work'[t].res = work[t].res /\ work'[t].named
        <3>1. PICK w, y : w = work[t] /\ y = TRUE
            OBVIOUS
        <3>2. PICK v : v = work'[t]
            OBVIOUS
        <3>3. IsWork(w) /\ IsNamed(v, w, r, y)
            BY <1>1, <2>6, <3>1, <3>2 DEF IsNamed
        <3>4. v.named = y /\ v.role = r /\ v.res = w.res
            BY <3>3, WorkFields
        <3> QED
            BY <2>5, <3>1, <3>2, <3>4
    <2>8. work[t].res # "OK"
        BY <2>1 DEF OwnWork, Unchecked
    <2> QED
        BY <1>1, <1>2, <2>1, <2>3, <2>7, <2>8 DEF OwnWork
<1>4. CASE ReadId(t)
    <2>1. pc[t] = "id" /\ stmt'[t] = "token" /\ work' = [work EXCEPT ![t].id = insertId]
        BY <1>1, <1>4 DEF ReadId, Begin
    <2>2. stmt[t] = "insert" /\ OwnRow(t, insertId)
        BY <2>1 DEF OwnWork
    <2>3. work'[t] = [work[t] EXCEPT !.id = insertId]
        BY <1>1, <2>1
    <2>4. /\ work'[t].role = work[t].role /\ work'[t].res = work[t].res
          /\ work'[t].id = insertId /\ work'[t].named = work[t].named
        BY <1>1, <2>3 DEF IsWork
    <2> QED
        BY <1>1, <1>2, <2>1, <2>2, <2>4 DEF OwnWork, Unchecked
<1>5. CASE UseToken(t)
    <2>1. pc[t] = "use" /\ stmt[t] = "token" /\ stmt'[t] = "delete"
        BY <1>1, <1>5 DEF UseToken, Begin
    <2>2. t \in valid /\ OwnRows(t, <<got[t]>>) /\ OwnRow(t, work[t].id)
        BY <2>1 DEF OwnWork
    <2>3. got[t] = TokenRow(work[t].id)
        BY <2>1, <2>2 DEF OwnRows
    <2>4. got[t].kind = "token" /\ got[t].id = work[t].id
        BY <2>3 DEF TokenRow
    <2>5. PICK i : work' = [work EXCEPT ![t].token = i, ![t].res = "OK"] /\ i = work[t].id
        BY <1>5, <2>2, <2>4 DEF UseToken, SureRow, IntactRow
    <2>6. work'[t] = [work[t] EXCEPT !.token = i, !.res = "OK"]
        BY <1>1, <2>5
    <2>7. /\ work'[t].role = work[t].role /\ work'[t].token = work[t].id
          /\ work'[t].named = work[t].named
        <3>1. PICK w : w = work[t]
            OBVIOUS
        <3>2. PICK v : v = work'[t]
            OBVIOUS
        <3>3. IsWork(w) /\ IsConfirmed(v, w, i)
            BY <1>1, <2>6, <3>1, <3>2 DEF IsConfirmed
        <3>4. v.role = w.role /\ v.token = i /\ v.named = w.named
            BY <3>3, WorkFields
        <3> QED
            BY <2>5, <3>1, <3>2, <3>4
    <2>8. OwnRow(t, work[t].token)' /\ work'[t].role = User(t)' /\ work'[t].named
        <3>1. stmt[t] = "token" /\ work[t].role = User(t) /\ work[t].named
            BY <2>1 DEF OwnWork
        <3>2. PICK k : k = work'[t].token
            OBVIOUS
        <3>3. OwnRow(t, k)'
            BY <1>2, <2>2, <2>7, <3>2
        <3> QED
            BY <1>2, <2>7, <3>1, <3>2, <3>3
    <2>9. tries'[job'[t].try].right /\ job'[t].try \in 1 .. Len(tries')
        BY <2>1 DEF OwnWork
    <2> QED
        BY <1>1, <2>1, <2>8, <2>9 DEF OwnWork
<1> QED
    BY <1>3, <1>4, <1>5

\* Nothing is known of a thread that has just begun.
LEMMA OwnWorkBegun ==
    ASSUME NEW t \in Pool, job'[t].try \in 1 .. Len(tries'), stmt'[t] \in {"user", "add"},
           \/ pc'[t] = "query" /\ work'[t] = NoWork
           \/ Unchecked(t)'
    PROVE  OwnWork(t)'
<1>1. NoWork.res # "OK"
    BY DEF NoWork
<1>2. pc'[t] \in {"query", "answer"}
    BY DEF Unchecked
<1> QED
    BY <1>1, <1>2 DEF OwnWork

\* Requests of clients change nothing for the threads.
LEMMA OwnWorkStays ==
    ASSUME NEW t \in Pool, OwnWork(t), UNCHANGED <<threadVars, mysqlVars, dbVars>>,
           \A k \in 1 .. Len(tries) : k \in 1 .. Len(tries') /\ tries'[k] = tries[k]
    PROVE  OwnWork(t)'
<1>1. /\ UNCHANGED <<pc, stmt, job, got, work, status, inFlight, pending, result, valid, insertId,
                     tokens>>
      /\ job[t].try \in 1 .. Len(tries)
    BY DEF threadVars, mysqlVars, dbVars, OwnWork
<1>2. job'[t].try \in 1 .. Len(tries') /\ tries'[job'[t].try] = tries[job[t].try]
    BY <1>1
<1>3. User(t)' = User(t)
    BY <1>2 DEF User
<1>4. \A i : OwnRow(t, i)' = OwnRow(t, i)
    BY <1>1, <1>3 DEF OwnRow
<1>5. \A rows : OwnRows(t, rows)' = OwnRows(t, rows)
    BY <1>1, <1>2, <1>3 DEF OwnRows
<1>6. \A a : OwnReply(t, a)' = OwnReply(t, a)
    BY <1>1, <1>4, <1>5 DEF OwnReply
<1>7. Unchecked(t)' = Unchecked(t)
    BY <1>1, <1>3 DEF Unchecked
<1> QED
    BY <1>1, <1>2, <1>3, <1>4, <1>5, <1>6, <1>7 DEF OwnWork

LEMMA AloneStep ==
    ASSUME NetInv, NetInv', AloneInv, [Next]_vars
    PROVE  AloneInv'
<1>1. ASSUME UNCHANGED <<mixed, threadVars, mysqlVars, dbVars>>,
             \A k \in 1 .. Len(tries) : k \in 1 .. Len(tries') /\ tries'[k] = tries[k]
      PROVE  AloneInv'
    <2>1. UNCHANGED <<pc, job>>
        BY <1>1 DEF threadVars
    <2>2. \A t \in Pool : Alone(t)' = Alone(t)
        BY <1>1, <2>1 DEF Alone
    <2> QED
        BY <1>1, <2>1, <2>2, OwnWorkStays DEF AloneInv
<1>2. ASSUME NEW c \in Clients, ClientStep(c)
      PROVE  AloneInv'
    <2>1. UNCHANGED <<mixed, threadVars, mysqlVars, dbVars>>
        BY <1>2 DEF ClientStep, Connect, ConnectionLost, AddUserReq, LoginReq, SendLogin, LoginRes,
            LoginFound, LoginGivenUp, histVars
    <2>2. UNCHANGED tries \/ \E r \in Requests : tries' = Append(tries, r)
        BY <1>2 DEF ClientStep, Connect, ConnectionLost, AddUserReq, LoginReq, SendLogin, LoginRes,
            LoginFound, LoginGivenUp, histVars, Requests
    <2> QED
        BY <1>1, <2>1, <2>2, RequestsKept DEF NetInv, NetTypes
<1>3. CASE UNCHANGED vars
    BY <1>1, <1>3 DEF vars, histVars
<1>4. ASSUME NEW n \in Conns, Receive(n)
      PROVE  AloneInv'
    <2>1. PICK t \in Pool : t = ThreadOf(n)
        BY <1>4, TypesReceive DEF NetInv
    <2>2. PICK k : k = Head(toServer[n])
        OBVIOUS
    <2>3. /\ pc[t] = "idle"
          /\ job' = [job EXCEPT ![t] = [conn |-> n, try |-> k]]
          /\ pc' = [pc EXCEPT ![t] = IF Refused(k) THEN "answer" ELSE "query"]
          /\ work' = [work EXCEPT ![t] = IF Refused(k) THEN Untouched ELSE NoWork]
          /\ stmt' = [stmt EXCEPT ![t] = IF tries[k].type = "login" THEN "user" ELSE "add"]
        BY <1>4, <2>1, <2>2 DEF Receive
    <2>4. \A u \in Pool : /\ pc'[u] = IF u = t THEN IF Refused(k) THEN "answer" ELSE "query"
                                    ELSE pc[u]
                          /\ job'[u] = IF u = t THEN [conn |-> n, try |-> k] ELSE job[u]
        BY <2>3 DEF NetInv, ThreadTypes
    <2>5. CASE \A u \in Pool : pc[u] = "idle"
        <3>1. /\ work'[t] = IF Refused(k) THEN Untouched ELSE NoWork
              /\ stmt'[t] \in {"user", "add"} /\ job'[t].try \in 1 .. Len(tries')
            BY <2>3, <2>4 DEF NetInv, ThreadTypes, JobInv
        <3>2. Refused(k) => Unchecked(t)'
            <4>1. UNCHANGED tries /\ job'[t].try = k
                BY <1>4, <2>4 DEF Receive
            <4> QED
                BY <2>4, <3>1, <4>1 DEF Unchecked, User, Refused
        <3>3. OwnWork(t)'
            BY <2>4, <3>1, <3>2, OwnWorkBegun
        <3> QED
            BY <2>4, <2>5, <3>3 DEF AloneInv, Alone
    <2>6. CASE \E u \in Pool : pc[u] # "idle"
        <3>1. mixed' = mixed \cup {k} \cup {job[u].try : u \in {v \in Pool : pc[v] # "idle"}}
            BY <1>4, <2>2, <2>6 DEF Receive
        <3>2. \A u \in Pool : pc'[u] # "idle" => job'[u].try \in mixed'
            BY <2>4, <3>1
        <3> QED
            BY <3>2 DEF AloneInv, Alone
    <2> QED
        BY <2>5, <2>6
<1>5. ASSUME NEW t \in Pool, ThreadStep(t)
      PROVE  AloneInv'
    <2>1. /\ pc[t] # "idle" /\ UNCHANGED <<tries, mixed>>
          /\ \A u \in Pool : u # t => pc'[u] = pc[u] /\ job'[u] = job[u]
        <3>1. pc[t] # "idle" /\ UNCHANGED <<tries, mixed>>
            BY <1>5 DEF ThreadStep, Query, Read, CheckInserted, Store, Fetch, UseUser, ReadId,
                UseToken, Answer, histVars
        <3>2. \E p : pc' = [pc EXCEPT ![t] = p]
            <4>1. CASE Query(t) \/ Read(t) \/ CheckInserted(t)
                BY <4>1 DEF Query, Read, CheckInserted, Goto, Failed
            <4>2. CASE Store(t) \/ Fetch(t)
                BY <4>2 DEF Store, Fetch, Goto, Failed
            <4>3. CASE UseUser(t) \/ ReadId(t) \/ UseToken(t) \/ Answer(t)
                BY <4>3 DEF UseUser, ReadId, UseToken, Answer, Begin
            <4> QED BY <1>5, <4>1, <4>2, <4>3 DEF ThreadStep
        <3>3. job' = job \/ job' = [job EXCEPT ![t] = NoJob]
            <4>1. CASE Query(t) \/ Read(t) \/ CheckInserted(t)
                BY <4>1 DEF Query, Read, CheckInserted, Goto, Failed
            <4>2. CASE Store(t) \/ Fetch(t)
                BY <4>2 DEF Store, Fetch, Goto, Failed
            <4>3. CASE UseUser(t) \/ ReadId(t) \/ UseToken(t) \/ Answer(t)
                BY <4>3 DEF UseUser, ReadId, UseToken, Answer, Begin
            <4> QED BY <1>5, <4>1, <4>2, <4>3 DEF ThreadStep
        <3>4. DOMAIN pc = Pool /\ DOMAIN job = Pool
            BY DEF NetInv, ThreadTypes
        <3> QED BY <3>1, <3>2, <3>3, <3>4
    <2>2. CASE Answer(t)
        <3>1. pc'[t] = "idle"
            BY <2>2 DEF Answer, NetInv, ThreadTypes
        <3> QED
            BY <2>1, <3>1 DEF AloneInv, Alone
    <2>3. CASE ~Answer(t)
        <3>1. UNCHANGED job
            BY <1>5, <2>3 DEF ThreadStep, Query, Read, CheckInserted, Store, Fetch, UseUser, ReadId,
                UseToken, Goto, Failed, Begin
        <3>2. ASSUME NEW u \in Pool, Alone(u)'
              PROVE  u = t /\ Alone(t) /\ OwnWork(t)
            BY <2>1, <3>1, <3>2 DEF AloneInv, Alone
        <3>3. ASSUME Alone(t), OwnWork(t)
              PROVE  OwnWork(t)' /\ \A u \in Pool \ {t} : pc'[u] = "idle"
            <4>1. \A u \in Pool \ {t} : pc[u] = "idle"
                BY <3>3 DEF AloneInv
            <4>2. OwnWork(t)'
                BY <1>5, <2>1, <2>3, <3>1, <3>3, <4>1, OwnWorkQuery, OwnWorkRead, OwnWorkRows, OwnWorkUse
                    DEF ThreadStep, NetInv
            <4> QED
                BY <2>1, <4>1, <4>2
        <3> QED
            BY <3>2, <3>3 DEF AloneInv
    <2> QED
        BY <2>2, <2>3
<1> QED
    BY <1>2, <1>3, <1>4, <1>5 DEF Next

LEMMA CleanStep ==
    ASSUME NetInv, AloneInv, CleanInv, [Next]_vars
    PROVE  CleanInv'
<1>1. ASSUME NEW c \in Clients, ClientStep(c)
      PROVE  CleanInv'
    <2>1. UNCHANGED <<mixed, status, pc>>
        BY <1>1 DEF ClientStep, Connect, ConnectionLost, AddUserReq, LoginReq, SendLogin, LoginRes,
            LoginFound, LoginGivenUp, histVars, mysqlVars, threadVars
    <2> QED
        BY <2>1 DEF CleanInv
<1>2. ASSUME NEW n \in Conns, Receive(n), mixed' = {}, status' = "result"
      PROVE  \E t \in Pool : pc'[t] = "store"
    <2>1. PICK t \in Pool : t = ThreadOf(n)
        BY <1>2, TypesReceive DEF NetInv
    <2>2. /\ pc[t] = "idle" /\ UNCHANGED status
          /\ \E p \in {"query", "answer"} : pc' = [pc EXCEPT ![t] = p]
        BY <1>2, <2>1, ReceiveBegins DEF Receive
    <2>3. mixed = {}
        BY <1>2 DEF Receive
    <2>4. PICK u \in Pool : pc[u] = "store"
        BY <1>2, <2>2, <2>3 DEF CleanInv
    <2> QED
        BY <2>2, <2>4 DEF NetInv, ThreadTypes
<1>3. ASSUME NEW t \in Pool, ThreadStep(t), mixed' = {}, status' = "result"
      PROVE  \E u \in Pool : pc'[u] = "store"
    <2>1. mixed = {} /\ pc[t] # "idle"
        BY <1>3 DEF ThreadStep, Query, Read, CheckInserted, Store, Fetch, UseUser, ReadId, UseToken,
            Answer, histVars
    <2>2. OwnWork(t) /\ \A u \in Pool \ {t} : pc[u] = "idle"
        BY <2>1 DEF AloneInv, Alone
    <2>3. CASE Read(t)
        <3>1. UNCHANGED <<tries, job>>
            BY <2>3 DEF Read, Goto, Failed, histVars
        <3>2. status = "result" \/ pc'[t] = "store"
            BY <1>3, <2>2, <2>3, <3>1, OwnWorkRead DEF NetInv
        <3>3. status # "result"
            BY <2>1, <2>2, <2>3 DEF Read, CleanInv
        <3> QED
            BY <3>2, <3>3
    <2>4. CASE Store(t)
        <3>1. FALSE
            BY <1>3, <2>4 DEF Store, StatusAfterStore
        <3> QED
            BY <3>1
    <2>5. CASE ~Read(t) /\ ~Store(t)
        <3>1. UNCHANGED status /\ pc[t] # "store"
            BY <1>3, <2>5 DEF ThreadStep, Query, CheckInserted, Fetch, UseUser, ReadId, UseToken,
                Answer, mysqlVars
        <3> QED
            BY <1>3, <2>1, <2>2, <3>1 DEF CleanInv
    <2> QED
        BY <2>3, <2>4, <2>5
<1>4. CASE UNCHANGED vars
    BY <1>4 DEF CleanInv, vars, histVars, mysqlVars, threadVars
<1> QED
    BY <1>1, <1>2, <1>3, <1>4 DEF Next, CleanInv

\* Row of cms_token and answer of a login.
OwnToken(k) ==
    /\ answered[k].named /\ tries[k].right
    /\ answered[k].role = tries[k].user /\ answered[k].token \in DOMAIN tokens
    /\ tokens[answered[k].token] = [user |-> tries[k].user, role |-> tries[k].user, try |-> k]

\* Answer of a login that was refused for its name.
NoToken(k) ==
    tries[k].user \in Forbidden /\ answered[k].token = 0 /\ ~answered[k].named

TokenStays ==
    \A k \in Tries :
        answered[k] # NoEntry /\ answered[k].res = "OK" /\ k \notin mixed
            => k \in 1 .. Len(tries) /\ (OwnToken(k) \/ NoToken(k))

LEMMA TokenStep ==
    ASSUME NetInv, AloneInv, TokenStays, [Next]_vars
    PROVE  TokenStays'
<1>1. /\ UNCHANGED tokens \/ \E r : tokens' = Append(tokens, r)
      /\ UNCHANGED tries \/ \E r \in Requests : tries' = Append(tries, r)
      /\ mixed \subseteq mixed'
    <2>1. ASSUME NEW c \in Clients, ClientStep(c)
          PROVE  /\ UNCHANGED <<tokens, mixed>>
                 /\ UNCHANGED tries \/ \E r \in Requests : tries' = Append(tries, r)
        BY <2>1 DEF ClientStep, Connect, ConnectionLost, AddUserReq, LoginReq, SendLogin, LoginRes,
            LoginFound, LoginGivenUp, histVars, dbVars, Requests
    <2>2. ASSUME NEW n \in Conns, Receive(n)
          PROVE  UNCHANGED <<tokens, tries>> /\ mixed \subseteq mixed'
        BY <2>2 DEF Receive, dbVars
    <2>3. ASSUME NEW t \in Pool, ThreadStep(t)
          PROVE  /\ UNCHANGED tokens \/ \E r : tokens' = Append(tokens, r)
                 /\ UNCHANGED <<tries, mixed>>
        BY <2>3 DEF ThreadStep, Query, Executed, Read, CheckInserted, Store, Fetch, UseUser, ReadId,
            UseToken, Answer, dbVars, histVars
    <2> QED
        BY <2>1, <2>2, <2>3 DEF Next, vars, histVars, dbVars
<1>2. \A k \in 1 .. Len(tries) : k \in 1 .. Len(tries') /\ tries'[k] = tries[k]
    BY <1>1, RequestsKept DEF NetInv, NetTypes
<1>3. \A i \in DOMAIN tokens : i \in DOMAIN tokens' /\ tokens'[i] = tokens[i]
    <2>1. PICK S : tokens \in Seq(S)
        BY DEF NetInv, ThreadTypes
    <2>2. DOMAIN tokens = 1 .. Len(tokens) /\ Len(tokens) \in Nat
        BY <2>1, LenProperties
    <2>3. ASSUME NEW r, tokens' = Append(tokens, r), NEW i \in DOMAIN tokens
          PROVE  i \in DOMAIN tokens' /\ tokens'[i] = tokens[i]
        <3>1. /\ Append(tokens, r) \in Seq(S \cup {r}) /\ Len(Append(tokens, r)) = Len(tokens) + 1
              /\ \A n \in 1 .. Len(tokens) : Append(tokens, r)[n] = tokens[n]
            BY <2>1, ElementsOf
        <3>2. DOMAIN Append(tokens, r) = 1 .. Len(tokens) + 1
            BY <3>1, LenProperties
        <3>3. i \in DOMAIN Append(tokens, r) /\ Append(tokens, r)[i] = tokens[i]
            BY <2>2, <2>3, <3>1, <3>2
        <3> QED
            BY <2>3, <3>3
    <2> QED
        BY <1>1, <2>3
<1>4. ASSUME NEW k \in Tries, answered'[k] = answered[k], answered'[k] # NoEntry,
             answered'[k].res = "OK", k \notin mixed'
      PROVE  k \in 1 .. Len(tries') /\ (OwnToken(k)' \/ NoToken(k)')
    <2>1. k \in 1 .. Len(tries) /\ (OwnToken(k) \/ NoToken(k))
        BY <1>1, <1>4 DEF TokenStays
    <2> QED
        BY <1>2, <1>3, <1>4, <2>1 DEF OwnToken, NoToken
<1>5. ASSUME NEW t \in Pool, Answer(t), NEW k \in Tries, answered'[k] # answered[k],
             answered'[k].res = "OK", k \notin mixed'
      PROVE  k \in 1 .. Len(tries') /\ (OwnToken(k)' \/ NoToken(k)')
    <2>1. PICK a : a = AnswerOf(t)
        OBVIOUS
    <2>2. /\ pc[t] # "idle" /\ answered' = [answered EXCEPT ![job[t].try] = a]
          /\ UNCHANGED <<tries, tokens, mixed>>
        BY <1>5, <2>1 DEF Answer, dbVars
    <2>3. k = job[t].try /\ answered'[k] = a
        BY <1>5, <2>2 DEF NetInv, NetTypes
    <2>4. OwnWork(t)
        BY <1>5, <2>2, <2>3 DEF AloneInv, Alone
    <2>5. /\ work[t].res = "OK" /\ a.named = work[t].named
          /\ a.token = work[t].token /\ a.role = work[t].role
        BY <1>5, <2>1, <2>3 DEF AnswerOf
    <2>6. k \in 1 .. Len(tries) /\ (stmt[t] = "delete" \/ Unchecked(t))
        BY <2>3, <2>4, <2>5 DEF OwnWork
    <2>7. CASE stmt[t] = "delete"
        <3>1. /\ work[t].named /\ tries[k].right /\ work[t].role = tries[k].user
              /\ work[t].token \in DOMAIN tokens
              /\ tokens[work[t].token] = [user |-> tries[k].user, role |-> tries[k].user, try |-> k]
            BY <2>3, <2>4, <2>7 DEF OwnWork, OwnRow, User
        <3> QED
            BY <2>2, <2>3, <2>5, <2>6, <3>1 DEF OwnToken
    <2>8. CASE Unchecked(t)
        <3>1. tries[k].user \in Forbidden /\ work[t].token = 0 /\ ~work[t].named
            BY <2>3, <2>8 DEF Unchecked, Untouched, User
        <3> QED
            BY <2>2, <2>3, <2>5, <2>6, <3>1 DEF NoToken
    <2> QED
        BY <2>6, <2>7, <2>8
<1>6. UNCHANGED answered \/ \E t \in Pool : Answer(t)
    <2>1. ASSUME NEW c \in Clients, ClientStep(c)
          PROVE  UNCHANGED answered
        BY <2>1 DEF ClientStep, Connect, ConnectionLost, AddUserReq, LoginReq, SendLogin, LoginRes,
            LoginFound, LoginGivenUp, histVars
    <2>2. ASSUME NEW n \in Conns, Receive(n)
          PROVE  UNCHANGED answered
        BY <2>2 DEF Receive
    <2>3. ASSUME NEW t \in Pool, ThreadStep(t), ~Answer(t)
          PROVE  UNCHANGED answered
        BY <2>3 DEF ThreadStep, Query, Read, CheckInserted, Store, Fetch, UseUser, ReadId, UseToken,
            histVars
    <2> QED
        BY <2>1, <2>2, <2>3 DEF Next, vars, histVars
<1> QED
    BY <1>4, <1>5, <1>6 DEF TokenStays

LoginInv == AnswerInv /\ AloneInv /\ CleanInv /\ TokenStays

LEMMA LoginInvInit == Init => LoginInv
<1> SUFFICES ASSUME Init PROVE LoginInv
    OBVIOUS
<1>1. AloneInv /\ CleanInv
    BY DEF Init, AloneInv, Alone, CleanInv
<1>2. TokenStays
    BY DEF Init, TokenStays, NoEntry
<1> QED
    BY <1>1, <1>2, AnswerInvInit DEF LoginInv

LEMMA LoginInvStep == LoginInv /\ [Next]_vars => LoginInv'
<1> SUFFICES ASSUME LoginInv, [Next]_vars PROVE LoginInv'
    OBVIOUS
<1>1. NetInv /\ AnswerInv'
    BY AnswerInvStep DEF LoginInv, AnswerInv
<1>2. NetInv'
    BY <1>1 DEF AnswerInv
<1> QED
    BY <1>1, <1>2, AloneStep, CleanStep, TokenStep DEF LoginInv

\* A login whose statements no other request got between is answered with OK only
\* with the right password, and with the token of a row inserted for it, or for a
\* forbidden name, without a token: TokenIsOwn, though login() takes no mutex and
\* the connections of other clients come and go.
THEOREM TokenIsOwnAlways == Spec => []TokenIsOwn
<1>1. LoginInv => TokenIsOwn
    BY DEF LoginInv, TokenStays, OwnToken, NoToken, TokenIsOwn
<1> QED
    BY <1>1, LoginInvInit, LoginInvStep, PTL DEF Spec

\* As long as no two requests met, the MySQL connection is left without rows to
\* store and answers to read: CleanBetweenLogins, whatever statements failed.
THEOREM CleanBetweenLoginsAlways == Spec => []CleanBetweenLogins
<1>1. LoginInv => CleanBetweenLogins
    <2> SUFFICES ASSUME LoginInv, mixed = {}, \A t \in Pool : pc[t] = "idle"
                 PROVE  status = "ready" /\ inFlight = <<>>
        BY DEF CleanBetweenLogins
    <2>1. ThreadTypes
        BY DEF LoginInv, AnswerInv, NetInv
    <2>2. status # "result" /\ status \in {"ready", "result"}
        BY <2>1 DEF LoginInv, CleanInv, ThreadTypes
    <2>3. inFlight = <<>>
        BY <2>1, NobodyReads
    <2> QED
        BY <2>2, <2>3
<1> QED
    BY <1>1, LoginInvInit, LoginInvStep, PTL DEF Spec

-----------------------------------------------------------------------------
(* All the types.  The bounds of the database rest on each login making at    *)
(* most one token: a request is on its way once, then has one thread, and     *)
(* that thread inserts once.                                                   *)

\* The threads whose login has not inserted its token yet.
Making ==
    {t \in Pool : /\ pc[t] # "idle"
                  /\ stmt[t] = "user" \/ (stmt[t] = "insert" /\ pc[t] = "query")}


\* What has been sent, and what may still be.
SentInv ==
    /\ sent \subseteq 1 .. Len(tries)
    /\ \A c \in Clients : callPc[c] = "send" => Current(c) \notin sent
    /\ \A n \in Conns : ToSet(toServer[n]) \subseteq sent
    /\ \A t \in Pool : pc[t] # "idle" => job[t].try \in sent
    /\ \A i \in DOMAIN tokens : tokens[i].try \in sent

\* A request waits once, or one thread has it; a login inserts one token.
OnceInv ==
    /\ \A n \in Conns : IsInjective(toServer[n])
    /\ \A m, n \in Conns : m # n => ToSet(toServer[m]) \cap ToSet(toServer[n]) = {}
    /\ \A t \in Pool, n \in Conns : pc[t] # "idle" => job[t].try \notin ToSet(toServer[n])
    /\ \A t, u \in Pool : t # u /\ pc[t] # "idle" /\ pc[u] # "idle" => job[t].try # job[u].try
    /\ \A i, j \in DOMAIN tokens : tokens[i].try = tokens[j].try => i = j
    /\ \A i \in DOMAIN tokens, n \in Conns : tokens[i].try \notin ToSet(toServer[n])
    /\ \A t \in Making, i \in DOMAIN tokens : tokens[i].try # job[t].try

\* A queue without repetition, one more or one less in it.
LEMMA QueueFacts ==
    ASSUME NEW S, NEW s \in Seq(S), IsInjective(s)
    PROVE  /\ s # <<>> => /\ IsInjective(Tail(s)) /\ Head(s) \notin ToSet(Tail(s))
           /\ \A e : e \notin ToSet(s) => IsInjective(Append(s, e))
<1>1. Len(s) \in Nat /\ DOMAIN s = 1 .. Len(s) /\ \A n \in 1 .. Len(s) : s[n] \in S
    BY LenProperties, ElementOfSeq
<1>2. ASSUME s # <<>>
      PROVE  IsInjective(Tail(s)) /\ Head(s) \notin ToSet(Tail(s))
    <2>1. /\ Tail(s) \in Seq(S) /\ Len(Tail(s)) = Len(s) - 1 /\ Len(s) # 0
          /\ \A n \in 1 .. Len(Tail(s)) : Tail(s)[n] = s[n + 1]
        BY <1>2, HeadTailProperties, EmptySeq
    <2>2. DOMAIN Tail(s) = 1 .. Len(Tail(s))
        BY <2>1, LenProperties
    <2>3. Head(s) = s[1]
        BY <1>2
    <2>4. \A n \in 1 .. Len(Tail(s)) : n + 1 \in 1 .. Len(s) /\ n + 1 # 1 /\ 1 \in 1 .. Len(s)
        BY <1>1, <2>1
    <2>5. \A m, n \in 1 .. Len(Tail(s)) : m + 1 = n + 1 => m = n
        BY <1>1, <2>1
    <2>6. IsInjective(Tail(s))
        BY <2>1, <2>2, <2>4, <2>5, <1>1 DEF IsInjective
    <2>7. Head(s) \notin ToSet(Tail(s))
        BY <2>1, <2>2, <2>3, <2>4, <1>1 DEF IsInjective, ToSet
    <2> QED BY <2>6, <2>7
<1>3. ASSUME NEW e, e \notin ToSet(s)
      PROVE  IsInjective(Append(s, e))
    <2>1. /\ Append(s, e) \in Seq(S \cup {e}) /\ Len(Append(s, e)) = Len(s) + 1
          /\ \A n \in 1 .. Len(s) : Append(s, e)[n] = s[n]
          /\ Append(s, e)[Len(s) + 1] = e
        BY ElementsOf
    <2>2. DOMAIN Append(s, e) = 1 .. Len(s) + 1
        BY <2>1, LenProperties
    <2>3. \A n \in 1 .. Len(s) + 1 : n \in 1 .. Len(s) \/ n = Len(s) + 1
        BY <1>1
    <2>4. \A n \in 1 .. Len(s) : s[n] # e
        BY <1>1, <1>3 DEF ToSet
    <2> QED BY <1>1, <2>1, <2>2, <2>3, <2>4 DEF IsInjective
<1> QED BY <1>2, <1>3

\* No more tokens than requests.
LEMMA TokensFit ==
    ASSUME NEW S, NEW s \in Seq(S), \A i \in DOMAIN s : s[i].try \in Tries,
           \A i, j \in DOMAIN s : s[i].try = s[j].try => i = j
    PROVE  Len(s) \in 0 .. MaxTries
<1>1. Len(s) \in Nat /\ DOMAIN s = 1 .. Len(s) /\ MaxTries \in Nat
    BY LenProperties, BoundsAssumption
<1>2. PICK f : f = [i \in 1 .. Len(s) |-> s[i].try]
    OBVIOUS
<1>3. f \in Injection(1 .. Len(s), 1 .. MaxTries)
    BY <1>1, <1>2 DEF Injection, IsInjective, Tries
<1>4. ASSUME NEW n \in Nat
      PROVE  IsFiniteSet(1 .. n) /\ Cardinality(1 .. n) = n
    <2>1. 1 \in Int /\ n \in Int
        OBVIOUS
    <2>2. IsFiniteSet(1 .. n) /\ Cardinality(1 .. n) = IF 1 > n THEN 0 ELSE n - 1 + 1
        BY <2>1, FS_Interval
    <2> QED BY <2>2
<1>5. Cardinality(1 .. Len(s)) <= Cardinality(1 .. MaxTries)
    BY <1>1, <1>3, <1>4, FS_Injection
<1> QED BY <1>1, <1>4, <1>5

\* Steps that add nothing to a queue, give no request to a thread and no token to
\* a login.
LEMMA OnceFrame ==
    ASSUME OnceInv, UNCHANGED tokens,
           \A n \in Conns : ToSet(toServer'[n]) \subseteq ToSet(toServer[n])
                            /\ IsInjective(toServer'[n]),
           \A t \in Pool : pc'[t] # "idle" => pc[t] # "idle" /\ job'[t] = job[t],
           \A t \in Making' : t \in Making
    PROVE  OnceInv'
<1>2. \A t \in Making' : t \in Pool /\ pc'[t] # "idle"
    BY DEF Making
<1>3. \A m, n \in Conns : m # n => ToSet(toServer'[m]) \cap ToSet(toServer'[n]) = {}
    BY DEF OnceInv
<1>4. /\ \A t \in Pool, n \in Conns : pc'[t] # "idle" => job'[t].try \notin ToSet(toServer'[n])
      /\ \A i \in DOMAIN tokens, n \in Conns : tokens[i].try \notin ToSet(toServer'[n])
    BY DEF OnceInv
<1>5. \A t, u \in Pool : t # u /\ pc'[t] # "idle" /\ pc'[u] # "idle" => job'[t].try # job'[u].try
    BY DEF OnceInv
<1>6. \A t \in Making', i \in DOMAIN tokens : tokens[i].try # job'[t].try
    BY <1>2 DEF OnceInv
<1> QED
    BY <1>3, <1>4, <1>5, <1>6 DEF OnceInv

\* A request that was never sent joins the queue of a connection.
LEMMA OnceSent ==
    ASSUME NetTypes, SentInv, OnceInv, NEW n \in Conns, NEW k, k \notin sent,
           toServer' = [toServer EXCEPT ![n] = Append(@, k)],
           UNCHANGED <<tokens, pc, stmt, job>>
    PROVE  OnceInv'
<1>1. /\ toServer'[n] = Append(toServer[n], k)
      /\ \A m \in Conns \ {n} : toServer'[m] = toServer[m]
      /\ toServer[n] \in Seq(Nat)
    BY DEF NetTypes
<1>2. ToSet(toServer'[n]) = ToSet(toServer[n]) \cup {k}
    BY <1>1, ElementsAppended
<1>3. \A m \in Conns : k \notin ToSet(toServer[m])
    BY DEF SentInv
<1>4. IsInjective(toServer'[n])
    BY <1>1, <1>3, QueueFacts DEF OnceInv
<1>5. \A m \in Conns : \A j : j \in ToSet(toServer'[m]) => j \in ToSet(toServer[m]) \/ j = k
    BY <1>1, <1>2
<1>6. Making' = Making
    BY DEF Making
<1>7. /\ \A m \in Conns : IsInjective(toServer'[m])
      /\ \A m, o \in Conns : m # o => ToSet(toServer'[m]) \cap ToSet(toServer'[o]) = {}
    <2>1. \A m \in Conns : IsInjective(toServer'[m])
        BY <1>1, <1>4 DEF OnceInv
    <2>2. \A m, o \in Conns : m # o => ToSet(toServer[m]) \cap ToSet(toServer[o]) = {}
        BY DEF OnceInv
    <2>3. ASSUME NEW m \in Conns, NEW o \in Conns, m # o
          PROVE  ToSet(toServer'[m]) \cap ToSet(toServer'[o]) = {}
        <3>1. CASE m = n
            BY <1>1, <1>2, <1>3, <2>2, <2>3, <3>1
        <3>2. CASE m # n
            BY <1>1, <1>2, <1>3, <2>2, <2>3, <3>2
        <3> QED BY <3>1, <3>2
    <2> QED BY <2>1, <2>3
<1>8. \A t \in Pool : pc[t] # "idle" => job[t].try # k
    BY DEF SentInv
<1>9. \A i \in DOMAIN tokens : tokens[i].try # k
    BY DEF SentInv
<1>10. /\ \A t \in Pool, m \in Conns : pc[t] # "idle" => job[t].try \notin ToSet(toServer'[m])
       /\ \A i \in DOMAIN tokens, m \in Conns : tokens[i].try \notin ToSet(toServer'[m])
    BY <1>5, <1>8, <1>9 DEF OnceInv
<1> QED BY <1>6, <1>7, <1>10 DEF OnceInv

\* A handle takes the next request of its connection.
LEMMA OnceReceive ==
    ASSUME NetTypes, ThreadTypes, SentInv, OnceInv, NEW n \in Conns, Receive(n), ThreadOf(n) \in Pool
    PROVE  OnceInv'
<1>1. PICK t \in Pool, k \in {Head(toServer[n])} : t = ThreadOf(n) /\ k = Head(toServer[n])
    OBVIOUS
<1>2. /\ toServer[n] # <<>> /\ toServer' = [toServer EXCEPT ![n] = Tail(@)]
      /\ pc[t] = "idle" /\ \E p \in {"query", "answer"} : pc' = [pc EXCEPT ![t] = p]
      /\ job' = [job EXCEPT ![t] = [conn |-> n, try |-> k]]
      /\ stmt' = [stmt EXCEPT ![t] = "user"] \/ stmt' = [stmt EXCEPT ![t] = "add"]
      /\ UNCHANGED tokens
    BY <1>1, ReceiveBegins DEF Receive, dbVars
<1>3. /\ toServer'[n] = Tail(toServer[n]) /\ toServer[n] \in Seq(Nat)
      /\ \A m \in Conns \ {n} : toServer'[m] = toServer[m]
    BY <1>2 DEF NetTypes
<1>4. /\ k \in ToSet(toServer[n]) /\ ToSet(toServer'[n]) \subseteq ToSet(toServer[n])
      /\ IsInjective(toServer'[n]) /\ k \notin ToSet(toServer'[n])
    BY <1>1, <1>2, <1>3, ElementsOf, QueueFacts DEF OnceInv
<1>5. /\ job'[t].try = k /\ pc'[t] # "idle"
      /\ \A u \in Pool \ {t} : job'[u] = job[u] /\ pc'[u] = pc[u] /\ stmt'[u] = stmt[u]
    BY <1>2 DEF ThreadTypes
<1>6. \A m \in Conns : \A j : j \in ToSet(toServer'[m]) => j \in ToSet(toServer[m]) /\ j # k
    BY <1>3, <1>4 DEF OnceInv
<1>8. \A u \in Making' : u \in Pool /\ (u = t \/ u \in Making)
    BY <1>5 DEF Making
<1>9. \A u \in Pool \ {t} : pc[u] # "idle" => job[u].try # k
    BY <1>4 DEF OnceInv
<1>10. \A i \in DOMAIN tokens : tokens[i].try # k
    BY <1>4 DEF OnceInv
<1>11. /\ \A m \in Conns : IsInjective(toServer'[m])
       /\ \A m, o \in Conns : m # o => ToSet(toServer'[m]) \cap ToSet(toServer'[o]) = {}
    <2>1. \A m \in Conns : IsInjective(toServer'[m])
        BY <1>3, <1>4 DEF OnceInv
    <2>2. \A m, o \in Conns : m # o => ToSet(toServer[m]) \cap ToSet(toServer[o]) = {}
        BY DEF OnceInv
    <2> QED BY <1>6, <2>1, <2>2
<1>12. \A u \in Pool, m \in Conns : pc'[u] # "idle" => job'[u].try \notin ToSet(toServer'[m])
    <2> SUFFICES ASSUME NEW u \in Pool, NEW m \in Conns, pc'[u] # "idle"
                 PROVE  job'[u].try \notin ToSet(toServer'[m])
        OBVIOUS
    <2>1. CASE u = t
        BY <1>5, <1>6, <2>1
    <2>2. CASE u # t
        <3>1. job[u].try \notin ToSet(toServer[m]) /\ job'[u] = job[u]
            BY <1>5, <2>2 DEF OnceInv
        <3> QED BY <1>6, <3>1
    <2> QED BY <2>1, <2>2
<1>13. \A u, v \in Pool : u # v /\ pc'[u] # "idle" /\ pc'[v] # "idle" => job'[u].try # job'[v].try
    BY <1>5, <1>9 DEF OnceInv
<1>14. \A u \in Making', i \in DOMAIN tokens : tokens[i].try # job'[u].try
    <2> SUFFICES ASSUME NEW u \in Making', NEW i \in DOMAIN tokens
                 PROVE  tokens[i].try # job'[u].try
        OBVIOUS
    <2>1. CASE u = t
        BY <1>5, <1>10, <2>1
    <2>2. CASE u # t
        <3>1. u \in Making /\ job'[u] = job[u]
            BY <1>5, <1>8, <2>2
        <3> QED BY <3>1 DEF OnceInv
    <2> QED BY <2>1, <2>2
<1>15. \A i \in DOMAIN tokens, m \in Conns : tokens[i].try \notin ToSet(toServer'[m])
    BY <1>6 DEF OnceInv
<1> QED BY <1>2, <1>11, <1>12, <1>13, <1>14, <1>15 DEF OnceInv

\* The database executes the insert of a login: its first.
LEMMA OnceInsert ==
    ASSUME ThreadTypes, OnceInv, NEW t \in Pool, pc[t] = "query", stmt[t] = "insert",
           NEW r, r.try = job[t].try, tokens' = Append(tokens, r),
           pc' = [pc EXCEPT ![t] = "read"], UNCHANGED <<toServer, job, stmt>>
    PROVE  OnceInv'
<1>1. PICK S : tokens \in Seq(S)
    BY DEF ThreadTypes
<1>2. /\ Len(tokens) \in Nat /\ DOMAIN tokens = 1 .. Len(tokens)
      /\ DOMAIN tokens' = 1 .. Len(tokens) + 1 /\ tokens'[Len(tokens) + 1] = r
      /\ \A i \in 1 .. Len(tokens) : tokens'[i] = tokens[i]
    <2>1. /\ Append(tokens, r) \in Seq(S \cup {r}) /\ Len(Append(tokens, r)) = Len(tokens) + 1
          /\ \A n \in 1 .. Len(tokens) : Append(tokens, r)[n] = tokens[n]
          /\ Append(tokens, r)[Len(tokens) + 1] = r
        BY <1>1, ElementsOf
    <2> QED BY <1>1, <2>1, LenProperties
<1>3. \A i \in DOMAIN tokens' : \/ i \in DOMAIN tokens /\ tokens'[i] = tokens[i]
                                \/ i = Len(tokens) + 1 /\ tokens'[i] = r
    BY <1>2
<1>4. t \in Making
    BY DEF Making
<1>5. \A i \in DOMAIN tokens : tokens[i].try # r.try
    BY <1>4 DEF OnceInv
<1>6. \A i, j \in DOMAIN tokens' : tokens'[i].try = tokens'[j].try => i = j
    BY <1>3, <1>5 DEF OnceInv
<1>7. \A n \in Conns : r.try \notin ToSet(toServer[n])
    BY DEF OnceInv
<1>8. \A i \in DOMAIN tokens', n \in Conns : tokens'[i].try \notin ToSet(toServer[n])
    BY <1>3, <1>7 DEF OnceInv
<1>9. \A u \in Pool : pc'[u] = IF u = t THEN "read" ELSE pc[u]
    BY DEF ThreadTypes
<1>10. \A u \in Making' : u \in Making /\ u \in Pool /\ u # t /\ pc[u] # "idle"
    BY <1>9 DEF Making
<1>11. \A u \in Making' : job[u].try # r.try
    BY <1>10 DEF OnceInv
<1>12. \A u \in Making', i \in DOMAIN tokens' : tokens'[i].try # job[u].try
    BY <1>3, <1>10, <1>11 DEF OnceInv
<1>13. /\ \A u \in Pool : pc'[u] # "idle" => pc[u] # "idle"
       /\ \A u \in Pool, n \in Conns : pc[u] # "idle" => job[u].try \notin ToSet(toServer[n])
       /\ \A u, v \in Pool : u # v /\ pc[u] # "idle" /\ pc[v] # "idle" => job[u].try # job[v].try
       /\ \A n \in Conns : IsInjective(toServer[n])
       /\ \A m, n \in Conns : m # n => ToSet(toServer[m]) \cap ToSet(toServer[n]) = {}
    BY <1>9 DEF OnceInv
<1>14. /\ \A u \in Pool, n \in Conns : pc'[u] # "idle" => job[u].try \notin ToSet(toServer[n])
       /\ \A u, v \in Pool : u # v /\ pc'[u] # "idle" /\ pc'[v] # "idle" => job[u].try # job[v].try
    BY <1>13
<1> QED BY <1>6, <1>8, <1>12, <1>13, <1>14 DEF OnceInv

\* A thread of the pool goes on with its request.
LEMMA OnceThread ==
    ASSUME NetTypes, ThreadTypes, OwnConn, OnceInv, NEW t \in Pool, ThreadStep(t)
    PROVE  OnceInv'
<1>1. UNCHANGED toServer
    BY DEF ThreadStep, Query, Read, CheckInserted, Store, Fetch, UseUser, ReadId, UseToken, Answer,
        netVars
<1>2. CASE UNCHANGED tokens
    <2>1. \A u \in Pool \ {t} : pc'[u] = pc[u] /\ stmt'[u] = stmt[u] /\ job'[u] = job[u]
        BY DEF ThreadStep, Query, Read, CheckInserted, Store, Fetch, UseUser, ReadId, UseToken,
            Answer, Goto, Failed, Begin, ThreadTypes
    <2>2. pc'[t] # "idle" => pc[t] # "idle" /\ job'[t] = job[t]
        BY DEF ThreadStep, Query, Read, CheckInserted, Store, Fetch, UseUser, ReadId, UseToken,
            Answer, Goto, Failed, Begin, ThreadTypes
    <2>3. t \in Making' => t \in Making
        <3>1. CASE Query(t) \/ Read(t) \/ CheckInserted(t) \/ Store(t) \/ Fetch(t)
            <4>1. UNCHANGED stmt /\ pc'[t] # "query" /\ pc[t] # "idle"
                <5>1. CASE Read(t)
                    <6>1. stmt[t] \in {"user", "token", "insert", "add", "delete"}
                        BY <5>1 DEF Read, ThreadTypes
                    <6> QED BY <5>1, <6>1 DEF Read, Goto, Failed, ThreadTypes
                <5>2. CASE Query(t) \/ CheckInserted(t) \/ Store(t) \/ Fetch(t)
                    BY <5>2 DEF Query, CheckInserted, Store, Fetch, Goto, Failed, ThreadTypes
                <5> QED BY <3>1, <5>1, <5>2
            <4> QED BY <4>1 DEF Making
        <3>2. CASE UseUser(t)
            <4>1. stmt[t] = "user" /\ pc[t] # "idle"
                BY <3>2 DEF UseUser
            <4> QED BY <4>1 DEF Making
        <3>3. CASE ReadId(t) \/ UseToken(t) \/ Answer(t)
            <4>1. stmt'[t] \notin {"user", "insert"}
                BY <3>3 DEF ReadId, UseToken, Answer, Begin, ThreadTypes
            <4> QED BY <4>1 DEF Making
        <3> QED BY <3>1, <3>2, <3>3 DEF ThreadStep
    <2>4. \A u \in Making' : u \in Making
        BY <2>1, <2>3 DEF Making
    <2>5. \A n \in Conns : ToSet(toServer'[n]) \subseteq ToSet(toServer[n])
                           /\ IsInjective(toServer'[n])
        BY <1>1 DEF OnceInv
    <2>6. \A u \in Pool : pc'[u] # "idle" => pc[u] # "idle" /\ job'[u] = job[u]
        BY <2>1, <2>2
    <2> QED BY <1>2, <2>4, <2>5, <2>6, OnceFrame
<1>3. ASSUME ~ UNCHANGED tokens PROVE OnceInv'
    <2>1. Query(t) /\ Executed(t) /\ Goto(t, "read")
        BY <1>3 DEF ThreadStep, Query, Read, CheckInserted, Store, Fetch, UseUser, ReadId, UseToken,
            Answer, dbVars
    <2>2. PICK r : /\ r = [user |-> User(t), role |-> work[t].role, try |-> job[t].try]
                   /\ tokens' = Append(tokens, r) /\ stmt[t] = "insert"
        BY <1>3, <2>1 DEF Executed, dbVars
    <2>3. r.try = job[t].try
        BY <2>2
    <2>4. pc[t] = "query" /\ pc' = [pc EXCEPT ![t] = "read"] /\ UNCHANGED <<job, stmt>>
        BY <2>1 DEF Query, Goto
    <2> QED BY <1>1, <2>2, <2>3, <2>4, OnceInsert
<1> QED BY <1>2, <1>3

\* The same for what has been sent.
LEMMA SentThread ==
    ASSUME ThreadTypes, SentInv, NEW t \in Pool, ThreadStep(t)
    PROVE  SentInv'
<1>1. /\ UNCHANGED <<toServer, tries, sent, callPc>>
    BY DEF ThreadStep, Query, Read, CheckInserted, Store, Fetch, UseUser, ReadId, UseToken, Answer,
        netVars, histVars, clientVars
<1>2. \A u \in Pool : pc'[u] # "idle" => pc[u] # "idle" /\ job'[u] = job[u]
    BY DEF ThreadStep, Query, Read, CheckInserted, Store, Fetch, UseUser, ReadId, UseToken,
        Answer, Goto, Failed, Begin, ThreadTypes
<1>3. pc[t] # "idle"
    BY DEF ThreadStep, Query, Read, CheckInserted, Store, Fetch, UseUser, ReadId, UseToken, Answer
<1>4. UNCHANGED tokens \/ \E r : tokens' = Append(tokens, r) /\ r.try = job[t].try
    <2>1. CASE UNCHANGED tokens
        BY <2>1
    <2>2. ASSUME ~ UNCHANGED tokens
          PROVE  \E r : tokens' = Append(tokens, r) /\ r.try = job[t].try
        <3>1. Executed(t)
            BY <2>2 DEF ThreadStep, Query, Read, CheckInserted, Store, Fetch, UseUser, ReadId,
                UseToken, Answer, dbVars
        <3>2. PICK r : /\ r = [user |-> User(t), role |-> work[t].role, try |-> job[t].try]
                       /\ tokens' = Append(tokens, r)
            BY <2>2, <3>1 DEF Executed, dbVars
        <3> QED BY <3>2
    <2> QED BY <2>1, <2>2
<1>5. \A i \in DOMAIN tokens' : tokens'[i].try \in sent
    <2>1. CASE UNCHANGED tokens
        BY <2>1 DEF SentInv
    <2>2. ASSUME NEW r, tokens' = Append(tokens, r), r.try = job[t].try
          PROVE  \A i \in DOMAIN tokens' : tokens'[i].try \in sent
        <3>1. PICK S : tokens \in Seq(S)
            BY DEF ThreadTypes
        <3>2. /\ Append(tokens, r) \in Seq(S \cup {r}) /\ Len(Append(tokens, r)) = Len(tokens) + 1
              /\ \A n \in 1 .. Len(tokens) : Append(tokens, r)[n] = tokens[n]
              /\ Append(tokens, r)[Len(tokens) + 1] = r
            BY <3>1, ElementsOf
        <3>3. /\ Len(tokens) \in Nat /\ DOMAIN tokens = 1 .. Len(tokens)
              /\ DOMAIN Append(tokens, r) = 1 .. Len(tokens) + 1
            BY <3>1, <3>2, LenProperties
        <3>4. \A i \in 1 .. Len(tokens) + 1 : i \in 1 .. Len(tokens) \/ i = Len(tokens) + 1
            BY <3>3
        <3>5. r.try \in sent
            BY <1>3, <2>2 DEF SentInv
        <3> QED BY <2>2, <3>2, <3>3, <3>4, <3>5 DEF SentInv
    <2> QED BY <1>4, <2>1, <2>2
<1>6. \A c \in Clients : callPc'[c] = "send" => Current(c)' \notin sent'
    <2>1. \A c : Current(c)' = Current(c)
        BY <1>1, CurrentKept
    <2> QED BY <1>1, <2>1 DEF SentInv
<1> QED BY <1>1, <1>2, <1>5, <1>6 DEF SentInv

\* A handle takes a request.
LEMMA SentReceive ==
    ASSUME NetTypes, ThreadTypes, SentInv, NEW n \in Conns, Receive(n), ThreadOf(n) \in Pool
    PROVE  SentInv'
<1>1. PICK t \in Pool, k \in {Head(toServer[n])} : t = ThreadOf(n) /\ k = Head(toServer[n])
    OBVIOUS
<1>2. /\ toServer[n] # <<>> /\ toServer' = [toServer EXCEPT ![n] = Tail(@)]
      /\ \E p \in {"query", "answer"} : pc' = [pc EXCEPT ![t] = p]
      /\ job' = [job EXCEPT ![t] = [conn |-> n, try |-> k]]
      /\ UNCHANGED <<tries, sent, callPc, tokens>>
    BY <1>1, ReceiveBegins DEF Receive, dbVars, clientVars
<1>3. /\ k \in ToSet(toServer[n]) /\ ToSet(toServer'[n]) \subseteq ToSet(toServer[n])
      /\ \A m \in Conns \ {n} : toServer'[m] = toServer[m]
    <2>1. /\ toServer'[n] = Tail(toServer[n]) /\ toServer[n] \in Seq(Nat)
          /\ \A m \in Conns \ {n} : toServer'[m] = toServer[m]
        BY <1>2 DEF NetTypes
    <2> QED BY <1>1, <1>2, <2>1, ElementsOf
<1>4. job'[t].try = k /\ \A u \in Pool \ {t} : job'[u] = job[u] /\ pc'[u] = pc[u]
    BY <1>2 DEF ThreadTypes
<1>5. \A c \in Clients : callPc'[c] = "send" => Current(c)' \notin sent'
    <2>1. \A c : Current(c)' = Current(c)
        BY <1>2, CurrentKept
    <2> QED BY <1>2, <2>1 DEF SentInv
<1>6. k \in sent
    BY <1>3 DEF SentInv
<1>7. \A u \in Pool : pc'[u] # "idle" => job'[u].try \in sent
    BY <1>4, <1>6 DEF SentInv
<1>8. \A m \in Conns : ToSet(toServer'[m]) \subseteq sent
    BY <1>3 DEF SentInv
<1> QED BY <1>2, <1>5, <1>7, <1>8 DEF SentInv

\* The clients: a login is sent after it was made, and once.
LEMMA OnceClient ==
    ASSUME AnswerInv, SentInv, OnceInv, NEW c \in Clients, ClientStep(c)
    PROVE  SentInv' /\ OnceInv'
<1>0. /\ NetTypes /\ ThreadTypes /\ tries \in Seq(Requests) /\ Len(tries) \in Nat
      /\ conn \in [Clients -> Nat] /\ callPc \in [Clients -> {"idle", "send", "wait"}]
      /\ toServer \in [Conns -> Seq(Nat)]
    <2>1. NetTypes /\ ThreadTypes
        BY DEF AnswerInv, NetInv
    <2>2. tries \in Seq(Requests)
        BY <2>1 DEF NetTypes
    <2>3. Len(tries) \in Nat
        BY <2>2, LenProperties
    <2> QED BY <2>1, <2>2, <2>3 DEF NetTypes
<1>1. UNCHANGED <<pc, stmt, job, tokens>>
    BY DEF ClientStep, Connect, ConnectionLost, AddUserReq, LoginReq, SendLogin, LoginRes,
        LoginFound, LoginGivenUp, threadVars, dbVars
<1>2. Making' = Making
    BY <1>1 DEF Making
<1>3. ASSUME \A n \in Conns : toServer'[n] = toServer[n] \/ toServer'[n] = <<>>
      PROVE  /\ OnceInv'
             /\ \A n \in Conns : ToSet(toServer'[n]) \subseteq ToSet(toServer[n])
    <2>1. ToSet(<<>>) = {} /\ IsInjective(<<>>)
        BY DEF ToSet, IsInjective
    <2>2. \A n \in Conns : ToSet(toServer'[n]) \subseteq ToSet(toServer[n])
                           /\ IsInjective(toServer'[n])
        BY <1>3, <2>1 DEF OnceInv
    <2> QED BY <1>1, <1>2, <2>2, OnceFrame
<1>4. CASE Connect(c) \/ ConnectionLost(c) \/ LoginRes(c) \/ LoginFound(c) \/ LoginGivenUp(c)
    <2>1. /\ UNCHANGED <<tries, sent>>
          /\ \A d \in Clients : callPc'[d] = "send" => callPc[d] = "send"
        BY <1>0, <1>4 DEF Connect, ConnectionLost, LoginRes, LoginFound, LoginGivenUp, histVars,
            clientVars
    <2>2. \A n \in Conns : toServer'[n] = toServer[n] \/ toServer'[n] = <<>>
        BY <1>0, <1>4 DEF Connect, ConnectionLost, LoginRes, LoginFound, LoginGivenUp, netVars
    <2>3. \A d : Current(d)' = Current(d)
        BY <2>1, CurrentKept
    <2>4. SentInv'
        BY <1>1, <1>3, <2>1, <2>2, <2>3 DEF SentInv
    <2> QED BY <1>3, <2>2, <2>4
<1>5. ASSUME NEW u \in Users, NEW right \in BOOLEAN, LoginReq(c, u, right)
      PROVE  SentInv' /\ OnceInv'
    <2>1. PICK r \in Requests :
              /\ r = [client |-> c, type |-> "login", user |-> u, right |-> right]
              /\ tries' = Append(tries, r)
        BY <1>5 DEF LoginReq, Requests
    <2>2. UNCHANGED <<sent, toServer>> /\ callPc' = [callPc EXCEPT ![c] = "send"]
        BY <1>5 DEF LoginReq, netVars
    <2>3. r.type = "login" /\ r.client = c
        BY <2>1
    <2>4. /\ Len(tries') = Len(tries) + 1 /\ Current(c)' = Len(tries) + 1
          /\ \A d \in Clients : d # c => Current(d)' = Current(d)
        BY <1>0, <2>1, <2>3, NextRequest
    <2>5. Len(tries) + 1 \notin sent /\ sent \subseteq 1 .. Len(tries')
        BY <1>0, <2>4 DEF SentInv
    <2>6. \A d \in Clients : callPc'[d] = "send" => Current(d)' \notin sent'
        <3> SUFFICES ASSUME NEW d \in Clients, callPc'[d] = "send" PROVE Current(d)' \notin sent
            BY <2>2
        <3>1. CASE d = c
            BY <2>4, <2>5, <3>1
        <3>2. CASE d # c
            BY <1>0, <2>2, <2>4, <3>2 DEF SentInv
        <3> QED BY <3>1, <3>2
    <2>7. SentInv'
        BY <1>1, <2>2, <2>5, <2>6 DEF SentInv
    <2> QED BY <1>3, <2>2, <2>7
<1>6. ASSUME NEW n \in Conns, NEW k, k \notin sent, toServer' = [toServer EXCEPT ![n] = Append(@, k)],
             sent' = sent \cup {k}, k \in 1 .. Len(tries'), Len(tries') \in Nat,
             Len(tries) <= Len(tries'),
             \A d \in Clients : callPc'[d] = "send" => Current(d)' \notin sent'
      PROVE  SentInv' /\ OnceInv'
    <2>1. OnceInv'
        BY <1>0, <1>1, <1>6, OnceSent
    <2>2. \A m \in Conns : ToSet(toServer'[m]) \subseteq ToSet(toServer[m]) \cup {k}
        <3>1. toServer'[n] = Append(toServer[n], k) /\ \A m \in Conns \ {n} : toServer'[m] = toServer[m]
            BY <1>0, <1>6
        <3>2. ToSet(Append(toServer[n], k)) = ToSet(toServer[n]) \cup {k}
            BY <1>0, ElementsAppended
        <3> QED BY <3>1, <3>2
    <2>3. sent' \subseteq 1 .. Len(tries')
        <3>1. \A j \in 1 .. Len(tries) : j \in 1 .. Len(tries')
            BY <1>0, <1>6
        <3> QED BY <1>6, <3>1 DEF SentInv
    <2>4. \A m \in Conns : ToSet(toServer'[m]) \subseteq sent'
        BY <1>6, <2>2 DEF SentInv
    <2>5. /\ \A t \in Pool : pc'[t] # "idle" => job'[t].try \in sent'
          /\ \A i \in DOMAIN tokens' : tokens'[i].try \in sent'
        BY <1>1, <1>6 DEF SentInv
    <2> QED BY <1>6, <2>1, <2>3, <2>4, <2>5 DEF SentInv
<1>7. CASE SendLogin(c)
    <2>1. callPc[c] = "send" /\ callPc' = [callPc EXCEPT ![c] = "wait"] /\ UNCHANGED <<tries, conn>>
        BY <1>7 DEF SendLogin
    <2>2. \A d : Current(d)' = Current(d)
        BY <2>1, CurrentKept
    <2>3. CASE UNCHANGED <<sent, toServer>>
        <3>1. \A d \in Clients : callPc'[d] = "send" => callPc[d] = "send"
            BY <1>0, <2>1
        <3>2. SentInv'
            BY <1>1, <2>1, <2>2, <2>3, <3>1 DEF SentInv
        <3> QED BY <1>3, <2>3, <3>2
    <2>4. CASE conn[c] # 0
        <3>1. PICK n, k : n = conn[c] /\ k = Current(c)
            OBVIOUS
        <3>2. n \in Conns /\ sent' = sent \cup {k} /\ toServer' = [toServer EXCEPT ![n] = Append(@, k)]
            BY <1>0, <1>7, <2>4, <3>1, NumbersSuffice DEF SendLogin
        <3>3. k \notin sent
            BY <2>1, <3>1 DEF SentInv
        <3>4. /\ k \in 1 .. Len(tries) /\ tries[k].client = c
              /\ \A d \in Clients : callPc[d] = "send" =>
                    Current(d) \in 1 .. Len(tries) /\ tries[Current(d)].client = d
            <4>1. \A d \in Clients : callPc[d] = "send" => Current(d) \in LoginsOf(d)
                BY DEF AnswerInv, ExpectInv
            <4> QED BY <2>1, <3>1, <4>1 DEF LoginsOf
        <3>5. \A d \in Clients : callPc'[d] = "send" => Current(d)' \notin sent'
            <4> SUFFICES ASSUME NEW d \in Clients, callPc'[d] = "send"
                         PROVE  Current(d) \notin sent /\ Current(d) # k
                BY <2>2, <3>2
            <4>1. callPc[d] = "send" /\ d # c
                BY <1>0, <2>1
            <4> QED BY <3>4, <4>1 DEF SentInv
        <3>6. k \in 1 .. Len(tries') /\ Len(tries') \in Nat /\ Len(tries) <= Len(tries')
            BY <1>0, <2>1, <3>4
        <3> QED BY <1>6, <3>2, <3>3, <3>5, <3>6
    <2> QED BY <1>7, <2>3, <2>4 DEF SendLogin
<1>8. ASSUME NEW u \in Users, AddUserReq(c, u)
      PROVE  SentInv' /\ OnceInv'
    <2>1. PICK r \in Requests :
              /\ r = [client |-> c, type |-> "add", user |-> u, right |-> TRUE]
              /\ tries' = Append(tries, r)
        BY <1>8 DEF AddUserReq, Requests
    <2>2. PICK n, k : n = conn[c] /\ k = Len(tries) + 1
        OBVIOUS
    <2>3. /\ n \in Conns /\ sent' = sent \cup {k} /\ toServer' = [toServer EXCEPT ![n] = Append(@, k)]
          /\ UNCHANGED callPc
        BY <1>0, <1>8, <2>2, NumbersSuffice DEF AddUserReq, clientVars
    <2>4. r.type # "login"
        BY <2>1
    <2>5. /\ Len(tries') = Len(tries) + 1
          /\ \A d \in Clients : Current(d)' = Current(d)
        BY <1>0, <2>1, <2>4, NextRequest
    <2>6. k \notin sent /\ k \in 1 .. Len(tries') /\ Len(tries') \in Nat /\ Len(tries) <= Len(tries')
        BY <1>0, <2>2, <2>5 DEF SentInv
    <2>7. \A d \in Clients : callPc[d] = "send" => Current(d) # k
        <3>1. \A d \in Clients : callPc[d] = "send" => Current(d) \in LoginsOf(d)
            BY DEF AnswerInv, ExpectInv
        <3>2. k \notin 1 .. Len(tries)
            BY <1>0, <2>2
        <3> QED BY <3>1, <3>2 DEF LoginsOf
    <2>8. \A d \in Clients : callPc'[d] = "send" => Current(d)' \notin sent'
        BY <2>3, <2>5, <2>7 DEF SentInv
    <2> QED BY <1>6, <2>3, <2>6, <2>8
<1> QED BY <1>4, <1>5, <1>7, <1>8 DEF ClientStep

LEMMA OnceStep ==
    AnswerInv /\ SentInv /\ OnceInv /\ [Next]_vars => SentInv' /\ OnceInv'
<1> SUFFICES ASSUME AnswerInv, SentInv, OnceInv, [Next]_vars PROVE SentInv' /\ OnceInv'
    OBVIOUS
<1>1. NetTypes /\ ThreadTypes /\ OwnConn
    BY DEF AnswerInv, NetInv
<1>2. CASE UNCHANGED vars
    <2>1. UNCHANGED <<tries, sent, callPc, toServer, pc, stmt, job, tokens>>
        BY <1>2 DEF vars, histVars, clientVars, netVars, threadVars, dbVars
    <2>2. \A d : Current(d)' = Current(d)
        BY <2>1, CurrentKept
    <2> QED BY <2>1, <2>2 DEF SentInv, OnceInv, Making
<1>3. ASSUME NEW n \in Conns, Receive(n) PROVE SentInv' /\ OnceInv'
    BY <1>1, <1>3, TypesReceive, SentReceive, OnceReceive
<1> QED
    BY <1>1, <1>2, <1>3, OnceClient, SentThread, OnceThread DEF Next

-----------------------------------------------------------------------------
(* What goes to the database and back. *)

DBRows == [kind : {"user"}, user : Users] \cup [kind : {"token"}, id : Tries]

\* What mysql_insert_id() may say: a row of cms_token or of cms_auth.
Ids == 0 .. (MaxTries + Cardinality(Users))

IsReply(a) ==
    \/ a = Failure
    \/ a.kind = "ok" /\ a.id \in Ids
    \/ a.kind = "rows" /\ a.rows \in Seq(DBRows)

\* The rows and ids that a thread may come across, whoever asked for them.
DataInv ==
    /\ \A a \in ToSet(inFlight) : IsReply(a)
    /\ pending \in Seq(DBRows) /\ result \in Seq(DBRows)
    /\ got \in [Pool -> DBRows \cup {NoRow}]
    /\ accounts \subseteq Users /\ valid \subseteq Pool /\ insertId \in Ids
    /\ \A t \in Pool : work[t].role \in Users \cup {Garbage} /\ work[t].token \in 0 .. MaxTries
    /\ \A t \in Pool : pc[t] = "idle" => stmt[t] = "none"

\* The histories, and what a client knows.
HistoryInv ==
    /\ mixed \subseteq Tries /\ late \subseteq Tries /\ shown \in [Tries -> 0 .. MaxTries]
    /\ \A c \in Clients, u \in Users :
          loginMap[c][u] = NoEntry \/ loginMap[c][u].try \in Tries

\* One row, of a user or of a token, is a sequence of rows.
LEMMA RowFacts ==
    /\ Cardinality(Users) \in Nat /\ MaxTries \in Nat /\ 0 \in Ids
    /\ \A i \in 0 .. MaxTries : i \in Ids
    /\ <<>> \in Seq(DBRows)
    /\ \A u \in Users : <<[kind |-> "user", user |-> u]>> \in Seq(DBRows)
    /\ \A i \in Tries : <<[kind |-> "token", id |-> i]>> \in Seq(DBRows)
<1>1. Cardinality(Users) \in Nat /\ MaxTries \in Nat
    BY UsersAssumption, BoundsAssumption, FS_CardinalityType
<1>2. \A r \in DBRows : <<r>> \in Seq(DBRows)
    OBVIOUS
<1>3. /\ \A u \in Users : [kind |-> "user", user |-> u] \in DBRows
      /\ \A i \in Tries : [kind |-> "token", id |-> i] \in DBRows
    BY DEF DBRows
<1>4. <<>> \in Seq(DBRows)
    BY EmptySeq
<1>5. 0 \in Ids /\ \A i \in 0 .. MaxTries : i \in Ids
    BY <1>1 DEF Ids
<1> QED BY <1>1, <1>2, <1>3, <1>4, <1>5

\* What the database may answer to thread t.
LEMMA RepliesTyped ==
    ASSUME NetInv, DataInv, NEW t \in Pool, Query(t), Len(tokens') \in 0 .. MaxTries
    PROVE  /\ UNCHANGED inFlight \/ \E a : IsReply(a) /\ inFlight' = Append(inFlight, a)
           /\ accounts' \subseteq Users
<1>1. /\ NetTypes /\ ThreadTypes /\ pc[t] = "query" /\ tries \in Seq(Requests)
      /\ job[t].try \in 1 .. Len(tries)
    <2>1. NetTypes /\ ThreadTypes /\ pc[t] = "query"
        BY DEF NetInv, Query
    <2>2. tries \in Seq(Requests)
        BY <2>1 DEF NetTypes
    <2> QED BY <2>1, <2>2 DEF NetInv, JobInv
<1>2. User(t) \in Users
    <2>1. tries[job[t].try] \in Requests
        BY <1>1, ElementOfSeq
    <2> QED BY <2>1 DEF User, Requests
<1>3. IsReply(Failure)
    BY DEF IsReply
<1>4. \A rows : rows \in Seq(DBRows) => IsReply(Rows(rows))
    BY DEF IsReply, Rows
<1>5. \A some, id : id \in Ids => IsReply(Done(some, id))
    BY DEF IsReply, Done
<1>6. CASE Sends(Failure) /\ UNCHANGED dbVars
    BY <1>3, <1>6 DEF Sends, dbVars, DataInv
<1>7. CASE UNCHANGED <<inFlight, dbVars>>
    BY <1>7 DEF dbVars, DataInv
<1>8. CASE Executed(t)
    <2>1. CASE stmt[t] = "user"
        <3>1. PICK rows \in Seq(DBRows) : Sends(Rows(rows)) /\ UNCHANGED dbVars
            BY <1>2, <1>8, <2>1, RowFacts DEF Executed
        <3> QED BY <1>4, <3>1 DEF Sends, dbVars, DataInv
    <2>2. CASE stmt[t] = "insert"
        <3>1. PICK i, r : /\ i = Len(tokens) + 1 /\ Sends(Done(TRUE, i)) /\ UNCHANGED accounts
                          /\ tokens' = Append(tokens, r)
            BY <1>8, <2>2 DEF Executed
        <3>2. PICK S : tokens \in Seq(S)
            BY <1>1 DEF ThreadTypes
        <3>3. Len(tokens') = i
            BY <3>1, <3>2, ElementsOf
        <3>4. IsReply(Done(TRUE, i))
            BY <1>5, <3>3, RowFacts
        <3> QED BY <3>1, <3>4 DEF Sends, DataInv
    <2>3. CASE stmt[t] = "token"
        <3>1. PICK rows : rows = TokenRows(t) /\ Sends(Rows(rows)) /\ UNCHANGED dbVars
            BY <1>8, <2>3 DEF Executed
        <3>2. DOMAIN tokens \subseteq Tries
            <4>1. PICK S : tokens \in Seq(S)
                BY <1>1 DEF ThreadTypes
            <4>2. DOMAIN tokens = 1 .. Len(tokens) /\ Len(tokens) \in Nat /\ UNCHANGED tokens
                BY <3>1, <4>1, LenProperties DEF dbVars
            <4> QED BY <4>2, RowFacts DEF Tries
        <3>3. rows \in Seq(DBRows)
            BY <3>1, <3>2, RowFacts DEF TokenRows
        <3> QED BY <1>4, <3>1, <3>3 DEF Sends, dbVars, DataInv
    <2>4. CASE stmt[t] = "delete"
        <3>1. Sends(Done(FALSE, 0)) /\ UNCHANGED dbVars
            BY <1>8, <2>4 DEF Executed
        <3> QED BY <1>5, <3>1, RowFacts DEF Sends, dbVars, DataInv
    <2>5. CASE stmt[t] = "add"
        <3>1. CASE Sends(Failure) /\ UNCHANGED dbVars
            BY <1>3, <3>1 DEF Sends, dbVars, DataInv
        <3>2. CASE User(t) \notin accounts /\ ~(Sends(Failure) /\ UNCHANGED dbVars)
            <4>1. PICK i : /\ i = Cardinality(accounts) + 1 /\ Sends(Done(TRUE, i))
                           /\ accounts' = accounts \cup {User(t)}
                BY <1>8, <2>5, <3>2 DEF Executed
            <4>2. accounts \subseteq Users /\ accounts' \subseteq Users
                BY <1>2, <4>1 DEF DataInv
            <4>3. IsFiniteSet(accounts) /\ Cardinality(accounts) \in Nat
                BY <4>2, UsersAssumption, FS_Subset, FS_CardinalityType
            <4>4. Cardinality(accounts') = i
                BY <3>2, <4>1, <4>3, FS_AddElement
            <4>5. Cardinality(accounts') <= Cardinality(Users)
                BY <4>2, UsersAssumption, FS_Subset
            <4>6. i \in Ids
                BY <4>1, <4>3, <4>4, <4>5, RowFacts DEF Ids
            <4> QED BY <1>5, <4>1, <4>2, <4>6 DEF Sends
        <3> QED BY <1>8, <2>5, <3>1, <3>2 DEF Executed
    <2> QED BY <1>8, <2>1, <2>2, <2>3, <2>4, <2>5 DEF Executed
<1> QED BY <1>6, <1>7, <1>8 DEF Query

\* Every step of a thread keeps the rows and ids.
LEMMA DataThread ==
    ASSUME NetInv, DataInv, NEW t \in Pool, ThreadStep(t), Len(tokens') \in 0 .. MaxTries
    PROVE  DataInv'
<1>0. /\ ThreadTypes
      /\ inFlight # <<>> => Head(inFlight) \in ToSet(inFlight)
      /\ inFlight # <<>> => ToSet(Tail(inFlight)) \subseteq ToSet(inFlight)
      /\ \A a : ToSet(Append(inFlight, a)) = ToSet(inFlight) \cup {a}
      /\ ToSet(<<>>) = {}
    <2>1. ThreadTypes
        BY DEF NetInv
    <2>2. PICK S : inFlight \in Seq(S)
        BY <2>1 DEF ThreadTypes
    <2>3. ToSet(<<>>) = {}
        BY DEF ToSet
    <2> QED BY <2>1, <2>2, <2>3, ElementsOf
<1>1. \A u \in Pool : pc'[u] = "idle" => stmt'[u] = "none"
    <2>1. \A u \in Pool \ {t} : pc'[u] = pc[u] /\ stmt'[u] = stmt[u]
        BY <1>0 DEF ThreadStep, Query, Read, CheckInserted, Store, Fetch, UseUser, ReadId, UseToken,
            Answer, Goto, Failed, Begin, ThreadTypes
    <2>2. pc'[t] = "idle" => stmt'[t] = "none"
        <3>1. CASE Read(t)
            <4>1. stmt[t] \in {"user", "token", "insert", "add", "delete"}
                BY <1>0, <3>1 DEF Read, ThreadTypes
            <4> QED BY <1>0, <3>1, <4>1 DEF Read, Goto, Failed, ThreadTypes
        <3>2. CASE ~ Read(t)
            BY <1>0, <3>2 DEF ThreadStep, Query, CheckInserted, Store, Fetch, UseUser, ReadId,
                UseToken, Answer, Goto, Failed, Begin, ThreadTypes
        <3> QED BY <3>1, <3>2
    <2> QED BY <2>1, <2>2 DEF DataInv
<1>2. CASE Query(t)
    <2>1. UNCHANGED <<pending, result, valid, insertId, work, got>>
        BY <1>2 DEF Query, Goto, Failed
    <2>2. /\ UNCHANGED inFlight \/ \E a : IsReply(a) /\ inFlight' = Append(inFlight, a)
          /\ accounts' \subseteq Users
        BY <1>2, RepliesTyped
    <2>3. \A a \in ToSet(inFlight') : IsReply(a)
        BY <1>0, <2>2 DEF DataInv
    <2> QED BY <1>1, <2>1, <2>2, <2>3 DEF DataInv
<1>3. CASE Read(t)
    <2>1. UNCHANGED <<result, valid, work, got, accounts>>
        BY <1>3 DEF Read, Goto, Failed, dbVars
    <2>2. \A a \in ToSet(inFlight') : IsReply(a)
        <3>1. inFlight' = <<>> \/ (inFlight # <<>> /\ inFlight' = Tail(inFlight))
            BY <1>3 DEF Read, Unread
        <3> QED BY <1>0, <3>1 DEF DataInv
    <2>3. pending' \in Seq(DBRows) /\ insertId' \in Ids
        <3>1. CASE UNCHANGED <<pending, insertId>>
            BY <3>1 DEF DataInv
        <3>2. CASE inFlight # <<>> /\ ~ UNCHANGED <<pending, insertId>>
            <4>1. PICK a : a = Head(inFlight)
                OBVIOUS
            <4>2. IsReply(a) /\ a # Failure
                <5>1. IsReply(a)
                    BY <1>0, <3>2, <4>1 DEF DataInv
                <5>2. a.kind # "failed"
                    BY <1>3, <3>2, <4>1 DEF Read
                <5> QED BY <5>1, <5>2 DEF Failure
            <4>3. \/ a.kind = "rows" /\ pending' = a.rows /\ insertId' = 0
                  \/ a.kind = "ok" /\ insertId' = a.id /\ UNCHANGED pending
                BY <1>3, <3>2, <4>1 DEF Read
            <4> QED BY <4>2, <4>3, RowFacts DEF IsReply, DataInv
        <3> QED BY <1>3, <3>1, <3>2 DEF Read
    <2> QED BY <1>1, <2>1, <2>2, <2>3 DEF DataInv
<1>4. CASE CheckInserted(t) \/ Store(t)
    <2>1. UNCHANGED <<inFlight, insertId, work, got, accounts>> /\ valid' \subseteq Pool
        BY <1>4 DEF CheckInserted, Store, Goto, Failed, dbVars, mysqlVars, DataInv
    <2>2. pending' \in Seq(DBRows) /\ result' \in Seq(DBRows)
        BY <1>4, RowFacts DEF CheckInserted, Store, mysqlVars, DataInv
    <2> QED BY <1>1, <2>1, <2>2 DEF DataInv
<1>5. CASE Fetch(t)
    <2>1. UNCHANGED <<inFlight, insertId, pending, work, accounts>> /\ result' = <<>>
        BY <1>5 DEF Fetch, Goto, Failed, dbVars
    <2>2. got' \in [Pool -> DBRows \cup {NoRow}] /\ valid' \subseteq Pool
        <3>1. CASE result # <<>> /\ got' = [got EXCEPT ![t] = Head(result)]
                   /\ valid' = valid \cup {t}
            <4>1. Head(result) \in DBRows
                BY <3>1, HeadTailProperties DEF DataInv
            <4> QED BY <3>1, <4>1 DEF DataInv
        <3>2. CASE UNCHANGED <<got, valid>>
            BY <3>2 DEF DataInv
        <3> QED BY <1>5, <3>1, <3>2 DEF Fetch, Goto, Failed
    <2> QED BY <1>1, <2>1, <2>2, RowFacts DEF DataInv
<1>6. ASSUME UNCHANGED <<inFlight, insertId, pending, accounts>>,
             result' \in Seq(DBRows), valid' \subseteq Pool,
             got' \in [Pool -> DBRows \cup {NoRow}],
             \A u \in Pool \ {t} : work'[u] = work[u],
             work'[t].role \in Users \cup {Garbage}, work'[t].token \in 0 .. MaxTries
      PROVE  DataInv'
    BY <1>1, <1>6 DEF DataInv
<1>7. got' = [got EXCEPT ![t] = NoRow] => got' \in [Pool -> DBRows \cup {NoRow}]
    BY DEF DataInv
<1>8. /\ IsWork(work[t]) /\ DOMAIN work = Pool
      /\ work[t].role \in Users \cup {Garbage} /\ work[t].token \in 0 .. MaxTries
      /\ got[t] \in DBRows \cup {NoRow}
    BY <1>0 DEF ThreadTypes, DataInv
<1>9. CASE UseUser(t)
    <2>1. /\ UNCHANGED <<inFlight, insertId, pending, accounts, result, valid>>
          /\ got' = [got EXCEPT ![t] = NoRow]
        BY <1>9 DEF UseUser, Begin, dbVars, mysqlVars
    <2>2. PICK r : /\ r = Garbage \/ (got[t].kind = "user" /\ r = got[t].user)
                   /\ work' = [work EXCEPT ![t].named = TRUE, ![t].role = r]
        BY <1>9 DEF UseUser, IntactRow
    <2>3. r \in Users \cup {Garbage}
        BY <1>8, <2>2 DEF DBRows, NoRow
    <2>4. PICK w, v : w = work[t] /\ v = [w EXCEPT !.named = TRUE, !.role = r]
        OBVIOUS
    <2>5. work'[t] = v /\ \A u \in Pool \ {t} : work'[u] = work[u]
        BY <1>8, <2>2, <2>4
    <2>6. v.role = r /\ v.token = w.token
        <3>1. PICK a, b, c, d, e : w = [named |-> a, role |-> b, id |-> c, token |-> d, res |-> e]
            BY <1>8, <2>4 DEF IsWork
        <3>2. v.role = r /\ v.token = d /\ w.token = d
            BY <2>4, <3>1
        <3> QED BY <3>2
    <2> QED BY <1>6, <1>7, <1>8, <2>1, <2>3, <2>4, <2>5, <2>6 DEF DataInv
<1>10. CASE UseToken(t)
    <2>1. /\ UNCHANGED <<inFlight, insertId, pending, accounts, result, valid>>
          /\ got' = [got EXCEPT ![t] = NoRow]
        BY <1>10 DEF UseToken, Begin, dbVars, mysqlVars
    <2>2. PICK k : /\ k = 0 \/ (got[t].kind = "token" /\ k = got[t].id)
                   /\ work' = [work EXCEPT ![t].token = k, ![t].res = "OK"]
        BY <1>10 DEF UseToken, IntactRow
    <2>3. k \in 0 .. MaxTries
        BY <1>8, <2>2, RowFacts DEF DBRows, NoRow, Tries
    <2>4. PICK w, v : w = work[t] /\ v = [w EXCEPT !.token = k, !.res = "OK"]
        OBVIOUS
    <2>5. work'[t] = v /\ \A u \in Pool \ {t} : work'[u] = work[u]
        BY <1>8, <2>2, <2>4
    <2>6. v.role = w.role /\ v.token = k
        <3>1. PICK a, b, c, d, e : w = [named |-> a, role |-> b, id |-> c, token |-> d, res |-> e]
            BY <1>8, <2>4 DEF IsWork
        <3>2. v.role = b /\ v.token = k /\ w.role = b
            BY <2>4, <3>1
        <3> QED BY <3>2
    <2> QED BY <1>6, <1>7, <1>8, <2>1, <2>3, <2>4, <2>5, <2>6 DEF DataInv
<1>11. CASE ReadId(t)
    <2>1. /\ UNCHANGED <<inFlight, insertId, pending, accounts>> /\ result' = <<>> /\ valid' = {}
          /\ got' = [got EXCEPT ![t] = NoRow] /\ work' = [work EXCEPT ![t].id = insertId]
        BY <1>11 DEF ReadId, Begin, dbVars, FreeResult
    <2>2. PICK w, v : w = work[t] /\ v = [w EXCEPT !.id = insertId]
        OBVIOUS
    <2>3. work'[t] = v /\ \A u \in Pool \ {t} : work'[u] = work[u]
        BY <1>8, <2>1, <2>2
    <2>4. v.role = w.role /\ v.token = w.token
        <3>1. PICK a, b, c, d, e : w = [named |-> a, role |-> b, id |-> c, token |-> d, res |-> e]
            BY <1>8, <2>2 DEF IsWork
        <3>2. v.role = b /\ v.token = d /\ w.role = b /\ w.token = d
            BY <2>2, <3>1
        <3> QED BY <3>2
    <2> QED BY <1>6, <1>7, <1>8, <2>1, <2>2, <2>3, <2>4, RowFacts
<1>12. CASE Answer(t)
    <2>1. /\ UNCHANGED <<inFlight, insertId, pending, accounts, result>> /\ valid' \subseteq Pool
          /\ got' = [got EXCEPT ![t] = NoRow] /\ work' = [work EXCEPT ![t] = NoWork]
        BY <1>12 DEF Answer, dbVars, DataInv
    <2>2. NoWork.role = Garbage /\ NoWork.token = 0 /\ 0 \in 0 .. MaxTries
        BY RowFacts DEF NoWork
    <2>3. work'[t] = NoWork /\ \A u \in Pool \ {t} : work'[u] = work[u]
        BY <1>8, <2>1
    <2> QED BY <1>6, <1>7, <2>1, <2>2, <2>3 DEF DataInv
<1> QED BY <1>2, <1>3, <1>4, <1>5, <1>9, <1>10, <1>11, <1>12 DEF ThreadStep

\* A handle that takes a request.
LEMMA DataReceive ==
    ASSUME ThreadTypes, DataInv, NEW n \in Conns, Receive(n), ThreadOf(n) \in Pool
    PROVE  DataInv'
<1>1. PICK t \in Pool : t = ThreadOf(n)
    OBVIOUS
<1>2. /\ \E w \in {NoWork, Untouched} : work' = [work EXCEPT ![t] = w]
      /\ \E p \in {"query", "answer"} : pc' = [pc EXCEPT ![t] = p]
      /\ got' = [got EXCEPT ![t] = NoRow]
      /\ stmt' = [stmt EXCEPT ![t] = "user"] \/ stmt' = [stmt EXCEPT ![t] = "add"]
      /\ (result' = <<>> /\ valid' = {}) \/ UNCHANGED <<result, valid>>
      /\ UNCHANGED <<inFlight, insertId, pending, accounts>>
    BY <1>1, ReceiveBegins DEF Receive, dbVars, FreeResult
<1>3. /\ NoWork.role = Garbage /\ NoWork.token = 0 /\ 0 \in 0 .. MaxTries
      /\ Untouched.role = Garbage /\ Untouched.token = 0
    BY RowFacts DEF NoWork, Untouched
<1>4. /\ work'[t] \in {NoWork, Untouched} /\ pc'[t] # "idle"
      /\ \A u \in Pool \ {t} : work'[u] = work[u] /\ pc'[u] = pc[u] /\ stmt'[u] = stmt[u]
    BY <1>2 DEF ThreadTypes
<1>5. \A u \in Pool : work'[u].role \in Users \cup {Garbage} /\ work'[u].token \in 0 .. MaxTries
    BY <1>3, <1>4 DEF DataInv
<1>6. \A u \in Pool : pc'[u] = "idle" => stmt'[u] = "none"
    BY <1>4 DEF DataInv
<1>7. got' \in [Pool -> DBRows \cup {NoRow}] /\ result' \in Seq(DBRows) /\ valid' \subseteq Pool
    BY <1>2, RowFacts DEF DataInv
<1> QED BY <1>2, <1>5, <1>6, <1>7 DEF DataInv

\* The client's steps, and those that change nothing: the service stays as it is.
LEMMA DataFrame ==
    ASSUME DataInv, UNCHANGED <<threadVars, mysqlVars, dbVars>>
    PROVE  DataInv'
BY DEF DataInv, threadVars, mysqlVars, dbVars

LEMMA DataInit == Init => DataInv
<1> SUFFICES ASSUME Init PROVE DataInv
    OBVIOUS
<1>1. /\ inFlight = <<>> /\ pending = <<>> /\ result = <<>> /\ accounts = Known
      /\ valid = {} /\ insertId = 0 /\ got = [t \in Pool |-> NoRow]
      /\ \A t \in Pool : work[t] = NoWork /\ stmt[t] = "none"
    BY DEF Init
<1>2. NoWork.role = Garbage /\ NoWork.token = 0 /\ 0 \in 0 .. MaxTries
    BY RowFacts DEF NoWork
<1>3. ToSet(inFlight) = {}
    BY <1>1 DEF ToSet
<1>4. got \in [Pool -> DBRows \cup {NoRow}]
    BY <1>1
<1> QED BY <1>1, <1>2, <1>3, <1>4, RowFacts, UsersAssumption DEF DataInv

\* A login that waits asked for a user that exists.
LEMMA CurrentUser ==
    ASSUME NetInv, ExpectInv, NEW c \in Clients, callPc[c] # "idle"
    PROVE  Current(c) \in 1 .. Len(tries) /\ tries[Current(c)].user \in Users
<1>1. Current(c) \in 1 .. Len(tries) /\ tries \in Seq(Requests)
    BY DEF ExpectInv, LoginsOf, NetInv, NetTypes
<1>2. tries[Current(c)] \in Requests
    BY <1>1, ElementOfSeq
<1> QED BY <1>1, <1>2 DEF Requests

LEMMA HistoryInit == Init => HistoryInv
<1> SUFFICES ASSUME Init PROVE HistoryInv
    OBVIOUS
<1>1. 0 \in 0 .. MaxTries
    BY RowFacts
<1>2. shown \in [Tries -> 0 .. MaxTries]
    BY <1>1 DEF Init
<1> QED BY <1>2 DEF Init, HistoryInv

LEMMA HistoryStep ==
    ASSUME AnswerInv, SentInv, HistoryInv, [Next]_vars
    PROVE  HistoryInv'
<1>0. /\ NetInv /\ ExpectInv /\ NetTypes /\ ThreadTypes
      /\ DOMAIN loginMap = Clients /\ \A c \in Clients : DOMAIN loginMap[c] = Users
    BY DEF AnswerInv, NetInv, NetTypes
<1>1. /\ Len(tries) \in Nat /\ Len(tries) <= MaxTries /\ MaxTries \in Nat
      /\ \A k \in 1 .. Len(tries) : k \in Tries
      /\ \A k \in Tries : k \in 0 .. MaxTries
    <2>1. Len(tries) \in Nat /\ Len(tries) <= MaxTries /\ MaxTries \in Nat
        BY <1>0, LenProperties, BoundsAssumption DEF NetTypes
    <2> QED BY <2>1 DEF Tries
<1>2. CASE UNCHANGED <<mixed, late, shown, loginMap>>
    BY <1>2 DEF HistoryInv
<1>3. ASSUME NEW c \in Clients, NEW u \in Users, NEW right \in BOOLEAN, LoginReq(c, u, right)
      PROVE  HistoryInv'
    <2>1. /\ UNCHANGED <<mixed, shown>> /\ Len(tries) < MaxTries
          /\ late' = late \/ late' = late \cup {Len(tries) + 1}
          /\ loginMap' = [loginMap EXCEPT ![c] = [@ EXCEPT ![u] = NoEntry]]
        BY <1>3 DEF LoginReq, Forgotten
    <2>2. late' \subseteq Tries
        BY <1>1, <2>1 DEF HistoryInv, Tries
    <2>3. \A d \in Clients, v \in Users :
              loginMap'[d][v] = loginMap[d][v] \/ loginMap'[d][v] = NoEntry
        BY <1>0, <2>1
    <2> QED BY <2>1, <2>2, <2>3 DEF HistoryInv
<1>4. ASSUME NEW c \in Clients, LoginRes(c)
      PROVE  HistoryInv'
    <2>1. conn[c] # 0 /\ toClient[conn[c]] # <<>> /\ UNCHANGED <<mixed, late, shown>>
        BY <1>4 DEF LoginRes, histVars
    <2>2. PICK n \in Conns : n = conn[c]
        BY <1>0, <2>1, NumbersSuffice
    <2>3. PICK a : a = Head(toClient[n])
        OBVIOUS
    <2>4. a \in ToSet(toClient[n])
        <3>1. PICK S : toClient[n] \in Seq(S)
            BY <1>0 DEF NetTypes
        <3> QED BY <2>1, <2>2, <2>3, <3>1, ElementsOf
    <2>5. a.try \in Tries
        <3>1. a.try \in On(n)
            BY <2>4, OnIs
        <3> QED BY <1>0, <1>1, <3>1 DEF NetInv, OnInv
    <2>6. loginMap' = loginMap \/ loginMap' = [loginMap EXCEPT ![c] = [@ EXCEPT ![a.user] = a]]
        BY <1>4, <2>2, <2>3 DEF LoginRes
    <2>7. \A d \in Clients : \A u \in Users :
              loginMap'[d][u] = loginMap[d][u] \/ loginMap'[d][u] = a
        BY <1>0, <2>6
    <2> QED BY <2>1, <2>5, <2>7 DEF HistoryInv
<1>5. ASSUME NEW c \in Clients, LoginFound(c)
      PROVE  HistoryInv'
    <2>1. callPc[c] # "idle" /\ UNCHANGED <<mixed, late, loginMap>>
        BY <1>5 DEF LoginFound
    <2>2. PICK k : k = Current(c) /\ tries[k].user \in Users
        BY <1>0, <2>1, CurrentUser
    <2>0. PICK u \in Users : u = tries[k].user
        BY <2>2
    <2>3. /\ loginMap[c][u] # NoEntry
          /\ shown' = shown \/ shown' = [shown EXCEPT ![k] = loginMap[c][u].try]
        BY <1>5, <2>0, <2>2 DEF LoginFound
    <2>4. loginMap[c][u].try \in 0 .. MaxTries
        BY <1>1, <2>3 DEF HistoryInv
    <2>5. shown' \in [Tries -> 0 .. MaxTries]
        BY <2>3, <2>4 DEF HistoryInv
    <2> QED BY <2>1, <2>5 DEF HistoryInv
<1>6. ASSUME NEW n \in Conns, Receive(n)
      PROVE  HistoryInv'
    <2>1. toServer[n] # <<>> /\ UNCHANGED <<late, shown, loginMap>>
        BY <1>6 DEF Receive, clientVars
    <2>2. PICK k : k = Head(toServer[n])
        OBVIOUS
    <2>3. k \in sent
        <3>1. toServer[n] \in Seq(Nat)
            BY <1>0 DEF NetTypes
        <3> QED BY <2>1, <2>2, <3>1, ElementsOf DEF SentInv
    <2>4. \A j \in mixed' : \/ j \in mixed \/ j = k
                            \/ \E u \in Pool : pc[u] # "idle" /\ j = job[u].try
        BY <1>6, <2>2 DEF Receive
    <2>5. mixed' \subseteq Tries
        BY <1>1, <2>3, <2>4 DEF SentInv, HistoryInv
    <2> QED BY <2>1, <2>5 DEF HistoryInv
<1>7. ASSUME NEW c \in Clients, ClientStep(c),
             ~ LoginFound(c), ~ LoginRes(c),
             ~ \E u \in Users, right \in BOOLEAN : LoginReq(c, u, right)
      PROVE  UNCHANGED <<mixed, late, shown, loginMap>>
    BY <1>7 DEF ClientStep, Connect, ConnectionLost, AddUserReq, SendLogin, LoginGivenUp,
        histVars, clientVars
<1>8. ASSUME NEW t \in Pool, ThreadStep(t)
      PROVE  UNCHANGED <<mixed, late, shown, loginMap>>
    BY <1>8 DEF ThreadStep, Query, Read, CheckInserted, Store, Fetch, UseUser, ReadId, UseToken,
        Answer, histVars, clientVars
<1>9. CASE UNCHANGED vars
    BY <1>2, <1>9 DEF vars, histVars, clientVars
<1> QED BY <1>2, <1>3, <1>4, <1>5, <1>6, <1>7, <1>8, <1>9 DEF Next

\* Everything that TypeOK rests on.
TypeInv == AnswerInv /\ SentInv /\ OnceInv /\ DataInv /\ HistoryInv

LEMMA TypeInvInit == Init => TypeInv
<1> SUFFICES ASSUME Init PROVE TypeInv
    OBVIOUS
<1>1. Making = {} /\ DOMAIN tokens = {} /\ \A n \in Conns : ToSet(toServer[n]) = {}
    BY DEF Init, Making, ToSet
<1>2. \A n \in Conns : IsInjective(toServer[n])
    BY DEF Init, IsInjective
<1>3. SentInv /\ OnceInv
    BY <1>1, <1>2 DEF Init, SentInv, OnceInv
<1> QED BY <1>3, AnswerInvInit, DataInit, HistoryInit DEF TypeInv

LEMMA TypeInvStep == TypeInv /\ [Next]_vars => TypeInv'
<1> SUFFICES ASSUME TypeInv, [Next]_vars PROVE TypeInv'
    OBVIOUS
<1>1. /\ AnswerInv /\ SentInv /\ OnceInv /\ DataInv /\ HistoryInv
      /\ NetInv /\ NetTypes /\ ThreadTypes
    BY DEF TypeInv, AnswerInv, NetInv
<1>2. AnswerInv' /\ SentInv' /\ OnceInv' /\ HistoryInv'
    BY <1>1, AnswerInvStep, OnceStep, HistoryStep
<1>3. Len(tokens') \in 0 .. MaxTries
    <2>1. PICK S : tokens' \in Seq(S)
        BY <1>2 DEF AnswerInv, NetInv, ThreadTypes
    <2>2. /\ \A i \in DOMAIN tokens' : tokens'[i].try \in 1 .. Len(tries')
          /\ \A i, j \in DOMAIN tokens' : tokens'[i].try = tokens'[j].try => i = j
        BY <1>2 DEF SentInv, OnceInv
    <2>3. Len(tries') \in Nat /\ Len(tries') <= MaxTries
        <3>1. tries' \in Seq(Requests) /\ Len(tries') <= MaxTries
            BY <1>2 DEF AnswerInv, NetInv, NetTypes
        <3> QED BY <3>1, LenProperties
    <2>4. \A i \in DOMAIN tokens' : tokens'[i].try \in Tries
        BY <2>2, <2>3, BoundsAssumption DEF Tries
    <2>5. PICK s : s = tokens'
        OBVIOUS
    <2>6. Len(s) \in 0 .. MaxTries
        BY <2>1, <2>2, <2>4, <2>5, TokensFit
    <2> QED BY <2>5, <2>6
<1>4. DataInv'
    <2>1. ASSUME NEW c \in Clients, ClientStep(c)
          PROVE  UNCHANGED <<threadVars, mysqlVars, dbVars>>
        BY <2>1 DEF ClientStep, Connect, ConnectionLost, AddUserReq, LoginReq, SendLogin, LoginRes,
            LoginFound, LoginGivenUp
    <2>2. ASSUME NEW n \in Conns, Receive(n) PROVE DataInv'
        BY <1>1, <2>2, TypesReceive, DataReceive
    <2>3. ASSUME NEW t \in Pool, ThreadStep(t) PROVE DataInv'
        BY <1>1, <1>3, <2>3, DataThread
    <2>4. CASE UNCHANGED vars
        BY <1>1, <2>4, DataFrame DEF vars
    <2> QED BY <1>1, <2>1, <2>2, <2>3, <2>4, DataFrame DEF Next
<1> QED BY <1>2, <1>4 DEF TypeInv

\* The types of the authentication service, its connections and its clients; among
\* them that no more answers of the database are unread than there are readers, that
\* every id and token is one that the database gave out, and that the bounds suffice
\* (TypeOK).
THEOREM TypeCorrect == Spec => []TypeOK
<1>1. TypeInv => TypeOK
    <2> SUFFICES ASSUME TypeInv PROVE TypeOK
        OBVIOUS
    <2>1. /\ SentInv /\ DataInv /\ HistoryInv /\ NetTypes /\ ThreadTypes
        BY DEF TypeInv, AnswerInv, NetInv
    <2>2. /\ tries \in Seq([client : Clients, type : {"login", "add"}, user : Users,
                            right : BOOLEAN])
          /\ Len(tries) <= MaxTries
        BY <2>1 DEF NetTypes, Requests
    <2>3. \A k \in 1 .. Len(tries) : k \in Tries
        <3>1. Len(tries) \in Nat /\ Len(tries) <= MaxTries /\ MaxTries \in Nat
            BY <2>2, LenProperties, BoundsAssumption
        <3> QED BY <3>1 DEF Tries
    <2>4. sent \subseteq Tries
        BY <2>1, <2>3 DEF SentInv
    <2>5. mixed \subseteq Tries /\ late \subseteq Tries /\ shown \in [Tries -> 0..MaxTries]
        BY <2>1 DEF HistoryInv
    <2>6. conn \in [Clients -> {0} \cup Conns]
        BY <2>1, NumbersSuffice DEF NetTypes
    <2>7. accepted \in {0} \cup Conns
        <3>1. /\ accepted \in Nat /\ trouble \in Nat /\ trouble <= MaxTrouble
              /\ accepted <= Cardinality(Linked) + trouble /\ MaxTrouble \in Nat
              /\ conn \in [Clients -> Nat]
            BY <2>1, BoundsAssumption DEF NetTypes
        <3>2. /\ Cardinality(Linked) \in Nat /\ Cardinality(Clients) \in Nat
              /\ Cardinality(Linked) <= Cardinality(Clients)
            BY <3>1, LinkedFinite
        <3>3. accepted <= Cardinality(Clients) + MaxTrouble
            BY <3>1, <3>2
        <3> QED BY <3>1, <3>2, <3>3 DEF Conns
    <2>8. toServer \in [Conns -> Seq(Tries)]
        <3>1. ASSUME NEW n \in Conns PROVE toServer[n] \in Seq(Tries)
            <4>1. PICK s \in Seq(Nat) : s = toServer[n]
                BY <2>1 DEF NetTypes
            <4>2. Len(s) \in Nat /\ DOMAIN s = 1 .. Len(s)
                BY LenProperties
            <4>3. ToSet(s) \subseteq Tries
                BY <2>1, <2>4, <4>1 DEF SentInv
            <4>4. \A i \in 1 .. Len(s) : s[i] \in Tries
                BY <4>2, <4>3 DEF ToSet
            <4>5. s \in Seq(Tries)
                BY <4>1, <4>2, <4>4, SeqDef
            <4> QED BY <4>1, <4>5
        <3>2. toServer \in [Conns -> Seq(Nat)]
            BY <2>1 DEF NetTypes
        <3> QED BY <3>1, <3>2
    <2>9. /\ callPc \in [Clients -> {"idle", "send", "wait"}]
          /\ trouble \in 0..MaxTrouble
        BY <2>1 DEF NetTypes
    <2>10. /\ pc \in [Pool -> {"idle", "query", "read", "check", "store", "fetch", "use",
                               "id", "answer"}]
           /\ stmt \in [Pool -> {"none", "user", "insert", "token", "delete", "add"}]
           /\ status \in {"ready", "result"}
           /\ Len(inFlight) <= Cardinality({t \in Pool : pc[t] = "read"})
        BY <2>1 DEF ThreadTypes, Readers
    <2>11. /\ accounts \subseteq Users /\ valid \subseteq Pool
           /\ insertId \in 0..(MaxTries + Cardinality(Users))
        BY <2>1 DEF DataInv, Ids
    <2>12. ASSUME NEW t \in Pool
           PROVE  /\ work[t].role \in Users \cup {Garbage} /\ work[t].token \in 0..MaxTries
                  /\ stmt[t] # "none" <=> pc[t] # "idle"
        BY <2>1 DEF ThreadTypes, DataInv
    <2> QED BY <2>2, <2>4, <2>5, <2>6, <2>7, <2>8, <2>9, <2>10, <2>11, <2>12 DEF TypeOK
<1> QED
    BY <1>1, TypeInvInit, TypeInvStep, PTL DEF Spec
=============================================================================
