------------------------- MODULE ServiceProxyProofs -------------------------
(* What is proved of ServiceProxy, for every number of instances, addresses, *)
(* clients, requests and lost connections.                                   *)
EXTENDS ServiceProxy, SequenceTheorems, FiniteSetTheorems, WellFoundedInduction,
        TLAPS

-----------------------------------------------------------------------------
(* The inductive invariant, in parts. *)

\* TypeOK, and what bounds its counters.
TypeInv ==
    /\ TypeOK
    /\ clientMap \in Seq(Instances)
    /\ lastIdx < Len(clientMap) \/ lastIdx = 0
    /\ \A i \in Instances : waits[i] <= Len(asker)

\* A handle that is about to forward has a request of its client to forward.
OwnInv ==
    \A a \in Addresses : pc[a] # "read" => \E r \in DOMAIN asker : asker[r] = handle[a]

\* The messages that are with instance i or on the way to it or back.
Flight(i) == ToSet(toInstance[i]) \cup ToSet(toProxy[i])
                \cup ({replying[i]} \ {NoReply})

\* A message in flight carries the address of the handle of its client, which
\* is still there.
HomeInv ==
    \A i \in Instances : \A m \in Flight(i) :
        /\ m.id \in Addresses /\ m.req \in DOMAIN asker
        /\ handle[m.id] = asker[m.req]

\* A handle that is about to forward has nothing in flight.
BusyInv ==
    \A a \in Addresses : pc[a] # "read" =>
        \A i \in Instances : \A m \in Flight(i) : m.id # a

\* An answer given out is about a request, and went home.
AnswersInv ==
    \A n \in DOMAIN answers :
        answers[n].req \in DOMAIN asker /\ answers[n].client = asker[answers[n].req]

\* Steps of the round robin from the proxy used last to place p0 of the list
\* (from 0), without the last one.
Ahead(p0) == IF p0 > lastIdx THEN p0 - lastIdx - 1 ELSE p0 + Len(clientMap) - lastIdx - 1

\* What a connected proxy has waited and what is still ahead of it make less
\* than one round.
TurnInv ==
    /\ \A i \in Instances \ up : waits[i] = 0
    /\ \A p \in DOMAIN clientMap :
          clientMap[p] \in up => waits[clientMap[p]] + Ahead(p - 1) < Len(clientMap)

\* These hold whatever the clients do, ...
BaseInv == TypeInv /\ OwnInv /\ TurnInv

\* ... and these when they are patient.
IInv == BaseInv /\ HomeInv /\ BusyInv /\ AnswersInv

-----------------------------------------------------------------------------
(* Operators. *)

LEMMA MaxIsIn ==
    ASSUME NEW n \in Nat, NEW I \in SUBSET (1 .. n), I # {}
    PROVE  Max(I) \in I
<1> DEFINE T == {(x + 1) .. n : x \in I}
           S == 1 .. n
<1>1. T \subseteq FiniteSubsetsOf(S) /\ T # {}
    <2>1. IsFiniteSet(S)
        BY FS_Interval
    <2>2. FiniteSubsetsOf(S) = SUBSET S
        <3> HIDE DEF S
        <3> QED
            BY <2>1, FS_FiniteSubsetsOfFinite
    <2>3. T \subseteq SUBSET S
        OBVIOUS
    <2> QED
        BY <2>2, <2>3
<1>2. PICK t \in T : \A u \in T : <<u, t>> \notin StrictSubsetOrdering(S)
    <2> HIDE DEF T, S
    <2> QED
        BY <1>1, FS_StrictSubsetOrderingWellFounded, WFMin
<1>3. PICK x \in I : t = (x + 1) .. n
    BY <1>2
<1>4. \A y \in I : x >= y
    <2> SUFFICES ASSUME NEW y \in I, x < y
                 PROVE  FALSE
        OBVIOUS
    <2>1. (y + 1) .. n \in T /\ t \in T
        BY <1>2
    <2>2. (y + 1) .. n \subseteq t /\ t \subseteq S /\ (y + 1) .. n \subseteq S
        BY <1>3
    <2>3. y \in t /\ y \notin (y + 1) .. n
        BY <1>3
    <2>4. <<(y + 1) .. n, t>> \in StrictSubsetOrdering(S)
        BY <2>2, <2>3 DEF StrictSubsetOrdering
    <2> QED
        BY <1>2, <2>1, <2>4
<1> QED
    BY <1>4 DEF Max

\* The request a busy handle forwards is one of its client.
LEMMA CurrentIsOwn ==
    ASSUME TypeInv, NEW a \in Addresses, NEW r \in DOMAIN asker, asker[r] = handle[a]
    PROVE  Current(a) \in DOMAIN asker /\ asker[Current(a)] = handle[a]
<1> DEFINE I == {n \in 1 .. Len(asker) : asker[n] = handle[a]}
<1>1. Len(asker) \in Nat /\ DOMAIN asker = 1 .. Len(asker)
    BY LenProperties DEF TypeInv, TypeOK
<1>2. I \in SUBSET (1 .. Len(asker)) /\ I # {}
    BY <1>1
<1>3. Max(I) \in I
    <2> HIDE DEF I
    <2> QED
        BY <1>1, <1>2, MaxIsIn
<1>4. Current(a) = Max(I)
    BY <1>2 DEF Current, SelectLastInSeq
<1> QED
    BY <1>1, <1>3, <1>4

LEMMA CurrentIsRequest ==
    ASSUME TypeInv, OwnInv, NEW a \in Addresses, pc[a] # "read"
    PROVE  Current(a) \in DOMAIN asker /\ asker[Current(a)] = handle[a] /\ Current(a) \in Requests
<1>1. PICK r \in DOMAIN asker : asker[r] = handle[a]
    BY DEF OwnInv
<1>2. DOMAIN asker = 1 .. Len(asker) /\ Len(asker) \in Nat /\ Len(asker) <= MaxRequests
    BY LenProperties DEF TypeInv, TypeOK
<1>3. DOMAIN asker \subseteq Requests
    BY <1>2, BoundsAssumption DEF Requests
<1> QED
    BY <1>1, <1>3, CurrentIsOwn

LEMMA RemainderOnce ==
    ASSUME NEW L \in Nat \ {0}, NEW x \in 0 .. 2 * L - 1
    PROVE  x % L = IF x < L THEN x ELSE x - L
OBVIOUS

\* The place the round robin takes is one of the list.
LEMMA TriedPlace ==
    ASSUME TypeInv, NEW n \in DOMAIN clientMap
    PROVE  /\ Len(clientMap) \in Nat \ {0} /\ DOMAIN clientMap = 1 .. Len(clientMap)
           /\ lastIdx \in 0 .. Len(clientMap) - 1
           /\ Tried[n] = IF lastIdx + n < Len(clientMap) THEN lastIdx + n + 1
                         ELSE lastIdx + n - Len(clientMap) + 1
           /\ Tried[n] \in DOMAIN clientMap
<1>1. Len(clientMap) \in Nat \ {0} /\ DOMAIN clientMap = 1 .. Len(clientMap)
    BY LenProperties DEF TypeInv
<1>2. lastIdx \in 0 .. Len(clientMap) - 1
    BY <1>1 DEF TypeInv, TypeOK
<1> DEFINE x == lastIdx + n
           L == Len(clientMap)
<1>3. L \in Nat \ {0} /\ x \in 0 .. 2 * L - 1
    BY <1>1, <1>2
<1>4. x % L = IF x < L THEN x ELSE x - L
    <2> HIDE DEF x, L
    <2> QED
        BY <1>3, RemainderOnce
<1>5. Tried[n] = (x % L) + 1
    BY DEF Tried
<1>6. Tried[n] = IF x < L THEN x + 1 ELSE x - L + 1
    <2> HIDE DEF x, L
    <2> QED
        BY <1>3, <1>4, <1>5
<1> QED
    BY <1>1, <1>2, <1>6

\* What Append, Tail and Head do to the elements of a sequence.
LEMMA ElementsOf ==
    ASSUME NEW S, NEW s \in Seq(S)
    PROVE  /\ ToSet(s) \subseteq S
           /\ s # <<>> => /\ Tail(s) \in Seq(S) /\ ToSet(Tail(s)) \subseteq ToSet(s)
                          /\ Head(s) \in ToSet(s)
           /\ \A e \in S : /\ Append(s, e) \in Seq(S)
                           /\ ToSet(Append(s, e)) = ToSet(s) \cup {e}
<1>1. Len(s) \in Nat /\ DOMAIN s = 1 .. Len(s) /\ \A n \in 1 .. Len(s) : s[n] \in S
    BY LenProperties, ElementOfSeq
<1>2. ASSUME s # <<>>
      PROVE  /\ Tail(s) \in Seq(S) /\ ToSet(Tail(s)) \subseteq ToSet(s)
             /\ Head(s) \in ToSet(s)
    <2>1. /\ Tail(s) \in Seq(S) /\ Len(Tail(s)) = Len(s) - 1 /\ Len(s) # 0
          /\ \A n \in 1 .. Len(Tail(s)) : Tail(s)[n] = s[n + 1]
        BY <1>2, HeadTailProperties, EmptySeq
    <2>2. DOMAIN Tail(s) = 1 .. Len(Tail(s))
        BY <2>1, LenProperties
    <2>3. Head(s) = s[1]
        BY <1>2
    <2> QED
        BY <1>1, <2>1, <2>2, <2>3 DEF ToSet
<1>3. ASSUME NEW e \in S
      PROVE  Append(s, e) \in Seq(S) /\ ToSet(Append(s, e)) = ToSet(s) \cup {e}
    <2>1. /\ Append(s, e) \in Seq(S) /\ Len(Append(s, e)) = Len(s) + 1
          /\ \A n \in 1 .. Len(s) : Append(s, e)[n] = s[n]
          /\ Append(s, e)[Len(s) + 1] = e
        BY AppendProperties
    <2>2. DOMAIN Append(s, e) = 1 .. Len(s) + 1
        BY <2>1, LenProperties
    <2> QED
        BY <1>1, <2>1, <2>2 DEF ToSet
<1>4. ToSet(s) \subseteq S
    BY <1>1 DEF ToSet
<1> QED
    BY <1>2, <1>3, <1>4

-----------------------------------------------------------------------------
(* Types. *)

LEMMA TypeInit == Init => TypeInv
<1> SUFFICES ASSUME Init PROVE TypeInv
    OBVIOUS
<1> USE DEF Init
<1>1. Len(clientMap) = 0 /\ Len(asker) = 0 /\ ToSet(clientMap) = {}
    BY DEF ToSet
<1>2. IsInjective(clientMap)
    BY DEF IsInjective
<1>3. /\ asker \in Seq(Clients) /\ clientMap \in Seq(Instances)
      /\ answers \in Seq([req : Requests, client : Clients \cup {0}])
    OBVIOUS
<1>4. /\ toInstance \in [Instances -> Seq(Messages)] /\ toProxy \in [Instances -> Seq(Messages)]
    OBVIOUS
<1>5. \A n \in Nat : 0 \in 0 .. n
    OBVIOUS
<1> QED
    BY <1>1, <1>2, <1>3, <1>4, <1>5, BoundsAssumption DEF TypeInv, TypeOK

LEMMA TypeStep == TypeInv /\ OwnInv /\ [Next]_vars => TypeInv'
<1> SUFFICES ASSUME TypeInv, OwnInv, [Next]_vars
             PROVE  TypeInv'
    OBVIOUS
<1> USE DEF TypeInv, TypeOK, listVars, connVars, clientVars, wireVars
<1>1. ASSUME NEW i \in Instances, Register(i)
      PROVE  TypeInv'
    BY <1>1 DEF Register
<1>2. ASSUME NEW i \in Instances, CreateProxy(i)
      PROVE  TypeInv'
    <2>1. /\ clientMap' \in Seq(Instances) /\ ToSet(clientMap') = ToSet(clientMap) \cup {i}
          /\ Len(clientMap') = Len(clientMap) + 1 /\ Len(clientMap) \in Nat
        BY <1>2, ElementsOf, AppendProperties, LenProperties DEF CreateProxy
    <2>2. IsInjective(clientMap')
        <3>1. DOMAIN clientMap = 1 .. Len(clientMap) /\ DOMAIN clientMap' = 1 .. Len(clientMap) + 1
            BY <2>1, LenProperties
        <3>2. clientMap'[Len(clientMap) + 1] = i /\ \A n \in DOMAIN clientMap : clientMap'[n] = clientMap[n]
            BY <1>2, <3>1, AppendProperties DEF CreateProxy
        <3>3. \A n \in DOMAIN clientMap : clientMap[n] # i
            BY <1>2 DEF CreateProxy, IsFound, ToSet
        <3>4. \A x, y \in DOMAIN clientMap : clientMap[x] = clientMap[y] => x = y
            BY DEF IsInjective
        <3>5. \A x, y \in DOMAIN clientMap' : clientMap'[x] = clientMap'[y] => x = y
            <4> HIDE DEF TypeInv, TypeOK
            <4>1. \A x \in DOMAIN clientMap' : x \in DOMAIN clientMap \/ x = Len(clientMap) + 1
                BY <2>1, <3>1
            <4>2. Len(clientMap) + 1 \notin DOMAIN clientMap
                BY <2>1, <3>1
            <4> QED
                BY <3>2, <3>3, <3>4, <4>1, <4>2
        <3> QED
            BY <3>5 DEF IsInjective
    <2>3. Len(asker) \in Nat /\ MaxRequests \in Nat
        BY LenProperties, BoundsAssumption
    <2>4. waits' \in [Instances -> 0 .. MaxRequests] /\ \A j \in Instances : waits'[j] <= Len(asker)
        BY <1>2, <2>3 DEF CreateProxy
    <2>5. lastIdx' = 0 /\ 0 \in 0 .. Len(clientMap')
        BY <1>2, <2>1 DEF CreateProxy
    <2>6. /\ ToSet(clientMap') \subseteq registered' /\ bev' \subseteq ToSet(clientMap')
          /\ up' \subseteq bev' /\ torn' \subseteq bev'
        BY <1>2, <2>1 DEF CreateProxy
    <2> QED
        BY <1>2, <2>1, <2>2, <2>4, <2>5, <2>6 DEF CreateProxy
<1>3. ASSUME NEW i \in Instances, Dial(i) \/ ProxyUp(i)
      PROVE  TypeInv'
    <2>1. CASE Dial(i)
        BY <2>1 DEF Dial, IsFound
    <2>2. CASE ProxyUp(i)
        BY <2>2 DEF ProxyUp
    <2> QED
        BY <1>3, <2>1, <2>2
<1>4. ASSUME NEW i \in Instances, ProxyDown(i)
      PROVE  TypeInv'
    <2>1. toInstance' \in [Instances -> Seq(Messages)] /\ toProxy' \in [Instances -> Seq(Messages)]
        BY <1>4 DEF ProxyDown
    <2>2. InTransit(i) \subseteq Requests
        <3>1. ToSet(toInstance[i]) \subseteq Messages /\ ToSet(toProxy[i]) \subseteq Messages
            BY ElementsOf
        <3> QED
            BY <3>1 DEF InTransit, Messages
    <2>6. {Current(a) : a \in {b \in Addresses : Between(b, i)}} \subseteq Requests
        BY CurrentIsRequest DEF Between
    <2>7. lost' \subseteq Requests
        BY <1>4, <2>2, <2>6 DEF ProxyDown
    <2>8. bev' \subseteq ToSet(clientMap') /\ up' \subseteq bev' /\ torn' \subseteq bev'
        BY <1>4 DEF ProxyDown
    <2>3. downs' \in 0 .. MaxDowns
        BY <1>4, BoundsAssumption DEF ProxyDown
    <2>4. Len(asker) \in Nat /\ MaxRequests \in Nat
        BY LenProperties, BoundsAssumption
    <2>5. waits' \in [Instances -> 0 .. MaxRequests] /\ \A j \in Instances : waits'[j] <= Len(asker)
        BY <1>4, <2>4 DEF ProxyDown
    <2> QED
        BY <1>4, <2>1, <2>3, <2>5, <2>7, <2>8 DEF ProxyDown
<1>5. ASSUME NEW i \in Instances, Serve(i)
      PROVE  TypeInv'
    <2>1. Tail(toInstance[i]) \in Seq(Messages) /\ Head(toInstance[i]) \in Messages
        BY <1>5, ElementsOf DEF Serve
    <2>2. Append(toProxy[i], Head(toInstance[i])) \in Seq(Messages)
        BY <2>1, ElementsOf
    <2> QED
        BY <1>5, <2>1, <2>2 DEF Serve
<1>6. ASSUME NEW i \in Instances, ReplyBegin(i)
      PROVE  TypeInv'
    <2>1. Tail(toProxy[i]) \in Seq(Messages) /\ Head(toProxy[i]) \in Messages
        BY <1>6, ElementsOf DEF ReplyBegin
    <2> QED
        BY <1>6, <2>1 DEF ReplyBegin
<1>7. ASSUME NEW i \in Instances, ReplyEnd(i)
      PROVE  TypeInv'
    <2>1. replying[i] \in Messages
        BY <1>7 DEF ReplyEnd
    <2>2. [req |-> replying[i].req, client |-> handle[replying[i].id]]
              \in [req : Requests, client : Clients \cup {0}]
        BY <2>1 DEF Messages
    <2>3. answers' \in Seq([req : Requests, client : Clients \cup {0}])
        BY <1>7, <2>2, ElementsOf DEF ReplyEnd
    <2> QED
        BY <1>7, <2>3 DEF ReplyEnd
<1>8. ASSUME NEW a \in Addresses, Connect(a)
      PROVE  TypeInv'
    <2>1. clientCount' \in 0 .. MaxClients /\ clientCount + 1 \in Clients
        BY <1>8, BoundsAssumption DEF Connect, Clients
    <2> QED
        BY <1>8, <2>1 DEF Connect
<1>9. ASSUME NEW a \in Addresses, Leave(a)
      PROVE  TypeInv'
    BY <1>9 DEF Leave
<1>10. ASSUME NEW a \in Addresses, Route(a)
      PROVE  TypeInv'
    <2>1. handle[a] \in Clients
        BY <1>10 DEF Route
    <2>2. asker' \in Seq(Clients) /\ Len(asker') = Len(asker) + 1 /\ Len(asker) \in Nat
        BY <1>10, <2>1, AppendProperties, LenProperties DEF Route
    <2>3. Len(asker') <= MaxRequests /\ Len(asker) + 1 \in Requests
        BY <1>10, <2>2, BoundsAssumption DEF Route, Requests
    <2>4. CASE FirstTry = {} /\ lost' = lost \cup {Len(asker) + 1}
                /\ UNCHANGED <<lastIdx, pc, holder, chosen, clientCbs, waits>>
        <3>1. \A i \in Instances : waits'[i] <= Len(asker')
            <4>1. \A i \in Instances : waits[i] \in 0 .. MaxRequests /\ waits[i] <= Len(asker)
                OBVIOUS
            <4> HIDE DEF TypeInv, TypeOK
            <4> QED
                BY <2>2, <2>4, <4>1, BoundsAssumption
        <3> QED
            BY <1>10, <2>2, <2>3, <2>4, <3>1 DEF Route
    <2>5. CASE /\ \E n \in FirstTry :
                    /\ lastIdx' = n - 1
                    /\ chosen' = [chosen EXCEPT ![a] = clientMap[n]]
                    /\ clientCbs' = [clientCbs EXCEPT ![a] = clientMap[n]]
                    /\ waits' = [i \in Instances |->
                                    IF i \in up \ {clientMap[n]} THEN waits[i] + 1 ELSE 0]
               /\ holder' = a
               /\ pc' = [pc EXCEPT ![a] = "reg"]
               /\ UNCHANGED lost
        <3>1. PICK n \in FirstTry :
                    /\ lastIdx' = n - 1
                    /\ chosen' = [chosen EXCEPT ![a] = clientMap[n]]
                    /\ clientCbs' = [clientCbs EXCEPT ![a] = clientMap[n]]
                    /\ waits' = [i \in Instances |->
                                    IF i \in up \ {clientMap[n]} THEN waits[i] + 1 ELSE 0]
            BY <2>5
        <3>2. n \in DOMAIN clientMap /\ DOMAIN clientMap = 1 .. Len(clientMap)
              /\ Len(clientMap) \in Nat
            BY TriedPlace DEF FirstTry
        <3>3. clientMap[n] \in Instances
            BY <3>2, ElementOfSeq
        <3>4. lastIdx' \in 0 .. Len(clientMap) /\ lastIdx' < Len(clientMap)
            <4>1. lastIdx' = n - 1
                BY <3>1
            <4> HIDE DEF TypeInv, TypeOK
            <4> QED
                BY <3>2, <4>1
        <3>5. ASSUME NEW i \in Instances
              PROVE  waits'[i] \in 0 .. MaxRequests /\ waits'[i] <= Len(asker) + 1
            <4>1. waits'[i] = waits[i] + 1 \/ waits'[i] = 0
                BY <3>1
            <4>2. waits[i] \in 0 .. MaxRequests /\ waits[i] <= Len(asker)
                OBVIOUS
            <4> HIDE DEF TypeInv, TypeOK
            <4> QED
                BY <2>2, <2>3, <4>1, <4>2, BoundsAssumption
        <3>6. waits' \in [Instances -> 0 .. MaxRequests]
            BY <3>1, <3>5
        <3> QED
            BY <1>10, <2>2, <2>3, <2>5, <3>1, <3>3, <3>4, <3>5, <3>6 DEF Route
    <2> QED
        BY <1>10, <2>4, <2>5 DEF Route
<1>11. ASSUME NEW a \in Addresses, RegEvent(a)
      PROVE  TypeInv'
    BY <1>11 DEF RegEvent, CallbacksAfterReg
<1>12. ASSUME NEW a \in Addresses, WritePart(a) \/ WriteFails(a)
      PROVE  TypeInv'
    <2>1. CASE WritePart(a)
        BY <2>1 DEF WritePart
    <2>2. CASE WriteFails(a)
        <3>1. Current(a) \in Requests
            BY <2>2, CurrentIsRequest DEF WriteFails
        <3> QED
            BY <2>2, <3>1 DEF WriteFails, Return
    <2> QED
        BY <1>12, <2>1, <2>2
<1>13. ASSUME NEW a \in Addresses, WriteBody(a)
      PROVE  TypeInv'
    <2>1. Current(a) \in Requests
        BY <1>13, CurrentIsRequest DEF WriteBody
    <2>2. [id |-> MsgId(a), req |-> Current(a)] \in Messages
        BY <2>1 DEF Messages, MsgId
    <2>3. \A i \in Instances :
              Append(toInstance[i], [id |-> MsgId(a), req |-> Current(a)]) \in Seq(Messages)
        BY <2>2, ElementsOf
    <2>4. toInstance' \in [Instances -> Seq(Messages)]
        <3>1. CASE UNCHANGED toInstance
            BY <3>1
        <3>2. CASE toInstance' = [toInstance EXCEPT ![chosen[a]] =
                                     Append(@, [id |-> MsgId(a), req |-> Current(a)])]
            BY <2>3, <3>2
        <3> QED
            BY <1>13, <3>1, <3>2 DEF WriteBody
    <2>5. stray' \subseteq Requests
        BY <1>13, <2>1 DEF WriteBody
    <2> QED
        BY <1>13, <2>4, <2>5 DEF WriteBody, Return
<1>14. CASE UNCHANGED vars
    BY <1>14 DEF vars
<1> QED
    BY <1>1, <1>2, <1>3, <1>4, <1>5, <1>6, <1>7, <1>8, <1>9, <1>10, <1>11, <1>12, <1>13,
       <1>14
    DEF Next, ProxyStep, HandleStep

-----------------------------------------------------------------------------
(* What is in flight. *)

\* The steps of connections and instances add no message.
LEMMA FlightShrinks ==
    ASSUME TypeInv, NEW i \in Instances, ProxyDown(i) \/ ProxyStep(i), NEW j \in Instances
    PROVE  Flight(j)' \subseteq Flight(j)
<1>1. toInstance[j] \in Seq(Messages) /\ toProxy[j] \in Seq(Messages)
    BY DEF TypeInv, TypeOK
<1>2. toInstance \in [Instances -> Seq(Messages)] /\ toProxy \in [Instances -> Seq(Messages)]
      /\ replying \in [Instances -> Messages \cup {NoReply}]
    BY DEF TypeInv, TypeOK
<1>3. CASE j # i
    <2>1. /\ toInstance'[j] = toInstance[j] /\ toProxy'[j] = toProxy[j]
          /\ replying'[j] = replying[j]
        BY <1>2, <1>3 DEF ProxyDown, ProxyStep, Serve, ReplyBegin, ReplyEnd, wireVars
    <2> QED
        BY <2>1 DEF Flight
<1>4. CASE j = i /\ ProxyDown(i)
    BY <1>2, <1>4 DEF ProxyDown, Flight, ToSet
<1>5. CASE j = i /\ Serve(i)
    <2>1. /\ ToSet(Tail(toInstance[i])) \subseteq ToSet(toInstance[i])
          /\ Head(toInstance[i]) \in ToSet(toInstance[i]) /\ Head(toInstance[i]) \in Messages
        BY <1>1, <1>5, ElementsOf DEF Serve
    <2>2. ToSet(Append(toProxy[i], Head(toInstance[i]))) = ToSet(toProxy[i]) \cup {Head(toInstance[i])}
        BY <1>1, <1>5, <2>1, ElementsOf
    <2> QED
        BY <1>2, <1>5, <2>1, <2>2 DEF Serve, Flight
<1>6. CASE j = i /\ ReplyBegin(i)
    <2>1. /\ ToSet(Tail(toProxy[i])) \subseteq ToSet(toProxy[i])
          /\ Head(toProxy[i]) \in ToSet(toProxy[i])
        BY <1>1, <1>6, ElementsOf DEF ReplyBegin
    <2> QED
        BY <1>2, <1>6, <2>1 DEF ReplyBegin, Flight
<1>7. CASE j = i /\ ReplyEnd(i)
    BY <1>2, <1>7 DEF ReplyEnd, Flight, wireVars
<1> QED
    BY <1>3, <1>4, <1>5, <1>6, <1>7 DEF ProxyStep

\* A frame that is complete adds one message at most, to the proxy that was chosen.
LEMMA FlightGrows ==
    ASSUME TypeInv, OwnInv, NEW a \in Addresses, WriteBody(a), NEW j \in Instances
    PROVE  /\ j # chosen[a] => Flight(j)' = Flight(j)
           /\ Flight(j)' \subseteq Flight(j) \cup {[id |-> a, req |-> Current(a)]}
<1> DEFINE m == [id |-> a, req |-> Current(a)]
<1>1. toInstance \in [Instances -> Seq(Messages)]
    BY DEF TypeInv, TypeOK
<1>2. m \in Messages
    <2>1. Current(a) \in Requests
        BY CurrentIsRequest DEF WriteBody
    <2> QED
        BY <2>1 DEF Messages
<1>3. ToSet(Append(toInstance[j], m)) = ToSet(toInstance[j]) \cup {m}
    BY <1>1, <1>2, ElementsOf
<1>4. toInstance'[j] = toInstance[j] \/ (j = chosen[a] /\ toInstance'[j] = Append(toInstance[j], m))
    BY <1>1 DEF WriteBody, MsgId
<1> QED
    BY <1>3, <1>4 DEF WriteBody, Return, Flight

\* A message in flight whose request is of client c keeps c waiting.
LEMMA FlightAwaits ==
    ASSUME TypeInv, HomeInv, NEW i \in Instances, NEW m \in Flight(i)
    PROVE  Awaits(asker[m.req])
<1>1. m.req \in DOMAIN asker /\ DOMAIN asker = 1 .. Len(asker)
    BY LenProperties DEF HomeInv, TypeInv, TypeOK
<1>2. m.req \in (InTransit(i) \cup {replying[i].req}) \ {0}
    BY <1>1 DEF Flight, InTransit
<1> QED
    BY <1>2 DEF Awaits

-----------------------------------------------------------------------------
(* The invariant. *)

(* First what holds whatever clients do. *)

LEMMA BaseInit == Init => BaseInv
<1>1. Init => OwnInv
    BY DEF Init, OwnInv
<1>2. Init => TurnInv
    BY DEF Init, TurnInv
<1> QED
    BY <1>1, <1>2, TypeInit DEF BaseInv

\* A request is noted with its client.
LEMMA RouteAsks ==
    ASSUME TypeInv, NEW a \in Addresses, Route(a)
    PROVE  /\ \A n \in DOMAIN asker : n \in DOMAIN asker' /\ asker'[n] = asker[n]
           /\ \E n \in DOMAIN asker' : asker'[n] = handle[a]
           /\ UNCHANGED handle /\ \A b \in Addresses \ {a} : pc'[b] = pc[b]
<1>1. handle[a] \in Clients /\ asker \in Seq(Clients) /\ asker' = Append(asker, handle[a])
    BY DEF Route, TypeInv, TypeOK
<1>2. /\ asker' \in Seq(Clients) /\ Len(asker') = Len(asker) + 1 /\ Len(asker) \in Nat
      /\ \A n \in 1 .. Len(asker) : asker'[n] = asker[n]
      /\ asker'[Len(asker) + 1] = handle[a] /\ DOMAIN asker = 1 .. Len(asker)
    BY <1>1, AppendProperties, LenProperties
<1>3. DOMAIN asker' = 1 .. Len(asker) + 1
    BY <1>2, LenProperties
<1>4. UNCHANGED handle /\ \A b \in Addresses \ {a} : pc'[b] = pc[b]
    BY DEF Route, TypeInv, TypeOK
<1> QED
    BY <1>2, <1>3, <1>4

LEMMA OwnStep == TypeInv /\ OwnInv /\ [Next]_vars => OwnInv'
<1> SUFFICES ASSUME TypeInv, OwnInv, [Next]_vars
             PROVE  OwnInv'
    OBVIOUS
<1> USE DEF listVars, connVars, clientVars, wireVars
<1>1. CASE \E i \in Instances : \/ Register(i) \/ CreateProxy(i)
                                \/ Dial(i) \/ ProxyUp(i) \/ ProxyDown(i) \/ ProxyStep(i)
    <2>1. UNCHANGED <<handle, asker, pc>>
        BY <1>1 DEF Register, CreateProxy, Dial, ProxyUp, ProxyDown, ProxyStep, Serve, ReplyBegin, ReplyEnd
    <2> QED
        BY <2>1 DEF OwnInv
<1>2. ASSUME NEW a \in Addresses, Connect(a)
      PROVE  OwnInv'
    <2>1. \A n \in DOMAIN asker : asker[n] # 0
        <3>1. DOMAIN asker = 1 .. Len(asker) /\ \A n \in 1 .. Len(asker) : asker[n] \in Clients
            BY LenProperties, ElementOfSeq DEF TypeInv, TypeOK
        <3> QED
            BY <3>1 DEF Clients
    <2>2. UNCHANGED <<asker, pc>> /\ \A b \in Addresses : handle[b] # 0 => handle'[b] = handle[b]
        BY <1>2 DEF Connect, TypeInv, TypeOK
    <2> QED
        BY <2>1, <2>2 DEF OwnInv
<1>3. ASSUME NEW a \in Addresses, Leave(a)
      PROVE  OwnInv'
    BY <1>3 DEF Leave, TypeInv, TypeOK, OwnInv
<1>4. ASSUME NEW a \in Addresses, Route(a)
      PROVE  OwnInv'
    BY <1>4, RouteAsks DEF OwnInv
<1>5. ASSUME NEW a \in Addresses, HandleStep(a)
      PROVE  OwnInv'
    BY <1>5 DEF HandleStep, RegEvent, WritePart, WriteBody, WriteFails, Return, TypeInv, TypeOK, OwnInv
<1>6. CASE UNCHANGED vars
    BY <1>6 DEF vars, OwnInv
<1> QED
    BY <1>1, <1>2, <1>3, <1>4, <1>5, <1>6 DEF Next

LEMMA AheadType ==
    ASSUME TypeInv, NEW p \in DOMAIN clientMap
    PROVE  Ahead(p - 1) \in 0 .. Len(clientMap) - 1
<1>1. Len(clientMap) \in Nat \ {0} /\ p \in 1 .. Len(clientMap) /\ lastIdx \in 0 .. Len(clientMap) - 1
    BY TriedPlace
<1> QED
    BY <1>1 DEF Ahead

\* A request takes the turn of the proxy it is forwarded to, and brings every
\* other connected proxy nearer to its own.
LEMMA TurnTaken ==
    ASSUME TypeInv, TurnInv, NEW n \in FirstTry,
           lastIdx' = n - 1, UNCHANGED <<clientMap, up>>,
           waits' = [i \in Instances |->
                        IF i \in up \ {clientMap[n]} THEN waits[i] + 1 ELSE 0]
    PROVE  TurnInv'
<1> DEFINE L == Len(clientMap)
<1>1. PICK k \in DOMAIN clientMap :
          /\ n = Tried[k] /\ clientMap[n] \in up
          /\ \A j \in 1 .. k - 1 : clientMap[Tried[j]] \notin up
    BY DEF FirstTry
<1>2. /\ L \in Nat \ {0} /\ DOMAIN clientMap = 1 .. L /\ lastIdx \in 0 .. L - 1
      /\ \A j \in 1 .. L : Tried[j] = IF lastIdx + j < L THEN lastIdx + j + 1
                                     ELSE lastIdx + j - L + 1
      /\ n \in 1 .. L /\ k \in 1 .. L
    BY <1>1, TriedPlace
<1>3. \A i \in Instances \ up' : waits'[i] = 0
    OBVIOUS
<1>4. ASSUME NEW p \in DOMAIN clientMap, clientMap[p] \in up
      PROVE  waits'[clientMap[p]] + Ahead(p - 1)' < L
    <2>1. clientMap[p] \in Instances /\ waits[clientMap[p]] \in Nat
        BY <1>2, ElementOfSeq DEF TypeInv, TypeOK
    <2>2. Ahead(p - 1)' = IF p > n THEN p - n - 1 ELSE p + L - n - 1
        BY <1>2 DEF Ahead
    <2>3. CASE p = n
        <3>1. waits'[clientMap[p]] = 0
            BY <2>1, <2>3
        <3> QED
            BY <1>2, <2>2, <2>3, <3>1
    <2>4. CASE p # n
        <3>1. waits'[clientMap[p]] = waits[clientMap[p]] + 1
            <4>1. clientMap[p] # clientMap[n]
                BY <1>2, <2>4 DEF TypeInv, TypeOK, IsInjective
            <4> QED
                BY <1>4, <2>1, <4>1
        <3>2. Ahead(p - 1) \in 0 .. L - 1
            BY AheadType
        <3>3. PICK q : q = Ahead(p - 1) + 1
            OBVIOUS
        <3>4. /\ q \in 1 .. L /\ p \in 1 .. L
              /\ q = IF p - 1 > lastIdx THEN p - 1 - lastIdx ELSE p - 1 + L - lastIdx
            <4>1. q \in 1 .. L
                BY <1>2, <3>2, <3>3
            <4>2. q = IF p - 1 > lastIdx THEN p - 1 - lastIdx - 1 + 1
                      ELSE p - 1 + L - lastIdx - 1 + 1
                BY <3>3 DEF Ahead
            <4> HIDE DEF L
            <4> QED
                BY <1>2, <4>1, <4>2
        <3>5. Tried[q] = p
            <4>1. Tried[q] = IF lastIdx + q < L THEN lastIdx + q + 1 ELSE lastIdx + q - L + 1
                BY <1>2, <3>4
            <4> HIDE DEF L
            <4> QED
                BY <1>2, <3>4, <4>1
        <3>6. q > k
            <4>1. q # k
                BY <1>1, <2>4, <3>5
            <4>2. q \notin 1 .. k - 1
                BY <1>1, <1>4, <3>5
            <4> HIDE DEF L
            <4> QED
                BY <1>2, <3>4, <4>1, <4>2
        <3>7. Ahead(p - 1)' = q - k - 1
            <4>1. n = IF lastIdx + k < L THEN lastIdx + k + 1 ELSE lastIdx + k - L + 1
                BY <1>1, <1>2
            <4>2. L \in Nat /\ lastIdx \in 0 .. L - 1 /\ k \in 1 .. L /\ n \in 1 .. L
                BY <1>2
            <4>3. IF p > n THEN p - n - 1 = q - k - 1 ELSE p + L - n - 1 = q - k - 1
                <5> HIDE DEF L
                <5> QED
                    BY <3>4, <3>6, <4>1, <4>2
            <4> QED
                BY <2>2, <4>3
        <3>8. waits[clientMap[p]] + (q - 1) < L
            <4>1. waits[clientMap[p]] + Ahead(p - 1) < L
                BY <1>4 DEF TurnInv
            <4> QED
                BY <3>2, <3>3, <4>1
        <3>9. L \in Nat /\ k \in 1 .. L
            BY <1>2
        <3>10. waits[clientMap[p]] + 1 + (q - k - 1) < L
            <4> HIDE DEF L
            <4> QED
                BY <2>1, <3>4, <3>6, <3>8, <3>9
        <3> QED
            BY <3>1, <3>7, <3>10
    <2> QED
        BY <2>3, <2>4
<1> QED
    BY <1>3, <1>4 DEF TurnInv

LEMMA TurnStep == TypeInv /\ TurnInv /\ [Next]_vars => TurnInv'
<1> SUFFICES ASSUME TypeInv, TurnInv, [Next]_vars
             PROVE  TurnInv'
    OBVIOUS
<1> USE DEF listVars, connVars, clientVars, wireVars
<1>1. ASSUME UNCHANGED <<clientMap, lastIdx, up, waits>>
      PROVE  TurnInv'
    BY <1>1 DEF TurnInv, Ahead
<1>2. ASSUME NEW i \in Instances, CreateProxy(i)
      PROVE  TurnInv'
    <2>1. /\ clientMap' \in Seq(Instances) /\ Len(clientMap') = Len(clientMap) + 1
          /\ Len(clientMap) \in Nat
        BY <1>2, AppendProperties, LenProperties DEF CreateProxy, TypeInv
    <2>2. DOMAIN clientMap' = 1 .. Len(clientMap')
        BY <2>1, LenProperties
    <2>3. \A p \in DOMAIN clientMap' : clientMap'[p] \in Instances
        BY <2>1, <2>2, ElementOfSeq
    <2>4. lastIdx' = 0 /\ \A j \in Instances : waits'[j] = 0
        BY <1>2 DEF CreateProxy
    <2>5. \A p \in DOMAIN clientMap' : Ahead(p - 1)' < Len(clientMap')
        BY <2>1, <2>2, <2>4 DEF Ahead
    <2>6. \A p \in DOMAIN clientMap' : Ahead(p - 1)' \in Int
        BY <2>1, <2>2, <2>4 DEF Ahead
    <2> QED
        BY <2>3, <2>4, <2>5, <2>6 DEF TurnInv
<1>3. ASSUME NEW i \in Instances, ProxyUp(i)
      PROVE  TurnInv'
    <2>1. /\ UNCHANGED <<clientMap, lastIdx, waits>> /\ up' = up \cup {i} /\ waits[i] = 0
        BY <1>3 DEF ProxyUp, TurnInv
    <2>2. \A p \in DOMAIN clientMap : Ahead(p - 1)' = Ahead(p - 1)
        BY <2>1 DEF Ahead
    <2>3. \A p \in DOMAIN clientMap : Ahead(p - 1) \in Nat /\ Ahead(p - 1) < Len(clientMap)
        <3> TAKE p \in DOMAIN clientMap
        <3>1. Ahead(p - 1) \in 0 .. Len(clientMap) - 1 /\ Len(clientMap) \in Nat
            BY AheadType, LenProperties DEF TypeInv
        <3> QED
            BY <3>1
    <2> QED
        BY <2>1, <2>2, <2>3 DEF TurnInv
<1>4. ASSUME NEW i \in Instances, ProxyDown(i)
      PROVE  TurnInv'
    <2>1. /\ UNCHANGED <<clientMap, lastIdx>> /\ up' = up \ {i}
          /\ waits' = [waits EXCEPT ![i] = 0] /\ waits \in [Instances -> 0 .. MaxRequests]
        BY <1>4 DEF ProxyDown, TypeInv, TypeOK
    <2>2. \A p \in DOMAIN clientMap : Ahead(p - 1)' = Ahead(p - 1)
        BY <2>1 DEF Ahead
    <2>3. \A j \in Instances : j # i => waits'[j] = waits[j]
        BY <2>1
    <2>4. waits'[i] = 0
        BY <2>1
    <2>5. \A p \in DOMAIN clientMap : clientMap[p] \in Instances
        BY ElementOfSeq, LenProperties DEF TypeInv
    <2> QED
        BY <2>1, <2>2, <2>3, <2>4, <2>5 DEF TurnInv
<1>5. ASSUME NEW a \in Addresses, Route(a)
      PROVE  TurnInv'
    <2>1. UNCHANGED <<clientMap, up>>
        BY <1>5 DEF Route
    <2>2. CASE UNCHANGED <<lastIdx, waits>>
        BY <1>1, <2>1, <2>2
    <2>3. CASE \E n \in FirstTry :
                  /\ lastIdx' = n - 1
                  /\ waits' = [i \in Instances |->
                                  IF i \in up \ {clientMap[n]} THEN waits[i] + 1 ELSE 0]
        BY <2>1, <2>3, TurnTaken
    <2> QED
        BY <1>5, <2>2, <2>3 DEF Route
<1>6. CASE \/ \E i \in Instances : Register(i) \/ Dial(i) \/ ProxyStep(i)
           \/ \E a \in Addresses : Connect(a) \/ Leave(a) \/ HandleStep(a)
           \/ UNCHANGED vars
    <2>1. UNCHANGED <<clientMap, lastIdx, up, waits>>
        <3>1. CASE \E i \in Instances : Register(i) \/ Dial(i) \/ ProxyStep(i)
            BY <3>1 DEF Register, Dial, ProxyStep, Serve, ReplyBegin, ReplyEnd
        <3>2. CASE \E a \in Addresses : Connect(a) \/ Leave(a)
            BY <3>2 DEF Connect, Leave
        <3>3. CASE \E a \in Addresses : HandleStep(a)
            BY <3>3 DEF HandleStep, RegEvent, WritePart, WriteBody, WriteFails, Return
        <3> QED
            BY <1>6, <3>1, <3>2, <3>3 DEF vars
    <2> QED
        BY <1>1, <2>1
<1> QED
    BY <1>2, <1>3, <1>4, <1>5, <1>6 DEF Next

LEMMA BaseStep == BaseInv /\ [Next]_vars => BaseInv'
BY TypeStep, OwnStep, TurnStep DEF BaseInv

-----------------------------------------------------------------------------
(* Then what holds when they are patient. *)

LEMMA InvInit == Init => IInv
<1> SUFFICES ASSUME Init PROVE IInv
    OBVIOUS
<1>1. \A i \in Instances : Flight(i) = {}
    BY DEF Init, Flight, ToSet
<1>2. HomeInv
    BY <1>1 DEF HomeInv
<1>3. BusyInv /\ AnswersInv
    BY DEF Init, BusyInv, AnswersInv
<1> QED
    BY <1>2, <1>3, BaseInit DEF IInv

\* Steps that leave the clients alone and put nothing new in flight.
LEMMA QuietStep ==
    ASSUME HomeInv, BusyInv, UNCHANGED <<handle, asker>>,
           \A a \in Addresses : pc'[a] # "read" => pc[a] # "read",
           \A j \in Instances : Flight(j)' \subseteq Flight(j)
    PROVE  HomeInv' /\ BusyInv'
<1>1. HomeInv'
    BY DEF HomeInv
<1>2. BusyInv'
    BY DEF BusyInv
<1> QED
    BY <1>1, <1>2

\* Registration, and the connections and answers of the proxies.
LEMMA ProxySide ==
    ASSUME IInv, NEW i \in Instances,
           Register(i) \/ CreateProxy(i) \/ Dial(i) \/ ProxyUp(i) \/ ProxyDown(i) \/ ProxyStep(i)
    PROVE  HomeInv' /\ BusyInv' /\ AnswersInv'
<1> USE DEF clientVars, wireVars
<1>1. UNCHANGED <<handle, asker, pc>>
    BY DEF Register, CreateProxy, Dial, ProxyUp, ProxyDown, ProxyStep, Serve, ReplyBegin, ReplyEnd
<1>2. ASSUME NEW j \in Instances
      PROVE  Flight(j)' \subseteq Flight(j)
    <2>1. CASE Register(i) \/ CreateProxy(i) \/ Dial(i) \/ ProxyUp(i)
        BY <2>1 DEF Register, CreateProxy, Dial, ProxyUp, Flight
    <2>2. CASE ProxyDown(i) \/ ProxyStep(i)
        BY <2>2, FlightShrinks DEF IInv, BaseInv
    <2> QED
        BY <2>1, <2>2
<1>3. HomeInv' /\ BusyInv'
    BY <1>1, <1>2, QuietStep DEF IInv
<1>4. AnswersInv'
    <2>1. CASE ReplyEnd(i)
        <3> DEFINE m == replying[i]
                   w == [req |-> m.req, client |-> handle[m.id]]
        <3>1. m \in Flight(i) /\ m \in Messages
            BY <2>1 DEF ReplyEnd, Flight, IInv, BaseInv, TypeInv, TypeOK
        <3>2. m.req \in DOMAIN asker /\ handle[m.id] = asker[m.req]
            BY <3>1 DEF IInv, HomeInv
        <3>3. w \in [req : Requests, client : Clients \cup {0}]
            BY <3>1 DEF IInv, BaseInv, TypeInv, TypeOK, Messages
        <3>4. /\ Len(answers') = Len(answers) + 1 /\ Len(answers) \in Nat
              /\ DOMAIN answers = 1 .. Len(answers)
              /\ \A n \in 1 .. Len(answers) : answers'[n] = answers[n]
              /\ answers'[Len(answers) + 1] = w
              /\ answers' \in Seq([req : Requests, client : Clients \cup {0}])
            BY <2>1, <3>3, AppendProperties, LenProperties DEF ReplyEnd, IInv, BaseInv, TypeInv, TypeOK
        <3>5. DOMAIN answers' = 1 .. Len(answers) + 1
            BY <3>4, LenProperties
        <3> QED
            BY <1>1, <3>2, <3>4, <3>5 DEF IInv, AnswersInv
    <2>2. CASE ~ReplyEnd(i)
        <3>1. UNCHANGED answers
            BY <2>2 DEF Register, CreateProxy, Dial, ProxyUp, ProxyDown, ProxyStep, Serve, ReplyBegin
        <3> QED
            BY <1>1, <3>1 DEF IInv, AnswersInv
    <2> QED
        BY <2>1, <2>2
<1> QED
    BY <1>3, <1>4

\* A new connection is given an address at which no handle lives: nothing in
\* flight has it.
LEMMA ConnectSafe ==
    ASSUME IInv, NEW a \in Addresses, Connect(a)
    PROVE  HomeInv' /\ BusyInv' /\ AnswersInv'
<1> USE DEF IInv, BaseInv, listVars, connVars, clientVars, wireVars
<1>1. \A j \in Instances : Flight(j)' = Flight(j)
    BY DEF Connect, Flight
<1>2. UNCHANGED <<asker, pc, answers>>
    BY DEF Connect
<1>3. \A n \in DOMAIN asker : asker[n] # 0
    <2>1. DOMAIN asker = 1 .. Len(asker) /\ \A n \in 1 .. Len(asker) : asker[n] \in Clients
        BY LenProperties, ElementOfSeq DEF TypeInv, TypeOK
    <2> QED
        BY <2>1 DEF Clients
<1>4. \A b \in Addresses : handle[b] # 0 => handle'[b] = handle[b]
    BY DEF Connect, TypeInv, TypeOK
<1>5. HomeInv'
    BY <1>1, <1>2, <1>3, <1>4 DEF HomeInv
<1>6. BusyInv'
    BY <1>1, <1>2, <1>3, <1>4 DEF BusyInv
<1>7. AnswersInv'
    BY <1>2 DEF AnswersInv
<1> QED
    BY <1>5, <1>6, <1>7

\* A patient client leaves when nothing of it is in flight.
LEMMA LeaveSafe ==
    ASSUME Patient, IInv, NEW a \in Addresses, Leave(a)
    PROVE  HomeInv' /\ BusyInv' /\ AnswersInv'
<1> USE DEF IInv, BaseInv, listVars, connVars, clientVars, wireVars
<1>1. \A j \in Instances : Flight(j)' = Flight(j)
    BY DEF Leave, Flight
<1>2. UNCHANGED <<asker, pc, answers>>
    BY DEF Leave
<1>3. \A j \in Instances : \A m \in Flight(j) : m.id # a
    BY FlightAwaits DEF HomeInv, Leave, MayMove
<1>4. pc[a] = "read" /\ \A b \in Addresses \ {a} : handle'[b] = handle[b]
    BY DEF Leave, TypeInv, TypeOK
<1>5. HomeInv'
    BY <1>1, <1>2, <1>3, <1>4 DEF HomeInv
<1>6. BusyInv'
    BY <1>1, <1>2, <1>4 DEF BusyInv
<1>7. AnswersInv'
    BY <1>2 DEF AnswersInv
<1> QED
    BY <1>5, <1>6, <1>7

\* A patient client sends when nothing of it is in flight.
LEMMA RouteSafe ==
    ASSUME Patient, IInv, NEW a \in Addresses, Route(a)
    PROVE  HomeInv' /\ BusyInv' /\ AnswersInv'
<1> USE DEF IInv, BaseInv, listVars, connVars, clientVars, wireVars
<1>1. \A j \in Instances : Flight(j)' = Flight(j)
    BY DEF Route, Flight
<1>2. UNCHANGED <<handle, answers>> /\ \A b \in Addresses \ {a} : pc'[b] = pc[b]
    BY DEF Route, TypeInv, TypeOK
<1>3. \A j \in Instances : \A m \in Flight(j) : m.id # a
    BY FlightAwaits DEF HomeInv, Route, MayMove
<1>4. \A n \in DOMAIN asker : n \in DOMAIN asker' /\ asker'[n] = asker[n]
    BY RouteAsks
<1>5. HomeInv'
    BY <1>1, <1>2, <1>4 DEF HomeInv
<1>6. BusyInv'
    <2> SUFFICES ASSUME NEW b \in Addresses, pc'[b] # "read"
                 PROVE  \A j \in Instances : \A m \in Flight(j)' : m.id # b
        BY DEF BusyInv
    <2>1. CASE b = a
        BY <1>1, <1>2, <1>3, <1>4, <2>1
    <2>2. CASE b # a
        BY <1>1, <1>2, <1>4, <2>2 DEF BusyInv
    <2> QED
        BY <2>1, <2>2
<1>7. AnswersInv'
    BY <1>2, <1>4 DEF AnswersInv
<1> QED
    BY <1>5, <1>6, <1>7

\* A handle forwards the request of its own client, with its own address.
LEMMA HandleSafe ==
    ASSUME IInv, NEW a \in Addresses, HandleStep(a)
    PROVE  HomeInv' /\ BusyInv' /\ AnswersInv'
<1> USE DEF IInv, BaseInv, listVars, connVars, clientVars, wireVars
<1>1. UNCHANGED <<handle, asker, answers>>
    BY DEF HandleStep, RegEvent, WritePart, WriteBody, WriteFails, Return
<1>2. AnswersInv'
    BY <1>1 DEF AnswersInv
<1>3. CASE RegEvent(a) \/ WritePart(a) \/ WriteFails(a)
    <2>1. \A j \in Instances : Flight(j)' = Flight(j)
        BY <1>3 DEF RegEvent, WritePart, WriteFails, Return, Flight
    <2>2. \A b \in Addresses : pc'[b] # "read" => pc[b] # "read"
        BY <1>3 DEF RegEvent, WritePart, WriteFails, Return, TypeInv, TypeOK
    <2> QED
        BY <1>1, <1>2, <2>1, <2>2, QuietStep
<1>4. CASE WriteBody(a)
    <2>0. PICK m : m = [id |-> a, req |-> Current(a)]
        OBVIOUS
    <2>1. m.req \in DOMAIN asker /\ asker[m.req] = handle[a]
        BY <1>4, <2>0, CurrentIsRequest DEF WriteBody
    <2>2. \A j \in Instances : \A k \in Flight(j) : k.id # a
        BY <1>4 DEF WriteBody, BusyInv
    <2>3. \A j \in Instances : \A k \in Flight(j)' :
              k \in Flight(j) \/ (k = m /\ j = chosen[a])
        <3> TAKE j \in Instances
        <3>1. /\ j # chosen[a] => Flight(j)' = Flight(j)
              /\ Flight(j)' \subseteq Flight(j) \cup {m}
            BY <1>4, <2>0, FlightGrows
        <3> QED
            BY <3>1
    <2>4. m.id = a
        BY <2>0
    <2>5. pc'[a] = "read" /\ \A b \in Addresses \ {a} : pc'[b] = pc[b]
        BY <1>4 DEF WriteBody, Return, TypeInv, TypeOK
    <2>6. HomeInv'
        <3> SUFFICES ASSUME NEW j \in Instances, NEW k \in Flight(j)'
                     PROVE  k.id \in Addresses /\ k.req \in DOMAIN asker /\ handle[k.id] = asker[k.req]
            BY <1>1 DEF HomeInv
        <3>1. k \in Flight(j) \/ k = m
            BY <2>3
        <3> QED
            BY <2>1, <2>4, <3>1 DEF HomeInv
    <2>7. BusyInv'
        <3> SUFFICES ASSUME NEW b \in Addresses, pc'[b] # "read"
                     PROVE  \A j \in Instances : \A k \in Flight(j)' : k.id # b
            BY <1>1 DEF BusyInv
        <3>1. b # a /\ pc[b] # "read"
            BY <2>5
        <3> QED
            BY <2>3, <2>4, <3>1 DEF BusyInv
    <2> QED
        BY <1>2, <2>6, <2>7
<1> QED
    BY <1>3, <1>4 DEF HandleStep

LEMMA InvStep == Patient /\ IInv /\ [Next]_vars => IInv'
<1> SUFFICES ASSUME Patient, IInv, [Next]_vars
             PROVE  IInv'
    OBVIOUS
<1>1. BaseInv'
    BY BaseStep DEF IInv
<1>2. CASE \E i \in Instances : \/ Register(i) \/ CreateProxy(i)
                                \/ Dial(i) \/ ProxyUp(i) \/ ProxyDown(i) \/ ProxyStep(i)
    BY <1>1, <1>2, ProxySide DEF IInv
<1>3. CASE \E a \in Addresses : Connect(a) \/ Leave(a) \/ Route(a) \/ HandleStep(a)
    BY <1>1, <1>3, ConnectSafe, LeaveSafe, RouteSafe, HandleSafe DEF IInv
<1>4. CASE UNCHANGED vars
    <2>1. \A j \in Instances : Flight(j)' = Flight(j)
        BY <1>4 DEF vars, Flight
    <2>2. UNCHANGED <<handle, asker, pc, answers>>
        BY <1>4 DEF vars
    <2>3. HomeInv' /\ BusyInv'
        BY <2>1, <2>2, QuietStep DEF IInv
    <2>4. AnswersInv'
        BY <2>2 DEF IInv, AnswersInv
    <2> QED
        BY <1>1, <2>3, <2>4 DEF IInv
<1> QED
    BY <1>2, <1>3, <1>4 DEF Next

-----------------------------------------------------------------------------
(* Theorems. *)

\* Every variable of the gateway keeps its type, whatever clients do (all of
\* cserviceproxy.cpp and cserviceproxyclient.cpp).
THEOREM TypeCorrect == Spec => []TypeOK
<1>1. BaseInv => TypeOK
    BY DEF BaseInv, TypeInv
<1> QED
    BY <1>1, BaseInit, BaseStep, PTL DEF Spec

\* Whatever clients do, no connected instance is passed over for a round of the
\* list (the round robin of CServiceProxy::sendMsg).
THEOREM NoInstanceStarves == Spec => []NoStarvedInstance
<1>1. BaseInv => NoStarvedInstance
    <2> SUFFICES ASSUME BaseInv, NEW i \in up
                 PROVE  waits[i] < Len(clientMap)
        BY DEF NoStarvedInstance
    <2>1. PICK p \in DOMAIN clientMap : clientMap[p] = i
        BY DEF BaseInv, TypeInv, TypeOK, ToSet
    <2>2. waits[i] + Ahead(p - 1) < Len(clientMap)
        BY <2>1 DEF BaseInv, TurnInv
    <2>3. Ahead(p - 1) \in Nat
        BY AheadType DEF BaseInv
    <2>4. waits[i] \in Nat /\ Len(clientMap) \in Nat
        <3>1. i \in Instances
            BY <2>1, ElementOfSeq, LenProperties DEF BaseInv, TypeInv
        <3> QED
            BY <3>1, LenProperties DEF BaseInv, TypeInv, TypeOK
    <2> QED
        BY <2>2, <2>3, <2>4
<1> QED
    BY <1>1, BaseInit, BaseStep, PTL DEF Spec

\* When clients wait for their answers, every answer goes to the client that
\* asked: never to a client that was given the address later, or to a handle
\* that was deleted (the msg_id of CServiceProxyClient::sendMsg and readCb).
THEOREM AnswersGoHomeAlways == ASSUME Patient PROVE Spec => []AnswersGoHome
<1>1. IInv => AnswersGoHome
    BY DEF IInv, AnswersInv, AnswersGoHome
<1> QED
    BY <1>1, InvInit, InvStep, PTL DEF Spec
=============================================================================
