------------------------ MODULE RegisterCenterProofs ------------------------
(* What is proved of RegisterCenter, for every set of clients and names and  *)
(* every number of restarts, lost connections and calls of getServices.      *)
EXTENDS RegisterCenter, SequenceTheorems, FiniteSetTheorems, TLAPS

-----------------------------------------------------------------------------
(* Types of the lists, as far as the theorems need them. *)

Calls == [pc : {"connect", "ask", "look", "sleep"}, name : Names, time : Nat]

MapTypes ==
    /\ serviceMap \in Maps /\ toWatcher \in Seq(Lists)
    /\ toCenter \in [Clients -> Seq(Requests)]
    /\ pbServiceMap \in Maps /\ cacheFile \in Maps \cup {NoFile}
    /\ saving \in BOOLEAN
    /\ call = NoCall \/ call \in Calls

LEMMA MapTypesInit == Init => MapTypes
<1> SUFFICES ASSUME Init PROVE MapTypes
    OBVIOUS
<1>1. EmptyMap \in Maps
    BY DEF EmptyMap, Maps
<1>2. toWatcher \in Seq(Lists) /\ toCenter \in [Clients -> Seq(Requests)]
    BY DEF Init
<1> QED
    BY <1>1, <1>2 DEF Init, MapTypes

\* Types of the operators.
LEMMA EmptyMapType == EmptyMap \in Maps
BY DEF EmptyMap, Maps

LEMMA NamesType == \A c \in Clients : NameOf[c] \in Names
BY DEF Names

LEMMA HeadTail ==
    ASSUME NEW S, NEW s \in Seq(S), s # <<>>
    PROVE  Head(s) \in S /\ Tail(s) \in Seq(S)
BY HeadTailProperties

LEMMA RefreshedType ==
    ASSUME MapTypes, NEW l \in Lists, l.type # "torn"
    PROVE  Refreshed(l) \in Maps
<1>1. l.map \in Maps
    BY DEF Lists
<1> QED
    BY <1>1 DEF Refreshed, MapTypes, Maps

LEMMA AskType ==
    ASSUME MapTypes, NEW r \in Requests, Ask(r)
    PROVE  toCenter' \in [Clients -> Seq(Requests)]
<1>1. toCenter[Watcher] \in Seq(Requests)
    BY WatcherAssumption DEF MapTypes
<1>2. Append(toCenter[Watcher], r) \in Seq(Requests)
    BY <1>1, AppendProperties
<1> QED
    BY <1>1, <1>2 DEF Ask, MapTypes

LEMMA CallType ==
    ASSUME call \in Calls, NEW p \in {"connect", "ask", "look", "sleep"},
           Goto(p) \/ WaitThen(p)
    PROVE  call' \in Calls
<1>1. CASE Goto(p)
    BY <1>1 DEF Goto, Calls
<1>2. CASE WaitThen(p)
    <2>1. call.time + 1 \in Nat
        BY DEF Calls
    <2>2. call' = [call EXCEPT !.pc = p, !.time = call.time + 1]
        BY <1>2 DEF WaitThen
    <2> QED
        BY <2>1, <2>2 DEF Calls
<1> QED
    BY <1>1, <1>2

LEMMA DisconnectType ==
    ASSUME MapTypes, NEW C, Disconnect(C)
    PROVE  toWatcher' \in Seq(Lists) /\ toCenter' \in [Clients -> Seq(Requests)]
BY DEF Disconnect, MapTypes

\* What a handle of the center and the event thread of the client do to the maps
\* and messages.
LEMMA MapTypesNext == MapTypes /\ [Next]_vars => MapTypes'
<1> SUFFICES ASSUME MapTypes, [Next]_vars PROVE MapTypes'
    OBVIOUS
<1> USE DEF MapTypes, centerVars, watcherVars, callVars
<1>1. ASSUME NEW c \in Clients, LinkUp(c) PROVE MapTypes'
    <2>1. OnConnected \in Seq(Requests)
        BY DEF OnConnected, Requests
    <2> QED
        BY <1>1, <2>1 DEF LinkUp
<1>2. ASSUME NEW c \in Clients, LinkLost(c) PROVE MapTypes'
    BY <1>2, DisconnectType DEF LinkLost
<1>3. ASSUME NEW c \in Clients, RegisterReq(c) PROVE MapTypes'
    <2>1. toCenter' \in [Clients -> Seq(Requests)]
        BY <1>3, HeadTail DEF RegisterReq
    <2>2. Extended(c) \in Seq(Clients)
        BY NamesType, AppendProperties DEF Extended, Maps
    <2>3. serviceMap' \in Maps
        BY <1>3, <2>2, NamesType DEF RegisterReq, Maps
    <2> QED
        BY <1>3, <2>1, <2>3 DEF RegisterReq
<1>4. CASE CenterRestart
    BY <1>4, DisconnectType, EmptyMapType DEF CenterRestart
<1>5. CASE WatcherRestart
    BY <1>5, DisconnectType, EmptyMapType DEF WatcherRestart, Loaded
<1>6. CASE GetServiceReq
    <2>1. toCenter[Watcher] \in Seq(Requests) /\ toCenter[Watcher] # <<>>
        BY <1>6, WatcherAssumption DEF GetServiceReq
    <2>2. toCenter' \in [Clients -> Seq(Requests)]
        BY <1>6, <2>1, HeadTail DEF GetServiceReq
    <2>3. toWatcher' \in Seq(Lists)
        <3>1. CASE UNCHANGED toWatcher
            BY <3>1
        <3>2. CASE Head(toCenter[Watcher]).type = "ONE"
            <4> DEFINE n == Head(toCenter[Watcher]).name
                       l == [type |-> "ONE", map |-> [EmptyMap EXCEPT ![n] = serviceMap[n]]]
            <4>1. n \in Names
                BY <2>1, <3>2, HeadTail DEF Requests
            <4>2. [EmptyMap EXCEPT ![n] = serviceMap[n]] \in Maps
                BY <4>1, EmptyMapType DEF Maps
            <4>3. l \in Lists
                BY <4>2 DEF Lists
            <4>4. toWatcher' = toWatcher \/ toWatcher' = Append(toWatcher, l)
                BY <1>6, <3>2 DEF GetServiceReq
            <4> QED
                BY <4>3, <4>4, AppendProperties
        <3> QED
            BY <1>6, <3>1, <3>2 DEF GetServiceReq
    <2> QED
        BY <1>6, <2>2, <2>3 DEF GetServiceReq
<1>7. CASE SendAll
    <2>1. [type |-> "ALL", map |-> serviceMap] \in Lists /\ [type |-> "torn"] \in Lists
        BY DEF Lists
    <2>2. \A l \in Lists : Append(toWatcher, l) \in Seq(Lists)
        BY AppendProperties
    <2>3. toWatcher' \in Seq(Lists)
        BY <1>7, <2>1, <2>2 DEF SendAll
    <2> QED
        BY <1>7, <2>3 DEF SendAll
<1>8. CASE AskAll
    <2>1. [type |-> "ALL"] \in Requests
        BY DEF Requests
    <2> QED
        BY <1>8, <2>1, AskType DEF AskAll
<1>9. ASSUME NEW n \in Names, GetServices(n) PROVE MapTypes'
    BY <1>9 DEF GetServices, Calls
<1>10. CASE WaitForConnection
    <2>1. call \in Calls
        BY <1>10 DEF WaitForConnection, NoCall
    <2>2. call' = NoCall \/ call' \in Calls
        BY <1>10, <2>1, CallType DEF WaitForConnection
    <2> QED
        BY <1>10, <2>2 DEF WaitForConnection
<1>11. CASE AskOne \/ LookForServices
    <2>1. call \in Calls
        BY <1>11 DEF AskOne, LookForServices, NoCall
    <2>2. [type |-> "ONE", name |-> call.name] \in Requests
        BY <2>1 DEF Requests, Calls
    <2>3. toCenter' \in [Clients -> Seq(Requests)]
        BY <1>11, <2>2, AskType DEF AskOne, LookForServices
    <2>4. call' = NoCall \/ call' \in Calls
        BY <1>11, <2>1, CallType DEF AskOne, LookForServices
    <2> QED
        BY <1>11, <2>3, <2>4 DEF AskOne, LookForServices
<1>12. CASE SleepEnds
    <2>1. call \in Calls
        BY <1>12 DEF SleepEnds, NoCall
    <2>2. call' \in Calls
        BY <1>12, <2>1 DEF SleepEnds, Goto, Calls
    <2> QED
        BY <1>12, <2>2 DEF SleepEnds
<1>13. CASE GetServiceRes
    <2>1. Head(toWatcher) \in Lists /\ toWatcher' \in Seq(Lists)
        BY <1>13, HeadTail DEF GetServiceRes
    <2>2. pbServiceMap' \in Maps
        BY <1>13, <2>1, RefreshedType DEF GetServiceRes
    <2>3. saving' \in BOOLEAN /\ cacheFile' \in Maps \cup {NoFile}
        BY <1>13, EmptyMapType DEF GetServiceRes, Saves
    <2> QED
        BY <1>13, <2>1, <2>2, <2>3 DEF GetServiceRes
<1>14. CASE SaveFile
    BY <1>14 DEF SaveFile
<1>15. CASE GetAllService
    BY <1>15 DEF GetAllService, Loaded
<1>16. CASE UNCHANGED vars
    BY <1>16 DEF vars
<1> QED
    BY <1>1, <1>2, <1>3, <1>4, <1>5, <1>6, <1>7, <1>8, <1>9, <1>10, <1>11, <1>12, <1>13,
       <1>14, <1>15, <1>16 DEF Next

LEMMA MapTypesAlways == Spec => []MapTypes
BY MapTypesInit, MapTypesNext, PTL DEF Spec

-----------------------------------------------------------------------------
(* The center lists a client once. *)

\* A list that does not hold c holds it once when c was appended.
LEMMA AppendInjectiveList ==
    ASSUME NEW s \in Seq(Clients), NEW c \in Clients, IsInjective(s), c \notin ToSet(s)
    PROVE  IsInjective(Append(s, c))
<1>1. /\ Append(s, c) \in Seq(Clients) /\ Len(Append(s, c)) = Len(s) + 1
      /\ \A i \in 1 .. Len(s) : Append(s, c)[i] = s[i]
      /\ Append(s, c)[Len(s) + 1] = c
    BY AppendProperties
<1>2. \A i \in 1 .. Len(s) : s[i] # c
    BY DEF ToSet
<1>3. DOMAIN s = 1 .. Len(s) /\ DOMAIN Append(s, c) = 1 .. Len(s) + 1 /\ Len(s) \in Nat
    BY <1>1
<1>4. ASSUME NEW i \in 1 .. Len(s) + 1, NEW j \in 1 .. Len(s) + 1,
             Append(s, c)[i] = Append(s, c)[j]
      PROVE  i = j
    <2>1. CASE i <= Len(s) /\ j <= Len(s)
        BY <1>1, <1>3, <1>4, <2>1 DEF IsInjective
    <2>2. CASE i = Len(s) + 1 \/ j = Len(s) + 1
        BY <1>1, <1>2, <1>3, <1>4, <2>2
    <2> QED
        BY <1>3, <2>1, <2>2
<1> QED
    BY <1>3, <1>4 DEF IsInjective

\* However often clients lose their connections and register again, no list of
\* the center holds one of them twice.
THEOREM NoDoubleEntryAlways == Spec => []NoDoubleEntry
<1>1. Init => NoDoubleEntry
    BY DEF Init, NoDoubleEntry, EmptyMap, IsInjective
<1>2. MapTypes /\ NoDoubleEntry /\ [Next]_vars => NoDoubleEntry'
    <2> SUFFICES ASSUME MapTypes, NoDoubleEntry, [Next]_vars PROVE NoDoubleEntry'
        OBVIOUS
    <2>1. ASSUME NEW c \in Clients, RegisterReq(c) PROVE NoDoubleEntry'
        <3>1. CASE UNCHANGED serviceMap
            BY <3>1 DEF NoDoubleEntry
        <3>2. CASE ~IsRegistered(c)
            <4>1. serviceMap[NameOf[c]] \in Seq(Clients)
                BY NamesType DEF MapTypes, Maps
            <4>2. IsInjective(Extended(c))
                BY <3>2, <4>1, AppendInjectiveList, NamesType
                   DEF IsRegistered, Extended, NoDoubleEntry
            <4>3. UNCHANGED serviceMap
                    \/ serviceMap' = [serviceMap EXCEPT ![NameOf[c]] = Extended(c)]
                BY <2>1 DEF RegisterReq, centerVars
            <4> QED
                BY <4>2, <4>3 DEF NoDoubleEntry, MapTypes, Maps
        <3> QED
            BY <2>1, <3>1, <3>2 DEF RegisterReq, centerVars
    <2>2. CASE CenterRestart
        BY <2>2 DEF CenterRestart, NoDoubleEntry, EmptyMap, IsInjective
    <2>3. CASE UNCHANGED serviceMap
        BY <2>3 DEF NoDoubleEntry
    <2> QED
        BY <2>1, <2>2, <2>3 DEF Next, vars, centerVars, LinkUp, LinkLost, WatcherRestart,
           GetServiceReq, SendAll, AskAll, GetServices, WaitForConnection, AskOne,
           LookForServices, SleepEnds, GetServiceRes, SaveFile, GetAllService
<1> QED
    BY <1>1, <1>2, MapTypesAlways, PTL DEF Spec

-----------------------------------------------------------------------------
(* The file is the memory. *)

\* Between the answers the file holds what the memory holds, or there is none,
\* across restarts in the middle of a write and reloads by getAllService.
THEOREM FileIsMemoryAlways == Spec => []FileIsMemory
<1>1. Init => FileIsMemory
    BY DEF Init, FileIsMemory
<1>2. MapTypes /\ FileIsMemory /\ [Next]_vars => FileIsMemory'
    <2> SUFFICES ASSUME MapTypes, FileIsMemory, [Next]_vars PROVE FileIsMemory'
        OBVIOUS
    <2>1. CASE GetServiceRes
        <3> DEFINE l == Head(toWatcher)
        <3>1. ~saving /\ l \in Lists
            BY <2>1, HeadTail DEF GetServiceRes, MutexFree, MapTypes
        <3>2. CASE l.type = "torn"
            BY <2>1, <3>2 DEF GetServiceRes, FileIsMemory
        <3>3. CASE l.type # "torn" /\ ~Saves(l)
            <4>1. l.type # "ALL" /\ l.map = EmptyMap
                BY <3>3 DEF Saves
            <4>2. Refreshed(l) = pbServiceMap
                BY <4>1 DEF Refreshed, EmptyMap, MapTypes, Maps
            <4>3. pbServiceMap' = pbServiceMap /\ cacheFile' = cacheFile
                BY <2>1, <3>3, <4>2 DEF GetServiceRes
            <4> QED
                BY <3>1, <4>3 DEF FileIsMemory
        <3>4. CASE l.type # "torn" /\ Saves(l)
            BY <2>1, <3>4 DEF GetServiceRes, FileIsMemory
        <3> QED
            BY <3>2, <3>3, <3>4
    <2>2. CASE SaveFile
        BY <2>2 DEF SaveFile, FileIsMemory
    <2>3. CASE GetAllService
        BY <2>3 DEF GetAllService, MutexFree, Loaded, FileIsMemory
    <2>4. CASE WatcherRestart
        BY <2>4 DEF WatcherRestart, Loaded, FileIsMemory
    <2>5. CASE UNCHANGED <<pbServiceMap, cacheFile, saving>>
        BY <2>5 DEF FileIsMemory
    <2> QED
        BY <2>1, <2>2, <2>3, <2>4, <2>5 DEF Next, vars, watcherVars, LinkUp, LinkLost,
           RegisterReq, CenterRestart, GetServiceReq, SendAll, AskAll, GetServices,
           WaitForConnection, AskOne, LookForServices, SleepEnds
<1> QED
    BY <1>1, <1>2, MapTypesAlways, PTL DEF Spec

-----------------------------------------------------------------------------
(* The requests and lists on the way.  A call of getServices asks for its     *)
(* name once and once more in every round it waits; that the list of all      *)
(* names is asked for only when nothing is on the way allows one more.        *)

Questions == toCenter[Watcher]

\* A registration comes before all questions.
Ahead == IF Questions # <<>> /\ Head(Questions).type = "REGISTER" THEN 1 ELSE 0
Serialized == IF sending = "no" THEN 0 ELSE 1
Outstanding == Len(Questions) - Ahead + Len(toWatcher) + Serialized

\* How often getServices has asked, at most.
Round == 1 + Patience
AskedNow == IF call.pc \in {"look", "sleep"} THEN 1 + call.time ELSE 0
Asked == IF call = NoCall THEN asks * Round ELSE (asks - 1) * Round + AskedNow

\* o things are on the way, and a were asked for besides the list of all names.
Within(o, a) == o \in Int /\ a \in Nat /\ o <= 1 + a

LEMMA WithinLess ==
    \A o, p, a, b : Within(o, a) /\ p \in Int /\ p <= o /\ b \in Nat /\ a <= b => Within(p, b)
BY DEF Within

LEMMA WithinMore ==
    \A o, p, a, b : Within(o, a) /\ p = o + 1 /\ b \in Nat /\ a + 1 <= b => Within(p, b)
BY DEF Within

LEMMA WithinAnything == \A a \in Nat : Within(0, a) /\ Within(1, a)
BY DEF Within

CountInv ==
    /\ sending \in {"no", "clean", "torn"} /\ up \subseteq Clients /\ pbClientMap \in Maps
    /\ trouble \in 0 .. MaxTrouble /\ asks \in 0 .. MaxAsks
    /\ call # NoCall => call.time \in 0 .. Patience /\ asks # 0
    /\ \A i \in 2 .. Len(Questions) : Questions[i].type # "REGISTER"
    /\ Within(Outstanding, Asked)

\* Rounds are counted in natural numbers.
LEMMA Products ==
    /\ Round \in Nat /\ Round >= 1
    /\ \A a \in Nat : a * Round \in Nat /\ (a + 1) * Round = a * Round + Round
    /\ \A a, b \in Nat : a <= b => a * Round <= b * Round
<1>1. PICK q \in Nat : q = Round /\ q >= 1
    BY BoundsAssumption DEF Round
<1>2. \A a \in Nat : a * q \in Nat /\ (a + 1) * q = a * q + q
    OBVIOUS
<1>3. ASSUME NEW a \in Nat, NEW b \in Nat, a <= b PROVE a * q <= b * q
    <2>1. PICK d \in Nat : b = a + d
        <3>1. b - a \in Nat /\ b = a + (b - a)
            BY <1>3
        <3> QED BY <3>1
    <2>2. b * q = a * q + d * q /\ d * q \in Nat /\ a * q \in Nat
        BY <2>1
    <2> QED BY <2>2
<1> QED BY <1>1, <1>2, <1>3

\* Asked is a number, and a call has asked in no more rounds than it may wait.
LEMMA AskedBound ==
    ASSUME MapTypes, CountInv
    PROVE  Asked \in Nat /\ Asked <= asks * Round /\ asks \in Nat /\ asks <= MaxAsks
<1>1. asks \in Nat /\ asks <= MaxAsks /\ Patience \in Nat
    BY BoundsAssumption DEF CountInv
<1>2. CASE call = NoCall
    BY <1>1, <1>2, Products DEF Asked
<1>3. CASE call # NoCall
    <2>1. /\ call.time \in Nat /\ call.time <= Patience /\ asks - 1 \in Nat
          /\ Asked = (asks - 1) * Round + AskedNow
        BY <1>1, <1>3 DEF CountInv, Asked
    <2>2. AskedNow \in Nat /\ AskedNow <= Round
        BY <1>1, <2>1 DEF AskedNow, Round
    <2>3. (asks - 1) * Round \in Nat /\ asks * Round = (asks - 1) * Round + Round
        <3>1. PICK a \in Nat : a = asks - 1 /\ asks = a + 1
            BY <1>1, <2>1
        <3> QED BY <3>1, Products
    <2> QED BY <1>1, <2>1, <2>2, <2>3, Products
<1> QED BY <1>2, <1>3

\* A question more, a question or registration less.
LEMMA QuestionAdded ==
    ASSUME NEW s \in Seq(Requests), NEW r \in Requests, r.type # "REGISTER",
           \A i \in 2 .. Len(s) : s[i].type # "REGISTER"
    PROVE  /\ \A i \in 2 .. Len(Append(s, r)) : Append(s, r)[i].type # "REGISTER"
           /\ Len(Append(s, r)) = Len(s) + 1 /\ Append(s, r) # <<>>
           /\ Head(Append(s, r)) = IF s = <<>> THEN r ELSE Head(s)
<1>1. /\ Append(s, r) \in Seq(Requests) /\ Len(Append(s, r)) = Len(s) + 1 /\ Len(s) \in Nat
      /\ \A i \in 1 .. Len(s) : Append(s, r)[i] = s[i]
      /\ Append(s, r)[Len(s) + 1] = r /\ Append(s, r) # <<>>
    BY AppendProperties, LenProperties
<1>2. \A i \in 2 .. Len(s) + 1 : i \in 1 .. Len(s) + 1 /\ (i \in 2 .. Len(s) \/ i = Len(s) + 1)
    BY <1>1
<1>3. \A i \in 2 .. Len(s) : i \in 1 .. Len(s)
    OBVIOUS
<1>4. Head(Append(s, r)) = Append(s, r)[1]
    BY <1>1
<1>5. CASE s = <<>>
    <2>1. Len(s) = 0
        BY <1>5
    <2> QED BY <1>1, <1>2, <1>3, <1>4, <1>5, <2>1
<1>6. CASE s # <<>>
    <2>1. 1 \in 1 .. Len(s) /\ Head(s) = s[1]
        BY <1>1, <1>6, EmptySeq
    <2> QED BY <1>1, <1>2, <1>3, <1>4, <1>6, <2>1
<1> QED BY <1>5, <1>6

LEMMA QuestionTaken ==
    ASSUME NEW s \in Seq(Requests), s # <<>>,
           \A i \in 2 .. Len(s) : s[i].type # "REGISTER"
    PROVE  /\ \A i \in 2 .. Len(Tail(s)) : Tail(s)[i].type # "REGISTER"
           /\ Len(Tail(s)) = Len(s) - 1
           /\ Tail(s) # <<>> => Head(Tail(s)).type # "REGISTER"
<1>1. /\ Tail(s) \in Seq(Requests) /\ Len(Tail(s)) = Len(s) - 1 /\ Len(s) \in Nat /\ Len(s) # 0
      /\ \A i \in 1 .. Len(Tail(s)) : Tail(s)[i] = s[i + 1]
    BY HeadTailProperties, EmptySeq, LenProperties
<1>2. \A i \in 1 .. Len(Tail(s)) : i + 1 \in 2 .. Len(s) /\ Tail(s)[i] = s[i + 1]
    BY <1>1
<1>3. \A i \in 2 .. Len(Tail(s)) : i \in 1 .. Len(Tail(s))
    OBVIOUS
<1>4. Tail(s) # <<>> => 1 \in 1 .. Len(Tail(s)) /\ Head(Tail(s)) = Tail(s)[1]
    BY <1>1, EmptySeq
<1> QED BY <1>1, <1>2, <1>3, <1>4

LEMMA Numbers ==
    ASSUME MapTypes
    PROVE  /\ Questions \in Seq(Requests) /\ Len(Questions) \in Nat /\ Len(toWatcher) \in Nat
           /\ Ahead \in {0, 1} /\ Ahead <= Len(Questions)
           /\ Questions = <<>> <=> Len(Questions) = 0
<1>1. Questions \in Seq(Requests) /\ toWatcher \in Seq(Lists)
    BY WatcherAssumption DEF MapTypes, Questions
<1>2. Len(Questions) \in Nat /\ Len(toWatcher) \in Nat /\ (Questions = <<>> <=> Len(Questions) = 0)
    BY <1>1, LenProperties, EmptySeq
<1> QED BY <1>1, <1>2 DEF Ahead

LEMMA CountInit == Init => CountInv
<1> SUFFICES ASSUME Init PROVE CountInv
    OBVIOUS
<1>1. /\ Questions = <<>> /\ toWatcher = <<>> /\ sending = "no" /\ asks = 0 /\ call = NoCall
      /\ up = {} /\ trouble = 0 /\ pbClientMap \in Maps
    BY WatcherAssumption, EmptyMapType DEF Init, Questions
<1>2. Len(Questions) = 0 /\ Len(toWatcher) = 0 /\ Ahead = 0 /\ Serialized = 0
    BY <1>1 DEF Ahead, Serialized
<1>3. Asked \in Nat
    BY <1>1, Products DEF Asked
<1>4. Outstanding = 0
    BY <1>2 DEF Outstanding
<1> QED BY <1>1, <1>2, <1>3, <1>4, WithinAnything, BoundsAssumption DEF CountInv

\* The connections of C are gone.
LEMMA CountDisconnect ==
    ASSUME MapTypes, CountInv, NEW C, Disconnect(C),
           sending' = "no" \/ (Watcher \notin C /\ UNCHANGED sending),
           Asked' \in Nat, Watcher \in C \/ Asked' = Asked
    PROVE  /\ \A i \in 2 .. Len(Questions') : Questions'[i].type # "REGISTER"
           /\ Within(Outstanding', Asked') /\ trouble' \in 0 .. MaxTrouble /\ up' \subseteq Clients
<1>1. trouble' \in 0 .. MaxTrouble /\ up' \subseteq Clients
    BY BoundsAssumption DEF CountInv, Disconnect
<1>2. CASE Watcher \in C
    <2>1. Questions' = <<>> /\ toWatcher' = <<>> /\ sending' = "no"
        BY <1>2, WatcherAssumption DEF Disconnect, Questions
    <2>2. Len(Questions') = 0 /\ Len(toWatcher') = 0 /\ Ahead' = 0 /\ Serialized' = 0
        BY <2>1 DEF Ahead, Serialized
    <2>3. Outstanding' = 0
        BY <2>2 DEF Outstanding
    <2>5. Within(Outstanding', Asked')
        BY <2>3, WithinAnything
    <2>4. \A i \in 2 .. Len(Questions') : FALSE
        BY <2>2
    <2> QED BY <1>1, <2>3, <2>4, <2>5
<1>3. CASE Watcher \notin C
    <2>1. UNCHANGED <<Questions, toWatcher>> /\ Asked' = Asked
        BY <1>3, WatcherAssumption DEF Disconnect, Questions
    <2>2. UNCHANGED Ahead /\ Serialized' <= Serialized
        BY <1>3, <2>1 DEF Ahead, Serialized
    <2>3. Serialized \in {0, 1} /\ Serialized' \in {0, 1} /\ Asked \in Nat
        BY <2>1 DEF Serialized
    <2>4. Outstanding' <= Outstanding /\ Outstanding' \in Int
        BY <2>1, <2>2, <2>3, Numbers DEF Outstanding
    <2>5. Within(Outstanding', Asked')
        BY <2>1, <2>3, <2>4, WithinLess DEF CountInv, Within
    <2> QED BY <1>1, <2>1, <2>5 DEF CountInv
<1> QED BY <1>2, <1>3

\* A question is sent, or nothing without a connection, and one more was due.
LEMMA CountAsk ==
    ASSUME MapTypes, CountInv, NEW r \in Requests, r.type # "REGISTER", Ask(r),
           UNCHANGED <<toWatcher, sending>>, Asked' \in Nat, Asked + 1 <= Asked'
    PROVE  /\ \A i \in 2 .. Len(Questions') : Questions'[i].type # "REGISTER"
           /\ Within(Outstanding', Asked')
<1>0. Asked \in Nat
    BY AskedBound
<1>1. Questions' = Append(Questions, r) \/ Questions' = Questions
    BY WatcherAssumption DEF Ask, Questions, MapTypes
<1>2. Serialized' = Serialized /\ Serialized \in {0, 1}
    BY DEF Serialized
<1>3. CASE Questions' = Questions
    <2>1. Outstanding' = Outstanding /\ Outstanding \in Int
        BY <1>2, <1>3, Numbers DEF Outstanding, Ahead
    <2>2. Asked <= Asked' /\ Outstanding' <= Outstanding /\ Outstanding' \in Int
        BY <1>0, <2>1
    <2>3. Within(Outstanding', Asked')
        BY <2>2, WithinLess DEF CountInv
    <2> QED BY <1>3, <2>3 DEF CountInv
<1>4. CASE Questions' = Append(Questions, r)
    <2>1. /\ \A i \in 2 .. Len(Questions') : Questions'[i].type # "REGISTER"
          /\ Len(Questions') = Len(Questions) + 1 /\ Questions' # <<>>
          /\ Head(Questions') = IF Questions = <<>> THEN r ELSE Head(Questions)
        BY <1>4, QuestionAdded, Numbers DEF CountInv
    <2>2. Ahead' = Ahead
        BY <2>1 DEF Ahead
    <2>3. Outstanding' = Outstanding + 1
        <3>1. PICK q, w, a, s \in Nat : q = Len(Questions) /\ w = Len(toWatcher) /\ a = Ahead /\ s = Serialized
            BY <1>2, Numbers
        <3>2. Outstanding = q - a + w + s /\ Outstanding' = q + 1 - a + w + s
            BY <1>2, <2>1, <2>2, <3>1 DEF Outstanding
        <3> QED BY <3>2
    <2>4. Within(Outstanding', Asked')
        BY <2>3, WithinMore DEF CountInv
    <2> QED BY <2>1, <2>4
<1> QED BY <1>1, <1>3, <1>4

\* Nothing is added to what is on the way, and no call begins or ends.
LEMMA CountLess ==
    ASSUME MapTypes, CountInv, Asked' = Asked,
           \A i \in 2 .. Len(Questions') : Questions'[i].type # "REGISTER",
           Outstanding' <= Outstanding, Outstanding \in Int, Outstanding' \in Int,
           UNCHANGED <<trouble, asks, call>>,
           sending' \in {"no", "clean", "torn"}, up' \subseteq Clients, pbClientMap' \in Maps
    PROVE  CountInv'
<1>1. Asked' \in Nat /\ Asked <= Asked'
    BY AskedBound
<1>4. Within(Outstanding', Asked')
    BY <1>1, WithinLess DEF CountInv
<1>5. (call # NoCall => call.time \in 0 .. Patience /\ asks # 0)'
    BY DEF CountInv
<1> QED BY <1>4, <1>5 DEF CountInv

LEMMA CountLinks ==
    ASSUME MapTypes, CountInv, NEW c \in Clients, LinkUp(c) \/ RegisterReq(c)
    PROVE  CountInv'
<1>0. /\ UNCHANGED <<trouble, asks, call, pbClientMap, toWatcher>> /\ pbClientMap \in Maps
      /\ up' \subseteq Clients /\ sending \in {"no", "clean", "torn"}
    BY DEF LinkUp, RegisterReq, callVars, watcherVars, CountInv
<1>1. Asked' = Asked
    BY <1>0 DEF Asked, AskedNow
<1>2. CASE c # Watcher
    <2>1. Questions' = Questions
        BY <1>2, WatcherAssumption DEF LinkUp, RegisterReq, Questions, MapTypes
    <2>2. sending' \in {"no", "clean", "torn"} /\ Serialized' = Serialized
        BY <1>0 DEF LinkUp, RegisterReq, centerVars, Serialized
    <2>3. Outstanding' = Outstanding /\ Outstanding \in Int
        BY <1>0, <2>1, <2>2, Numbers DEF Outstanding, Ahead, Serialized
    <2>4. \A i \in 2 .. Len(Questions') : Questions'[i].type # "REGISTER"
        BY <2>1 DEF CountInv
    <2> QED BY <1>0, <1>1, <2>2, <2>3, <2>4, CountLess
<1>3. CASE c = Watcher /\ LinkUp(c)
    <2>1. Questions' = OnConnected /\ UNCHANGED sending
        BY <1>3, WatcherAssumption DEF LinkUp, Questions, MapTypes, centerVars
    <2>2. Len(Questions') = 1 /\ Ahead' = 1 /\ Serialized' = Serialized /\ Serialized \in {0, 1}
        BY <2>1 DEF OnConnected, Ahead, Serialized
    <2>3. Outstanding' <= Outstanding /\ Outstanding \in Int /\ Outstanding' \in Int
        BY <1>0, <2>2, Numbers DEF Outstanding
    <2>4. \A i \in 2 .. Len(Questions') : Questions'[i].type # "REGISTER"
        BY <2>2
    <2> QED BY <1>0, <1>1, <2>1, <2>3, <2>4, CountLess
<1>4. CASE c = Watcher /\ RegisterReq(c)
    <2>1. /\ Questions # <<>> /\ Head(Questions).type = "REGISTER" /\ Questions' = Tail(Questions)
          /\ sending = "no" /\ sending' = "no"
        BY <1>4, WatcherAssumption DEF RegisterReq, Questions, MapTypes, centerVars
    <2>2. Questions \in Seq(Requests)
        BY Numbers
    <2>3. /\ \A i \in 2 .. Len(Questions') : Questions'[i].type # "REGISTER"
          /\ Len(Questions') = Len(Questions) - 1
          /\ Questions' # <<>> => Head(Questions').type # "REGISTER"
        BY <2>1, <2>2, QuestionTaken DEF CountInv
    <2>4. Ahead = 1 /\ Ahead' = 0 /\ Serialized = 0 /\ Serialized' = 0
        BY <2>1, <2>3 DEF Ahead, Serialized
    <2>5. Outstanding' <= Outstanding /\ Outstanding \in Int /\ Outstanding' \in Int
        BY <1>0, <2>3, <2>4, Numbers DEF Outstanding
    <2> QED BY <1>0, <1>1, <2>1, <2>3, <2>5, CountLess
<1> QED BY <1>2, <1>3, <1>4

LEMMA CountLost ==
    ASSUME MapTypes, CountInv,
           (\E c \in Clients : LinkLost(c)) \/ CenterRestart \/ WatcherRestart
    PROVE  CountInv'
<1>1. CASE (\E c \in Clients : LinkLost(c)) \/ CenterRestart
    <2>1. PICK C : /\ Disconnect(C) /\ UNCHANGED <<asks, call, pbClientMap>>
                   /\ sending' = "no" \/ (Watcher \notin C /\ UNCHANGED sending)
        <3>1. ASSUME NEW c \in Clients, LinkLost(c)
              PROVE  /\ Disconnect({c}) /\ UNCHANGED <<asks, call, pbClientMap>>
                     /\ sending' = "no" \/ (Watcher \notin {c} /\ UNCHANGED sending)
            BY <3>1 DEF LinkLost, callVars, watcherVars, centerVars
        <3>2. CASE CenterRestart
            BY <3>2 DEF CenterRestart, callVars, watcherVars
        <3> QED BY <1>1, <3>1, <3>2
    <2>2. Asked' = Asked
        BY <2>1 DEF Asked, AskedNow
    <2>3. /\ \A i \in 2 .. Len(Questions') : Questions'[i].type # "REGISTER"
          /\ Within(Outstanding', Asked') /\ trouble' \in 0 .. MaxTrouble /\ up' \subseteq Clients
        BY <2>1, <2>2, AskedBound, CountDisconnect
    <2> QED BY <2>1, <2>3 DEF CountInv
<1>2. CASE WatcherRestart
    <2>1. /\ Disconnect({Watcher}) /\ UNCHANGED asks /\ call' = NoCall /\ pbClientMap' \in Maps
          /\ sending' = "no"
        BY <1>2, EmptyMapType DEF WatcherRestart
    <2>2. Asked' \in Nat
        BY <2>1, AskedBound, Products DEF Asked
    <2>3. /\ \A i \in 2 .. Len(Questions') : Questions'[i].type # "REGISTER"
          /\ Within(Outstanding', Asked') /\ trouble' \in 0 .. MaxTrouble /\ up' \subseteq Clients
        BY <2>1, <2>2, CountDisconnect
    <2> QED BY <2>1, <2>3 DEF CountInv
<1> QED BY <1>1, <1>2

LEMMA CountCenter ==
    ASSUME MapTypes, CountInv, GetServiceReq \/ SendAll \/ AskAll
    PROVE  CountInv'
<1>0. /\ UNCHANGED <<trouble, asks, call, pbClientMap, up>> /\ pbClientMap \in Maps
      /\ up \subseteq Clients /\ sending \in {"no", "clean", "torn"}
    BY DEF GetServiceReq, SendAll, AskAll, callVars, watcherVars, CountInv
<1>1. Asked' = Asked
    BY <1>0 DEF Asked, AskedNow
<1>2. CASE GetServiceReq
    <2>1. /\ Questions # <<>> /\ Questions' = Tail(Questions) /\ sending = "no"
          /\ Head(Questions).type # "REGISTER"
          /\ \/ sending' = "clean" /\ UNCHANGED toWatcher
             \/ sending' = "no" /\ \E l \in Lists : toWatcher' = Append(toWatcher, l)
        <3>1. /\ Questions # <<>> /\ Questions' = Tail(Questions) /\ sending = "no"
              /\ Head(Questions).type # "REGISTER"
            BY <1>2, WatcherAssumption DEF GetServiceReq, Questions, MapTypes
        <3>2. CASE Head(Questions).type = "ALL"
            BY <1>2, <3>1, <3>2 DEF GetServiceReq, Questions
        <3>3. CASE Head(Questions).type = "ONE"
            <4> DEFINE n == Head(Questions).name
                       l == [type |-> "ONE", map |-> [EmptyMap EXCEPT ![n] = serviceMap[n]]]
            <4>1. n \in Names
                BY <3>1, <3>3, Numbers, HeadTail DEF Requests
            <4>2. [EmptyMap EXCEPT ![n] = serviceMap[n]] \in Maps
                BY <4>1, EmptyMapType DEF Maps, MapTypes
            <4>3. l \in Lists
                BY <4>2 DEF Lists
            <4>4. toWatcher' = Append(toWatcher, l) /\ UNCHANGED sending
                BY <1>2, <3>3 DEF GetServiceReq, Questions
            <4> HIDE DEF l
            <4> QED BY <3>1, <4>3, <4>4
        <3> QED BY <1>2, <3>1, <3>2, <3>3 DEF GetServiceReq, Questions
    <2>2. Questions \in Seq(Requests) /\ toWatcher \in Seq(Lists)
        BY Numbers DEF MapTypes
    <2>3. /\ \A i \in 2 .. Len(Questions') : Questions'[i].type # "REGISTER"
          /\ Len(Questions') = Len(Questions) - 1
          /\ Questions' # <<>> => Head(Questions').type # "REGISTER"
        BY <2>1, <2>2, QuestionTaken DEF CountInv
    <2>4. Ahead = 0 /\ Ahead' = 0 /\ Serialized = 0 /\ sending' \in {"no", "clean", "torn"}
        BY <2>1, <2>3 DEF Ahead, Serialized
    <2>5. /\ Len(toWatcher') + Serialized' <= Len(toWatcher) + 1
          /\ Len(toWatcher') \in Nat /\ Serialized' \in Nat
        <3>1. \A l \in Lists : Len(Append(toWatcher, l)) = Len(toWatcher) + 1
            BY <2>2, AppendProperties
        <3> QED BY <2>1, <3>1, Numbers DEF Serialized
    <2>6. Outstanding' <= Outstanding /\ Outstanding \in Int /\ Outstanding' \in Int
        BY <2>3, <2>4, <2>5, Numbers DEF Outstanding
    <2> QED BY <1>0, <1>1, <2>3, <2>4, <2>6, CountLess
<1>3. CASE SendAll
    <2>1. /\ sending # "no" /\ sending' = "no" /\ Questions' = Questions
          /\ \E l \in Lists : toWatcher' = Append(toWatcher, l)
        <3>1. [type |-> "ALL", map |-> serviceMap] \in Lists /\ [type |-> "torn"] \in Lists
            BY DEF Lists, MapTypes
        <3> QED BY <1>3, <3>1 DEF SendAll, Questions
    <2>2. Len(toWatcher') = Len(toWatcher) + 1
        BY <2>1, AppendProperties DEF MapTypes
    <2>3. Serialized = 1 /\ Serialized' = 0 /\ Ahead' = Ahead
        BY <2>1 DEF Serialized, Ahead
    <2>4. Outstanding' = Outstanding /\ Outstanding \in Int
        BY <2>1, <2>2, <2>3, Numbers DEF Outstanding
    <2>5. \A i \in 2 .. Len(Questions') : Questions'[i].type # "REGISTER"
        BY <2>1 DEF CountInv
    <2> QED BY <1>0, <1>1, <2>1, <2>4, <2>5, CountLess
<1>4. CASE AskAll
    <2>1. /\ Questions = <<>> /\ sending = "no" /\ toWatcher = <<>> /\ UNCHANGED <<toWatcher, sending>>
          /\ Questions' = <<[type |-> "ALL"]>>
        <3>1. /\ Questions = <<>> /\ sending = "no" /\ toWatcher = <<>>
              /\ UNCHANGED <<toWatcher, sending>>
            BY <1>4 DEF AskAll, Questions, centerVars
        <3>2. Questions' = Append(Questions, [type |-> "ALL"])
            BY <1>4, WatcherAssumption DEF AskAll, Ask, Questions, MapTypes
        <3> QED BY <3>1, <3>2
    <2>2. /\ Len(Questions') = 1 /\ Ahead' = 0 /\ Len(toWatcher') = 0 /\ Serialized' = 0
        BY <2>1 DEF Ahead, Serialized
    <2>3. Outstanding' = 1
        BY <2>2 DEF Outstanding
    <2>4. Asked' \in Nat
        BY <1>1, AskedBound
    <2>5. Within(Outstanding', Asked')
        BY <2>3, <2>4, WithinAnything
    <2>6. \A i \in 2 .. Len(Questions') : Questions'[i].type # "REGISTER"
        BY <2>2
    <2>7. (call # NoCall => call.time \in 0 .. Patience /\ asks # 0)'
        BY <1>0 DEF CountInv
    <2>8. trouble' \in 0 .. MaxTrouble /\ asks' \in 0 .. MaxAsks
        BY <1>0 DEF CountInv
    <2> QED BY <1>0, <2>1, <2>5, <2>6, <2>7, <2>8 DEF CountInv
<1> QED BY <1>2, <1>3, <1>4

\* What changes only the call keeps the rest of CountInv.
LEMMA CountCalled ==
    ASSUME MapTypes, CountInv, UNCHANGED <<sending, up, pbClientMap, trouble>>,
           asks' \in 0 .. MaxAsks, call' # NoCall => call'.time \in 0 .. Patience /\ asks' # 0,
           \A i \in 2 .. Len(Questions') : Questions'[i].type # "REGISTER",
           Within(Outstanding', Asked')
    PROVE  CountInv'
BY DEF CountInv

\* A call that asks no more.
LEMMA CountQuiet ==
    ASSUME MapTypes, CountInv, UNCHANGED <<sending, up, pbClientMap, trouble, toCenter, toWatcher>>,
           asks' \in 0 .. MaxAsks, call' # NoCall => call'.time \in 0 .. Patience /\ asks' # 0,
           Asked' \in Nat, Asked <= Asked'
    PROVE  CountInv'
<1>1. Questions' = Questions /\ Outstanding' = Outstanding /\ Outstanding \in Int
    <2>1. Questions' = Questions
        BY DEF Questions
    <2>2. Ahead' = Ahead /\ Serialized' = Serialized /\ Serialized \in {0, 1}
        BY <2>1 DEF Ahead, Serialized
    <2> QED BY <2>1, <2>2, Numbers DEF Outstanding
<1>2. Outstanding' <= Outstanding /\ Outstanding' \in Int
    BY <1>1
<1>5. \A i \in 2 .. Len(Questions') : Questions'[i].type # "REGISTER"
    BY <1>1 DEF CountInv
<1>6. Within(Outstanding', Asked')
    BY <1>2, WithinLess DEF CountInv
<1> QED BY <1>5, <1>6, CountCalled

\* The fields of a call that goes on.
LEMMA CallGoesOn ==
    ASSUME call \in Calls, NEW p
    PROVE  /\ call # NoCall
           /\ Goto(p) => call'.pc = p /\ call'.time = call.time /\ call' # NoCall
           /\ WaitThen(p) => call'.pc = p /\ call'.time = call.time + 1 /\ call' # NoCall
<1>1. PICK q, n, k : call = [pc |-> q, name |-> n, time |-> k]
    BY DEF Calls
<1>2. ASSUME NEW a, NEW b PROVE [pc |-> a, name |-> n, time |-> b] # NoCall
    <2>1. DOMAIN [pc |-> a, name |-> n, time |-> b] = {"pc", "name", "time"}
        OBVIOUS
    <2>2. DOMAIN NoCall = {"pc"}
        BY DEF NoCall
    <2> QED BY <2>1, <2>2
<1>3. Goto(p) => call' = [pc |-> p, name |-> n, time |-> k]
    BY <1>1 DEF Goto
<1>4. WaitThen(p) => call' = [pc |-> p, name |-> n, time |-> k + 1]
    BY <1>1 DEF WaitThen
<1> QED BY <1>1, <1>2, <1>3, <1>4

LEMMA CountCalls ==
    ASSUME MapTypes, CountInv,
           (\E n \in Names : GetServices(n)) \/ WaitForConnection \/ AskOne \/ LookForServices
               \/ SleepEnds
    PROVE  CountInv'
<1>0. /\ Asked \in Nat /\ Asked <= asks * Round /\ asks \in Nat /\ asks <= MaxAsks
      /\ MaxAsks \in Nat /\ Patience \in Nat /\ asks \in 0 .. MaxAsks
    BY AskedBound, BoundsAssumption
<1>1. ASSUME NEW n \in Names, GetServices(n) PROVE CountInv'
    <2>1. /\ UNCHANGED <<sending, up, pbClientMap, trouble, toCenter, toWatcher>>
          /\ call.pc = "none" /\ asks' = asks + 1 /\ asks' \in 0 .. MaxAsks /\ asks' # 0
          /\ call' = [pc |-> "connect", name |-> n, time |-> 0]
        BY <1>0, <1>1 DEF GetServices, centerVars, watcherVars
    <2>2. call = NoCall
        BY <2>1 DEF MapTypes, Calls
    <2>3. call' # NoCall /\ call'.pc = "connect" /\ call'.time = 0
        <3>1. DOMAIN call' = {"pc", "name", "time"} /\ DOMAIN NoCall = {"pc"}
            BY <2>1 DEF NoCall
        <3> QED BY <2>1, <3>1
    <2>4. Asked' = asks * Round
        <3>1. AskedNow' = 0
            BY <2>3 DEF AskedNow
        <3>2. Asked' = (asks' - 1) * Round + AskedNow'
            BY <2>3 DEF Asked, Round
        <3>3. asks' - 1 = asks
            BY <1>0, <2>1
        <3>4. Asked' = asks * Round + 0
            BY <3>1, <3>2, <3>3
        <3>5. asks * Round \in Nat
            BY <1>0, Products
        <3> QED BY <3>4, <3>5
    <2>5. Asked = asks * Round
        BY <2>2 DEF Asked
    <2>6. Asked' \in Nat /\ Asked <= Asked'
        BY <1>0, <2>4, <2>5
    <2> QED BY <1>0, <2>1, <2>3, <2>6, CountQuiet
<1>2. ASSUME call \in Calls
      PROVE  /\ call # NoCall /\ Asked = (asks - 1) * Round + AskedNow
             /\ call.time \in Nat /\ call.time <= Patience /\ asks # 0
             /\ (asks - 1) * Round \in Nat
    <2>1. call # NoCall
        BY <1>2, CallGoesOn
    <2>2. asks - 1 \in Nat
        BY <1>0, <2>1 DEF CountInv
    <2> QED BY <1>0, <2>1, <2>2, Products DEF CountInv, Asked
<1>3. CASE WaitForConnection
    <2>1. /\ UNCHANGED <<sending, up, pbClientMap, trouble, toCenter, toWatcher, asks>>
          /\ call.pc = "connect"
        BY <1>3 DEF WaitForConnection, centerVars, watcherVars
    <2>2. call \in Calls
        BY <2>1 DEF MapTypes, NoCall
    <2>3. Asked = (asks - 1) * Round
        BY <1>0, <1>2, <2>1, <2>2 DEF AskedNow
    <2>4. CASE call' = NoCall
        <3>1. Asked' = asks * Round
            BY <2>1, <2>4 DEF Asked, Round
        <3>2. Asked' \in Nat /\ Asked <= Asked'
            BY <1>0, <3>1, Products
        <3> QED BY <1>0, <2>1, <2>4, <3>2, CountQuiet
    <2>5. CASE (call.time < Patience /\ WaitThen("connect")) \/ Goto("ask")
        <3>1. /\ call' # NoCall /\ call'.pc \in {"connect", "ask"} /\ call'.time \in 0 .. Patience
            BY <1>0, <1>2, <2>2, <2>5, CallGoesOn
        <3>2. Asked' = (asks - 1) * Round + 0
            BY <2>1, <3>1 DEF Asked, AskedNow, Round
        <3>3. Asked' \in Nat /\ Asked <= Asked'
            BY <1>0, <1>2, <2>2, <2>3, <3>2
        <3> QED BY <1>0, <1>2, <2>1, <2>2, <3>1, <3>3, CountQuiet
    <2> QED BY <1>3, <2>4, <2>5 DEF WaitForConnection
<1>4. CASE SleepEnds
    <2>1. /\ UNCHANGED <<sending, up, pbClientMap, trouble, toCenter, toWatcher, asks>>
          /\ call.pc = "sleep" /\ Goto("look")
        BY <1>4 DEF SleepEnds, centerVars, watcherVars
    <2>2. call \in Calls
        BY <2>1 DEF MapTypes, NoCall
    <2>3. call' # NoCall /\ call'.pc = "look" /\ call'.time = call.time
        BY <2>1, <2>2, CallGoesOn
    <2>4. AskedNow' = AskedNow
        BY <2>1, <2>3 DEF AskedNow
    <2>5. Asked' = Asked
        BY <1>2, <2>1, <2>2, <2>3, <2>4 DEF Asked, Round
    <2> QED BY <1>0, <1>2, <2>1, <2>2, <2>3, <2>5, CountQuiet
<1>5. CASE AskOne \/ LookForServices
    <2>1. /\ UNCHANGED <<sending, up, pbClientMap, trouble, toWatcher, asks>>
          /\ call.pc \in {"ask", "look"}
        BY <1>5 DEF AskOne, LookForServices, centerVars, watcherVars
    <2>2. call \in Calls
        BY <2>1 DEF MapTypes, NoCall
    <2>3. CASE call' = NoCall /\ UNCHANGED toCenter
        <3>1. Asked' = asks * Round
            BY <2>1, <2>3 DEF Asked, Round
        <3>2. Asked' \in Nat /\ Asked <= Asked'
            BY <1>0, <3>1
        <3> QED BY <1>0, <2>1, <2>3, <3>2, CountQuiet
    <2>4. CASE \/ call.pc = "ask" /\ Goto("look")
               \/ call.pc = "look" /\ call.time < Patience /\ WaitThen("sleep")
        <3>1. /\ call' # NoCall /\ call'.pc \in {"look", "sleep"} /\ call'.time \in 0 .. Patience
              /\ \/ call.pc = "ask" /\ call'.time = call.time
                 \/ call.pc = "look" /\ call'.time = call.time + 1
            BY <1>0, <1>2, <2>2, <2>4, CallGoesOn
        <3>2. AskedNow \in Nat /\ AskedNow' = 1 + call'.time /\ AskedNow + 1 <= AskedNow'
            BY <1>2, <2>2, <3>1 DEF AskedNow
        <3>3. Asked' = (asks - 1) * Round + AskedNow'
            BY <2>1, <3>1 DEF Asked, Round
        <3>4. Asked' \in Nat /\ Asked + 1 <= Asked'
            <4>1. PICK a, b, d \in Nat : /\ a = (asks - 1) * Round /\ b = AskedNow /\ d = AskedNow'
                                         /\ b + 1 <= d
                BY <1>2, <2>2, <3>1, <3>2
            <4>2. Asked = a + b /\ Asked' = a + d
                BY <1>2, <2>2, <3>3, <4>1
            <4> QED BY <4>1, <4>2
        <3>5. PICK r \in Requests : r.type # "REGISTER" /\ Ask(r)
            <4>1. PICK n \in Names : n = call.name
                BY <2>2 DEF Calls
            <4>2. [type |-> "ONE", name |-> n] \in Requests
                BY DEF Requests
            <4>3. Ask([type |-> "ONE", name |-> n])
                BY <1>5, <2>1, <2>4, <3>1, <4>1 DEF AskOne, LookForServices
            <4> QED BY <4>2, <4>3
        <3>6. /\ \A i \in 2 .. Len(Questions') : Questions'[i].type # "REGISTER"
              /\ Within(Outstanding', Asked')
            BY <1>0, <2>1, <3>4, <3>5, CountAsk
        <3> QED BY <1>0, <1>2, <2>1, <2>2, <3>1, <3>6, CountCalled
    <2> QED BY <1>5, <2>3, <2>4 DEF AskOne, LookForServices
<1> QED BY <1>1, <1>3, <1>4, <1>5

LEMMA CountNext == MapTypes /\ CountInv /\ [Next]_vars => CountInv'
<1> SUFFICES ASSUME MapTypes, CountInv, [Next]_vars PROVE CountInv'
    OBVIOUS
<1>1. ASSUME UNCHANGED <<sending, up, pbClientMap, trouble, toCenter, asks, call>>,
             Len(toWatcher') <= Len(toWatcher), Len(toWatcher') \in Nat
      PROVE  CountInv'
    <2>1. Questions' = Questions /\ Asked' = Asked
        BY <1>1 DEF Questions, Asked, AskedNow
    <2>2. Ahead' = Ahead /\ Serialized' = Serialized /\ Serialized \in {0, 1}
        BY <1>1, <2>1 DEF Ahead, Serialized
    <2>3. Outstanding' <= Outstanding /\ Outstanding \in Int /\ Outstanding' \in Int
        BY <1>1, <2>1, <2>2, Numbers DEF Outstanding
    <2> QED BY <1>1, <2>1, <2>3, CountLess DEF CountInv
<1>2. CASE GetServiceRes
    <2>1. toWatcher # <<>> /\ toWatcher' = Tail(toWatcher) /\ toWatcher \in Seq(Lists)
        BY <1>2 DEF GetServiceRes, MapTypes
    <2>2. Len(toWatcher') = Len(toWatcher) - 1 /\ Len(toWatcher) # 0
        BY <2>1, HeadTailProperties, EmptySeq
    <2>3. Len(toWatcher') <= Len(toWatcher) /\ Len(toWatcher') \in Nat
        BY <2>2, Numbers
    <2> QED BY <1>1, <1>2, <2>3 DEF GetServiceRes, centerVars, callVars
<1>3. CASE SaveFile \/ UNCHANGED vars
    <2>1. UNCHANGED <<sending, up, pbClientMap, trouble, toCenter, asks, call, toWatcher>>
        BY <1>3 DEF SaveFile, vars, centerVars, callVars
    <2>2. Len(toWatcher') <= Len(toWatcher) /\ Len(toWatcher') \in Nat
        BY <2>1, Numbers
    <2> QED BY <1>1, <2>1, <2>2
<1>4. CASE GetAllService
    <2>1. UNCHANGED <<sending, up, trouble, toCenter, asks, call, toWatcher>>
        BY <1>4 DEF GetAllService, centerVars, callVars
    <2>2. pbClientMap' \in Maps
        BY <1>4 DEF GetAllService, Loaded, MapTypes
    <2>3. /\ Questions' = Questions /\ Outstanding' = Outstanding /\ Asked' = Asked
        BY <2>1 DEF Questions, Outstanding, Ahead, Serialized, Asked, AskedNow
    <2>4. Within(Outstanding', Asked')
        BY <2>3 DEF CountInv
    <2> QED BY <2>1, <2>2, <2>3, <2>4 DEF CountInv
<1> QED
    BY <1>2, <1>3, <1>4, CountLinks, CountLost, CountCenter, CountCalls DEF Next

-----------------------------------------------------------------------------
(* No list holds a client twice, wherever it came to. *)

OnceEach(m) == \A n \in Names : IsInjective(m[n])
OnceIn(l) == l.type = "torn" \/ OnceEach(l.map)

EntriesInv ==
    /\ OnceEach(serviceMap) /\ OnceEach(pbServiceMap)
    /\ cacheFile = NoFile \/ OnceEach(cacheFile)
    /\ \A l \in ToSet(toWatcher) : OnceIn(l)

\* What Append and Tail do to the lists on the way.
LEMMA ListsOf ==
    ASSUME NEW s \in Seq(Lists)
    PROVE  /\ s # <<>> => Head(s) \in ToSet(s) /\ ToSet(Tail(s)) \subseteq ToSet(s)
           /\ \A l \in Lists : ToSet(Append(s, l)) = ToSet(s) \cup {l}
<1>1. Len(s) \in Nat /\ DOMAIN s = 1 .. Len(s)
    BY LenProperties
<1>2. ASSUME s # <<>> PROVE Head(s) \in ToSet(s) /\ ToSet(Tail(s)) \subseteq ToSet(s)
    <2>1. /\ Tail(s) \in Seq(Lists) /\ Len(Tail(s)) = Len(s) - 1 /\ Len(s) # 0
          /\ \A n \in 1 .. Len(Tail(s)) : Tail(s)[n] = s[n + 1]
        BY <1>2, HeadTailProperties, EmptySeq
    <2>2. DOMAIN Tail(s) = 1 .. Len(Tail(s))
        BY <2>1, LenProperties
    <2>3. Head(s) = s[1]
        BY <1>2
    <2> QED BY <1>1, <2>1, <2>2, <2>3 DEF ToSet
<1>3. ASSUME NEW l \in Lists PROVE ToSet(Append(s, l)) = ToSet(s) \cup {l}
    <2>1. /\ Append(s, l) \in Seq(Lists) /\ Len(Append(s, l)) = Len(s) + 1
          /\ \A n \in 1 .. Len(s) : Append(s, l)[n] = s[n]
          /\ Append(s, l)[Len(s) + 1] = l
        BY AppendProperties
    <2>2. DOMAIN Append(s, l) = 1 .. Len(s) + 1
        BY <2>1, LenProperties
    <2> QED BY <1>1, <2>1, <2>2 DEF ToSet
<1> QED BY <1>2, <1>3

LEMMA EntriesInit == Init => EntriesInv
<1> SUFFICES ASSUME Init PROVE EntriesInv
    OBVIOUS
<1>1. OnceEach(EmptyMap)
    BY DEF OnceEach, EmptyMap, IsInjective
<1>2. ToSet(toWatcher) = {}
    BY DEF Init, ToSet
<1> QED BY <1>1, <1>2 DEF Init, EntriesInv

LEMMA EntriesNext == MapTypes /\ EntriesInv /\ [Next]_vars => EntriesInv'
<1> SUFFICES ASSUME MapTypes, EntriesInv, [Next]_vars PROVE EntriesInv'
    OBVIOUS
<1>0. /\ OnceEach(EmptyMap) /\ EmptyMap \in Maps /\ toWatcher \in Seq(Lists)
      /\ ToSet(<<>>) = {}
    BY EmptyMapType DEF OnceEach, EmptyMap, IsInjective, MapTypes, ToSet
<1>1. ASSUME NEW C, Disconnect(C)
      PROVE  \A l \in ToSet(toWatcher') : OnceIn(l)
    BY <1>0, <1>1 DEF Disconnect, EntriesInv
<1>2. ASSUME NEW c \in Clients, LinkLost(c) PROVE EntriesInv'
    BY <1>1, <1>2 DEF LinkLost, centerVars, watcherVars, EntriesInv
<1>3. CASE CenterRestart
    BY <1>0, <1>1, <1>3 DEF CenterRestart, watcherVars, EntriesInv
<1>4. CASE WatcherRestart
    BY <1>0, <1>1, <1>4 DEF WatcherRestart, Loaded, EntriesInv
<1>5. ASSUME NEW c \in Clients, RegisterReq(c) PROVE EntriesInv'
    <2>1. CASE UNCHANGED serviceMap
        BY <1>5, <2>1 DEF RegisterReq, watcherVars, EntriesInv
    <2>2. CASE ~IsRegistered(c)
        <3>1. serviceMap[NameOf[c]] \in Seq(Clients)
            BY NamesType DEF MapTypes, Maps
        <3>2. IsInjective(Extended(c))
            BY <2>2, <3>1, AppendInjectiveList, NamesType
               DEF IsRegistered, Extended, EntriesInv, OnceEach
        <3>3. UNCHANGED serviceMap
                \/ serviceMap' = [serviceMap EXCEPT ![NameOf[c]] = Extended(c)]
            BY <1>5 DEF RegisterReq, centerVars
        <3>4. OnceEach(serviceMap')
            BY <3>2, <3>3 DEF OnceEach, EntriesInv, MapTypes, Maps
        <3> QED BY <1>5, <3>4 DEF RegisterReq, watcherVars, EntriesInv
    <2> QED BY <1>5, <2>1, <2>2 DEF RegisterReq, centerVars
<1>6. ASSUME NEW l \in Lists, OnceIn(l), toWatcher' = Append(toWatcher, l),
             UNCHANGED <<serviceMap, pbServiceMap, cacheFile>>
      PROVE  EntriesInv'
    BY <1>0, <1>6, ListsOf DEF EntriesInv
<1>7. CASE GetServiceReq
    <2>1. UNCHANGED <<serviceMap, pbServiceMap, cacheFile>>
        BY <1>7 DEF GetServiceReq, watcherVars
    <2>2. CASE UNCHANGED toWatcher
        BY <2>1, <2>2 DEF EntriesInv
    <2>3. CASE Head(toCenter[Watcher]).type = "ONE"
        <3> DEFINE n == Head(toCenter[Watcher]).name
                   m == [EmptyMap EXCEPT ![n] = serviceMap[n]]
                   l == [type |-> "ONE", map |-> m]
        <3>1. n \in Names
            <4>1. toCenter[Watcher] \in Seq(Requests) /\ toCenter[Watcher] # <<>>
                BY <1>7, WatcherAssumption DEF GetServiceReq, MapTypes
            <4> QED BY <2>3, <4>1, HeadTail DEF Requests
        <3>2. m \in Maps /\ OnceEach(m)
            BY <1>0, <3>1 DEF Maps, MapTypes, EntriesInv, OnceEach
        <3>3. toWatcher' = toWatcher \/ toWatcher' = Append(toWatcher, l)
            BY <1>7, <2>3 DEF GetServiceReq
        <3> HIDE DEF m
        <3>4. l \in Lists /\ OnceIn(l)
            BY <3>2 DEF Lists, OnceIn
        <3> HIDE DEF l
        <3> QED BY <1>6, <2>1, <2>2, <3>3, <3>4
    <2> QED BY <1>7, <2>2, <2>3 DEF GetServiceReq
<1>8. CASE SendAll
    <2>1. UNCHANGED <<serviceMap, pbServiceMap, cacheFile>>
        BY <1>8 DEF SendAll, watcherVars
    <2>2. PICK l \in Lists : OnceIn(l) /\ toWatcher' = Append(toWatcher, l)
        <3> DEFINE a == [type |-> "ALL", map |-> serviceMap]
                   b == [type |-> "torn"]
        <3>1. a \in Lists /\ OnceIn(a) /\ b \in Lists /\ OnceIn(b)
            BY DEF Lists, MapTypes, EntriesInv, OnceIn
        <3>2. toWatcher' = Append(toWatcher, a) \/ toWatcher' = Append(toWatcher, b)
            BY <1>8 DEF SendAll
        <3> HIDE DEF a, b
        <3> QED BY <3>1, <3>2
    <2> QED BY <1>6, <2>1, <2>2
<1>9. CASE GetServiceRes
    <2>1. PICK l : l = Head(toWatcher)
        OBVIOUS
    <2>2. /\ toWatcher # <<>> /\ toWatcher' = Tail(toWatcher) /\ UNCHANGED serviceMap
          /\ \/ UNCHANGED <<pbServiceMap, cacheFile>>
             \/ /\ l.type # "torn" /\ pbServiceMap' = Refreshed(l)
                /\ cacheFile' = EmptyMap \/ cacheFile' = cacheFile
        BY <1>9, <2>1 DEF GetServiceRes, centerVars
    <2>3. OnceIn(l) /\ l \in Lists /\ \A k \in ToSet(toWatcher') : OnceIn(k)
        BY <1>0, <2>1, <2>2, ListsOf, HeadTail DEF EntriesInv
    <2>4. l.type # "torn" => OnceEach(Refreshed(l))
        BY <2>3 DEF OnceIn, Refreshed, OnceEach, EntriesInv
    <2> QED BY <1>0, <2>2, <2>3, <2>4 DEF EntriesInv
<1>10. CASE SaveFile
    BY <1>10 DEF SaveFile, centerVars, EntriesInv
<1>11. CASE GetAllService
    BY <1>11 DEF GetAllService, centerVars, Loaded, EntriesInv
<1>12. CASE UNCHANGED <<serviceMap, pbServiceMap, cacheFile, toWatcher>>
    BY <1>12 DEF EntriesInv
<1> QED
    BY <1>2, <1>3, <1>4, <1>5, <1>7, <1>8, <1>9, <1>10, <1>11, <1>12
       DEF Next, vars, centerVars, watcherVars, LinkUp, AskAll, GetServices, WaitForConnection,
           AskOne, LookForServices, SleepEnds

\* A list that holds every client at most once is no longer than there are clients.
LEMMA ListFits ==
    ASSUME NEW s \in Seq(Clients), IsInjective(s)
    PROVE  Len(s) <= Cardinality(Clients)
<1>1. Len(s) \in Nat /\ DOMAIN s = 1 .. Len(s)
    BY LenProperties
<1>2. s \in Injection(1 .. Len(s), Clients)
    BY <1>1 DEF Injection
<1>3. ASSUME NEW n \in Nat
      PROVE  IsFiniteSet(1 .. n) /\ Cardinality(1 .. n) = n
    <2>1. 1 \in Int /\ n \in Int
        OBVIOUS
    <2>2. IsFiniteSet(1 .. n) /\ Cardinality(1 .. n) = IF 1 > n THEN 0 ELSE n - 1 + 1
        BY <2>1, FS_Interval
    <2> QED BY <2>2
<1>4. Cardinality(1 .. Len(s)) <= Cardinality(Clients)
    BY <1>1, <1>2, <1>3, ClientsAssumption, FS_Injection
<1> QED BY <1>1, <1>3, <1>4

\* The types of the register center, its clients and what is on its way: the lists
\* that wait for the Watcher are no more than the calls of getServices and the rounds
\* they may wait allow, with one more that the loop of the gateway asks for, and no
\* list in memory grows longer than there are clients (TypeOK).
THEOREM TypeCorrect == Spec => []TypeOK
<1>1. MapTypes /\ CountInv /\ EntriesInv => TypeOK
    <2> SUFFICES ASSUME MapTypes, CountInv, EntriesInv PROVE TypeOK
        OBVIOUS
    <2>1. call = NoCall \/ call \in [pc : {"connect", "ask", "look", "sleep"}, name : Names,
                                     time : 0 .. Patience]
        <3>1. CASE call = NoCall
            BY <3>1
        <3>2. CASE call # NoCall
            <4>1. PICK p \in {"connect", "ask", "look", "sleep"}, n \in Names, k \in Nat :
                      call = [pc |-> p, name |-> n, time |-> k]
                BY <3>2 DEF MapTypes, Calls
            <4>2. call.time = k
                BY <4>1
            <4>3. k \in 0 .. Patience
                BY <3>2, <4>2 DEF CountInv
            <4> QED BY <4>1, <4>3
        <3> QED BY <3>1, <3>2
    <2>2. Len(toWatcher) <= 1 + MaxAsks * (1 + Patience)
        <3>1. /\ Len(Questions) \in Nat /\ Len(toWatcher) \in Nat /\ Ahead \in {0, 1}
              /\ Ahead <= Len(Questions) /\ Serialized \in {0, 1}
            BY Numbers DEF Serialized
        <3>2. Len(toWatcher) <= Outstanding
            BY <3>1 DEF Outstanding
        <3>3. Outstanding \in Int /\ Asked \in Nat /\ Outstanding <= 1 + Asked
            BY DEF CountInv, Within
        <3>4. Asked <= asks * Round /\ asks \in Nat /\ asks <= MaxAsks /\ MaxAsks \in Nat
            BY AskedBound, BoundsAssumption
        <3>5. asks * Round \in Nat /\ MaxAsks * Round \in Nat /\ asks * Round <= MaxAsks * Round
            BY <3>4, Products
        <3>6. PICK m \in Nat : m = MaxAsks * Round
            BY <3>5
        <3>7. Asked <= m
            BY <3>3, <3>4, <3>5, <3>6
        <3>8. Len(toWatcher) <= 1 + m
            BY <3>1, <3>2, <3>3, <3>7
        <3> QED BY <3>6, <3>8 DEF Round
    <2>3. \A n \in Names : Len(pbServiceMap[n]) <= Cardinality(Clients)
        BY ListFits DEF MapTypes, Maps, EntriesInv, OnceEach
    <2> QED BY <2>1, <2>2, <2>3 DEF TypeOK, MapTypes, CountInv
<1> QED
    BY <1>1, MapTypesInit, MapTypesNext, CountInit, CountNext, EntriesInit, EntriesNext, PTL DEF Spec
=============================================================================
