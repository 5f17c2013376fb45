------------------------- MODULE ConfigCenterProofs -------------------------
(* What is proved of ConfigCenter, for every set of keys, size of pages,     *)
(* number of operations of the tool and of failures.                         *)
EXTENDS ConfigCenter, SequenceTheorems, FiniteSetTheorems, WellFoundedInduction,
        TLAPS

-----------------------------------------------------------------------------
(* The inductive invariant, in parts. *)

\* Content v was uploaded for key k.
IsOwn(v, k) == v \in DOMAIN keyOf /\ keyOf[v] = k

\* TypeOK, and what bounds its counters: an edit has its operation already.
TypeInv ==
    /\ TypeOK
    /\ calls <= ops
    /\ Len(keyOf) + (IF toolPc \in {"load", "edit"} THEN 1 ELSE 0) <= ops
    /\ toolPc \in {"load", "edit"} => toolKey \in Keys

\* The messages of each client are sequences, empty without a bufferevent.
QueueInv ==
    /\ DOMAIN toCenter = Clients /\ DOMAIN toClient = Clients
    /\ \A c \in Clients : \E S : toCenter[c] \in Seq(S)
    /\ \A c \in Clients : \E S : toClient[c] \in Seq(S)
    /\ \A c \in Clients : conn[c] = "none" => ~Unanswered(c)

\* An upload carries a content of its key; only the tool asks for lists, and a
\* request of an earlier call makes the present call stale.
IsRequest(c, m) ==
    /\ m.type \in {"UPLOAD", "DOWNLOAD", "DELETE", "LIST"}
    /\ m.type # "LIST" => m.key \in Keys
    /\ m.type = "UPLOAD" => IsOwn(m.val, m.key)
    /\ m.type = "LIST" => c = "tool" /\ (stale \/ m.call = calls)

\* An answer is empty or has a content of its key.
IsAnswer(c, m) ==
    /\ m.type \in {"CONFIG", "LIST"}
    /\ m.type = "CONFIG" => /\ m.key \in Keys \cup {NoKey}
                            /\ m.val = 0 \/ IsOwn(m.val, m.key)
    /\ m.type = "LIST" => c = "tool" /\ (stale \/ m.call = calls)

MessageInv ==
    \A c \in Clients : /\ \A m \in ToSet(toCenter[c]) : IsRequest(c, m)
                       /\ \A m \in ToSet(toClient[c]) : IsAnswer(c, m)

\* A row holds a content of its key.
RowInv == \A i \in DOMAIN table : IsOwn(table[i].val, table[i].key)

\* The list the tool has is that of its call.
ListInv == allConfigs = NoList \/ stale \/ allConfigs.call = calls

Inv == TypeInv /\ QueueInv /\ MessageInv /\ RowInv /\ OneRowPerKey /\ ListInv /\ OwnList

\* Memory and file of the service, and the map of the tool.
IsOfPort(v) == v \in DOMAIN keyOf /\ PortOf[keyOf[v]] = PortOf[Local]

ServiceInv == \A v \in {cur, cacheFile} : v = 0 \/ IsOfPort(v)
ToolInv == \A k \in Keys : configMap[k] > 0 => IsOwn(configMap[k], k)

-----------------------------------------------------------------------------
(* Operators. *)

\* What Append, Tail and Head do to the elements of a sequence.
LEMMA ElementsOf ==
    ASSUME NEW S, NEW s \in Seq(S)
    PROVE  /\ s # <<>> => /\ Tail(s) \in Seq(S) /\ ToSet(Tail(s)) \subseteq ToSet(s)
                          /\ Head(s) \in ToSet(s)
           /\ \A e : /\ Append(s, e) \in Seq(S \cup {e})
                     /\ ToSet(Append(s, e)) = ToSet(s) \cup {e}
<1>1. Len(s) \in Nat /\ DOMAIN s = 1 .. Len(s) /\ \A n \in 1 .. Len(s) : s[n] \in S
    BY LenProperties, ElementOfSeq
<1>2. ASSUME s # <<>>
      PROVE  /\ Tail(s) \in Seq(S) /\ ToSet(Tail(s)) \subseteq ToSet(s)
             /\ Head(s) \in ToSet(s)
    <2>1. /\ Tail(s) \in Seq(S) /\ Len(Tail(s)) = Len(s) - 1 /\ Len(s) # 0
          /\ \A n \in 1 .. Len(Tail(s)) : Tail(s)[n] = s[n + 1]
        BY <1>2, HeadTailProperties, EmptySeq
    <2>2. DOMAIN Tail(s) = 1 .. Len(Tail(s))
        BY <2>1, LenProperties
    <2>3. Head(s) = s[1]
        BY <1>2
    <2> QED
        BY <1>1, <2>1, <2>2, <2>3 DEF ToSet
<1>3. ASSUME NEW e
      PROVE  Append(s, e) \in Seq(S \cup {e}) /\ ToSet(Append(s, e)) = ToSet(s) \cup {e}
    <2> DEFINE T == S \cup {e}
    <2>1. s \in Seq(T) /\ e \in T
        BY SeqMonotonic
    <2> HIDE DEF T
    <2>2. /\ Append(s, e) \in Seq(T) /\ Len(Append(s, e)) = Len(s) + 1
          /\ \A n \in 1 .. Len(s) : Append(s, e)[n] = s[n]
          /\ Append(s, e)[Len(s) + 1] = e
        BY <2>1, AppendProperties
    <2>3. DOMAIN Append(s, e) = 1 .. Len(s) + 1
        BY <2>2, LenProperties
    <2>4. ToSet(Append(s, e)) = ToSet(s) \cup {e}
        BY <1>1, <2>2, <2>3 DEF ToSet
    <2> QED
        BY <2>2, <2>4 DEF T
<1> QED
    BY <1>2, <1>3

\* The least element of a set of ids.
LEMMA MinIsIn ==
    ASSUME NEW n \in Nat, NEW I \in SUBSET (1 .. n), I # {}
    PROVE  Min(I) \in I
<1> DEFINE T == {1 .. x : x \in I}
           S == 1 .. n
<1>1. T \subseteq FiniteSubsetsOf(S) /\ T # {}
    <2>1. IsFiniteSet(S)
        BY FS_Interval
    <2>2. FiniteSubsetsOf(S) = SUBSET S
        <3> HIDE DEF S
        <3> QED
            BY <2>1, FS_FiniteSubsetsOfFinite
    <2>3. T \subseteq SUBSET S
        OBVIOUS
    <2> QED
        BY <2>2, <2>3
<1>2. PICK t \in T : \A u \in T : <<u, t>> \notin StrictSubsetOrdering(S)
    <2> HIDE DEF T, S
    <2> QED
        BY <1>1, FS_StrictSubsetOrderingWellFounded, WFMin
<1>3. PICK x \in I : t = 1 .. x
    BY <1>2
<1>4. \A y \in I : x <= y
    <2> SUFFICES ASSUME NEW y \in I, y < x
                 PROVE  FALSE
        OBVIOUS
    <2>1. 1 .. y \in T /\ 1 .. y \subseteq t /\ t \subseteq S /\ 1 .. y \subseteq S
        BY <1>2, <1>3
    <2>2. x \in t /\ x \notin 1 .. y
        BY <1>3
    <2>3. <<1 .. y, t>> \in StrictSubsetOrdering(S)
        BY <2>1, <2>2 DEF StrictSubsetOrdering
    <2> QED
        BY <1>2, <2>1, <2>3
<1> QED
    BY <1>4 DEF Min

\* downloadConfig finds nothing or a content of the key.
LEMMA FirstValOwn ==
    ASSUME TypeInv, RowInv, NEW k
    PROVE  FirstVal(k) = 0 \/ IsOwn(FirstVal(k), k)
<1>1. CASE Selected(k) = {}
    BY <1>1 DEF FirstVal
<1>2. CASE Selected(k) # {}
    <2>1. lastId \in Nat /\ Selected(k) \subseteq 1 .. lastId
        BY DEF Selected, TypeInv, TypeOK
    <2>2. Min(Selected(k)) \in Selected(k)
        BY <1>2, <2>1, MinIsIn
    <2> QED
        BY <1>2, <2>2 DEF FirstVal, Selected, RowInv
<1> QED
    BY <1>1, <1>2

-----------------------------------------------------------------------------
(* Messages. *)

\* What the messages are after a step that adds m to the requests of c.
LEMMA SentQueues ==
    ASSUME QueueInv, NEW c \in Clients, NEW m, toCenter' = Sent(c, m),
           UNCHANGED <<conn, toClient>>
    PROVE  /\ QueueInv'
           /\ \A d \in Clients : ToSet(toCenter'[d]) \subseteq ToSet(toCenter[d])
                                   \cup (IF d = c THEN {m} ELSE {})
<1>1. CASE conn[c] = "none"
    BY <1>1 DEF Sent, QueueInv, Unanswered
<1>2. CASE conn[c] # "none"
    <2>1. toCenter' = [toCenter EXCEPT ![c] = Append(@, m)]
        BY <1>2 DEF Sent
    <2>2. DOMAIN toCenter' = Clients
          /\ \A d \in Clients : toCenter'[d] = IF d = c THEN Append(toCenter[c], m)
                                               ELSE toCenter[d]
        BY <2>1 DEF QueueInv
    <2>3. /\ \E S : Append(toCenter[c], m) \in Seq(S)
          /\ ToSet(Append(toCenter[c], m)) = ToSet(toCenter[c]) \cup {m}
        <3>1. PICK S : toCenter[c] \in Seq(S)
            BY DEF QueueInv
        <3> QED
            BY <3>1, ElementsOf
    <2>4. \A d \in Clients : conn'[d] = "none" => ~Unanswered(d)'
        BY <1>2, <2>2 DEF QueueInv, Unanswered
    <2>5. \A d \in Clients : \E S : toCenter'[d] \in Seq(S)
        BY <2>2, <2>3 DEF QueueInv
    <2> QED
        BY <2>2, <2>3, <2>4, <2>5 DEF QueueInv
<1> QED
    BY <1>1, <1>2

\* A handle takes its next request and answers with m or not at all.
LEMMA HandledQueues ==
    ASSUME QueueInv, NEW c \in Clients, NEW type, NEW m, Handles(c, type),
           UNCHANGED toClient \/ Answer(c, m)
    PROVE  /\ QueueInv'
           /\ Head(toCenter[c]) \in ToSet(toCenter[c]) /\ Head(toCenter[c]).type = type
           /\ \A d \in Clients :
                 /\ ToSet(toCenter'[d]) \subseteq ToSet(toCenter[d])
                 /\ ToSet(toClient'[d]) \subseteq ToSet(toClient[d]) \cup
                       (IF UNCHANGED toClient \/ d # c THEN {} ELSE {m})
<1>1. /\ conn[c] = "up" /\ toCenter[c] # <<>> /\ Head(toCenter[c]).type = type
      /\ toCenter' = [toCenter EXCEPT ![c] = Tail(@)] /\ conn' = conn
    BY DEF Handles
<1>2. /\ Head(toCenter[c]) \in ToSet(toCenter[c])
      /\ ToSet(Tail(toCenter[c])) \subseteq ToSet(toCenter[c])
      /\ \E S : Tail(toCenter[c]) \in Seq(S)
    <2>1. PICK S : toCenter[c] \in Seq(S)
        BY DEF QueueInv
    <2> QED
        BY <1>1, <2>1, ElementsOf
<1>3. DOMAIN toCenter' = Clients
      /\ \A d \in Clients : toCenter'[d] = IF d = c THEN Tail(toCenter[c]) ELSE toCenter[d]
    BY <1>1 DEF QueueInv
<1>4. /\ DOMAIN toClient' = Clients /\ \A d \in Clients : \E S : toClient'[d] \in Seq(S)
      /\ \A d \in Clients : d # c => toClient'[d] = toClient[d]
      /\ \A d \in Clients : ToSet(toClient'[d]) \subseteq ToSet(toClient[d]) \cup
                       (IF UNCHANGED toClient \/ d # c THEN {} ELSE {m})
    <2>1. CASE UNCHANGED toClient
        BY <2>1 DEF QueueInv
    <2>2. CASE Answer(c, m) /\ toClient' # toClient
        <3>1. DOMAIN toClient' = Clients
              /\ \A d \in Clients : toClient'[d] = IF d = c THEN Append(toClient[c], m)
                                                   ELSE toClient[d]
            BY <2>2 DEF QueueInv, Answer
        <3>2. PICK S : toClient[c] \in Seq(S)
            BY DEF QueueInv
        <3>3. /\ \E T : Append(toClient[c], m) \in Seq(T)
              /\ ToSet(Append(toClient[c], m)) = ToSet(toClient[c]) \cup {m}
            BY <3>2, ElementsOf
        <3> QED
            BY <2>2, <3>1, <3>3 DEF QueueInv
    <2> QED
        BY <2>1, <2>2
<1>5. \A d \in Clients : conn'[d] = "none" => ~Unanswered(d)'
    BY <1>1, <1>3, <1>4 DEF QueueInv, Unanswered
<1>6. \A d \in Clients : \E S : toCenter'[d] \in Seq(S)
    BY <1>2, <1>3 DEF QueueInv
<1>7. QueueInv'
    BY <1>3, <1>4, <1>5, <1>6 DEF QueueInv
<1> QED
    BY <1>1, <1>2, <1>3, <1>4, <1>7

\* A client reads its next answer.
LEMMA ReadQueues ==
    ASSUME QueueInv, NEW c \in Clients, toClient[c] # <<>>,
           toClient' = [toClient EXCEPT ![c] = Tail(@)], UNCHANGED <<conn, toCenter>>
    PROVE  /\ QueueInv' /\ Head(toClient[c]) \in ToSet(toClient[c])
           /\ \A d \in Clients : ToSet(toClient'[d]) \subseteq ToSet(toClient[d])
<1>1. /\ Head(toClient[c]) \in ToSet(toClient[c])
      /\ ToSet(Tail(toClient[c])) \subseteq ToSet(toClient[c])
      /\ \E S : Tail(toClient[c]) \in Seq(S)
    <2>1. PICK S : toClient[c] \in Seq(S)
        BY DEF QueueInv
    <2> QED
        BY <2>1, ElementsOf
<1>2. DOMAIN toClient' = Clients
      /\ \A d \in Clients : toClient'[d] = IF d = c THEN Tail(toClient[c]) ELSE toClient[d]
    BY DEF QueueInv
<1>3. \A d \in Clients : conn'[d] = "none" => ~Unanswered(d)'
    BY <1>2 DEF QueueInv, Unanswered
<1> QED
    BY <1>1, <1>2, <1>3 DEF QueueInv

\* A client closes its connection.
LEMMA ClosedQueues ==
    ASSUME QueueInv, conn \in [Clients -> {"none", "connecting", "up"}],
           NEW c \in Clients, Closed(c)
    PROVE  /\ QueueInv' /\ conn' \in [Clients -> {"none", "connecting", "up"}]
           /\ ToSet(toCenter'[c]) = {} /\ ToSet(toClient'[c]) = {}
           /\ \A d \in Clients : /\ ToSet(toCenter'[d]) \subseteq ToSet(toCenter[d])
                                  /\ ToSet(toClient'[d]) \subseteq ToSet(toClient[d])
<1>1. /\ conn' = [conn EXCEPT ![c] = "none"]
      /\ toCenter' = [toCenter EXCEPT ![c] = <<>>]
      /\ toClient' = [toClient EXCEPT ![c] = <<>>]
    BY DEF Closed
<1>2. DOMAIN toCenter' = Clients
      /\ \A d \in Clients : toCenter'[d] = IF d = c THEN <<>> ELSE toCenter[d]
    BY <1>1 DEF QueueInv
<1>3. DOMAIN toClient' = Clients
      /\ \A d \in Clients : toClient'[d] = IF d = c THEN <<>> ELSE toClient[d]
    BY <1>1 DEF QueueInv
<1>4. /\ \A d \in Clients : conn'[d] = IF d = c THEN "none" ELSE conn[d]
      /\ conn' \in [Clients -> {"none", "connecting", "up"}]
    BY <1>1
<1>5. ToSet(<<>>) = {} /\ <<>> \in Seq({})
    BY EmptySeq DEF ToSet
<1>6. \A d \in Clients : conn'[d] = "none" => ~Unanswered(d)'
    BY <1>2, <1>3, <1>4 DEF QueueInv, Unanswered
<1>7. \A d \in Clients : (\E S : toCenter'[d] \in Seq(S)) /\ (\E S : toClient'[d] \in Seq(S))
    BY <1>2, <1>3, <1>5 DEF QueueInv
<1>8. QueueInv'
    BY <1>2, <1>3, <1>6, <1>7 DEF QueueInv
<1> QED
    BY <1>2, <1>3, <1>4, <1>5, <1>8

\* Messages that stay are as good as before, while the calls are the same.
LEMMA MessagesKept ==
    ASSUME MessageInv, UNCHANGED <<stale, calls>>,
           \A v, k : IsOwn(v, k) => IsOwn(v, k)',
           \A c \in Clients : \A m \in ToSet(toCenter'[c]) :
               m \in ToSet(toCenter[c]) \/ IsRequest(c, m)',
           \A c \in Clients : \A m \in ToSet(toClient'[c]) :
               m \in ToSet(toClient[c]) \/ IsAnswer(c, m)'
    PROVE  MessageInv'
<1>1. ASSUME NEW c \in Clients, NEW m, IsRequest(c, m)
      PROVE  IsRequest(c, m)'
    BY <1>1 DEF IsRequest
<1>2. ASSUME NEW c \in Clients, NEW m, IsAnswer(c, m)
      PROVE  IsAnswer(c, m)'
    BY <1>2 DEF IsAnswer
<1> QED
    BY <1>1, <1>2 DEF MessageInv

-----------------------------------------------------------------------------
(* What the steps preserve. *)

LEMMA InvInit == Init => Inv
<1> SUFFICES ASSUME Init PROVE Inv
    OBVIOUS
<1> USE DEF Init
<1>1. TypeInv
    <2>2. /\ lastId \in Nat /\ keyOf \in Seq(Keys)
          /\ conn \in [Clients -> {"none", "connecting", "up"}]
          /\ \A c \in Clients : conn[c] # "none"
          /\ Len(keyOf) = 0
        OBVIOUS
    <2>3. /\ cur \in Contents /\ cacheFile \in Contents /\ calls \in 0..MaxOps
          /\ ops \in 0..MaxOps /\ trouble \in 0..MaxTrouble /\ calls <= ops
          /\ configMap \in [Keys \cup {NoKey} -> Contents \cup {NotCached}]
        BY BoundsAssumption DEF Contents
    <2>4. toolPc = "idle" /\ ops = 0 /\ toolKey = NoKey /\ toolPage = 1
        OBVIOUS
    <2>5. saving \in BOOLEAN /\ startPc \in {"waiting", "timer", "failed", "lookup"}
          /\ blind \in BOOLEAN /\ stale \in BOOLEAN
        OBVIOUS
    <2>6. \E ids \in SUBSET (1..lastId) : table \in [ids -> [key : Keys, val : 1..MaxOps]]
        <3>1. {} \in SUBSET (1..lastId) /\ table = <<>>
            OBVIOUS
        <3>2. <<>> \in [{} -> [key : Keys, val : 1..MaxOps]]
            OBVIOUS
        <3> HIDE DEF Init
        <3> QED
            BY <3>1, <3>2
    <2> HIDE DEF Init
    <2>7. toolKey \in Keys \cup {NoKey} /\ toolPage \in Pages \cup {1}
        BY <2>4
    <2>8. TypeOK
        BY <2>2, <2>3, <2>4, <2>5, <2>6, <2>7 DEF TypeOK
    <2> QED
        BY <2>2, <2>3, <2>4, <2>8 DEF TypeInv
<1>2. QueueInv
    <2>1. \A k : Down(k) \in {Down(k)}
        OBVIOUS
    <2>2. \A k : <<Down(k)>> \in Seq({Down(k)})
        BY <2>1
    <2>3. \A S : <<>> \in Seq(S)
        BY EmptySeq
    <2>4. \A c \in Clients : toCenter[c] = <<>> \/ toCenter[c] = <<Down(Local)>>
        OBVIOUS
    <2> QED
        BY <2>2, <2>3, <2>4 DEF QueueInv, Clients
<1>3. MessageInv
    <2>1. ToSet(<<>>) = {} /\ ToSet(<<Down(Local)>>) = {Down(Local)}
        BY DEF ToSet
    <2>2. \A c \in Clients : IsRequest(c, Down(Local))
        BY KeysAssumption DEF IsRequest, Down
    <2>3. \A c \in Clients : toCenter[c] = <<>> \/ toCenter[c] = <<Down(Local)>>
        OBVIOUS
    <2>4. \A c \in Clients : toClient[c] = <<>>
        OBVIOUS
    <2> QED
        BY <2>1, <2>2, <2>3, <2>4 DEF MessageInv
<1>4. RowInv /\ OneRowPerKey /\ ListInv /\ OwnList
    BY DEF RowInv, OneRowPerKey, ListInv, OwnList
<1> QED
    BY <1>1, <1>2, <1>3, <1>4 DEF Inv

\* Rows and their keys are a matter of the center alone.
LEMMA RowsKept ==
    ASSUME RowInv, OneRowPerKey, UNCHANGED centerVars, \A v, k : IsOwn(v, k) => IsOwn(v, k)'
    PROVE  RowInv' /\ OneRowPerKey'
BY DEF RowInv, OneRowPerKey, centerVars

LEMMA ListsKept ==
    ASSUME ListInv, OwnList, UNCHANGED toolVars
    PROVE  ListInv' /\ OwnList'
BY DEF ListInv, OwnList, toolVars

LEMMA OwnKept == UNCHANGED keyOf => \A v, k : IsOwn(v, k) => IsOwn(v, k)'
BY DEF IsOwn

LEMMA OwnIsContent ==
    ASSUME TypeInv, NEW v, NEW k, IsOwn(v, k)
    PROVE  v \in 1 .. MaxOps /\ v \in Contents
<1>1. /\ keyOf \in Seq(Keys) /\ ops \in 0..MaxOps /\ Len(keyOf) <= ops
    BY LenProperties DEF TypeInv, TypeOK
<1>2. v \in 1 .. Len(keyOf) /\ Len(keyOf) \in Nat
    BY <1>1, LenProperties DEF IsOwn
<1> QED
    BY <1>1, <1>2, BoundsAssumption DEF Contents

\* The network.
LEMMA NetStep ==
    ASSUME Inv, NEW c \in Clients, Connect(c) \/ Connected(c) \/ Lose(c)
    PROVE  Inv'
<1>1. /\ UNCHANGED <<centerVars, serviceVars, toolVars, keyOf, ops>>
      /\ trouble' \in 0..MaxTrouble
      /\ conn' \in [Clients -> {"none", "connecting", "up"}]
    BY BoundsAssumption DEF Connect, Connected, Lose, Closed, Inv, TypeInv, TypeOK
<1>2. /\ QueueInv'
      /\ \A d \in Clients : /\ ToSet(toCenter'[d]) \subseteq ToSet(toCenter[d])
                             /\ ToSet(toClient'[d]) \subseteq ToSet(toClient[d])
    <2>1. CASE Connect(c) \/ Connected(c)
        <3>1. \A d \in Clients : conn'[d] = "none" => conn[d] = "none"
            BY <2>1 DEF Connect, Connected, Inv, TypeInv, TypeOK
        <3>2. UNCHANGED <<toCenter, toClient>>
            BY <2>1 DEF Connect, Connected
        <3> QED
            BY <3>1, <3>2 DEF Inv, QueueInv, Unanswered
    <2>2. CASE Lose(c)
        BY <2>2, ClosedQueues DEF Lose, Inv, TypeInv, TypeOK
    <2> QED
        BY <2>1, <2>2
<1>3. MessageInv'
    <2>1. UNCHANGED <<stale, calls>>
        BY <1>1 DEF toolVars
    <2> QED
        BY <1>1, <1>2, <2>1, OwnKept, MessagesKept DEF Inv
<1>4. RowInv' /\ OneRowPerKey' /\ ListInv' /\ OwnList'
    BY <1>1, OwnKept, RowsKept, ListsKept DEF Inv
<1>5. TypeInv'
    BY <1>1, <1>2 DEF Inv, TypeInv, TypeOK, QueueInv, centerVars, serviceVars, toolVars
<1> QED
    BY <1>2, <1>3, <1>4, <1>5 DEF Inv

\* What every request leaves alone, with an answer m or none.
LEMMA HandlerFrame ==
    ASSUME Inv, NEW c \in Clients, NEW type, NEW m, Handles(c, type),
           trouble' \in 0..MaxTrouble,
           UNCHANGED toClient \/ (Answer(c, m) /\ IsAnswer(c, m)),
           lastId' \in Nat, blind' \in BOOLEAN,
           \E ids \in SUBSET (1..lastId') : table' \in [ids -> [key : Keys, val : 1..MaxOps]]
    PROVE  TypeInv' /\ QueueInv' /\ MessageInv' /\ ListInv' /\ OwnList'
<1>1. UNCHANGED <<conn, serviceVars, toolVars, keyOf, ops>>
    BY DEF Handles
<1>2. /\ QueueInv'
      /\ \A d \in Clients :
            /\ ToSet(toCenter'[d]) \subseteq ToSet(toCenter[d])
            /\ ToSet(toClient'[d]) \subseteq ToSet(toClient[d]) \cup
                       (IF UNCHANGED toClient \/ d # c THEN {} ELSE {m})
    BY HandledQueues DEF Inv
<1>3. MessageInv'
    <2>1. UNCHANGED <<stale, calls, keyOf>>
        BY <1>1 DEF toolVars
    <2>2. IsAnswer(c, m) => IsAnswer(c, m)'
        BY <2>1 DEF IsAnswer, IsOwn
    <2>3. \A d \in Clients : \A n \in ToSet(toClient'[d]) :
               n \in ToSet(toClient[d]) \/ IsAnswer(d, n)'
        BY <1>2, <2>2
    <2> QED
        BY <1>2, <2>1, <2>3, OwnKept, MessagesKept DEF Inv
<1>4. ListInv' /\ OwnList'
    BY <1>1, ListsKept DEF Inv
<1>5. TypeInv'
    BY <1>1, <1>2 DEF Inv, TypeInv, TypeOK, QueueInv, serviceVars, toolVars
<1> QED
    BY <1>2, <1>3, <1>4, <1>5

\* The table after an insert of the content of an upload.
LEMMA InsertSafe ==
    ASSUME TypeInv, RowInv, NEW k \in Keys, NEW v, IsOwn(v, k), Insert(k, v), UNCHANGED keyOf
    PROVE  /\ lastId' \in Nat /\ RowInv'
           /\ \E ids \in SUBSET (1..lastId') : table' \in [ids -> [key : Keys, val : 1..MaxOps]]
           /\ OneRowPerKey /\ ~blind /\ Selected(k) = {} => OneRowPerKey'
<1>1. /\ lastId \in Nat /\ lastId' = lastId + 1 /\ DOMAIN table \subseteq 1..lastId
      /\ table \in [DOMAIN table -> [key : Keys, val : 1..MaxOps]]
    BY DEF TypeInv, TypeOK, Insert
<1>2. /\ DOMAIN table' = DOMAIN table \cup {lastId'}
      /\ table'[lastId'] = [key |-> k, val |-> v]
      /\ \A i \in DOMAIN table : table'[i] = table[i]
    BY <1>1 DEF Insert
<1>3. table' \in [DOMAIN table \cup {lastId'} -> [key : Keys, val : 1..MaxOps]]
    <2>1. v \in 1..MaxOps
        BY OwnIsContent
    <2> QED
        BY <1>1, <2>1 DEF Insert
<1>4. DOMAIN table \cup {lastId'} \in SUBSET (1..lastId')
    BY <1>1
<1>5. RowInv'
    BY <1>2 DEF RowInv, IsOwn
<1>6. ASSUME OneRowPerKey, ~blind, Selected(k) = {}
      PROVE  OneRowPerKey'
    BY <1>2, <1>6 DEF OneRowPerKey, Selected
<1> QED
    BY <1>1, <1>3, <1>4, <1>5, <1>6

\* The handles of the center.
LEMMA ServerStep ==
    ASSUME Inv, NEW c \in Clients, Server(c)
    PROVE  Inv'
<1>1. /\ trouble' \in 0..MaxTrouble
      /\ UNCHANGED keyOf
    BY BoundsAssumption DEF Server, ServerUpload, ServerDownload, ServerList, ServerDelete,
        Handles, QueryFails, Inv, TypeInv, TypeOK
<1>2. /\ lastId \in Nat /\ blind \in BOOLEAN
      /\ \E ids \in SUBSET (1..lastId) : table \in [ids -> [key : Keys, val : 1..MaxOps]]
    BY DEF Inv, TypeInv, TypeOK
<1> DEFINE r == Head(toCenter[c])
<1>3. ASSUME NEW type, Handles(c, type)
      PROVE  IsRequest(c, r) /\ r.type = type
    <2>1. toCenter[c] # <<>> /\ r.type = type
        BY <1>3 DEF Handles
    <2>2. PICK S : toCenter[c] \in Seq(S)
        BY DEF Inv, QueueInv
    <2>3. r \in ToSet(toCenter[c])
        BY <2>1, <2>2, ElementsOf
    <2> QED
        BY <2>1, <2>3 DEF Inv, MessageInv
<1>4. CASE ServerUpload(c)
    <2>1. /\ Handles(c, "UPLOAD") /\ UNCHANGED toClient
          /\ IsOwn(r.val, r.key) /\ r.key \in Keys
        BY <1>3, <1>4 DEF ServerUpload, IsRequest
    <2>2. CASE HasRow(r.key) /\ table' = Updated(r.key, r.val) /\ UNCHANGED <<lastId, blind>>
        <3>1. r.val \in 1..MaxOps
            BY <2>1, OwnIsContent DEF Inv
        <3>2. PICK ids \in SUBSET (1..lastId) : table \in [ids -> [key : Keys, val : 1..MaxOps]]
            BY <1>2
        <3>3. table' \in [ids -> [key : Keys, val : 1..MaxOps]]
            BY <2>1, <2>2, <3>1, <3>2 DEF Updated
        <3>4. TypeInv' /\ QueueInv' /\ MessageInv' /\ ListInv' /\ OwnList'
            BY <1>1, <1>2, <2>1, <2>2, <3>3, HandlerFrame
        <3>5. /\ DOMAIN table' = DOMAIN table
              /\ \A i \in DOMAIN table :
                    \/ table'[i] = table[i]
                    \/ /\ table[i].key = r.key
                       /\ table'[i] = [key |-> r.key, val |-> r.val]
            BY <2>2, <3>2 DEF Updated, Selected
        <3>6. \A i \in DOMAIN table : table'[i].key = table[i].key
            BY <3>5
        <3>7. RowInv'
            BY <1>1, <2>1, <3>5 DEF Inv, RowInv, IsOwn
        <3>8. OneRowPerKey'
            BY <2>2, <3>5, <3>6 DEF Inv, OneRowPerKey
        <3> QED
            BY <3>4, <3>7, <3>8 DEF Inv
    <2>3. CASE ~HasRow(r.key) /\ Insert(r.key, r.val) /\ UNCHANGED blind
        <3>1. /\ lastId' \in Nat /\ RowInv'
              /\ \E ids \in SUBSET (1..lastId') : table' \in [ids -> [key : Keys, val : 1..MaxOps]]
              /\ ~blind => OneRowPerKey'
            BY <1>1, <2>1, <2>3, InsertSafe DEF Inv, HasRow
        <3>2. TypeInv' /\ QueueInv' /\ MessageInv' /\ ListInv' /\ OwnList'
            BY <1>1, <1>2, <2>1, <2>3, <3>1, HandlerFrame
        <3>3. OneRowPerKey'
            BY <2>3, <3>1 DEF OneRowPerKey
        <3> QED
            BY <3>1, <3>2, <3>3 DEF Inv
    <2>4. CASE UNCHANGED centerVars
        <3>1. TypeInv' /\ QueueInv' /\ MessageInv' /\ ListInv' /\ OwnList'
            BY <1>1, <1>2, <2>1, <2>4, HandlerFrame DEF centerVars
        <3>2. RowInv' /\ OneRowPerKey'
            BY <1>1, <2>4, RowsKept, OwnKept DEF Inv
        <3> QED
            BY <3>1, <3>2 DEF Inv
    <2>5. CASE Insert(r.key, r.val) /\ blind' = TRUE
        <3>1. /\ lastId' \in Nat /\ RowInv'
              /\ \E ids \in SUBSET (1..lastId') : table' \in [ids -> [key : Keys, val : 1..MaxOps]]
            BY <1>1, <2>1, <2>5, InsertSafe DEF Inv
        <3>2. TypeInv' /\ QueueInv' /\ MessageInv' /\ ListInv' /\ OwnList'
            BY <1>1, <1>2, <2>1, <2>5, <3>1, HandlerFrame
        <3>3. OneRowPerKey'
            BY <2>5 DEF OneRowPerKey
        <3> QED
            BY <3>1, <3>2, <3>3 DEF Inv
    <2> QED
        BY <1>4, <2>2, <2>3, <2>4, <2>5 DEF ServerUpload
<1>5. CASE ServerDownload(c)
    <2>1. Handles(c, "DOWNLOAD") /\ r.key \in Keys
        BY <1>3, <1>5 DEF ServerDownload, IsRequest
    <2>2. PICK v \in {0, FirstVal(r.key)} : Answer(c, Conf(r.key, v))
        BY <1>5 DEF ServerDownload
    <2>3. IsAnswer(c, Conf(r.key, v))
        BY <2>1, <2>2, FirstValOwn DEF Inv, IsAnswer, Conf
    <2>4. UNCHANGED centerVars
        BY <1>5 DEF ServerDownload
    <2>5. TypeInv' /\ QueueInv' /\ MessageInv' /\ ListInv' /\ OwnList'
        BY <1>1, <1>2, <2>1, <2>2, <2>3, <2>4, HandlerFrame DEF centerVars
    <2>6. RowInv' /\ OneRowPerKey'
        BY <1>1, <2>4, RowsKept, OwnKept DEF Inv
    <2> QED
        BY <2>5, <2>6 DEF Inv
<1>6. CASE ServerList(c)
    <2>1. Handles(c, "LIST") /\ c = "tool" /\ (stale \/ r.call = calls)
        BY <1>3, <1>6 DEF ServerList, IsRequest
    <2>2. PICK ks \in {<<>>, PageOf(r.page)} : Answer(c, ListRes(r.call, ks))
        BY <1>6 DEF ServerList
    <2>3. IsAnswer(c, ListRes(r.call, ks))
        BY <2>1 DEF IsAnswer, ListRes
    <2>4. UNCHANGED centerVars
        BY <1>6 DEF ServerList
    <2>5. TypeInv' /\ QueueInv' /\ MessageInv' /\ ListInv' /\ OwnList'
        BY <1>1, <1>2, <2>1, <2>2, <2>3, <2>4, HandlerFrame DEF centerVars
    <2>6. RowInv' /\ OneRowPerKey'
        BY <1>1, <2>4, RowsKept, OwnKept DEF Inv
    <2> QED
        BY <2>5, <2>6 DEF Inv
<1>7. CASE ServerDelete(c)
    <2>1. Handles(c, "DELETE") /\ UNCHANGED <<lastId, blind>>
        BY <1>7 DEF ServerDelete
    <2>2. IsAnswer(c, Conf(NoKey, 0))
        BY DEF IsAnswer, Conf
    <2>3. UNCHANGED toClient \/ Answer(c, Conf(NoKey, 0))
        BY <1>7 DEF ServerDelete
    <2>4. CASE table' = Remaining(r.key)
        <3>1. PICK ids \in SUBSET (1..lastId) : table \in [ids -> [key : Keys, val : 1..MaxOps]]
            BY <1>2
        <3>2. /\ DOMAIN table' \subseteq DOMAIN table
              /\ \A i \in DOMAIN table' : table'[i] = table[i]
              /\ table' \in [DOMAIN table' -> [key : Keys, val : 1..MaxOps]]
              /\ DOMAIN table' \in SUBSET (1..lastId)
            BY <2>4, <3>1 DEF Remaining, Restrict
        <3>3. TypeInv' /\ QueueInv' /\ MessageInv' /\ ListInv' /\ OwnList'
            <4>1. /\ lastId' \in Nat /\ blind' \in BOOLEAN
                  /\ \E S \in SUBSET (1..lastId') : table' \in [S -> [key : Keys, val : 1..MaxOps]]
                BY <1>2, <2>1, <3>2
            <4> QED
                BY <1>1, <2>1, <2>2, <2>3, <4>1, HandlerFrame
        <3>4. RowInv' /\ OneRowPerKey'
            BY <1>1, <2>1, <3>2 DEF Inv, RowInv, OneRowPerKey, IsOwn
        <3> QED
            BY <3>3, <3>4 DEF Inv
    <2>5. CASE UNCHANGED table
        <3>1. TypeInv' /\ QueueInv' /\ MessageInv' /\ ListInv' /\ OwnList'
            BY <1>1, <1>2, <2>1, <2>2, <2>3, <2>5, HandlerFrame
        <3>2. RowInv' /\ OneRowPerKey'
            BY <1>1, <2>1, <2>5, RowsKept, OwnKept DEF Inv, centerVars
        <3> QED
            BY <3>1, <3>2 DEF Inv
    <2> QED
        BY <1>7, <2>4, <2>5 DEF ServerDelete
<1> QED
    BY <1>4, <1>5, <1>6, <1>7 DEF Server

\* A step that adds at most the request m of client c to the messages.
LEMMA RequestFrame ==
    ASSUME Inv, NEW c \in Clients, NEW m, IsRequest(c, m)', toCenter' = Sent(c, m),
           UNCHANGED <<conn, toClient, stale, calls>>,
           \A v, k : IsOwn(v, k) => IsOwn(v, k)'
    PROVE  QueueInv' /\ MessageInv'
<1>1. /\ QueueInv'
      /\ \A d \in Clients : ToSet(toCenter'[d]) \subseteq ToSet(toCenter[d])
                              \cup (IF d = c THEN {m} ELSE {})
    BY SentQueues DEF Inv
<1>2. \A d \in Clients : \A n \in ToSet(toCenter'[d]) :
           n \in ToSet(toCenter[d]) \/ IsRequest(d, n)'
    BY <1>1
<1>3. MessageInv'
    BY <1>2, MessagesKept DEF Inv
<1> QED
    BY <1>1, <1>3

\* A step that leaves the messages alone.
LEMMA QuietFrame ==
    ASSUME Inv, UNCHANGED <<netVars, stale, calls>>, \A v, k : IsOwn(v, k) => IsOwn(v, k)'
    PROVE  QueueInv' /\ MessageInv'
<1>1. QueueInv'
    BY DEF Inv, QueueInv, Unanswered, netVars
<1>2. MessageInv'
    BY MessagesKept DEF Inv, netVars
<1> QED
    BY <1>1, <1>2

\* The service.
LEMMA ServiceStep ==
    ASSUME Inv, StartConnected \/ StartTimesOut \/ TimerCb \/ DownloadOther
                \/ DownloadConfigRes \/ SaveFile \/ ServiceRestart
    PROVE  Inv'
<1> USE DEF Clients
<1>1. UNCHANGED <<centerVars, toolVars, keyOf>>
    BY DEF StartConnected, StartTimesOut, TimerCb, DownloadOther, DownloadConfigRes, SaveFile,
        ServiceRestart
<1>2. ListInv' /\ OwnList' /\ RowInv' /\ OneRowPerKey'
    BY <1>1, ListsKept, RowsKept, OwnKept DEF Inv
<1>3. UNCHANGED <<stale, calls>> /\ \A v, k : IsOwn(v, k) => IsOwn(v, k)'
    BY <1>1, OwnKept DEF toolVars
<1>4. \A k \in Keys : IsRequest("service", Down(k))'
    BY DEF IsRequest, Down
<1>5. CASE StartConnected \/ StartTimesOut \/ SaveFile
    <2>1. QueueInv' /\ MessageInv'
        BY <1>3, <1>5, QuietFrame DEF StartConnected, StartTimesOut, SaveFile
    <2>2. TypeInv'
        BY <1>1, <1>5, <2>1 DEF Inv, TypeInv, TypeOK, QueueInv, centerVars, toolVars, netVars,
            StartConnected, StartTimesOut, SaveFile
    <2> QED
        BY <1>2, <2>1, <2>2 DEF Inv
<1>6. CASE TimerCb \/ DownloadOther
    <2>1. PICK k \in Keys : toCenter' = Sent("service", Down(k))
        BY <1>6, KeysAssumption DEF TimerCb, DownloadOther
    <2>2. QueueInv' /\ MessageInv'
        <3>1. UNCHANGED <<conn, toClient>>
            BY <1>6 DEF TimerCb, DownloadOther
        <3> QED
            BY <1>3, <1>4, <2>1, <3>1, RequestFrame
    <2>3. UNCHANGED <<conn, serviceVars, trouble>> /\ ops' \in 0..MaxOps /\ ops <= ops'
        BY <1>6, BoundsAssumption DEF TimerCb, DownloadOther, Inv, TypeInv, TypeOK
    <2>4. TypeInv'
        <3>1. Len(keyOf) \in Nat
            BY LenProperties DEF Inv, TypeInv, TypeOK
        <3> QED
            BY <1>1, <2>2, <2>3, <3>1 DEF Inv, TypeInv, TypeOK, QueueInv, centerVars, toolVars,
                serviceVars
    <2> QED
        BY <1>2, <2>2, <2>4 DEF Inv
<1>7. CASE DownloadConfigRes
    <2>1. /\ QueueInv' /\ Head(toClient["service"]) \in ToSet(toClient["service"])
          /\ \A d \in Clients : /\ ToSet(toClient'[d]) \subseteq ToSet(toClient[d])
                                 /\ toCenter'[d] = toCenter[d]
        BY <1>7, ReadQueues DEF Inv, DownloadConfigRes
    <2>2. MessageInv'
        BY <1>3, <2>1, MessagesKept DEF Inv
    <2> DEFINE m == Head(toClient["service"])
    <2>3. IsAnswer("service", m)
        BY <2>1 DEF Inv, MessageInv
    <2>4. cur' \in Contents /\ cacheFile' \in Contents /\ saving' \in BOOLEAN
        <3>1. CASE IsLocal(m.key) /\ m.type = "CONFIG"
            <4>1. m.val \in Contents
                BY <2>3, <3>1, OwnIsContent, BoundsAssumption DEF Inv, IsAnswer, Contents
            <4> QED
                BY <1>7, <3>1, <4>1, BoundsAssumption DEF DownloadConfigRes, Contents
        <3>2. CASE ~IsLocal(m.key)
            BY <1>7, <3>2 DEF DownloadConfigRes, Inv, TypeInv, TypeOK
        <3> QED
            BY <2>3, <3>1, <3>2 DEF IsAnswer
    <2>5. TypeInv'
        BY <1>1, <1>7, <2>1, <2>4 DEF Inv, TypeInv, TypeOK, QueueInv, centerVars, toolVars,
            DownloadConfigRes
    <2> QED
        BY <1>2, <2>1, <2>2, <2>5 DEF Inv
<1>8. CASE ServiceRestart
    <2>1. /\ conn' \in [Clients -> {"none", "connecting", "up"}]
          /\ \A d \in Clients : conn'[d] = IF d = "service" THEN "connecting" ELSE conn[d]
        BY <1>8 DEF ServiceRestart, Inv, TypeInv, TypeOK
    <2>2. DOMAIN toCenter' = Clients
          /\ \A d \in Clients : toCenter'[d] = IF d = "service" THEN <<Down(Local)>>
                                               ELSE toCenter[d]
        BY <1>8 DEF ServiceRestart, Inv, QueueInv
    <2>3. DOMAIN toClient' = Clients
          /\ \A d \in Clients : toClient'[d] = IF d = "service" THEN <<>> ELSE toClient[d]
        BY <1>8 DEF ServiceRestart, Inv, QueueInv
    <2>4. <<Down(Local)>> \in Seq({Down(Local)}) /\ <<>> \in Seq({Down(Local)})
        BY EmptySeq
    <2>5. QueueInv'
        BY <2>1, <2>2, <2>3, <2>4 DEF Inv, QueueInv, Unanswered
    <2>6. ToSet(<<Down(Local)>>) = {Down(Local)} /\ ToSet(<<>>) = {}
        BY DEF ToSet
    <2>7. MessageInv'
        BY <1>3, <1>4, <2>2, <2>3, <2>6, KeysAssumption, MessagesKept DEF Inv
    <2>8. TypeInv'
        <3>1. /\ trouble' \in 0..MaxTrouble /\ cur' \in Contents
              /\ startPc' \in {"waiting", "timer", "failed", "lookup"} /\ saving' = FALSE
              /\ UNCHANGED <<ops, cacheFile>>
            BY <1>8, BoundsAssumption DEF ServiceRestart, Inv, TypeInv, TypeOK, Contents
        <3> QED
            BY <1>1, <2>1, <2>5, <3>1 DEF Inv, TypeInv, TypeOK, QueueInv, centerVars, toolVars
    <2> QED
        BY <1>2, <2>5, <2>7, <2>8 DEF Inv
<1> QED
    BY <1>5, <1>6, <1>7, <1>8

\* The tool reads an answer.
LEMMA ToolReads ==
    ASSUME Inv, ToolConfigRes \/ DownloadAllConfigRes
    PROVE  Inv'
<1> USE DEF Clients
<1>1. /\ toClient["tool"] # <<>> /\ toClient' = [toClient EXCEPT !["tool"] = Tail(@)]
      /\ UNCHANGED <<centerVars, conn, toCenter, serviceVars, toolPc, toolKey, toolPage, calls,
                     stale, returned, keyOf, ops, trouble>>
    BY DEF ToolConfigRes, DownloadAllConfigRes
<1> DEFINE m == Head(toClient["tool"])
<1>2. /\ QueueInv' /\ m \in ToSet(toClient["tool"])
      /\ \A d \in Clients : ToSet(toClient'[d]) \subseteq ToSet(toClient[d])
    BY <1>1, ReadQueues DEF Inv
<1>3. IsAnswer("tool", m)
    BY <1>2 DEF Inv, MessageInv
<1>4. MessageInv'
    BY <1>1, <1>2, OwnKept, MessagesKept DEF Inv
<1>5. RowInv' /\ OneRowPerKey' /\ OwnList'
    <2>1. OwnList'
        BY <1>1 DEF Inv, OwnList
    <2> QED
        BY <1>1, <2>1, RowsKept, OwnKept DEF Inv
<1>6. ListInv'
    <2>1. CASE ToolConfigRes
        BY <2>1 DEF ToolConfigRes, Inv, ListInv
    <2>2. CASE DownloadAllConfigRes
        BY <1>1, <1>3, <2>2 DEF DownloadAllConfigRes, IsAnswer, ListInv
    <2> QED
        BY <2>1, <2>2
<1>7. configMap' \in [Keys \cup {NoKey} -> Contents \cup {NotCached}]
    <2>1. CASE ToolConfigRes
        <3>1. m.key \in Keys \cup {NoKey} /\ m.val \in Contents
            BY <1>3, <2>1, OwnIsContent, BoundsAssumption
            DEF ToolConfigRes, IsAnswer, Inv, Contents
        <3> QED
            BY <2>1, <3>1 DEF ToolConfigRes, Inv, TypeInv, TypeOK
    <2>2. CASE DownloadAllConfigRes
        BY <2>2 DEF DownloadAllConfigRes, Inv, TypeInv, TypeOK
    <2> QED
        BY <2>1, <2>2
<1>8. TypeInv'
    BY <1>1, <1>2, <1>7 DEF Inv, TypeInv, TypeOK, QueueInv, centerVars, serviceVars
<1> QED
    BY <1>2, <1>4, <1>5, <1>6, <1>8 DEF Inv

\* downloadAllConfig begins a call.
LEMMA ListStartStep ==
    ASSUME Inv, ListStart
    PROVE  Inv'
<1> USE DEF Clients
<1>1. /\ toolPc = "idle" /\ toolPc' = "send" /\ ops < MaxOps /\ ops' = ops + 1
      /\ toolPage' \in Pages /\ allConfigs' = NoList /\ calls' = calls + 1
      /\ UNCHANGED <<centerVars, serviceVars, toolKey, configMap, returned, keyOf, trouble>>
    BY DEF ListStart, ToolBegins, ListAtStart
<1>2. /\ QueueInv' /\ conn' \in [Clients -> {"none", "connecting", "up"}]
      /\ stale' \in BOOLEAN
      /\ \A d \in Clients : /\ ToSet(toCenter'[d]) \subseteq ToSet(toCenter[d])
                             /\ ToSet(toClient'[d]) \subseteq ToSet(toClient[d])
      /\ stale' \/ \A n \in ToSet(toCenter'["tool"]) \cup ToSet(toClient'["tool"]) :
                       n.type # "LIST"
    <2>1. CASE Closed("tool") /\ stale' = FALSE
        BY <2>1, ClosedQueues DEF Inv, TypeInv, TypeOK
    <2>2. CASE stale' = ListPending /\ UNCHANGED netVars
        <3>1. QueueInv' /\ UNCHANGED <<conn, toCenter, toClient>>
            BY <2>2 DEF netVars, Inv, QueueInv, Unanswered
        <3>2. stale' \in BOOLEAN
            BY <2>2 DEF ListPending
        <3>3. stale' \/ \A n \in ToSet(toCenter'["tool"]) \cup ToSet(toClient'["tool"]) :
                           n.type # "LIST"
            BY <2>2, <3>1 DEF ListPending, ToSet
        <3> QED
            BY <3>1, <3>2, <3>3 DEF Inv, TypeInv, TypeOK
    <2> QED
        BY <2>1, <2>2 DEF ListStart
<1>3. MessageInv'
    <2>1. ASSUME NEW d \in Clients, NEW m \in ToSet(toCenter'[d])
          PROVE  IsRequest(d, m)'
        BY <1>1, <1>2, <2>1, OwnKept DEF Inv, MessageInv, IsRequest
    <2>2. ASSUME NEW d \in Clients, NEW m \in ToSet(toClient'[d])
          PROVE  IsAnswer(d, m)'
        BY <1>1, <1>2, <2>2, OwnKept DEF Inv, MessageInv, IsAnswer
    <2> QED
        BY <2>1, <2>2 DEF MessageInv
<1>4. RowInv' /\ OneRowPerKey' /\ ListInv' /\ OwnList'
    <2>1. ListInv' /\ OwnList'
        BY <1>1 DEF ListInv, OwnList
    <2> QED
        BY <1>1, <2>1, RowsKept, OwnKept DEF Inv
<1>5. TypeInv'
    <2>1. Len(keyOf) \in Nat
        BY LenProperties DEF Inv, TypeInv, TypeOK
    <2>2. ops' \in 0..MaxOps /\ calls' \in 0..MaxOps /\ calls' <= ops'
        BY <1>1, BoundsAssumption DEF Inv, TypeInv, TypeOK
    <2> QED
        BY <1>1, <1>2, <2>1, <2>2 DEF Inv, TypeInv, TypeOK, QueueInv, centerVars, serviceVars
<1> QED
    BY <1>2, <1>3, <1>4, <1>5 DEF Inv

\* ConfigEdit::save adds a content.
LEMMA UploadFacts ==
    ASSUME Inv, NEW k \in Keys, Upload(k)
    PROVE  /\ QueueInv' /\ MessageInv' /\ RowInv' /\ OneRowPerKey' /\ ListInv'
           /\ keyOf' \in Seq(Keys) /\ Len(keyOf') = Len(keyOf) + 1
<1>1. keyOf \in Seq(Keys) /\ Len(keyOf) \in Nat
    BY LenProperties DEF Inv, TypeInv, TypeOK
<1>2. /\ keyOf' = Append(keyOf, k) /\ keyOf' \in Seq(Keys) /\ Len(keyOf') = Len(keyOf) + 1
      /\ \A n \in 1 .. Len(keyOf) : keyOf'[n] = keyOf[n]
      /\ keyOf'[Len(keyOf) + 1] = k
    BY <1>1, AppendProperties DEF Upload
<1>3. DOMAIN keyOf = 1 .. Len(keyOf) /\ DOMAIN keyOf' = 1 .. Len(keyOf) + 1
    BY <1>1, <1>2, LenProperties
<1>4. \A v, q : IsOwn(v, q) => IsOwn(v, q)'
    BY <1>1, <1>2, <1>3 DEF IsOwn
<1>5. PICK v, m : v \in Nat /\ v = Len(keyOf) + 1 /\ m = Up(k, v)
    BY <1>1
<1>8. IsRequest("tool", m)'
    <2>1. IsOwn(v, k)'
        BY <1>1, <1>2, <1>3, <1>5 DEF IsOwn
    <2>2. m.type = "UPLOAD" /\ m.key = k /\ m.val = v
        BY <1>5 DEF Up
    <2> QED
        BY <2>1, <2>2 DEF IsRequest
<1>6. QueueInv' /\ MessageInv'
    <2>1. /\ toCenter' = Sent("tool", m) /\ "tool" \in Clients
          /\ UNCHANGED <<conn, toClient, stale, calls>>
        BY <1>5 DEF Upload, Clients
    <2> QED
        BY <1>4, <1>8, <2>1, RequestFrame
<1>7. RowInv' /\ OneRowPerKey' /\ ListInv'
    BY <1>4, RowsKept DEF Upload, Inv, ListInv
<1> QED
    BY <1>2, <1>6, <1>7

\* The other steps of the user of the tool.
LEMMA ToolStep ==
    ASSUME Inv, ToolThread
    PROVE  Inv'
<1> USE DEF Clients
<1>1. Len(keyOf) \in Nat /\ ops \in Nat /\ MaxOps \in Nat
    BY LenProperties, BoundsAssumption DEF Inv, TypeInv, TypeOK
<1>2. CASE ListStart
    BY <1>2, ListStartStep
<1>3. CASE ListSend
    <2>1. /\ UNCHANGED <<centerVars, conn, toClient, serviceVars, toolKey, toolPage, configMap,
                         allConfigs, calls, stale, keyOf, ops, trouble>>
          /\ toolPc' \in {"idle", "wait"} /\ toolPc = "send"
        BY <1>3 DEF ListSend
    <2>2. \A v, k : IsOwn(v, k) => IsOwn(v, k)'
        BY <2>1, OwnKept
    <2>3. QueueInv' /\ MessageInv'
        <3>1. CASE toCenter' = Sent("tool", ListReq(toolPage, calls))
            <4>1. IsRequest("tool", ListReq(toolPage, calls))'
                BY <2>1 DEF IsRequest, ListReq
            <4> QED
                BY <2>1, <2>2, <3>1, <4>1, RequestFrame
        <3>2. CASE UNCHANGED toCenter
            BY <2>1, <2>2, <3>2, QuietFrame DEF netVars
        <3> QED
            BY <1>3, <3>1, <3>2 DEF ListSend
    <2>4. RowInv' /\ OneRowPerKey' /\ ListInv'
        BY <2>1, <2>2, RowsKept DEF Inv, ListInv
    <2>5. OwnList'
        BY <1>3, <2>1 DEF ListSend, OwnList
    <2>6. TypeInv'
        BY <2>1, <2>3, <1>1 DEF Inv, TypeInv, TypeOK, QueueInv, centerVars, serviceVars
    <2> QED
        BY <2>3, <2>4, <2>5, <2>6 DEF Inv
<1>4. CASE ListReturn
    <2>1. /\ UNCHANGED <<centerVars, netVars, serviceVars, toolKey, toolPage, configMap,
                         allConfigs, calls, stale, keyOf, ops, trouble>>
          /\ toolPc' = "idle" /\ toolPc = "wait"
        BY <1>4 DEF ListReturn
    <2>2. QueueInv' /\ MessageInv'
        BY <2>1, OwnKept, QuietFrame
    <2>3. RowInv' /\ OneRowPerKey' /\ ListInv'
        BY <2>1, OwnKept, RowsKept DEF Inv, ListInv
    <2>4. OwnList'
        BY <1>4, <2>1 DEF ListReturn, Inv, ListInv, OwnList
    <2>5. TypeInv'
        BY <2>1, <2>2, <1>1 DEF Inv, TypeInv, TypeOK, QueueInv, centerVars, serviceVars, netVars
    <2> QED
        BY <2>2, <2>3, <2>4, <2>5 DEF Inv
<1>5. CASE DeleteConfig \/ LoadConfig
    <2>1. /\ UNCHANGED <<centerVars, conn, toClient, serviceVars, toolPage, configMap,
                         allConfigs, calls, stale, returned, keyOf, trouble>>
          /\ toolPc = "idle" /\ ops < MaxOps /\ ops' = ops + 1
          /\ \/ toolPc' = "idle" /\ toolKey' = toolKey
             \/ toolPc' = "load" /\ toolKey' \in Keys
        <3>1. CASE DeleteConfig
            BY <3>1 DEF DeleteConfig, ToolBegins
        <3>2. CASE LoadConfig
            BY <3>2 DEF LoadConfig, ToolBegins
        <3> QED
            BY <1>5, <3>1, <3>2
    <2>2. PICK k \in Keys : \E m \in {Del(k), Down(k)} : toCenter' = Sent("tool", m)
        <3>1. CASE DeleteConfig
            BY <3>1 DEF DeleteConfig
        <3>2. CASE LoadConfig
            BY <3>2 DEF LoadConfig, ToolBegins
        <3> QED
            BY <1>5, <3>1, <3>2
    <2>3. PICK m \in {Del(k), Down(k)} : toCenter' = Sent("tool", m)
        BY <2>2
    <2>7. IsRequest("tool", m)'
        BY DEF IsRequest, Del, Down
    <2>4. QueueInv' /\ MessageInv'
        BY <2>1, <2>3, <2>7, OwnKept, RequestFrame
    <2>5. RowInv' /\ OneRowPerKey' /\ ListInv' /\ OwnList'
        <3>1. ListInv' /\ OwnList'
            BY <2>1 DEF Inv, ListInv, OwnList
        <3> QED
            BY <2>1, <3>1, OwnKept, RowsKept DEF Inv
    <2>6. TypeInv'
        <3>1. ops' \in 0..MaxOps /\ calls' <= ops'
            BY <1>1, <2>1 DEF Inv, TypeInv, TypeOK
        <3> QED
            BY <1>1, <2>1, <2>4, <3>1 DEF Inv, TypeInv, TypeOK, QueueInv, centerVars, serviceVars
    <2> QED
        BY <2>4, <2>5, <2>6 DEF Inv
<1>6. CASE GetConfig \/ CancelEdit
    <2>1. /\ UNCHANGED <<centerVars, netVars, serviceVars, toolKey, toolPage, configMap,
                         allConfigs, calls, stale, returned, keyOf, ops, trouble>>
          /\ toolPc \in {"load", "edit"} /\ toolPc' \in {"idle", "edit"}
        BY <1>6 DEF GetConfig, CancelEdit
    <2>2. QueueInv' /\ MessageInv'
        BY <2>1, OwnKept, QuietFrame
    <2>3. RowInv' /\ OneRowPerKey' /\ ListInv' /\ OwnList'
        <3>1. ListInv' /\ OwnList'
            BY <2>1 DEF Inv, ListInv, OwnList
        <3> QED
            BY <2>1, <3>1, OwnKept, RowsKept DEF Inv
    <2>4. TypeInv'
        BY <2>1, <2>2, <1>1 DEF Inv, TypeInv, TypeOK, QueueInv, centerVars, serviceVars, netVars
    <2> QED
        BY <2>2, <2>3, <2>4 DEF Inv
<1>7. CASE SaveEdited \/ SaveNew
    <2>1. PICK k \in Keys : Upload(k)
        BY <1>7 DEF SaveEdited, SaveNew, Inv, TypeInv
    <2>2. /\ QueueInv' /\ MessageInv' /\ RowInv' /\ OneRowPerKey' /\ ListInv'
          /\ keyOf' \in Seq(Keys) /\ Len(keyOf') = Len(keyOf) + 1
        BY <2>1, UploadFacts
    <2>3. /\ toolPc' = "idle" /\ ops' \in 0..MaxOps /\ ops <= ops'
          /\ toolPc \in {"idle", "edit"} /\ Len(keyOf') <= ops'
        BY <1>1, <1>7, <2>2 DEF SaveEdited, SaveNew, ToolBegins, Inv, TypeInv, TypeOK
    <2>4. OwnList'
        BY <2>1, <2>3 DEF Upload, Inv, OwnList
    <2>5. TypeInv'
        <3>1. UNCHANGED <<centerVars, conn, serviceVars, toolKey, toolPage, configMap, calls,
                          stale, trouble>>
            BY <2>1 DEF Upload
        <3> QED
            BY <1>1, <2>2, <2>3, <3>1
            DEF Inv, TypeInv, TypeOK, QueueInv, centerVars, serviceVars
    <2> QED
        BY <2>2, <2>4, <2>5 DEF Inv
<1> QED
    BY <1>2, <1>3, <1>4, <1>5, <1>6, <1>7 DEF ToolThread

LEMMA InvStep == Inv /\ [Next]_vars => Inv'
<1> SUFFICES ASSUME Inv, [Next]_vars PROVE Inv'
    OBVIOUS
<1>1. CASE UNCHANGED vars
    <2>1. UNCHANGED <<netVars, centerVars, serviceVars, toolVars, keyOf, ops, trouble>>
        BY <1>1 DEF vars, netVars, centerVars, serviceVars, toolVars
    <2>2. QueueInv' /\ MessageInv'
        BY <2>1, OwnKept, QuietFrame DEF toolVars
    <2>3. RowInv' /\ OneRowPerKey' /\ ListInv' /\ OwnList'
        BY <2>1, OwnKept, RowsKept, ListsKept DEF Inv
    <2>4. TypeInv'
        BY <2>1, <2>2 DEF Inv, TypeInv, TypeOK, QueueInv, netVars, centerVars, serviceVars,
            toolVars
    <2> QED
        BY <2>2, <2>3, <2>4 DEF Inv
<1> QED
    BY <1>1, NetStep, ServerStep, ServiceStep, ToolReads, ToolStep DEF Next

\* A content keeps its key.
LEMMA OwnStays ==
    ASSUME Inv, [Next]_vars
    PROVE  /\ \A v, k : IsOwn(v, k) => IsOwn(v, k)'
           /\ \A v : IsOfPort(v) => IsOfPort(v)'
<1>1. \A v, k : IsOwn(v, k) => IsOwn(v, k)'
    <2>1. CASE UNCHANGED keyOf
        BY <2>1, OwnKept
    <2>2. ASSUME NEW k, keyOf' = Append(keyOf, k), k \in Keys
          PROVE  \A v, q : IsOwn(v, q) => IsOwn(v, q)'
        <3>1. keyOf \in Seq(Keys) /\ Len(keyOf) \in Nat
            BY LenProperties DEF Inv, TypeInv, TypeOK
        <3>2. /\ keyOf' \in Seq(Keys) /\ Len(keyOf') = Len(keyOf) + 1
              /\ \A n \in 1 .. Len(keyOf) : keyOf'[n] = keyOf[n]
            BY <2>2, <3>1, AppendProperties
        <3>3. DOMAIN keyOf = 1 .. Len(keyOf) /\ DOMAIN keyOf' = 1 .. Len(keyOf) + 1
            BY <3>1, <3>2, LenProperties
        <3> QED
            BY <3>1, <3>2, <3>3 DEF IsOwn
    <2>3. UNCHANGED keyOf \/ \E k \in Keys : Upload(k)
        BY DEF Next, vars, Connect, Connected, Lose, Server, ServerUpload, ServerDownload,
            ServerList, ServerDelete, Handles, StartConnected, StartTimesOut, TimerCb,
            DownloadOther, DownloadConfigRes, SaveFile, ServiceRestart, ToolConfigRes,
            DownloadAllConfigRes, ToolThread, ListStart, ListSend, ListReturn, DeleteConfig,
            LoadConfig, GetConfig, SaveEdited, CancelEdit, SaveNew, Inv, TypeInv
    <2> QED
        BY <2>1, <2>2, <2>3 DEF Upload
<1>2. ASSUME NEW v, IsOfPort(v)
      PROVE  IsOfPort(v)'
    BY <1>1, <1>2 DEF IsOfPort, IsOwn
<1> QED
    BY <1>1, <1>2

\* The service keeps to contents of its port.
LEMMA ServiceInvStep == Inv /\ ServiceInv /\ [Next]_vars => ServiceInv'
<1> SUFFICES ASSUME Inv, ServiceInv, [Next]_vars PROVE ServiceInv'
    OBVIOUS
<1>1. \A v : IsOfPort(v) => IsOfPort(v)'
    BY OwnStays
<1>2. CASE DownloadConfigRes
    <2> DEFINE m == Head(toClient["service"])
    <2>1. IsAnswer("service", m)
        <3>1. toClient["service"] # <<>> /\ "service" \in Clients
            BY <1>2 DEF DownloadConfigRes, Clients
        <3>2. PICK S : toClient["service"] \in Seq(S)
            BY <3>1 DEF Inv, QueueInv
        <3> QED
            BY <3>1, <3>2, ElementsOf DEF Inv, MessageInv
    <2>2. CASE IsLocal(m.key)
        <3>1. m.val = 0 \/ IsOfPort(m.val)
            <4>1. CASE m.type = "LIST"
                BY <2>1, <4>1 DEF IsAnswer
            <4>2. CASE m.type = "CONFIG"
                BY <2>1, <2>2, <4>2 DEF IsAnswer, IsLocal, IsOwn, IsOfPort
            <4> QED
                BY <2>1, <4>1, <4>2 DEF IsAnswer
        <3> QED
            BY <1>1, <1>2, <2>2, <3>1 DEF DownloadConfigRes, ServiceInv
    <2>3. CASE ~IsLocal(m.key)
        BY <1>1, <1>2, <2>3 DEF DownloadConfigRes, ServiceInv
    <2> QED
        BY <2>2, <2>3
<1>3. CASE SaveFile \/ ServiceRestart
    BY <1>1, <1>3 DEF SaveFile, ServiceRestart, ServiceInv
<1>4. CASE UNCHANGED <<cur, cacheFile>>
    BY <1>1, <1>4 DEF ServiceInv
<1>5. UNCHANGED <<cur, cacheFile>> \/ DownloadConfigRes \/ SaveFile \/ ServiceRestart
    BY DEF Next, vars, serviceVars, Connect, Connected, Lose, Server, ServerUpload, ServerDownload,
        ServerList, ServerDelete, Handles, StartConnected, StartTimesOut, TimerCb,
        DownloadOther, ToolConfigRes, DownloadAllConfigRes, ToolThread, ListStart, ListSend,
        ListReturn, DeleteConfig, LoadConfig, GetConfig, SaveEdited, CancelEdit, SaveNew, Upload
<1> QED
    BY <1>2, <1>3, <1>4, <1>5

\* The map of the tool has contents of its keys.
LEMMA ToolInvStep == Inv /\ ToolInv /\ [Next]_vars => ToolInv'
<1> SUFFICES ASSUME Inv, ToolInv, [Next]_vars PROVE ToolInv'
    OBVIOUS
<1>1. \A v, k : IsOwn(v, k) => IsOwn(v, k)'
    BY OwnStays
<1>2. CASE ToolConfigRes
    <2> DEFINE m == Head(toClient["tool"])
    <2>1. IsAnswer("tool", m)
        <3>1. toClient["tool"] # <<>> /\ "tool" \in Clients
            BY <1>2 DEF ToolConfigRes, Clients
        <3>2. PICK S : toClient["tool"] \in Seq(S)
            BY <3>1 DEF Inv, QueueInv
        <3> QED
            BY <3>1, <3>2, ElementsOf DEF Inv, MessageInv
    <2>2. configMap' = [configMap EXCEPT ![m.key] = m.val] /\ m.type = "CONFIG"
        BY <1>2 DEF ToolConfigRes
    <2>3. m.val = 0 \/ IsOwn(m.val, m.key)
        BY <2>1, <2>2 DEF IsAnswer
    <2>4. DOMAIN configMap = Keys \cup {NoKey}
        BY DEF Inv, TypeInv, TypeOK
    <2> SUFFICES ASSUME NEW k \in Keys, NEW v, v = configMap'[k], v > 0
                 PROVE  IsOwn(v, k)'
        BY DEF ToolInv, IsOwn
    <2>5. CASE k = m.key
        <3>1. v = m.val
            BY <2>2, <2>4, <2>5
        <3>2. v # 0
            OBVIOUS
        <3> QED
            BY <1>1, <2>3, <2>5, <3>1, <3>2
    <2>6. CASE k # m.key
        <3>1. v = configMap[k]
            BY <2>2, <2>6
        <3> QED
            BY <1>1, <3>1 DEF ToolInv
    <2> QED
        BY <2>5, <2>6
<1>3. CASE UNCHANGED configMap
    BY <1>1, <1>3 DEF ToolInv
<1>4. UNCHANGED configMap \/ ToolConfigRes
    BY DEF Next, vars, toolVars, Connect, Connected, Lose, Server, ServerUpload, ServerDownload,
        ServerList, ServerDelete, Handles, StartConnected, StartTimesOut, TimerCb,
        DownloadOther, DownloadConfigRes, SaveFile, ServiceRestart, DownloadAllConfigRes,
        ToolThread, ListStart, ListSend, ListReturn, DeleteConfig, LoadConfig, GetConfig,
        SaveEdited, CancelEdit, SaveNew, Upload
<1> QED
    BY <1>2, <1>3, <1>4

-----------------------------------------------------------------------------
(* Theorems. *)

\* Every variable keeps its type; a client without a bufferevent has no messages
\* (writeMsg tests bev_, closeBev drops the buffers).
THEOREM TypeCorrect == Spec => []TypeOK
<1>1. Inv => TypeOK
    BY DEF Inv, TypeInv
<1> QED
    BY <1>1, InvInit, InvStep, PTL DEF Spec

\* A key has one row as long as no upload went on after a failed select
\* (uploadConfig).
THEOREM OneRowPerKeyAlways == Spec => []OneRowPerKey
<1>1. Inv => OneRowPerKey
    BY DEF Inv
<1> QED
    BY <1>1, InvInit, InvStep, PTL DEF Spec

\* A call of downloadAllConfig returns its own list, unless an earlier one was
\* still to come (downloadAllConfigRes).
THEOREM OwnListAlways == Spec => []OwnList
<1>1. Inv => OwnList
    BY DEF Inv
<1> QED
    BY <1>1, InvInit, InvStep, PTL DEF Spec

\* Whatever is uploaded, edited and deleted, and whatever queries fail, a
\* content reaches nobody as that of another key, but the service takes those of
\* all keys with its port (uploadConfig, downloadConfig, downloadConfigRes).
THEOREM ContentsKeepTheirKeyAlways == Spec => []ContentsKeepTheirKey
<1>1. Init => ServiceInv /\ ToolInv
    BY DEF Init, ServiceInv, ToolInv, NotCached
<1>2. Inv /\ ServiceInv /\ ToolInv => ContentsKeepTheirKey
    <2> SUFFICES ASSUME Inv, ServiceInv, ToolInv PROVE ContentsKeepTheirKey
        OBVIOUS
    <2>1. \A k \in Keys : FirstVal(k) = 0 \/ IsOwn(FirstVal(k), k)
        BY FirstValOwn DEF Inv
    <2> QED
        BY <2>1 DEF ServiceInv, ToolInv, IsOwn, IsOfPort, ContentsKeepTheirKey
<1> QED
    BY <1>1, <1>2, InvInit, InvStep, ServiceInvStep, ToolInvStep, PTL DEF Spec
=============================================================================
