-------------------------- MODULE LogClientProofs --------------------------
(* What is proved of LogClient, for every number of threads and logs, every *)
(* size of the list and every number of failures.                           *)
EXTENDS LogClient, FiniteSetTheorems, TLAPS

-----------------------------------------------------------------------------
(* Until something fails, a bufferevent once made stays. *)

\* While nothing has failed there is a bufferevent from the first attempt on, the
\* timer runs only with one, and a connection that is up has a server side.
Untroubled ==
    /\ bev = "none" <=> conn = 0
    /\ evPc # "loop" => bev # "none"
    /\ bev = "up" => conn \in alive
    /\ lost = {}

\* The strengthening of LossNeedsFailure that every step preserves.
LossInv == trouble \in Nat /\ conn \in Nat /\ (trouble = 0 => Untroubled)

\* Nothing has happened yet at the start (the constructor of CLogClient).
LEMMA LossInvInit == Init => LossInv
BY DEF Init, LossInv, Untroubled

\* A failure is counted, and no other step of the client or the server takes a
\* log out of the way to the table.
LEMMA LossInvNext == LossInv /\ [Next]_vars => LossInv'
<1> SUFFICES ASSUME LossInv, [Next]_vars PROVE LossInv'
    OBVIOUS
<1> USE DEF LossInv, Untroubled, clientVars, timerVars, serverVars
<1>1. ASSUME NEW p \in Producers, Compose(p) \/ AddLog(p) PROVE LossInv'
    BY <1>1 DEF Compose, AddLog
<1>2. CASE TimerFires
    BY <1>2 DEF TimerFires, TimerExists
<1>3. CASE TimerPop
    BY <1>3 DEF TimerPop
<1>4. CASE TimerSend
    BY <1>4 DEF TimerSend, TakesWrites
<1>5. CASE Connect
    BY <1>5 DEF Connect
<1>6. CASE Connected
    BY <1>6 DEF Connected
<1>7. CASE Flush
    BY <1>7 DEF Flush
<1>8. CASE ConnectionEnds
    <2>1. trouble' = trouble /\ conn' = conn
        BY <1>8 DEF ConnectionEnds, CloseBev
    <2>2. trouble # 0
        BY <1>8 DEF ConnectionEnds
    <2> QED BY <2>1, <2>2
<1>9. CASE ConnectionFails
    <2>1. trouble' = trouble + 1 /\ conn' = conn
        BY <1>9 DEF ConnectionFails, CloseBev
    <2> QED BY <2>1
<1>10. ASSUME NEW c \in Conns, AddLogReq(c) PROVE LossInv'
    BY <1>10 DEF AddLogReq
<1>11. CASE ServerRestart
    <2>1. trouble' = trouble + 1 /\ conn' = conn
        BY <1>11 DEF ServerRestart
    <2> QED BY <2>1
<1>12. CASE UNCHANGED vars
    BY <1>12 DEF vars
<1> QED
    BY <1>1, <1>2, <1>3, <1>4, <1>5, <1>6, <1>7, <1>8, <1>9, <1>10, <1>11,
       <1>12 DEF Next, EventThread

\* A log that left the list is lost only after a connection, the server or an
\* insert failed: not because timerCb writes before the connection is up.
THEOREM NoLossWithoutFailure == Spec => []LossNeedsFailure
<1>1. LossInv => LossNeedsFailure
    BY DEF LossInv, Untroubled, LossNeedsFailure
<1> QED
    BY <1>1, LossInvInit, LossInvNext, PTL DEF Spec

-----------------------------------------------------------------------------
(* Types.  What has to be found is why the client needs no more connections *)
(* than failures: each attempt but the first follows one.                   *)

\* Failures that have not yet led to a new attempt: no bufferevent, or one that
\* is up to a server side that is gone.
Unrepaired ==
    IF bev = "none" \/ (bev = "up" /\ conn \notin alive) THEN 1 ELSE 0

\* The types, with what the event thread knows at each place in timerCb.
TypeInv ==
    /\ TypeOK
    /\ evPc = "send" => log \in Logs
    /\ bev # "none" => conn > 0
    /\ conn + Unrepaired <= trouble + 1

\* A log that gives way, or is taken out, leaves a list of the same type.
LEMMA SequenceFacts ==
    ASSUME NEW S, NEW s \in Seq(S)
    PROVE  /\ ToSet(s) \subseteq S
           /\ \A e \in S : Append(s, e) \in Seq(S) /\ Len(Append(s, e)) = Len(s) + 1
           /\ s # <<>> => Head(s) \in S /\ Tail(s) \in Seq(S) /\ Len(Tail(s)) = Len(s) - 1
           /\ \A m \in 1..(Len(s) + 1), n \in 0..Len(s) :
                 SubSeq(s, m, n) \in Seq(S)
<1>1. ToSet(s) \subseteq S
    BY DEF ToSet
<1>2. \A e \in S : Append(s, e) \in Seq(S) /\ Len(Append(s, e)) = Len(s) + 1
    OBVIOUS
<1>3. s # <<>> => Head(s) \in S /\ Tail(s) \in Seq(S) /\ Len(Tail(s)) = Len(s) - 1
    OBVIOUS
<1>4. \A m \in 1..(Len(s) + 1), n \in 0..Len(s) : SubSeq(s, m, n) \in Seq(S)
    OBVIOUS
<1> QED BY <1>1, <1>2, <1>3, <1>4

\* addLog tests the length before it puts the log in, so the list may come to
\* hold one more than LOG_LIST_MAX and no more.
LEMMA ListKeepsTypes ==
    ASSUME TypeOK, NEW l \in Logs, List(l)
    PROVE  /\ logs' \in Seq(Logs) /\ Len(logs') <= LOG_LIST_MAX + 1
           /\ listed' \in Seq(Logs) /\ dropped' \in SUBSET Logs
<1> DEFINE kept == AfterOverflow(logs)
<1>1. /\ logs \in Seq(Logs) /\ Len(logs) <= LOG_LIST_MAX + 1
      /\ listed \in Seq(Logs) /\ dropped \in SUBSET Logs
    BY DEF TypeOK
<1>2. kept \in Seq(Logs) /\ Len(kept) <= LOG_LIST_MAX
    <2>1. CASE Len(logs) > LOG_LIST_MAX
        <3>1. logs # <<>>
            BY <1>1, <2>1, ListAssumption
        <3> QED BY <1>1, <2>1, <3>1, SequenceFacts, ListAssumption DEF AfterOverflow
    <2>2. CASE ~ (Len(logs) > LOG_LIST_MAX)
        BY <1>1, <2>2, ListAssumption DEF AfterOverflow
    <2> QED BY <2>1, <2>2
<1>3. ToSet(logs) \subseteq Logs
    BY <1>1, SequenceFacts
<1>4. logs' = Append(kept, l) /\ listed' = Append(listed, l)
    BY DEF List
<1>5. dropped' \in SUBSET Logs
    BY <1>1, <1>3 DEF List
<1>6. logs' \in Seq(Logs) /\ Len(logs') <= LOG_LIST_MAX + 1
    <2> HIDE DEF kept
    <2> QED BY <1>2, <1>4, ListAssumption
<1> QED BY <1>1, <1>4, <1>5, <1>6

\* The start has the types: no attempt yet, and none is needed.
LEMMA TypeInvInit == Init => TypeInv
<1> SUFFICES ASSUME Init PROVE TypeInv
    OBVIOUS
<1> USE DEF Init
<1>1. \A S : <<>> \in Seq(S) /\ Len(<<>>) = 0
    OBVIOUS
<1>2. TypeOK
    BY <1>1, ListAssumption, BoundsAssumption DEF TypeOK
<1>3. conn + Unrepaired <= trouble + 1
    BY DEF Unrepaired
<1> QED BY <1>2, <1>3 DEF TypeInv

\* closeBev, for whichever reason: what is lost is logs, what the server had
\* received stays a sequence of logs.
LEMMA CloseBevKeepsTypes ==
    ASSUME TypeInv, bev # "none", CloseBev
    PROVE  /\ out' \in Seq(Logs) /\ wire' \in [Conns -> Seq(Logs)]
           /\ lost' \in SUBSET Logs
<1>1. conn \in Conns /\ wire \in [Conns -> Seq(Logs)] /\ wire[conn] \in Seq(Logs)
    <2>1. conn \in {0} \cup Conns /\ conn > 0 /\ wire \in [Conns -> Seq(Logs)]
        BY DEF TypeInv, TypeOK
    <2> QED BY <2>1
<1>2. PICK k \in 0..Len(wire[conn]) :
        /\ wire' = [wire EXCEPT ![conn] = SubSeq(@, 1, k)]
        /\ lost' = lost \cup ToSet(out) \cup
                       ToSet(SubSeq(wire[conn], k + 1, Len(wire[conn])))
    BY DEF CloseBev
<1>3. Len(wire[conn]) \in Nat
    BY <1>1
<1>4. /\ SubSeq(wire[conn], 1, k) \in Seq(Logs)
      /\ SubSeq(wire[conn], k + 1, Len(wire[conn])) \in Seq(Logs)
    <2>1. 1 \in 1..(Len(wire[conn]) + 1) /\ k + 1 \in 1..(Len(wire[conn]) + 1)
        BY <1>3
    <2>2. Len(wire[conn]) \in 0..Len(wire[conn])
        BY <1>3
    <2> QED BY <1>1, <2>1, <2>2, SequenceFacts
<1>5. wire' \in [Conns -> Seq(Logs)]
    BY <1>1, <1>2, <1>4
<1>6. ToSet(SubSeq(wire[conn], k + 1, Len(wire[conn]))) \subseteq Logs
    BY <1>4, SequenceFacts
<1>7. ToSet(out) \subseteq Logs /\ lost \in SUBSET Logs
    BY SequenceFacts DEF TypeInv, TypeOK
<1>8. out' \in Seq(Logs)
    BY DEF CloseBev
<1> QED BY <1>2, <1>5, <1>6, <1>7, <1>8

\* Every step of the client and of the server keeps the types, and every new
\* attempt to connect uses up one failure.
LEMMA TypeInvNext == TypeInv /\ [Next]_vars => TypeInv'
<1> SUFFICES ASSUME TypeInv, [Next]_vars PROVE TypeInv'
    OBVIOUS
<1> USE DEF clientVars, timerVars, serverVars
<1>a. /\ conn \in 0..(MaxTrouble + 1) /\ trouble \in 0..MaxTrouble
      /\ conn + Unrepaired <= trouble + 1 /\ Unrepaired \in 0..1
      /\ MaxTrouble \in Nat
    BY BoundsAssumption DEF TypeInv, TypeOK, Conns, Unrepaired
<1>b. bev # "none" => conn \in Conns
    BY <1>a DEF TypeInv, Conns
<1>c. None \notin Logs
    BY DEF None, Logs
<1>1. ASSUME NEW p \in Producers, Compose(p) PROVE TypeInv'
    <2>1. made[p] \in 0..MaxLogs /\ made[p] < MaxLogs
        BY <1>1 DEF Compose, TypeInv, TypeOK
    <2>2. <<p, made[p] + 1>> \in Logs /\ made[p] + 1 \in 0..MaxLogs
        BY <2>1, BoundsAssumption DEF Logs
    <2>3. made' \in [Producers -> 0..MaxLogs]
        BY <1>1, <2>2 DEF Compose, TypeInv, TypeOK
    <2>4. adding' \in [Producers -> Logs \cup {None}]
        BY <1>1, <2>2 DEF Compose, TypeInv, TypeOK
    <2> QED BY <1>1, <2>3, <2>4 DEF Compose, TypeInv, TypeOK, Unrepaired
<1>2. ASSUME NEW p \in Producers, AddLog(p) PROVE TypeInv'
    <2>1. adding[p] \in Logs /\ TypeOK /\ List(adding[p])
        BY <1>2 DEF AddLog, TypeInv, TypeOK
    <2>2. /\ logs' \in Seq(Logs) /\ Len(logs') <= LOG_LIST_MAX + 1
          /\ listed' \in Seq(Logs) /\ dropped' \in SUBSET Logs
        BY <2>1, ListKeepsTypes
    <2>3. adding' \in [Producers -> Logs \cup {None}]
        BY <1>2 DEF AddLog, TypeInv, TypeOK
    <2> QED BY <1>2, <2>2, <2>3 DEF AddLog, TypeInv, TypeOK, Unrepaired
<1>3. CASE TimerFires
    BY <1>3 DEF TimerFires, TypeInv, TypeOK, Unrepaired
<1>4. CASE TimerPop
    <2>1. CASE logs = <<>>
        BY <1>4, <2>1 DEF TimerPop, TypeInv, TypeOK, Unrepaired
    <2>2. CASE logs # <<>>
        <3>1. /\ log' = Head(logs) /\ logs' = Tail(logs) /\ evPc' = "send"
            BY <1>4, <2>2 DEF TimerPop, PopFrom
        <3>2. logs \in Seq(Logs) /\ Len(logs) <= LOG_LIST_MAX + 1
            BY DEF TypeInv, TypeOK
        <3>3. log' \in Logs /\ logs' \in Seq(Logs) /\ Len(logs') = Len(logs) - 1
            BY <2>2, <3>1, <3>2, SequenceFacts
        <3>4. Len(logs') <= LOG_LIST_MAX + 1
            BY <3>2, <3>3, ListAssumption
        <3> QED BY <1>4, <3>1, <3>3, <3>4 DEF TimerPop, TypeInv, TypeOK, Unrepaired
    <2> QED BY <2>1, <2>2
<1>5. CASE TimerSend
    <2>1. log \in Logs /\ out \in Seq(Logs) /\ lost \in SUBSET Logs
        BY <1>5 DEF TimerSend, TypeInv, TypeOK
    <2>2. out' \in Seq(Logs) /\ lost' \in SUBSET Logs
        BY <1>5, <2>1 DEF TimerSend
    <2> QED BY <1>5, <2>2 DEF TimerSend, TypeInv, TypeOK, Unrepaired
<1>6. CASE Connect
    <2>1. Unrepaired = 1 /\ Unrepaired' = 0 /\ conn' = conn + 1
        BY <1>6 DEF Connect, Unrepaired
    <2>2. conn' \in Conns /\ conn' > 0 /\ conn' + Unrepaired' <= trouble' + 1
        BY <1>6, <1>a, <2>1 DEF Connect, Conns
    <2> QED BY <1>6, <2>2 DEF Connect, TypeInv, TypeOK
<1>7. CASE Connected
    <2>1. conn \in Conns /\ conn > 0
        BY <1>7, <1>b DEF Connected, TypeInv
    <2>2. <<Self, conn>> \in Logs /\ TypeOK /\ List(<<Self, conn>>)
        BY <1>7, <2>1 DEF Connected, Logs, TypeInv
    <2>3. /\ logs' \in Seq(Logs) /\ Len(logs') <= LOG_LIST_MAX + 1
          /\ listed' \in Seq(Logs) /\ dropped' \in SUBSET Logs
        BY <2>2, ListKeepsTypes
    <2>4. conn' + Unrepaired' <= trouble' + 1
        BY <1>7, <1>a DEF Connected, Unrepaired
    <2> QED BY <1>7, <2>1, <2>3, <2>4 DEF Connected, TypeInv, TypeOK
<1>8. CASE Flush
    <2>1. /\ conn \in Conns /\ out \in Seq(Logs) /\ out # <<>>
          /\ wire \in [Conns -> Seq(Logs)] /\ wire[conn] \in Seq(Logs)
          /\ lost \in SUBSET Logs
        BY <1>8, <1>b DEF Flush, TypeInv, TypeOK
    <2>2. Head(out) \in Logs /\ Tail(out) \in Seq(Logs)
        BY <2>1, SequenceFacts
    <2>3. Append(wire[conn], Head(out)) \in Seq(Logs)
        BY <2>1, <2>2
    <2>4. wire' \in [Conns -> Seq(Logs)] /\ lost' \in SUBSET Logs
        BY <1>8, <2>1, <2>2, <2>3 DEF Flush
    <2> QED BY <1>8, <2>2, <2>4 DEF Flush, TypeInv, TypeOK, Unrepaired
<1>9. ASSUME ConnectionEnds \/ ConnectionFails PROVE TypeInv'
    <2>1. bev # "none" /\ CloseBev
        BY <1>9 DEF ConnectionEnds, ConnectionFails, CloseBev
    <2>2. /\ out' \in Seq(Logs) /\ wire' \in [Conns -> Seq(Logs)]
          /\ lost' \in SUBSET Logs
        BY <2>1, CloseBevKeepsTypes
    <2>3. bev' = "none" /\ conn' = conn /\ Unrepaired' = 1
        BY <2>1 DEF CloseBev, Unrepaired
    <2>4. conn' + Unrepaired' <= trouble' + 1 /\ trouble' \in 0..MaxTrouble
        <3>1. CASE ConnectionEnds
            <4>1. Unrepaired = 1 /\ trouble' = trouble
                BY <3>1 DEF ConnectionEnds, Unrepaired
            <4> QED BY <4>1, <2>3, <1>a
        <3>2. CASE ConnectionFails
            BY <3>2, <2>3, <1>a DEF ConnectionFails
        <3> QED BY <1>9, <3>1, <3>2
    <2> QED BY <2>1, <2>2, <2>3, <2>4 DEF CloseBev, TypeInv, TypeOK
<1>10. ASSUME NEW c \in Conns, AddLogReq(c) PROVE TypeInv'
    <2>1. /\ wire \in [Conns -> Seq(Logs)] /\ wire[c] \in Seq(Logs)
          /\ wire[c] # <<>> /\ rows \in Seq(Conns \X Logs) /\ lost \in SUBSET Logs
        BY <1>10 DEF AddLogReq, TypeInv, TypeOK
    <2>2. Head(wire[c]) \in Logs /\ Tail(wire[c]) \in Seq(Logs)
        BY <2>1, SequenceFacts
    <2>3. wire' \in [Conns -> Seq(Logs)]
        BY <1>10, <2>1, <2>2 DEF AddLogReq
    <2>4. Append(rows, <<c, Head(wire[c])>>) \in Seq(Conns \X Logs)
        <3>1. <<c, Head(wire[c])>> \in Conns \X Logs
            BY <2>2
        <3> QED BY <2>1, <3>1, SequenceFacts
    <2>5. rows' \in Seq(Conns \X Logs) /\ lost' \in SUBSET Logs
        BY <1>10, <2>1, <2>2, <2>4 DEF AddLogReq
    <2>6. /\ trouble' \in 0..MaxTrouble /\ trouble' \in {trouble, trouble + 1}
          /\ conn' = conn /\ Unrepaired' = Unrepaired
        BY <1>10, <1>a DEF AddLogReq, Unrepaired
    <2>7. conn' + Unrepaired' <= trouble' + 1
        <3>1. conn + Unrepaired <= trouble' + 1
            <4>1. CASE trouble' = trouble
                BY <4>1, <1>a
            <4>2. CASE trouble' = trouble + 1
                <5>1. CASE Unrepaired = 0
                    BY <4>2, <5>1, <1>a
                <5>2. CASE Unrepaired = 1
                    BY <4>2, <5>2, <1>a
                <5> QED BY <5>1, <5>2, <1>a
            <4> QED BY <4>1, <4>2, <2>6
        <3>2. conn' + Unrepaired' = conn + Unrepaired
            BY <2>6
        <3> QED BY <3>1, <3>2
    <2> QED BY <1>10, <2>3, <2>5, <2>6, <2>7 DEF AddLogReq, TypeInv, TypeOK
<1>11. CASE ServerRestart
    <2>1. wire' \in [Conns -> Seq(Logs)] /\ alive' \in SUBSET Conns
        BY <1>11 DEF ServerRestart
    <2>2. \A c \in Conns : ToSet(wire[c]) \subseteq Logs
        BY SequenceFacts DEF TypeInv, TypeOK
    <2>3. lost' \in SUBSET Logs
        BY <1>11, <2>2 DEF ServerRestart, TypeInv, TypeOK
    <2>4. trouble' = trouble + 1 /\ trouble' \in 0..MaxTrouble /\ conn' = conn
        BY <1>11, <1>a DEF ServerRestart
    <2>5. Unrepaired' \in 0..1
        BY DEF Unrepaired
    <2>6. conn' + Unrepaired' <= trouble' + 1
        <3>1. CASE bev = "none"
            BY <1>11, <3>1, <2>4, <1>a DEF ServerRestart, Unrepaired
        <3>2. CASE bev # "none"
            <4>1. conn + 1 <= trouble' + 1
                BY <2>4, <1>a
            <4>2. CASE Unrepaired' = 0
                BY <4>1, <4>2, <2>4, <1>a
            <4>3. CASE Unrepaired' = 1
                BY <4>1, <4>3, <2>4
            <4> QED BY <4>2, <4>3, <2>5
        <3> QED BY <3>1, <3>2
    <2> QED BY <1>11, <2>1, <2>3, <2>4, <2>6 DEF ServerRestart, TypeInv, TypeOK
<1>12. CASE UNCHANGED vars
    BY <1>12 DEF vars, TypeInv, TypeOK, Unrepaired
<1> QED
    BY <1>1, <1>2, <1>3, <1>4, <1>5, <1>6, <1>7, <1>8, <1>9, <1>10, <1>11,
       <1>12 DEF Next, EventThread

\* Every variable keeps its type: in particular the list never holds more than
\* LOG_LIST_MAX + 1 logs (addLog), and each reconnection follows a failure.
THEOREM TypeCorrect == Spec => []TypeOK
<1>1. TypeInv => TypeOK
    BY DEF TypeInv
<1> QED
    BY <1>1, TypeInvInit, TypeInvNext, PTL DEF Spec

-----------------------------------------------------------------------------
(* The logs that wait are the last that were listed. *)

\* LatestWait, position by position.
WaitInv ==
    /\ Len(logs) <= Len(listed)
    /\ \A i \in 1..Len(logs) : logs[i] = listed[Len(listed) - Len(logs) + i]

\* Sequences that agree from the back are suffixes.
LEMMA SuffixByPosition ==
    ASSUME NEW S, NEW s \in Seq(S), NEW t \in Seq(S), Len(s) <= Len(t),
           \A i \in 1..Len(s) : s[i] = t[Len(t) - Len(s) + i]
    PROVE  IsSuffix(s, t)
<1>1. Len(s) \in Nat /\ Len(t) \in Nat
    OBVIOUS
<1>2. /\ Reverse(s) \in Seq(S) /\ Len(Reverse(s)) = Len(s)
      /\ Reverse(t) \in Seq(S) /\ Len(Reverse(t)) = Len(t)
    BY <1>1 DEF Reverse
<1>3. \A i \in 1..Len(s) : Reverse(s)[i] = Reverse(t)[i]
    <2> TAKE i \in 1..Len(s)
    <2>1. Reverse(s)[i] = s[Len(s) - i + 1] /\ Reverse(t)[i] = t[Len(t) - i + 1]
        BY <1>1 DEF Reverse
    <2>2. Len(s) - i + 1 \in 1..Len(s) /\ Len(t) - Len(s) + (Len(s) - i + 1) = Len(t) - i + 1
        BY <1>1
    <2>3. s[Len(s) - i + 1] = t[Len(t) - Len(s) + (Len(s) - i + 1)]
        BY <2>2
    <2> QED BY <2>1, <2>2, <2>3
<1>4. \A i \in 1..Len(s) : /\ SubSeq(Reverse(s), 1, Len(s))[i] = Reverse(s)[i]
                          /\ SubSeq(Reverse(t), 1, Len(s))[i] = Reverse(t)[i]
    BY <1>1, <1>2
<1>5. /\ SubSeq(Reverse(s), 1, Len(s)) \in Seq(S) /\ SubSeq(Reverse(t), 1, Len(s)) \in Seq(S)
      /\ Len(SubSeq(Reverse(s), 1, Len(s))) = Len(s)
      /\ Len(SubSeq(Reverse(t), 1, Len(s))) = Len(s)
    BY <1>1, <1>2
<1>6. SubSeq(Reverse(s), 1, Len(s)) = SubSeq(Reverse(t), 1, Len(s))
    BY <1>1, <1>3, <1>4, <1>5
<1> QED BY <1>2, <1>6 DEF IsSuffix, IsPrefix

\* The oldest log gives way, and the new one is the last of both.
LEMMA ListKeepsOrder ==
    ASSUME TypeOK, WaitInv, NEW l \in Logs, List(l)
    PROVE  WaitInv'
<1> DEFINE kept == AfterOverflow(logs)
<1>1. /\ logs \in Seq(Logs) /\ listed \in Seq(Logs)
      /\ Len(logs) \in Nat /\ Len(listed) \in Nat
    BY DEF TypeOK
<1>2. /\ kept \in Seq(Logs) /\ Len(kept) \in Nat /\ Len(kept) <= Len(listed)
      /\ \A i \in 1..Len(kept) : kept[i] = listed[Len(listed) - Len(kept) + i]
    <2>1. CASE Len(logs) > LOG_LIST_MAX
        <3>1. logs # <<>>
            BY <1>1, <2>1, ListAssumption
        <3>2. kept = Tail(logs)
            BY <2>1 DEF AfterOverflow
        <3>3. /\ Tail(logs) \in Seq(Logs) /\ Len(Tail(logs)) = Len(logs) - 1
              /\ \A i \in 1..(Len(logs) - 1) : Tail(logs)[i] = logs[i + 1]
            BY <1>1, <3>1
        <3> HIDE DEF kept
        <3> QED BY <1>1, <3>2, <3>3 DEF WaitInv
    <2>2. CASE ~ (Len(logs) > LOG_LIST_MAX)
        BY <1>1, <2>2 DEF AfterOverflow, WaitInv
    <2> QED BY <2>1, <2>2
<1>3. logs' = Append(kept, l) /\ listed' = Append(listed, l)
    BY DEF List
<1> HIDE DEF kept
<1>4. /\ Len(logs') = Len(kept) + 1 /\ Len(listed') = Len(listed) + 1
      /\ \A i \in 1..Len(kept) : logs'[i] = kept[i]
      /\ logs'[Len(kept) + 1] = l
      /\ \A i \in 1..Len(listed) : listed'[i] = listed[i]
      /\ listed'[Len(listed) + 1] = l
    BY <1>1, <1>2, <1>3
<1>5. ASSUME NEW i \in 1..Len(logs')
      PROVE  logs'[i] = listed'[Len(listed') - Len(logs') + i]
    <2>1. Len(listed') - Len(logs') + i = Len(listed) - Len(kept) + i
        BY <1>1, <1>2, <1>4
    <2>2. CASE i = Len(kept) + 1
        BY <1>1, <1>2, <1>4, <2>1, <2>2
    <2>3. CASE i \in 1..Len(kept)
        <3>1. Len(listed) - Len(kept) + i \in 1..Len(listed)
            BY <1>1, <1>2, <2>3
        <3> QED BY <1>2, <1>4, <2>1, <2>3, <3>1
    <2> QED BY <1>2, <1>4, <2>2, <2>3
<1> QED BY <1>1, <1>2, <1>4, <1>5 DEF WaitInv

LEMMA WaitInvNext == TypeInv /\ WaitInv /\ [Next]_vars => WaitInv'
<1> SUFFICES ASSUME TypeInv, WaitInv, [Next]_vars PROVE WaitInv'
    OBVIOUS
<1> USE DEF clientVars, timerVars, serverVars
<1>1. ASSUME NEW p \in Producers, AddLog(p) PROVE WaitInv'
    <2>1. adding[p] \in Logs /\ TypeOK /\ List(adding[p])
        BY <1>1 DEF AddLog, TypeInv, TypeOK
    <2> QED BY <2>1, ListKeepsOrder
<1>2. CASE Connected
    <2>1. <<Self, conn>> \in Logs /\ TypeOK /\ List(<<Self, conn>>)
        BY <1>2 DEF Connected, TypeInv, TypeOK, Logs
    <2> QED BY <2>1, ListKeepsOrder
<1>3. CASE TimerPop /\ logs # <<>>
    <2>1. logs' = Tail(logs) /\ listed' = listed
        BY <1>3 DEF TimerPop, PopFrom
    <2>2. /\ logs \in Seq(Logs) /\ Len(listed) \in Nat /\ Len(logs) \in Nat /\ Len(logs) # 0
        BY <1>3 DEF TypeInv, TypeOK
    <2>3. /\ Len(logs') = Len(logs) - 1
          /\ \A i \in 1..(Len(logs) - 1) : logs'[i] = logs[i + 1]
        BY <1>3, <2>1, <2>2
    <2> QED BY <2>1, <2>2, <2>3 DEF WaitInv
<1>4. CASE \/ TimerPop /\ logs = <<>>
           \/ \E p \in Producers : Compose(p)
           \/ TimerFires \/ TimerSend \/ Connect \/ Flush \/ ConnectionEnds \/ ConnectionFails
           \/ \E c \in Conns : AddLogReq(c)
           \/ ServerRestart \/ UNCHANGED vars
    <2>1. UNCHANGED <<logs, listed>>
        BY <1>4 DEF TimerPop, Compose, TimerFires, TimerSend, Connect, Flush, ConnectionEnds,
                    ConnectionFails, CloseBev, AddLogReq, ServerRestart, vars
    <2> QED BY <2>1 DEF WaitInv
<1> QED BY <1>1, <1>2, <1>3, <1>4 DEF Next, EventThread

\* However often the list overflows and whatever the timer takes meanwhile, what
\* waits are the latest logs, in order (addLog, timerCb).
THEOREM LatestWaitAlways == Spec => []LatestWait
<1>1. Init => WaitInv
    BY DEF Init, WaitInv
<1>2. TypeInv /\ WaitInv => LatestWait
    BY SuffixByPosition DEF TypeInv, TypeOK, WaitInv, LatestWait
<1> QED
    BY <1>1, <1>2, TypeInvInit, TypeInvNext, WaitInvNext, PTL DEF Spec

-----------------------------------------------------------------------------
(* The order of the logs of a connection, from the list to the table. *)

\* Log x was listed before log y.
Before(x, y) == \E a, b \in DOMAIN listed : a < b /\ listed[a] = x /\ listed[b] = y

\* Log x has left the list.
Gone(x) == \E a \in 1..(Len(listed) - Len(logs)) : listed[a] = x

InOrder(s) == \A i, j \in DOMAIN s : i < j => Before(s[i], s[j])

\* StoredInOrder.
RowsInOrder ==
    \A i, j \in DOMAIN rows :
        (i < j /\ rows[i][1] = rows[j][1]) => Before(rows[i][2], rows[j][2])

\* The logs of the rows of connection c.
Stored(c) == {rows[i][2] : i \in {j \in DOMAIN rows : rows[j][1] = c}}

\* What has been written on connection c, apart from the output buffer.
Written(c) == Stored(c) \cup ToSet(wire[c])

\* What is on the way has left the list, and is in order at every stage.
StagesInv ==
    /\ \A c \in Conns : \A x \in Written(c) : Gone(x)
    /\ \A x \in ToSet(out) : Gone(x)
    /\ InOrder(out) /\ RowsInOrder
    /\ \A c \in Conns : InOrder(wire[c])

\* What is further on was listed earlier.
AheadInv ==
    /\ \A c \in Conns : \A x \in Stored(c), y \in ToSet(wire[c]) : Before(x, y)
    /\ conn \in Conns => \A x \in Written(conn), y \in ToSet(out) : Before(x, y)
    /\ evPc = "send" =>
          /\ Gone(log)
          /\ \A x \in ToSet(out) : Before(x, log)
          /\ conn \in Conns => \A x \in Written(conn) : Before(x, log)

\* A new connection finds nothing of an old one.
FreshInv ==
    /\ \A c \in Conns : c > conn => Written(c) = {}
    /\ bev = "none" => out = <<>>

OrderInv == StagesInv /\ AheadInv /\ FreshInv

\* What taking the first element, adding one and cutting do to the order.
LEMMA MovesInOrder ==
    ASSUME NEW S, NEW s \in Seq(S), InOrder(s)
    PROVE  /\ s # <<>> => /\ ToSet(s) = {Head(s)} \cup ToSet(Tail(s))
                          /\ InOrder(Tail(s))
                          /\ \A y \in ToSet(Tail(s)) : Before(Head(s), y)
           /\ \A e \in S : /\ ToSet(Append(s, e)) = ToSet(s) \cup {e}
                           /\ (\A x \in ToSet(s) : Before(x, e)) => InOrder(Append(s, e))
           /\ \A k \in 0..Len(s) : /\ ToSet(SubSeq(s, 1, k)) \subseteq ToSet(s)
                                   /\ InOrder(SubSeq(s, 1, k))
<1>0. Len(s) \in Nat /\ DOMAIN s = 1..Len(s)
    OBVIOUS
<1>1. ASSUME s # <<>>
      PROVE  /\ ToSet(s) = {Head(s)} \cup ToSet(Tail(s))
             /\ InOrder(Tail(s))
             /\ \A y \in ToSet(Tail(s)) : Before(Head(s), y)
    <2>1. /\ DOMAIN Tail(s) = 1..(Len(s) - 1) /\ Len(s) >= 1 /\ Head(s) = s[1]
          /\ \A i \in 1..(Len(s) - 1) : Tail(s)[i] = s[i + 1]
        BY <1>1
    <2>2. \A i \in 1..Len(s) : i = 1 \/ i - 1 \in 1..(Len(s) - 1)
        BY <1>0
    <2>3. ToSet(s) \subseteq {Head(s)} \cup ToSet(Tail(s))
        <3> SUFFICES ASSUME NEW i \in 1..Len(s), i # 1 PROVE s[i] \in ToSet(Tail(s))
            BY <1>0, <2>1 DEF ToSet
        <3>1. i - 1 \in 1..(Len(s) - 1) /\ Tail(s)[i - 1] = s[i]
            BY <1>0, <2>1, <2>2
        <3> QED BY <2>1, <3>1 DEF ToSet
    <2>4. {Head(s)} \cup ToSet(Tail(s)) \subseteq ToSet(s)
        BY <1>0, <2>1 DEF ToSet
    <2>5. InOrder(Tail(s))
        BY <1>0, <2>1 DEF InOrder
    <2>6. \A y \in ToSet(Tail(s)) : Before(Head(s), y)
        BY <1>0, <2>1 DEF InOrder, ToSet
    <2> QED BY <2>3, <2>4, <2>5, <2>6
<1>2. ASSUME NEW e \in S
      PROVE  /\ ToSet(Append(s, e)) = ToSet(s) \cup {e}
             /\ (\A x \in ToSet(s) : Before(x, e)) => InOrder(Append(s, e))
    <2>1. /\ DOMAIN Append(s, e) = 1..(Len(s) + 1) /\ Append(s, e)[Len(s) + 1] = e
          /\ \A i \in 1..Len(s) : Append(s, e)[i] = s[i]
        OBVIOUS
    <2>2. ToSet(Append(s, e)) = ToSet(s) \cup {e}
        BY <1>0, <2>1 DEF ToSet
    <2>3. ASSUME \A x \in ToSet(s) : Before(x, e) PROVE InOrder(Append(s, e))
        <3> SUFFICES ASSUME NEW i \in 1..(Len(s) + 1), NEW j \in 1..(Len(s) + 1), i < j
                     PROVE  Before(Append(s, e)[i], Append(s, e)[j])
            BY <2>1 DEF InOrder
        <3>1. i \in 1..Len(s) /\ Append(s, e)[i] = s[i] /\ s[i] \in ToSet(s)
            BY <1>0, <2>1 DEF ToSet
        <3>2. CASE j = Len(s) + 1
            BY <2>1, <2>3, <3>1, <3>2
        <3>3. CASE j \in 1..Len(s)
            BY <1>0, <2>1, <3>1, <3>3 DEF InOrder
        <3> QED BY <1>0, <3>2, <3>3
    <2> QED BY <2>2, <2>3
<1>3. ASSUME NEW k \in 0..Len(s)
      PROVE  /\ ToSet(SubSeq(s, 1, k)) \subseteq ToSet(s)
             /\ InOrder(SubSeq(s, 1, k))
    <2>1. /\ DOMAIN SubSeq(s, 1, k) = 1..k
          /\ \A i \in 1..k : SubSeq(s, 1, k)[i] = s[i] /\ i \in 1..Len(s)
        BY <1>0
    <2> QED BY <1>0, <2>1 DEF ToSet, InOrder
<1> QED BY <1>1, <1>2, <1>3

\* Listing a log keeps what was before what, and what is gone.
LEMMA ListKeepsBefore ==
    ASSUME TypeOK, WaitInv, NEW l \in Logs, List(l)
    PROVE  /\ \A x, y : Before(x, y) => Before(x, y)'
           /\ \A x : Gone(x) => Gone(x)'
<1>1. /\ logs \in Seq(Logs) /\ listed \in Seq(Logs)
      /\ Len(logs) \in Nat /\ Len(listed) \in Nat
    BY DEF TypeOK
<1>2. /\ Len(listed') = Len(listed) + 1
      /\ DOMAIN listed = 1..Len(listed) /\ DOMAIN listed' = 1..(Len(listed) + 1)
      /\ \A i \in 1..Len(listed) : listed'[i] = listed[i]
    BY <1>1 DEF List
<1>3. Len(logs') \in Nat /\ Len(logs') <= Len(logs) + 1
    <2>1. AfterOverflow(logs) \in Seq(Logs) /\ Len(AfterOverflow(logs)) <= Len(logs)
        <3>1. CASE Len(logs) > LOG_LIST_MAX
            <4>1. logs # <<>>
                BY <1>1, <3>1, ListAssumption
            <4> QED BY <1>1, <3>1, <4>1 DEF AfterOverflow
        <3>2. CASE ~ (Len(logs) > LOG_LIST_MAX)
            BY <1>1, <3>2 DEF AfterOverflow
        <3> QED BY <3>1, <3>2
    <2> QED BY <1>1, <2>1 DEF List
<1>4. \A x, y : Before(x, y) => Before(x, y)'
    BY <1>1, <1>2 DEF Before
<1>5. ASSUME NEW x, Gone(x) PROVE Gone(x)'
    <2>1. PICK a \in 1..(Len(listed) - Len(logs)) : listed[a] = x
        BY <1>5 DEF Gone
    <2>2. a \in 1..(Len(listed') - Len(logs')) /\ a \in 1..Len(listed)
        BY <1>1, <1>2, <1>3, <2>1
    <2>3. listed'[a] = x
        BY <1>2, <2>1, <2>2
    <2> QED BY <2>2, <2>3 DEF Gone
<1> QED BY <1>4, <1>5

\* Steps that move nothing that is on the way.
LEMMA NothingMoves ==
    ASSUME OrderInv, UNCHANGED <<out, wire, rows, conn>>,
           \A x, y : Before(x, y) => Before(x, y)', \A x : Gone(x) => Gone(x)',
           evPc' = "send" => evPc = "send" /\ log' = log,
           bev' = "none" => bev = "none"
    PROVE  OrderInv'
<1>1. \A c \in Conns : Stored(c)' = Stored(c) /\ Written(c)' = Written(c)
    BY DEF Stored, Written
<1>3. StagesInv'
    <2>1. RowsInOrder'
        BY DEF OrderInv, StagesInv, RowsInOrder
    <2>2. InOrder(out)' /\ \A c \in Conns : InOrder(wire[c])'
        BY DEF OrderInv, StagesInv, InOrder
    <2> QED BY <1>1, <2>1, <2>2 DEF OrderInv, StagesInv
<1>4. AheadInv'
    BY <1>1 DEF OrderInv, AheadInv
<1>5. FreshInv'
    BY <1>1 DEF OrderInv, FreshInv
<1> QED BY <1>3, <1>4, <1>5 DEF OrderInv

\* The steps that move a log on.  In all of them the list stays as it is, or
\* gives up its head.
LEMMA PopInOrder ==
    ASSUME TypeInv, WaitInv, OrderInv, TimerPop, logs # <<>>
    PROVE  OrderInv'
<1>1. /\ logs \in Seq(Logs) /\ Len(logs) \in Nat \ {0} /\ Len(listed) \in Nat
      /\ DOMAIN listed = 1..Len(listed)
    BY DEF TypeInv, TypeOK
<1>2. /\ UNCHANGED <<listed, bev, conn, out, wire, rows>> /\ evPc' = "send"
      /\ log' = Head(logs) /\ logs' = Tail(logs)
    BY DEF TimerPop, PopFrom, serverVars
<1>3. Len(logs') = Len(logs) - 1 /\ Head(logs) = logs[1]
    BY <1>1, <1>2
<1>4. log' = listed[Len(listed) - Len(logs) + 1]
    BY <1>1, <1>2, <1>3 DEF WaitInv
<1>5. Len(logs) <= Len(listed)
    BY DEF WaitInv
<1>6. \A x : Gone(x) => Gone(x)' /\ Before(x, log')
    <2> TAKE x
    <2> HAVE Gone(x)
    <2>1. PICK a \in 1..(Len(listed) - Len(logs)) : listed[a] = x
        BY DEF Gone
    <2>2. a \in 1..(Len(listed) - Len(logs'))
        BY <1>1, <1>3, <1>5, <2>1
    <2>3. /\ a \in DOMAIN listed /\ a < Len(listed) - Len(logs) + 1
          /\ Len(listed) - Len(logs) + 1 \in DOMAIN listed
        BY <1>1, <1>5, <2>1
    <2>4. Before(x, log')
        BY <1>4, <2>1, <2>3 DEF Before
    <2> QED BY <1>2, <2>1, <2>2, <2>4 DEF Gone
<1>7. Gone(log)'
    <2>1. Len(listed) - Len(logs) + 1 \in 1..(Len(listed) - Len(logs'))
        BY <1>1, <1>3, <1>5
    <2> QED BY <1>2, <1>4, <2>1 DEF Gone
<1>8. \A x, y : Before(x, y)' <=> Before(x, y)
    BY <1>2 DEF Before
<1>9. \A c \in Conns : Stored(c)' = Stored(c) /\ Written(c)' = Written(c)
    BY <1>2 DEF Stored, Written
<1>10. StagesInv'
    <2>1. RowsInOrder' /\ InOrder(out)' /\ \A c \in Conns : InOrder(wire[c])'
        BY <1>2, <1>8 DEF OrderInv, StagesInv, RowsInOrder, InOrder
    <2> QED BY <1>2, <1>6, <1>9, <2>1 DEF OrderInv, StagesInv
<1>11. AheadInv'
    <2>1. \A x \in ToSet(out) : Before(x, log')
        BY <1>6 DEF OrderInv, StagesInv
    <2>2. \A c \in Conns : \A x \in Written(c) : Before(x, log')
        BY <1>6 DEF OrderInv, StagesInv
    <2>3. /\ \A x \in ToSet(out)' : Before(x, log)'
          /\ conn' \in Conns => \A x \in Written(conn)' : Before(x, log)'
        <3>1. \A x : Before(x, log)' <=> Before(x, log')
            BY <1>2 DEF Before
        <3> QED BY <1>2, <1>9, <2>1, <2>2, <3>1 DEF Stored, Written
    <2>4. /\ \A c \in Conns : \A x \in Stored(c)', y \in ToSet(wire[c])' : Before(x, y)'
          /\ conn' \in Conns => \A x \in Written(conn)', y \in ToSet(out)' : Before(x, y)'
        BY <1>2, <1>8, <1>9 DEF OrderInv, AheadInv
    <2> QED BY <1>7, <2>3, <2>4 DEF AheadInv
<1>12. FreshInv'
    BY <1>2, <1>9 DEF OrderInv, FreshInv
<1> QED BY <1>10, <1>11, <1>12 DEF OrderInv

\* While the list stays as it is, the order of the logs does; what has to be shown
\* is said of the new buffers and rows in terms of the old order.
LEMMA ListStays ==
    ASSUME UNCHANGED <<listed, logs>>,
           NEW o, o = out', NEW w, w = wire', NEW R, R = rows', NEW l, l = log',
           NEW n, n = conn', FreshInv',
           NEW T, T = [c \in Conns |-> {R[i][2] : i \in {j \in DOMAIN R : R[j][1] = c}}],
           \A c \in Conns : \A x \in T[c] \cup ToSet(w[c]) : Gone(x),
           \A x \in ToSet(o) : Gone(x),
           InOrder(o), \A c \in Conns : InOrder(w[c]),
           \A i, j \in DOMAIN R : (i < j /\ R[i][1] = R[j][1]) => Before(R[i][2], R[j][2]),
           \A c \in Conns : \A x \in T[c], y \in ToSet(w[c]) : Before(x, y),
           n \in Conns => \A x \in T[n] \cup ToSet(w[n]), y \in ToSet(o) : Before(x, y),
           evPc' = "send" => /\ Gone(l) /\ \A x \in ToSet(o) : Before(x, l)
                             /\ n \in Conns => \A x \in T[n] \cup ToSet(w[n]) : Before(x, l)
    PROVE  OrderInv'
<1>1. /\ \A x, y : Before(x, y)' <=> Before(x, y)
      /\ \A x : Gone(x)' <=> Gone(x)
    BY DEF Before, Gone
<1>2. \A c \in Conns : Stored(c)' = T[c] /\ Written(c)' = T[c] \cup ToSet(w[c])
    BY DEF Stored, Written
<1>3. RowsInOrder' /\ InOrder(out)' /\ \A c \in Conns : InOrder(wire[c])'
    BY <1>1 DEF RowsInOrder, InOrder
<1>4. StagesInv'
    BY <1>1, <1>2, <1>3 DEF StagesInv
<1>5. /\ \A c \in Conns : \A x \in Stored(c)', y \in ToSet(wire[c])' : Before(x, y)'
      /\ conn' \in Conns => \A x \in Written(conn)', y \in ToSet(out)' : Before(x, y)'
    <2>1. conn' \in Conns => Written(conn)' = T[n] \cup ToSet(w[n])
        BY DEF Stored, Written
    <2> QED BY <1>1, <1>2, <2>1
<1>6. evPc' = "send" =>
          /\ Gone(log)'
          /\ \A x \in ToSet(out)' : Before(x, log)'
          /\ conn' \in Conns => \A x \in Written(conn)' : Before(x, log)'
    <2>1. conn' \in Conns => Written(conn)' = T[n] \cup ToSet(w[n])
        BY DEF Stored, Written
    <2>2. /\ \A x : Before(x, log)' <=> Before(x, l)
          /\ Gone(log)' <=> Gone(l)
        BY DEF Before, Gone
    <2> QED BY <2>1, <2>2
<1> QED BY <1>4, <1>5, <1>6 DEF OrderInv, AheadInv

\* A log is written after those that were popped before it.
LEMMA SendInOrder ==
    ASSUME TypeInv, OrderInv, TimerSend
    PROVE  OrderInv'
<1> DEFINE T == [c \in Conns |-> {rows[i][2] : i \in {j \in DOMAIN rows : rows[j][1] = c}}]
<1>1. /\ UNCHANGED <<listed, logs, bev, conn, wire, rows>> /\ evPc = "send" /\ evPc' = "pop"
      /\ out' = out \/ (bev # "none" /\ out' = Append(out, log))
    BY DEF TimerSend, TakesWrites, clientVars, serverVars
<1>2. log \in Logs /\ out \in Seq(Logs)
    BY <1>1 DEF TypeInv, TypeOK
<1>3. PICK o : o = out'
    OBVIOUS
<1>4. ToSet(o) \subseteq ToSet(out) \cup {log} /\ InOrder(o)
    <2>1. \A x \in ToSet(out) : Before(x, log)
        BY <1>1 DEF OrderInv, AheadInv
    <2>2. InOrder(out)
        BY DEF OrderInv, StagesInv
    <2>3. InOrder(Append(out, log)) /\ ToSet(Append(out, log)) = ToSet(out) \cup {log}
        BY <1>2, <2>1, <2>2, MovesInOrder
    <2> QED BY <1>1, <1>3, <2>2, <2>3
<1>5. \A c \in Conns : T[c] = Stored(c) /\ Written(c) = T[c] \cup ToSet(wire[c])
    BY DEF Stored, Written
<1>6. \A x \in ToSet(o) : Gone(x)
    BY <1>1, <1>4 DEF OrderInv, StagesInv, AheadInv
<1>7. conn \in Conns => \A x \in Written(conn), y \in ToSet(o) : Before(x, y)
    BY <1>1, <1>4 DEF OrderInv, AheadInv
<1>8. FreshInv'
    <2>1. \A c \in Conns : Written(c)' = Written(c)
        BY <1>1 DEF Written, Stored
    <2> QED BY <1>1, <2>1 DEF OrderInv, FreshInv
<1>9. /\ \A c \in Conns : \A x \in T[c] \cup ToSet(wire[c]) : Gone(x)
      /\ \A c \in Conns : InOrder(wire[c])
      /\ \A c \in Conns : \A x \in T[c], y \in ToSet(wire[c]) : Before(x, y)
      /\ \A i, j \in DOMAIN rows :
            (i < j /\ rows[i][1] = rows[j][1]) => Before(rows[i][2], rows[j][2])
    BY <1>5 DEF OrderInv, StagesInv, AheadInv, RowsInOrder
<1>10. conn \in Conns => \A x \in T[conn] \cup ToSet(wire[conn]), y \in ToSet(o) : Before(x, y)
    BY <1>5, <1>7
<1> QED
    <2>1. PICK U : U = T
        OBVIOUS
    <2>2. PICK R, w, n, l : R = rows' /\ w = wire' /\ n = conn' /\ l = log'
        OBVIOUS
    <2> QED BY <1>1, <1>3, <1>4, <1>6, <1>8, <1>9, <1>10, <2>1, <2>2, ListStays

\* The first log of the buffer goes to the server, or is lost.
LEMMA FlushInOrder ==
    ASSUME TypeInv, OrderInv, Flush
    PROVE  OrderInv'
<1> DEFINE T == [c \in Conns |-> {rows[i][2] : i \in {j \in DOMAIN rows : rows[j][1] = c}}]
<1>1. /\ UNCHANGED <<listed, logs, bev, conn, rows, evPc, log>> /\ evPc = "loop"
      /\ bev = "up" /\ out # <<>> /\ out' = Tail(out)
      /\ wire' = wire \/ wire' = [wire EXCEPT ![conn] = Append(@, Head(out))]
    BY DEF Flush, clientVars, timerVars
<1>2. /\ out \in Seq(Logs) /\ Head(out) \in Logs /\ conn \in Conns
      /\ wire \in [Conns -> Seq(Logs)] /\ wire[conn] \in Seq(Logs)
    <2>1. /\ out \in Seq(Logs) /\ conn \in {0} \cup Conns /\ conn > 0
          /\ wire \in [Conns -> Seq(Logs)]
        BY <1>1 DEF TypeInv, TypeOK
    <2> QED BY <1>1, <2>1
<1>3. PICK o, w, h : o = out' /\ w = wire' /\ h = Head(out)
    OBVIOUS
<1>4. InOrder(out) /\ \A c \in Conns : InOrder(wire[c])
    BY DEF OrderInv, StagesInv
<1>5. /\ ToSet(out) = {h} \cup ToSet(o) /\ InOrder(o)
      /\ \A y \in ToSet(o) : Before(h, y)
    BY <1>1, <1>2, <1>3, <1>4, MovesInOrder
<1>6. \A c \in Conns : T[c] = Stored(c) /\ Written(c) = T[c] \cup ToSet(wire[c])
    BY DEF Stored, Written
<1>7. \A x \in T[conn] \cup ToSet(wire[conn]) : \A y \in ToSet(out) : Before(x, y)
    BY <1>2, <1>6 DEF OrderInv, AheadInv
<1>8. /\ \A c \in Conns \ {conn} : w[c] = wire[c]
      /\ ToSet(w[conn]) \subseteq ToSet(wire[conn]) \cup {h} /\ InOrder(w[conn])
    <2>1. \A x \in ToSet(wire[conn]) : Before(x, h)
        BY <1>5, <1>7
    <2>2. /\ InOrder(Append(wire[conn], h))
          /\ ToSet(Append(wire[conn], h)) = ToSet(wire[conn]) \cup {h}
        BY <1>2, <1>3, <1>4, <2>1, MovesInOrder
    <2>3. w[conn] = wire[conn] \/ w[conn] = Append(wire[conn], h)
        BY <1>1, <1>2, <1>3
    <2> QED BY <1>1, <1>2, <1>3, <1>4, <2>2, <2>3
<1>9. /\ \A c \in Conns : \A x \in T[c] \cup ToSet(wire[c]) : Gone(x)
      /\ \A x \in ToSet(out) : Gone(x)
      /\ \A c \in Conns : \A x \in T[c], y \in ToSet(wire[c]) : Before(x, y)
      /\ \A i, j \in DOMAIN rows :
            (i < j /\ rows[i][1] = rows[j][1]) => Before(rows[i][2], rows[j][2])
    BY <1>6 DEF OrderInv, StagesInv, AheadInv, RowsInOrder
<1> HIDE DEF T
<1>10. \A c \in Conns : \A x \in T[c] \cup ToSet(w[c]) : Gone(x)
    BY <1>5, <1>8, <1>9
<1>11. \A c \in Conns : InOrder(w[c])
    BY <1>4, <1>8
<1>12. \A c \in Conns : \A x \in T[c], y \in ToSet(w[c]) : Before(x, y)
    BY <1>5, <1>7, <1>8, <1>9
<1>13. \A x \in T[conn] \cup ToSet(w[conn]), y \in ToSet(o) : Before(x, y)
    BY <1>5, <1>7, <1>8
<1>14. FreshInv'
    <2>1. \A c \in Conns : c > conn => wire'[c] = wire[c]
        BY <1>1, <1>2, BoundsAssumption DEF Conns
    <2>2. \A c \in Conns : c > conn => Written(c)' = Written(c)
        BY <1>1, <2>1 DEF Written, Stored
    <2> QED BY <1>1, <2>2 DEF OrderInv, FreshInv
<1>15. PICK U : U = T
    OBVIOUS
<1>16. U = [c \in Conns |-> {rows[i][2] : i \in {j \in DOMAIN rows : rows[j][1] = c}}]
    BY <1>15 DEF T
<1> QED
    <2>1. PICK R, n, l : R = rows' /\ n = conn' /\ l = log'
        OBVIOUS
    <2>2. UNCHANGED <<listed, logs>> /\ evPc' # "send" /\ o = out' /\ w = wire'
        BY <1>1, <1>3
    <2>3. U = [c \in Conns |-> {R[i][2] : i \in {j \in DOMAIN R : R[j][1] = c}}]
        BY <1>1, <1>16, <2>1
    <2>4. /\ \A c \in Conns : \A x \in U[c] \cup ToSet(w[c]) : Gone(x)
          /\ \A x \in ToSet(o) : Gone(x)
        BY <1>5, <1>9, <1>10, <1>15
    <2>5. \A i, j \in DOMAIN R : (i < j /\ R[i][1] = R[j][1]) => Before(R[i][2], R[j][2])
        BY <1>1, <1>9, <2>1
    <2>6. /\ \A c \in Conns : \A x \in U[c], y \in ToSet(w[c]) : Before(x, y)
          /\ \A x \in U[n] \cup ToSet(w[n]), y \in ToSet(o) : Before(x, y)
        BY <1>1, <1>12, <1>13, <1>15, <2>1
    <2> QED BY <1>5, <1>11, <1>14, <2>1, <2>2, <2>3, <2>4, <2>5, <2>6, ListStays

\* What is left of a connection that is closed is in the order it was.
LEMMA CloseInOrder ==
    ASSUME TypeInv, OrderInv, CloseBev, UNCHANGED <<log, evPc>>
    PROVE  OrderInv'
<1> DEFINE T == [c \in Conns |-> {rows[i][2] : i \in {j \in DOMAIN rows : rows[j][1] = c}}]
<1>1. /\ UNCHANGED <<listed, logs, conn, rows>> /\ evPc = "loop" /\ bev' = "none"
      /\ bev # "none" /\ out' = <<>>
    BY DEF CloseBev, clientVars
<1>2. PICK k \in 0..Len(wire[conn]) : wire' = [wire EXCEPT ![conn] = SubSeq(@, 1, k)]
    BY DEF CloseBev
<1>3. conn \in Conns /\ wire \in [Conns -> Seq(Logs)] /\ wire[conn] \in Seq(Logs)
    <2>1. conn \in {0} \cup Conns /\ conn > 0 /\ wire \in [Conns -> Seq(Logs)]
        BY <1>1 DEF TypeInv, TypeOK
    <2> QED BY <2>1
<1>4. PICK o, w : o = out' /\ w = wire'
    OBVIOUS
<1>5. \A c \in Conns : InOrder(wire[c])
    BY DEF OrderInv, StagesInv
<1>6. \A c \in Conns : ToSet(w[c]) \subseteq ToSet(wire[c]) /\ InOrder(w[c])
    <2>1. \A c \in Conns \ {conn} : w[c] = wire[c]
        BY <1>2, <1>3, <1>4
    <2>2. w[conn] = SubSeq(wire[conn], 1, k)
        BY <1>2, <1>3, <1>4
    <2>3. ToSet(w[conn]) \subseteq ToSet(wire[conn]) /\ InOrder(w[conn])
        BY <1>2, <1>3, <1>5, <2>2, MovesInOrder
    <2> QED BY <1>5, <2>1, <2>3
<1>7. ToSet(o) = {} /\ InOrder(o)
    BY <1>1, <1>4 DEF ToSet, InOrder
<1>8. \A c \in Conns : T[c] = Stored(c) /\ Written(c) = T[c] \cup ToSet(wire[c])
    BY DEF Stored, Written
<1>9. /\ \A c \in Conns : \A x \in T[c] \cup ToSet(wire[c]) : Gone(x)
      /\ \A c \in Conns : \A x \in T[c], y \in ToSet(wire[c]) : Before(x, y)
      /\ \A i, j \in DOMAIN rows :
            (i < j /\ rows[i][1] = rows[j][1]) => Before(rows[i][2], rows[j][2])
    BY <1>8 DEF OrderInv, StagesInv, AheadInv, RowsInOrder
<1> HIDE DEF T
<1>10. /\ \A c \in Conns : \A x \in T[c] \cup ToSet(w[c]) : Gone(x)
       /\ \A c \in Conns : \A x \in T[c], y \in ToSet(w[c]) : Before(x, y)
    BY <1>6, <1>9
<1>11. FreshInv'
    <2>1. \A c \in Conns : c > conn => wire'[c] = wire[c]
        BY <1>2, <1>3, BoundsAssumption DEF Conns
    <2>2. \A c \in Conns : c > conn => Written(c)' = Written(c)
        BY <1>1, <2>1 DEF Written, Stored
    <2> QED BY <1>1, <2>2 DEF OrderInv, FreshInv
<1>12. PICK U : U = T
    OBVIOUS
<1>13. U = [c \in Conns |-> {rows[i][2] : i \in {j \in DOMAIN rows : rows[j][1] = c}}]
    BY <1>12 DEF T
<1> QED
    <2>1. PICK R, n, l : R = rows' /\ n = conn' /\ l = log'
        OBVIOUS
    <2> QED BY <1>1, <1>4, <1>6, <1>7, <1>9, <1>10, <1>11, <1>12, <1>13, <2>1, ListStays

\* A handle of the server takes the logs of its connection in turn.
LEMMA StoreInOrder ==
    ASSUME TypeInv, OrderInv, NEW c \in Conns, AddLogReq(c)
    PROVE  OrderInv'
<1>1. /\ UNCHANGED <<listed, logs, conn, out, bev, evPc, log>>
      /\ wire' = [wire EXCEPT ![c] = Tail(@)] /\ wire[c] # <<>>
      /\ rows' = rows \/ rows' = Append(rows, <<c, Head(wire[c])>>)
    BY DEF AddLogReq, clientVars, timerVars
<1>2. /\ wire \in [Conns -> Seq(Logs)] /\ wire[c] \in Seq(Logs) /\ Head(wire[c]) \in Logs
      /\ rows \in Seq(Conns \X Logs)
    BY <1>1 DEF TypeInv, TypeOK
<1>3. PICK h, w, R, U : /\ h = Head(wire[c]) /\ w = wire' /\ R = rows'
                        /\ U = [d \in Conns |-> {R[i][2] : i \in {j \in DOMAIN R : R[j][1] = d}}]
    OBVIOUS
<1>4. /\ ToSet(wire[c]) = {h} \cup ToSet(w[c]) /\ InOrder(w[c])
      /\ \A y \in ToSet(w[c]) : Before(h, y)
      /\ \A d \in Conns \ {c} : w[d] = wire[d]
    <2>1. InOrder(wire[c])
        BY DEF OrderInv, StagesInv
    <2>2. w[c] = Tail(wire[c]) /\ \A d \in Conns \ {c} : w[d] = wire[d]
        BY <1>1, <1>2, <1>3
    <2> QED BY <1>1, <1>2, <1>3, <2>1, <2>2, MovesInOrder
<1>5. \/ R = rows
      \/ /\ DOMAIN rows = 1..Len(rows) /\ Len(rows) \in Nat
         /\ DOMAIN R = 1..(Len(rows) + 1)
         /\ R[Len(rows) + 1] = <<c, h>>
         /\ \A i \in 1..Len(rows) : R[i] = rows[i]
    <2>1. PICK e \in Conns \X Logs : e = <<c, h>>
        BY <1>2, <1>3
    <2>2. R = rows \/ R = Append(rows, e)
        BY <1>1, <1>3, <2>1
    <2>3. CASE R = Append(rows, e)
        <3>1. /\ DOMAIN rows = 1..Len(rows) /\ Len(rows) \in Nat
              /\ DOMAIN R = 1..(Len(rows) + 1)
              /\ R[Len(rows) + 1] = e
              /\ \A i \in 1..Len(rows) : R[i] = rows[i]
            BY <1>2, <2>3
        <3> QED BY <2>1, <3>1
    <2> QED BY <2>2, <2>3
<1>6. \A i \in DOMAIN R : \/ i \in DOMAIN rows /\ R[i] = rows[i]
                         \/ /\ R[i] = <<c, h>> /\ \A j \in DOMAIN R : j <= i
    <2>1. CASE R = rows
        BY <2>1
    <2>2. CASE /\ DOMAIN rows = 1..Len(rows) /\ Len(rows) \in Nat
               /\ DOMAIN R = 1..(Len(rows) + 1)
               /\ R[Len(rows) + 1] = <<c, h>>
               /\ \A i \in 1..Len(rows) : R[i] = rows[i]
        <3>1. \A i \in DOMAIN R : i \in DOMAIN rows \/ i = Len(rows) + 1
            BY <2>2
        <3>2. \A j \in DOMAIN R : j <= Len(rows) + 1
            BY <2>2
        <3> QED BY <2>2, <3>1, <3>2
    <2> QED BY <1>5, <2>1, <2>2
<1>7. /\ \A d \in Conns \ {c} : U[d] \subseteq Stored(d)
      /\ U[c] \subseteq Stored(c) \cup {h}
    BY <1>3, <1>6 DEF Stored
<1>8. \A d \in Conns : U[d] \cup ToSet(w[d]) \subseteq Written(d)
    BY <1>4, <1>7 DEF Written
<1>9. /\ \A d \in Conns : \A x \in U[d] \cup ToSet(w[d]) : Gone(x)
      /\ \A x \in ToSet(out) : Gone(x)
      /\ InOrder(out)
    BY <1>8 DEF OrderInv, StagesInv
<1>10. \A d \in Conns : InOrder(w[d])
    BY <1>4 DEF OrderInv, StagesInv
<1>11. \A x \in Stored(c) : Before(x, h)
    BY <1>4 DEF OrderInv, AheadInv
<1>12. ASSUME NEW i \in DOMAIN R, NEW j \in DOMAIN R, i < j, R[i][1] = R[j][1]
      PROVE  Before(R[i][2], R[j][2])
    <2>0. i \in Int /\ j \in Int
        BY <1>2, <1>5
    <2>1. i \in DOMAIN rows /\ R[i] = rows[i]
        BY <1>6, <1>12, <2>0
    <2>2. CASE j \in DOMAIN rows /\ R[j] = rows[j]
        BY <1>12, <2>1, <2>2 DEF OrderInv, StagesInv, RowsInOrder
    <2>3. CASE R[j] = <<c, h>>
        <3>1. R[j][1] = c /\ R[j][2] = h
            BY <2>3
        <3>2. R[i][2] \in Stored(c)
            BY <1>12, <2>1, <3>1 DEF Stored
        <3> QED BY <1>11, <3>1, <3>2
    <2> QED BY <1>6, <2>2, <2>3
<1>13. \A d \in Conns : \A x \in U[d], y \in ToSet(w[d]) : Before(x, y)
    BY <1>4, <1>7 DEF OrderInv, AheadInv
<1>14. conn \in Conns => \A x \in U[conn] \cup ToSet(w[conn]) :
          /\ \A y \in ToSet(out) : Before(x, y)
          /\ evPc = "send" => Before(x, log)
    BY <1>8 DEF OrderInv, AheadInv
<1>15. evPc = "send" => Gone(log) /\ \A x \in ToSet(out) : Before(x, log)
    BY DEF OrderInv, AheadInv
<1>16. FreshInv'
    <2>1. \A d \in Conns : Written(d)' = U[d] \cup ToSet(w[d])
        BY <1>3 DEF Written, Stored
    <2>2. \A d \in Conns : Written(d)' \subseteq Written(d)
        BY <1>8, <2>1
    <2> QED BY <1>1, <2>2 DEF OrderInv, FreshInv
<1>17. /\ \A x, y : Before(x, y)' <=> Before(x, y)
       /\ \A x : Gone(x)' <=> Gone(x)
       /\ \A x : Before(x, log)' <=> Before(x, log)
       /\ Gone(log)' <=> Gone(log)
    BY <1>1 DEF Before, Gone
<1>18. \A d \in Conns : Stored(d)' = U[d] /\ Written(d)' = U[d] \cup ToSet(w[d])
    BY <1>3 DEF Written, Stored
<1>19. StagesInv'
    <2>1. \A x \in ToSet(out)' : Gone(x)'
        BY <1>1, <1>9, <1>17
    <2>2. \A d \in Conns : \A x \in Written(d)' : Gone(x)'
        BY <1>9, <1>17, <1>18
    <2>3. RowsInOrder'
        BY <1>3, <1>12, <1>17 DEF RowsInOrder
    <2>4. InOrder(out)' /\ \A d \in Conns : InOrder(wire[d])'
        BY <1>1, <1>3, <1>9, <1>10, <1>17 DEF InOrder
    <2> QED BY <2>1, <2>2, <2>3, <2>4 DEF StagesInv
<1>20. AheadInv'
    <2>1. \A d \in Conns : \A x \in Stored(d)', y \in ToSet(wire[d])' : Before(x, y)'
        BY <1>3, <1>13, <1>17, <1>18
    <2>2. conn' \in Conns => Written(conn)' = U[conn] \cup ToSet(w[conn])
        BY <1>1, <1>3 DEF Written, Stored
    <2>3. conn' \in Conns => \A x \in Written(conn)', y \in ToSet(out)' : Before(x, y)'
        BY <1>1, <1>14, <1>17, <2>2
    <2>4. evPc' = "send" => /\ Gone(log)'
                            /\ \A x \in ToSet(out)' : Before(x, log)'
                            /\ conn' \in Conns => \A x \in Written(conn)' : Before(x, log)'
        BY <1>1, <1>14, <1>15, <1>17, <2>2
    <2> QED BY <2>1, <2>3, <2>4 DEF AheadInv
<1> QED BY <1>16, <1>19, <1>20 DEF OrderInv

\* A new server has received nothing yet.
LEMMA RestartInOrder ==
    ASSUME TypeInv, OrderInv, ServerRestart
    PROVE  OrderInv'
<1>1. /\ UNCHANGED <<listed, logs, conn, out, bev, evPc, log, rows>>
      /\ wire' = [c \in Conns |-> <<>>]
    BY DEF ServerRestart, clientVars, timerVars
<1>2. \A c \in Conns : Stored(c)' = Stored(c) /\ ToSet(wire[c])' = {} /\ Written(c)' = Stored(c)
    BY <1>1 DEF Stored, Written, ToSet
<1>3. /\ \A x, y : Before(x, y)' <=> Before(x, y)
      /\ \A x : Gone(x)' <=> Gone(x)
      /\ Gone(log)' <=> Gone(log)
      /\ \A x : Before(x, log)' <=> Before(x, log)
    BY <1>1 DEF Before, Gone
<1>4. InOrder(out)' /\ RowsInOrder' /\ \A c \in Conns : InOrder(wire[c])'
    <2>1. \A c \in Conns : InOrder(wire[c])'
        BY <1>1 DEF InOrder
    <2> QED BY <1>1, <1>3, <2>1 DEF InOrder, RowsInOrder, OrderInv, StagesInv
<1>5. \A c \in Conns : Written(c)' \subseteq Written(c)
    BY <1>2 DEF Written
<1>6. StagesInv'
    BY <1>1, <1>3, <1>4, <1>5 DEF OrderInv, StagesInv
<1>7. conn' \in Conns => Written(conn)' \subseteq Written(conn)
    BY <1>1, <1>2 DEF Written, Stored, ToSet
<1>8. AheadInv'
    BY <1>1, <1>2, <1>3, <1>7 DEF OrderInv, AheadInv
<1>9. FreshInv'
    BY <1>1, <1>5 DEF OrderInv, FreshInv
<1> QED BY <1>6, <1>8, <1>9 DEF OrderInv

\* A new connection starts with empty buffers.
LEMMA ConnectInOrder ==
    ASSUME TypeInv, OrderInv, Connect
    PROVE  OrderInv'
<1>1. /\ UNCHANGED <<listed, logs, out, evPc, log, rows, wire>> /\ evPc = "loop"
      /\ bev' # "none" /\ out = <<>> /\ conn' = conn + 1 /\ conn \in Nat
    BY BoundsAssumption DEF Connect, clientVars, timerVars, serverVars, OrderInv, FreshInv,
        TypeInv, TypeOK, Conns
<1>2. \A c \in Conns : Stored(c)' = Stored(c) /\ Written(c)' = Written(c)
    BY <1>1 DEF Stored, Written
<1>3. /\ \A x, y : Before(x, y)' <=> Before(x, y)
      /\ \A x : Gone(x)' <=> Gone(x)
    BY <1>1 DEF Before, Gone
<1>4. ToSet(out)' = {}
    BY <1>1 DEF ToSet
<1>5. InOrder(out)' /\ RowsInOrder' /\ \A c \in Conns : InOrder(wire[c])'
    BY <1>1, <1>3 DEF InOrder, RowsInOrder, OrderInv, StagesInv
<1>6. StagesInv'
    BY <1>2, <1>3, <1>4, <1>5 DEF OrderInv, StagesInv
<1>7. AheadInv'
    BY <1>1, <1>2, <1>3, <1>4 DEF OrderInv, AheadInv
<1>8. FreshInv'
    <2>1. \A c \in Conns : c > conn' => c > conn
        BY <1>1, BoundsAssumption DEF Conns
    <2> QED BY <1>1, <1>2, <2>1 DEF OrderInv, FreshInv
<1> QED BY <1>6, <1>7, <1>8 DEF OrderInv

LEMMA OrderInvInit == Init => OrderInv
<1> SUFFICES ASSUME Init PROVE OrderInv
    OBVIOUS
<1>1. /\ \A c \in Conns : Stored(c) = {} /\ Written(c) = {} /\ ToSet(wire[c]) = {}
      /\ ToSet(out) = {} /\ evPc = "loop" /\ out = <<>>
    BY DEF Init, Stored, Written, ToSet
<1>2. InOrder(out) /\ RowsInOrder /\ \A c \in Conns : InOrder(wire[c])
    BY DEF Init, InOrder, RowsInOrder
<1>3. conn \notin Conns
    BY DEF Init, Conns
<1> QED BY <1>1, <1>2, <1>3 DEF OrderInv, StagesInv, AheadInv, FreshInv

LEMMA OrderInvNext == TypeInv /\ WaitInv /\ OrderInv /\ [Next]_vars => OrderInv'
<1> SUFFICES ASSUME TypeInv, WaitInv, OrderInv, [Next]_vars PROVE OrderInv'
    OBVIOUS
<1> USE DEF clientVars, timerVars, serverVars
<1>1. ASSUME UNCHANGED <<out, wire, rows, conn, listed, logs>>,
             evPc' = "send" => evPc = "send" /\ log' = log,
             bev' = "none" => bev = "none"
      PROVE  OrderInv'
    <2>1. (\A x, y : Before(x, y) => Before(x, y)') /\ (\A x : Gone(x) => Gone(x)')
        BY <1>1 DEF Before, Gone
    <2> QED BY <1>1, <2>1, NothingMoves
<1>2. CASE \/ \E p \in Producers : Compose(p)
           \/ TimerFires \/ (TimerPop /\ logs = <<>>) \/ UNCHANGED vars
    <2>1. /\ UNCHANGED <<out, wire, rows, conn, listed, logs, bev, log>>
          /\ evPc' = "send" => evPc = "send"
        BY <1>2 DEF Compose, TimerFires, TimerPop, vars
    <2> QED BY <1>1, <2>1
<1>3. ASSUME NEW p \in Producers, AddLog(p) PROVE OrderInv'
    <2>1. adding[p] \in Logs /\ TypeOK /\ List(adding[p])
        BY <1>3 DEF AddLog, TypeInv, TypeOK
    <2>2. UNCHANGED <<out, wire, rows, conn, evPc, log, bev>>
        BY <1>3 DEF AddLog
    <2> QED BY <2>1, <2>2, ListKeepsBefore, NothingMoves
<1>4. CASE Connected
    <2>1. <<Self, conn>> \in Logs /\ TypeOK /\ List(<<Self, conn>>)
        BY <1>4 DEF Connected, TypeInv, TypeOK, Logs
    <2>2. UNCHANGED <<out, wire, rows, conn, evPc, log>> /\ bev' = "up"
        BY <1>4 DEF Connected
    <2> QED BY <2>1, <2>2, ListKeepsBefore, NothingMoves
<1>5. CASE ConnectionEnds \/ ConnectionFails
    <2>1. CloseBev /\ UNCHANGED <<log, evPc>>
        BY <1>5 DEF ConnectionEnds, ConnectionFails, CloseBev
    <2> QED BY <2>1, CloseInOrder
<1>6. CASE TimerPop /\ logs # <<>>
    BY <1>6, PopInOrder
<1>7. CASE TimerSend \/ Flush \/ Connect \/ ServerRestart
    BY <1>7, SendInOrder, FlushInOrder, ConnectInOrder, RestartInOrder
<1>8. CASE \E c \in Conns : AddLogReq(c)
    BY <1>8, StoreInOrder
<1> QED
    BY <1>2, <1>3, <1>4, <1>5, <1>6, <1>7, <1>8 DEF Next, EventThread

\* The rows of a connection are in the order in which addLog was called, through
\* the list, the timer, the buffers and the handle of the server (timerCb,
\* addLogReq): also for rows whose connection was given up long ago.
THEOREM RowsStoredInOrder == Spec => []StoredInOrder
<1>1. Init => WaitInv
    BY DEF Init, WaitInv
<1>2. OrderInv => StoredInOrder
    BY DEF OrderInv, StagesInv, RowsInOrder, Before, StoredInOrder
<1> QED
    BY <1>1, <1>2, TypeInvInit, TypeInvNext, WaitInvNext, OrderInvInit, OrderInvNext,
       PTL DEF Spec

-----------------------------------------------------------------------------
(* Every log is in one place.  The logs that were ever listed are split between *)
(* the places; a step moves some of them from one place to another.             *)

\* The logs of A are split between the list L, the timer's t, the buffer O, what
\* each connection has under way w, the table K, and those dropped D and lost X.
Split(A, L, t, O, w, K, D, X) ==
    /\ A = L \cup ({t} \ {None}) \cup O \cup (UNION {w[c] : c \in Conns}) \cup K \cup D \cup X
    /\ \A l \in L : l # t /\ l \notin O /\ l \notin K /\ l \notin D /\ l \notin X
    /\ t \notin O /\ t \notin K /\ t \notin D /\ t \notin X
    /\ \A l \in O : l \notin K /\ l \notin D /\ l \notin X
    /\ \A l \in K : l \notin D /\ l \notin X
    /\ D \cap X = {}
    /\ \A c \in Conns : \A l \in w[c] :
          /\ l \notin L /\ l # t /\ l \notin O /\ l \notin K /\ l \notin D /\ l \notin X
          /\ \A d \in Conns : d # c => l \notin w[d]

\* The logs in the table.
Saved == {rows[i][2] : i \in DOMAIN rows}

\* What was listed is split between the places of the client and the server.
SplitNow ==
    Split(ToSet(listed), ToSet(logs), log, ToSet(out),
          [c \in Conns |-> ToSet(wire[c])], Saved, dropped, lost)

\* No place holds a log twice, and the timer holds one only while it sends it.
NoneTwice ==
    /\ IsInjective(logs) /\ IsInjective(out)
    /\ \A c \in Conns : IsInjective(wire[c])
    /\ \A i, j \in DOMAIN rows : rows[i][2] = rows[j][2] => i = j
    /\ evPc # "send" => log = None

\* A log about to be listed was never listed before: producers count theirs, the
\* event thread has one for each connection.
NewInv ==
    /\ \A p \in Producers :
          adding[p] # None => adding[p] = <<p, made[p]>> /\ adding[p] \notin ToSet(listed)
    /\ \A p \in Producers, n \in 1..MaxLogs : <<p, n>> \in ToSet(listed) => n <= made[p]
    /\ \A c \in Conns : <<Self, c>> \in ToSet(listed) => c <= conn
    /\ bev = "connecting" => <<Self, conn>> \notin ToSet(listed)

OnceInv == SplitNow /\ NoneTwice /\ NewInv

\* A sequence without repetition: what its operations do to the set of its
\* elements, and that they repeat none.
LEMMA OnceFacts ==
    ASSUME NEW S, NEW s \in Seq(S), IsInjective(s)
    PROVE  /\ s # <<>> => /\ Head(s) \in ToSet(s) /\ ToSet(Tail(s)) = ToSet(s) \ {Head(s)}
                          /\ IsInjective(Tail(s))
           /\ \A e \in S : /\ ToSet(Append(s, e)) = ToSet(s) \cup {e}
                           /\ e \notin ToSet(s) => IsInjective(Append(s, e))
           /\ \A k \in 0..Len(s) :
                 /\ ToSet(s) = ToSet(SubSeq(s, 1, k)) \cup ToSet(SubSeq(s, k + 1, Len(s)))
                 /\ ToSet(SubSeq(s, 1, k)) \cap ToSet(SubSeq(s, k + 1, Len(s))) = {}
                 /\ IsInjective(SubSeq(s, 1, k))
<1>0. /\ Len(s) \in Nat /\ DOMAIN s = 1..Len(s)
      /\ \A i, j \in 1..Len(s) : s[i] = s[j] => i = j
      /\ ToSet(s) = {s[i] : i \in 1..Len(s)}
    BY DEF IsInjective, ToSet
<1>1. ASSUME s # <<>>
      PROVE  /\ Head(s) \in ToSet(s) /\ ToSet(Tail(s)) = ToSet(s) \ {Head(s)}
             /\ IsInjective(Tail(s))
    <2>1. /\ DOMAIN Tail(s) = 1..(Len(s) - 1) /\ Len(s) >= 1 /\ Head(s) = s[1]
          /\ \A i \in 1..(Len(s) - 1) : Tail(s)[i] = s[i + 1]
        BY <1>1
    <2>2. \A i \in 1..(Len(s) - 1) : i + 1 \in 1..Len(s) /\ i + 1 # 1
        BY <1>0
    <2>3. \A i \in 1..Len(s) : i = 1 \/ (i - 1 \in 1..(Len(s) - 1) /\ (i - 1) + 1 = i)
        BY <1>0
    <2>4. ToSet(Tail(s)) = {s[i + 1] : i \in 1..(Len(s) - 1)}
        BY <2>1 DEF ToSet
    <2>5. 1 \in 1..Len(s)
        BY <1>0, <2>1
    <2>6. ToSet(Tail(s)) \subseteq ToSet(s) \ {Head(s)}
        BY <1>0, <2>1, <2>2, <2>4, <2>5
    <2>7. ToSet(s) \ {Head(s)} \subseteq ToSet(Tail(s))
        BY <1>0, <2>1, <2>3, <2>4
    <2>8. IsInjective(Tail(s))
        <3> SUFFICES ASSUME NEW i \in 1..(Len(s) - 1), NEW j \in 1..(Len(s) - 1),
                            Tail(s)[i] = Tail(s)[j]
                     PROVE  i = j
            BY <2>1 DEF IsInjective
        <3>1. s[i + 1] = s[j + 1] /\ i + 1 \in 1..Len(s) /\ j + 1 \in 1..Len(s)
            BY <2>1, <2>2
        <3>2. i + 1 = j + 1
            BY <1>0, <3>1
        <3> QED BY <3>2, <1>0
    <2>9. Head(s) \in ToSet(s)
        BY <1>0, <2>1, <2>5
    <2> QED BY <2>6, <2>7, <2>8, <2>9
<1>2. ASSUME NEW e \in S
      PROVE  /\ ToSet(Append(s, e)) = ToSet(s) \cup {e}
             /\ e \notin ToSet(s) => IsInjective(Append(s, e))
    <2>1. /\ DOMAIN Append(s, e) = 1..(Len(s) + 1)
          /\ Append(s, e)[Len(s) + 1] = e
          /\ \A i \in 1..Len(s) : Append(s, e)[i] = s[i]
        OBVIOUS
    <2>2. /\ \A i \in 1..(Len(s) + 1) : i \in 1..Len(s) \/ i = Len(s) + 1
          /\ \A i \in 1..Len(s) : i \in 1..(Len(s) + 1)
          /\ Len(s) + 1 \in 1..(Len(s) + 1)
        BY <1>0
    <2>3. ToSet(Append(s, e)) = ToSet(s) \cup {e}
        BY <1>0, <2>1, <2>2 DEF ToSet
    <2>4. ASSUME e \notin ToSet(s) PROVE IsInjective(Append(s, e))
        <3>1. \A i \in 1..Len(s) : s[i] # e
            BY <1>0, <2>4
        <3> QED BY <1>0, <2>1, <2>2, <3>1 DEF IsInjective
    <2> QED BY <2>3, <2>4
<1>3. ASSUME NEW k \in 0..Len(s)
      PROVE  /\ ToSet(s) = ToSet(SubSeq(s, 1, k)) \cup ToSet(SubSeq(s, k + 1, Len(s)))
             /\ ToSet(SubSeq(s, 1, k)) \cap ToSet(SubSeq(s, k + 1, Len(s))) = {}
             /\ IsInjective(SubSeq(s, 1, k))
    <2>0. k \in Nat /\ k <= Len(s)
        BY <1>0
    <2>1. /\ DOMAIN SubSeq(s, 1, k) = 1..k
          /\ \A i \in 1..k : SubSeq(s, 1, k)[i] = s[i] /\ i \in 1..Len(s)
        BY <1>0, <2>0
    <2>2. /\ DOMAIN SubSeq(s, k + 1, Len(s)) = 1..(Len(s) - k)
          /\ \A i \in 1..(Len(s) - k) :
                SubSeq(s, k + 1, Len(s))[i] = s[i + k] /\ i + k \in 1..Len(s) /\ i + k \notin 1..k
        BY <1>0, <2>0
    <2>3. \A i \in 1..Len(s) : i \in 1..k \/ (i - k \in 1..(Len(s) - k) /\ (i - k) + k = i)
        BY <1>0, <2>0
    <2>4. /\ ToSet(SubSeq(s, 1, k)) = {s[i] : i \in 1..k}
          /\ ToSet(SubSeq(s, k + 1, Len(s))) = {s[i + k] : i \in 1..(Len(s) - k)}
        BY <2>1, <2>2 DEF ToSet
    <2>5. ToSet(s) = ToSet(SubSeq(s, 1, k)) \cup ToSet(SubSeq(s, k + 1, Len(s)))
        <3>1. ToSet(s) \subseteq ToSet(SubSeq(s, 1, k)) \cup ToSet(SubSeq(s, k + 1, Len(s)))
            BY <1>0, <2>3, <2>4
        <3> QED BY <1>0, <2>1, <2>2, <2>4, <3>1
    <2>6. ToSet(SubSeq(s, 1, k)) \cap ToSet(SubSeq(s, k + 1, Len(s))) = {}
        <3> SUFFICES ASSUME NEW i \in 1..k, NEW j \in 1..(Len(s) - k), s[i] = s[j + k]
                     PROVE  FALSE
            BY <2>4
        <3>1. i = j + k
            BY <1>0, <2>1, <2>2
        <3> QED BY <2>2, <3>1
    <2>7. IsInjective(SubSeq(s, 1, k))
        BY <1>0, <2>1 DEF IsInjective
    <2> QED BY <2>5, <2>6, <2>7
<1> QED BY <1>1, <1>2, <1>3


\* Also with repetitions, one element more is in the set.
LEMMA AppendToSet ==
    ASSUME NEW S, NEW s \in Seq(S), NEW e \in S
    PROVE  ToSet(Append(s, e)) = ToSet(s) \cup {e}
<1>1. /\ Len(s) \in Nat /\ DOMAIN s = 1..Len(s)
      /\ DOMAIN Append(s, e) = 1..(Len(s) + 1) /\ Append(s, e)[Len(s) + 1] = e
      /\ \A i \in 1..Len(s) : Append(s, e)[i] = s[i]
    OBVIOUS
<1>2. /\ \A i \in 1..(Len(s) + 1) : i \in 1..Len(s) \/ i = Len(s) + 1
      /\ \A i \in 1..Len(s) : i \in 1..(Len(s) + 1)
      /\ Len(s) + 1 \in 1..(Len(s) + 1)
    BY <1>1
<1> QED BY <1>1, <1>2 DEF ToSet

\* A log that was never listed joins the list, which may first give up some.
LEMMA SplitList ==
    ASSUME NEW A, NEW L, NEW t, NEW O, NEW w, NEW K, NEW D, NEW X,
           Split(A, L, t, O, w, K, D, X),
           NEW M, M \subseteq L, NEW l, l \notin A, l # t
    PROVE  Split(A \cup {l}, (L \ M) \cup {l}, t, O, w, K, D \cup M, X)
BY DEF Split

\* The timer takes a log.
LEMMA SplitPop ==
    ASSUME NEW A, NEW L, NEW O, NEW w, NEW K, NEW D, NEW X,
           Split(A, L, None, O, w, K, D, X), NEW h \in L
    PROVE  Split(A, L \ {h}, h, O, w, K, D, X)
BY DEF Split

\* The timer hands over a log, to the buffer or to nobody.
LEMMA SplitSend ==
    ASSUME NEW A, NEW L, NEW t, NEW O, NEW w, NEW K, NEW D, NEW X,
           Split(A, L, t, O, w, K, D, X), t # None, None \notin A
    PROVE  /\ Split(A, L, None, O \cup {t}, w, K, D, X)
           /\ Split(A, L, None, O, w, K, D, X \cup {t})
BY DEF Split

\* The event loop writes a log, to the server or to nobody.
LEMMA SplitFlush ==
    ASSUME NEW A, NEW L, NEW t, NEW O, NEW w, NEW K, NEW D, NEW X,
           Split(A, L, t, O, w, K, D, X), NEW h \in O, NEW c \in Conns, NEW v,
           v[c] = w[c] \cup {h}, \A d \in Conns \ {c} : v[d] = w[d]
    PROVE  /\ Split(A, L, t, O \ {h}, v, K, D, X)
           /\ Split(A, L, t, O \ {h}, w, K, D, X \cup {h})
BY DEF Split

\* Some logs under way get lost, with them the buffer or not.
LEMMA SplitLose ==
    ASSUME NEW A, NEW L, NEW t, NEW O, NEW w, NEW K, NEW D, NEW X,
           Split(A, L, t, O, w, K, D, X), NEW v, \A c \in Conns : v[c] \subseteq w[c],
           NEW R, \A l : l \in R <=> \E c \in Conns : l \in w[c] /\ l \notin v[c]
    PROVE  /\ Split(A, L, t, O, v, K, D, X \cup R)
           /\ Split(A, L, t, {}, v, K, D, (X \cup O) \cup R)
BY DEF Split

\* A handle takes a log, for the table or for nobody.
LEMMA SplitStore ==
    ASSUME NEW A, NEW L, NEW t, NEW O, NEW w, NEW K, NEW D, NEW X,
           Split(A, L, t, O, w, K, D, X), NEW c \in Conns, NEW h \in w[c], NEW v,
           v[c] = w[c] \ {h}, \A d \in Conns \ {c} : v[d] = w[d]
    PROVE  /\ Split(A, L, t, O, v, K \cup {h}, D, X)
           /\ Split(A, L, t, O, v, K, D, X \cup {h})
BY DEF Split

\* addLog: the log is new, so it is nowhere yet; a log that gives way is counted
\* as dropped and is in no other place.
LEMMA ListOnce ==
    ASSUME TypeOK, SplitNow, NoneTwice, NEW l \in Logs, l \notin ToSet(listed), List(l),
           UNCHANGED <<evPc, log, out, wire, rows, lost>>
    PROVE  SplitNow' /\ NoneTwice'
<1> DEFINE kept == AfterOverflow(logs)
           M == ToSet(logs) \ ToSet(kept)
<1>1. logs \in Seq(Logs) /\ Len(logs) \in Nat /\ listed \in Seq(Logs) /\ IsInjective(logs)
    BY DEF TypeOK, NoneTwice
<1>2. kept \in Seq(Logs) /\ IsInjective(kept) /\ ToSet(kept) = ToSet(logs) \ M
    <2>1. CASE Len(logs) > LOG_LIST_MAX
        <3>1. logs # <<>>
            BY <1>1, <2>1, ListAssumption
        <3>2. kept = Tail(logs) /\ kept \in Seq(Logs)
            BY <1>1, <2>1, <3>1, SequenceFacts DEF AfterOverflow
        <3>3. ToSet(kept) \subseteq ToSet(logs) /\ IsInjective(kept)
            BY <1>1, <3>1, <3>2, OnceFacts
        <3> QED BY <3>2, <3>3
    <2>2. CASE ~ (Len(logs) > LOG_LIST_MAX)
        <3>1. kept = logs
            BY <2>2 DEF AfterOverflow
        <3> QED BY <1>1, <3>1
    <2> QED BY <2>1, <2>2
<1>3. l # log
    <2>1. log = None \/ log \in ToSet(listed)
        BY DEF SplitNow, Split
    <2>2. l # None
        BY DEF Logs, None
    <2> QED BY <2>1, <2>2
<1>4. /\ logs' = Append(kept, l) /\ listed' = Append(listed, l) /\ dropped' = dropped \cup M
    BY DEF List
<1>5. ToSet(logs') = (ToSet(logs) \ M) \cup {l} /\ IsInjective(logs')
    <2>1. l \notin ToSet(kept)
        <3>1. l \notin ToSet(logs)
            BY DEF SplitNow, Split
        <3> QED BY <1>2, <3>1
    <2> HIDE DEF kept
    <2> QED BY <1>2, <1>4, <2>1, OnceFacts
<1>6. ToSet(listed') = ToSet(listed) \cup {l}
    BY <1>1, <1>4, AppendToSet
<1>7. Split(ToSet(listed) \cup {l}, (ToSet(logs) \ M) \cup {l}, log, ToSet(out),
            [c \in Conns |-> ToSet(wire[c])], Saved, dropped \cup M, lost)
    <2>1. M \subseteq ToSet(logs)
        OBVIOUS
    <2> HIDE DEF M
    <2> QED BY <1>3, <2>1, SplitList DEF SplitNow
<1>8. SplitNow'
    <2>1. Saved' = Saved
        BY DEF Saved
    <2> HIDE DEF M
    <2> QED BY <1>4, <1>5, <1>6, <1>7, <2>1 DEF SplitNow
<1> QED BY <1>5, <1>8 DEF NoneTwice

\* timerCb pops a log under logsMtx_.
LEMMA PopOnce ==
    ASSUME TypeOK, SplitNow, NoneTwice, TimerPop, logs # <<>>
    PROVE  SplitNow' /\ NoneTwice'
<1>1. /\ log' = Head(logs) /\ logs' = Tail(logs) /\ evPc' = "send" /\ evPc = "pop"
      /\ UNCHANGED <<listed, dropped, out, wire, rows, lost>>
    BY DEF TimerPop, PopFrom, serverVars
<1>2. logs \in Seq(Logs) /\ IsInjective(logs) /\ log = None
    BY <1>1 DEF TypeOK, NoneTwice
<1>3. /\ Head(logs) \in ToSet(logs) /\ ToSet(Tail(logs)) = ToSet(logs) \ {Head(logs)}
      /\ IsInjective(Tail(logs))
    BY <1>2, OnceFacts
<1>4. Split(ToSet(listed), ToSet(logs) \ {Head(logs)}, Head(logs), ToSet(out),
            [c \in Conns |-> ToSet(wire[c])], Saved, dropped, lost)
    BY <1>2, <1>3, SplitPop DEF SplitNow
<1>5. SplitNow'
    <2>1. Saved' = Saved
        BY <1>1 DEF Saved
    <2> QED BY <1>1, <1>3, <1>4, <2>1 DEF SplitNow
<1> QED BY <1>1, <1>3, <1>5 DEF NoneTwice

\* timerCb sends it without the mutex: the buffer has it, or it is lost.
LEMMA SendOnce ==
    ASSUME TypeInv, SplitNow, NoneTwice, TimerSend
    PROVE  SplitNow' /\ NoneTwice'
<1>1. /\ evPc = "send" /\ evPc' = "pop" /\ log' = None
      /\ UNCHANGED <<logs, listed, dropped, wire, rows>>
      /\ \/ out' = Append(out, log) /\ lost' = lost
         \/ out' = out /\ lost' = lost \cup {log}
    BY DEF TimerSend, clientVars, serverVars
<1>2. log \in Logs /\ out \in Seq(Logs) /\ IsInjective(out) /\ listed \in Seq(Logs)
    BY <1>1 DEF TypeInv, TypeOK, NoneTwice
<1>3. log # None /\ None \notin ToSet(listed)
    <2>1. None \notin Logs
        BY DEF None, Logs
    <2> QED BY <1>2, <2>1, SequenceFacts
<1>4. /\ Split(ToSet(listed), ToSet(logs), None, ToSet(out) \cup {log},
               [c \in Conns |-> ToSet(wire[c])], Saved, dropped, lost)
      /\ Split(ToSet(listed), ToSet(logs), None, ToSet(out),
               [c \in Conns |-> ToSet(wire[c])], Saved, dropped, lost \cup {log})
    BY <1>3, SplitSend DEF SplitNow
<1>5. log \notin ToSet(out)
    BY DEF SplitNow, Split
<1>6. /\ ToSet(Append(out, log)) = ToSet(out) \cup {log}
      /\ IsInjective(Append(out, log))
    BY <1>2, <1>5, OnceFacts
<1>7. Saved' = Saved
    BY <1>1 DEF Saved
<1>8. SplitNow'
    BY <1>1, <1>4, <1>6, <1>7 DEF SplitNow
<1> QED BY <1>1, <1>2, <1>6, <1>8 DEF NoneTwice

\* The event loop writes the buffer: the server's side has the log, or nobody.
LEMMA FlushOnce ==
    ASSUME TypeInv, SplitNow, NoneTwice, Flush
    PROVE  SplitNow' /\ NoneTwice'
<1> DEFINE W == [c \in Conns |-> ToSet(wire[c])]
<1>1. /\ out' = Tail(out) /\ out # <<>> /\ bev = "up"
      /\ UNCHANGED <<logs, log, evPc, listed, dropped, rows>>
      /\ \/ wire' = [wire EXCEPT ![conn] = Append(@, Head(out))] /\ lost' = lost
         \/ wire' = wire /\ lost' = lost \cup {Head(out)}
    BY DEF Flush, clientVars, timerVars
<1>2. /\ conn \in Conns /\ out \in Seq(Logs) /\ wire \in [Conns -> Seq(Logs)]
      /\ wire[conn] \in Seq(Logs) /\ Head(out) \in Logs
      /\ IsInjective(out) /\ IsInjective(wire[conn])
    <2>1. conn \in {0} \cup Conns /\ conn > 0 /\ wire \in [Conns -> Seq(Logs)] /\ out \in Seq(Logs)
        BY <1>1 DEF TypeInv, TypeOK
    <2>2. conn \in Conns
        BY <2>1
    <2> QED BY <1>1, <2>1, <2>2, SequenceFacts DEF NoneTwice
<1>3. /\ Head(out) \in ToSet(out) /\ ToSet(Tail(out)) = ToSet(out) \ {Head(out)}
      /\ IsInjective(Tail(out))
    BY <1>1, <1>2, OnceFacts
<1>4. Saved' = Saved
    BY <1>1 DEF Saved
<1>5. Split(ToSet(listed), ToSet(logs), log, ToSet(out), W, Saved, dropped, lost)
    BY DEF SplitNow
<1>6. CASE wire' = wire /\ lost' = lost \cup {Head(out)}
    <2>1. Split(ToSet(listed), ToSet(logs), log, ToSet(out) \ {Head(out)}, W, Saved, dropped,
                lost \cup {Head(out)})
        <3>1. PICK v : v = [W EXCEPT ![conn] = @ \cup {Head(out)}]
            OBVIOUS
        <3>2. v[conn] = W[conn] \cup {Head(out)} /\ \A d \in Conns \ {conn} : v[d] = W[d]
            BY <1>2, <3>1
        <3> HIDE DEF W
        <3> QED BY <1>2, <1>3, <1>5, <3>2, SplitFlush
    <2>2. SplitNow'
        BY <1>1, <1>3, <1>4, <1>6, <2>1 DEF SplitNow
    <2> QED BY <1>1, <1>3, <1>6, <2>2 DEF NoneTwice
<1>7. CASE wire' = [wire EXCEPT ![conn] = Append(@, Head(out))] /\ lost' = lost
    <2>1. PICK v : v = [c \in Conns |-> ToSet(wire'[c])]
        OBVIOUS
    <2>2. /\ wire'[conn] = Append(wire[conn], Head(out))
          /\ \A d \in Conns \ {conn} : wire'[d] = wire[d]
        BY <1>2, <1>7
    <2>3. Head(out) \notin ToSet(wire[conn])
        BY <1>2, <1>3, <1>5 DEF Split
    <2>4. /\ ToSet(wire'[conn]) = ToSet(wire[conn]) \cup {Head(out)}
          /\ IsInjective(wire'[conn])
        BY <1>2, <2>2, <2>3, OnceFacts
    <2>5. v[conn] = W[conn] \cup {Head(out)} /\ \A d \in Conns \ {conn} : v[d] = W[d]
        BY <1>2, <2>1, <2>2, <2>4
    <2>6. Split(ToSet(listed), ToSet(logs), log, ToSet(out) \ {Head(out)}, v, Saved, dropped, lost)
        <3> HIDE DEF W
        <3> QED BY <1>2, <1>3, <1>5, <2>5, SplitFlush
    <2>7. SplitNow'
        BY <1>1, <1>3, <1>4, <1>7, <2>1, <2>6 DEF SplitNow
    <2>8. \A c \in Conns : IsInjective(wire'[c])
        BY <2>2, <2>4 DEF NoneTwice
    <2> QED BY <1>1, <1>3, <2>7, <2>8 DEF NoneTwice
<1> QED BY <1>1, <1>6, <1>7

\* closeBev: what the server has not received by then is lost, with the buffer.
LEMMA CloseOnce ==
    ASSUME TypeInv, SplitNow, NoneTwice, bev # "none", CloseBev
    PROVE  SplitNow' /\ NoneTwice'
<1> DEFINE W == [c \in Conns |-> ToSet(wire[c])]
<1>1. /\ out' = <<>> /\ UNCHANGED <<logs, log, evPc, listed, dropped, rows>>
    BY DEF CloseBev, clientVars, timerVars
<1>2. PICK k \in 0..Len(wire[conn]) :
        /\ wire' = [wire EXCEPT ![conn] = SubSeq(@, 1, k)]
        /\ lost' = lost \cup ToSet(out) \cup
                       ToSet(SubSeq(wire[conn], k + 1, Len(wire[conn])))
    BY DEF CloseBev
<1>3. /\ conn \in Conns /\ wire \in [Conns -> Seq(Logs)] /\ wire[conn] \in Seq(Logs)
      /\ IsInjective(wire[conn])
    <2>1. conn \in {0} \cup Conns /\ conn > 0 /\ wire \in [Conns -> Seq(Logs)]
        BY DEF TypeInv, TypeOK
    <2>2. conn \in Conns
        BY <2>1
    <2> QED BY <2>1, <2>2 DEF NoneTwice
<1>4. /\ wire'[conn] = SubSeq(wire[conn], 1, k)
      /\ \A d \in Conns \ {conn} : wire'[d] = wire[d]
    BY <1>2, <1>3
<1>5. PICK rest : rest = ToSet(SubSeq(wire[conn], k + 1, Len(wire[conn])))
    OBVIOUS
<1>6. /\ ToSet(wire[conn]) = ToSet(wire'[conn]) \cup rest
      /\ ToSet(wire'[conn]) \cap rest = {}
      /\ IsInjective(wire'[conn])
    BY <1>3, <1>4, <1>5, OnceFacts
<1>7. PICK v : v = [c \in Conns |-> ToSet(wire'[c])]
    OBVIOUS
<1>8. /\ \A c \in Conns : v[c] \subseteq W[c]
      /\ \A l : l \in rest <=> \E c \in Conns : l \in W[c] /\ l \notin v[c]
    <2>1. /\ W[conn] \ v[conn] = rest /\ v[conn] \subseteq W[conn]
          /\ \A d \in Conns \ {conn} : v[d] = W[d]
        BY <1>3, <1>4, <1>6, <1>7
    <2> HIDE DEF W
    <2>2. \A c \in Conns : v[c] \subseteq W[c]
        BY <2>1
    <2> QED BY <1>3, <2>1, <2>2
<1>9. Split(ToSet(listed), ToSet(logs), log, {}, v, Saved, dropped, lost \cup ToSet(out) \cup rest)
    <2>1. Split(ToSet(listed), ToSet(logs), log, ToSet(out), W, Saved, dropped, lost)
        BY DEF SplitNow
    <2> HIDE DEF W
    <2> QED BY <1>8, <2>1, SplitLose
<1>10. SplitNow'
    <2>1. Saved' = Saved /\ ToSet(out') = {}
        BY <1>1 DEF Saved, ToSet
    <2> QED BY <1>1, <1>2, <1>5, <1>7, <1>9, <2>1 DEF SplitNow
<1>11. \A c \in Conns : IsInjective(wire'[c])
    BY <1>4, <1>6 DEF NoneTwice
<1>12. IsInjective(out')
    BY <1>1 DEF IsInjective
<1> QED BY <1>1, <1>10, <1>11, <1>12 DEF NoneTwice

\* addLogReq: the insert succeeds, or the log is lost.
LEMMA StoreOnce ==
    ASSUME TypeInv, SplitNow, NoneTwice, NEW c \in Conns, AddLogReq(c)
    PROVE  SplitNow' /\ NoneTwice'
<1> DEFINE W == [d \in Conns |-> ToSet(wire[d])]
<1>1. /\ UNCHANGED <<logs, log, evPc, listed, dropped, out>>
      /\ wire' = [wire EXCEPT ![c] = Tail(@)] /\ wire[c] # <<>>
      /\ \/ rows' = Append(rows, <<c, Head(wire[c])>>) /\ lost' = lost
         \/ rows' = rows /\ lost' = lost \cup {Head(wire[c])}
    BY DEF AddLogReq, clientVars, timerVars
<1>2. /\ wire \in [Conns -> Seq(Logs)] /\ wire[c] \in Seq(Logs) /\ Head(wire[c]) \in Logs
      /\ rows \in Seq(Conns \X Logs) /\ IsInjective(wire[c])
    BY <1>1 DEF TypeInv, TypeOK, NoneTwice
<1>3. PICK h : h = Head(wire[c])
    OBVIOUS
<1>4. PICK v : v = [d \in Conns |-> ToSet(wire'[d])]
    OBVIOUS
<1>5. wire'[c] = Tail(wire[c]) /\ \A d \in Conns \ {c} : wire'[d] = wire[d]
    BY <1>1, <1>2
<1>6. /\ h \in ToSet(wire[c]) /\ ToSet(wire'[c]) = ToSet(wire[c]) \ {h}
      /\ IsInjective(wire'[c])
    BY <1>1, <1>2, <1>3, <1>5, OnceFacts
<1>7. h \in W[c] /\ v[c] = W[c] \ {h} /\ \A d \in Conns \ {c} : v[d] = W[d]
    BY <1>4, <1>5, <1>6
<1>8. /\ Split(ToSet(listed), ToSet(logs), log, ToSet(out), v, Saved \cup {h}, dropped, lost)
      /\ Split(ToSet(listed), ToSet(logs), log, ToSet(out), v, Saved, dropped, lost \cup {h})
      /\ h \notin Saved
    <2>1. Split(ToSet(listed), ToSet(logs), log, ToSet(out), W, Saved, dropped, lost)
        BY DEF SplitNow
    <2>2. h \notin Saved
        BY <1>6, <2>1 DEF Split
    <2> HIDE DEF W
    <2> QED BY <1>7, <2>1, <2>2, SplitStore
<1>9. \A d \in Conns : IsInjective(wire'[d])
    BY <1>5, <1>6 DEF NoneTwice
<1>10. CASE rows' = rows /\ lost' = lost \cup {h}
    <2>1. Saved' = Saved
        BY <1>10 DEF Saved
    <2>2. SplitNow'
        BY <1>1, <1>4, <1>8, <1>10, <2>1 DEF SplitNow
    <2> QED BY <1>1, <1>9, <1>10, <2>2 DEF NoneTwice
<1>11. CASE rows' = Append(rows, <<c, h>>) /\ lost' = lost
    <2>1. PICK e \in Conns \X Logs : e = <<c, h>>
        BY <1>2, <1>3
    <2>2. /\ Len(rows) \in Nat /\ DOMAIN rows = 1..Len(rows)
          /\ DOMAIN rows' = 1..(Len(rows) + 1) /\ rows'[Len(rows) + 1] = e
          /\ \A i \in 1..Len(rows) : rows'[i] = rows[i]
        BY <1>2, <1>11, <2>1
    <2>3. /\ \A i \in 1..(Len(rows) + 1) : i \in 1..Len(rows) \/ i = Len(rows) + 1
          /\ \A i \in 1..Len(rows) : i \in 1..(Len(rows) + 1)
          /\ Len(rows) + 1 \in 1..(Len(rows) + 1)
        BY <2>2
    <2>4. Saved' = Saved \cup {h}
        BY <2>1, <2>2, <2>3 DEF Saved
    <2>5. \A i \in DOMAIN rows : rows[i][2] # h
        BY <1>8 DEF Saved
    <2>6. \A i, j \in DOMAIN rows' : rows'[i][2] = rows'[j][2] => i = j
        BY <2>1, <2>2, <2>3, <2>5 DEF NoneTwice
    <2>7. SplitNow'
        BY <1>1, <1>4, <1>8, <1>11, <2>4 DEF SplitNow
    <2> QED BY <1>1, <1>9, <2>6, <2>7 DEF NoneTwice
<1> QED BY <1>1, <1>3, <1>10, <1>11

\* What no handle had read when the server ends is lost.
LEMMA RestartOnce ==
    ASSUME SplitNow, NoneTwice, ServerRestart
    PROVE  SplitNow' /\ NoneTwice'
<1> DEFINE W == [c \in Conns |-> ToSet(wire[c])]
<1>1. /\ UNCHANGED <<logs, log, evPc, listed, dropped, out, rows>>
      /\ wire' = [c \in Conns |-> <<>>]
      /\ lost' = lost \cup UNION {ToSet(wire[c]) : c \in Conns}
    BY DEF ServerRestart, clientVars, timerVars
<1>2. PICK v : v = [c \in Conns |-> ToSet(wire'[c])]
    OBVIOUS
<1>3. \A c \in Conns : v[c] = {} /\ IsInjective(wire'[c])
    BY <1>1, <1>2 DEF ToSet, IsInjective
<1>4. /\ \A c \in Conns : v[c] \subseteq W[c]
      /\ \A l : l \in UNION {ToSet(wire[c]) : c \in Conns}
                   <=> \E c \in Conns : l \in W[c] /\ l \notin v[c]
    BY <1>3
<1>5. PICK R : R = UNION {ToSet(wire[c]) : c \in Conns}
    OBVIOUS
<1>6. Split(ToSet(listed), ToSet(logs), log, ToSet(out), v, Saved, dropped, lost \cup R)
    <2>1. Split(ToSet(listed), ToSet(logs), log, ToSet(out), W, Saved, dropped, lost)
        BY DEF SplitNow
    <2>2. \A l : l \in R <=> \E c \in Conns : l \in W[c] /\ l \notin v[c]
        BY <1>4, <1>5
    <2> HIDE DEF W
    <2> QED BY <1>4, <2>1, <2>2, SplitLose
<1>7. SplitNow'
    <2>1. Saved' = Saved
        BY <1>1 DEF Saved
    <2> QED BY <1>1, <1>2, <1>5, <1>6, <2>1 DEF SplitNow
<1> QED BY <1>1, <1>3, <1>7 DEF NoneTwice

\* Whoever lists a log has a new one: a producer has counted it and holds it, the
\* event thread has one for each connection.
LEMMA NewInvNext ==
    ASSUME TypeInv, NewInv, [Next]_vars
    PROVE  NewInv'
<1> USE DEF clientVars, timerVars, serverVars
<1>0. /\ made \in [Producers -> 0..MaxLogs] /\ listed \in Seq(Logs)
      /\ adding \in [Producers -> Logs \cup {None}] /\ conn \in Nat
      /\ \A c \in Conns : c \in Nat
      /\ \A x : x \in 0..MaxLogs => x \in Nat
    BY BoundsAssumption DEF TypeInv, TypeOK, Conns
<1>1. CASE UNCHANGED <<made, adding, listed, conn, bev>>
    BY <1>1 DEF NewInv
<1>2. ASSUME NEW p \in Producers, Compose(p) PROVE NewInv'
    <2>1. /\ UNCHANGED <<listed, conn, bev>> /\ made' = [made EXCEPT ![p] = @ + 1]
          /\ adding[p] = None /\ made[p] \in Nat /\ made[p] < MaxLogs
          /\ \/ adding' = adding
             \/ adding' = [adding EXCEPT ![p] = <<p, made[p] + 1>>]
        BY <1>0, <1>2 DEF Compose
    <2>2. made'[p] = made[p] + 1 /\ \A q \in Producers \ {p} : made'[q] = made[q]
        BY <1>0, <2>1
    <2>3. \A q \in Producers, n \in 1..MaxLogs : <<q, n>> \in ToSet(listed) => n <= made'[q]
        <3> SUFFICES ASSUME NEW q \in Producers, NEW n \in 1..MaxLogs,
                            <<q, n>> \in ToSet(listed)
                     PROVE  n <= made'[q]
            OBVIOUS
        <3>1. n <= made[q] /\ n \in Nat /\ made[q] \in Nat
            BY <1>0, BoundsAssumption DEF NewInv
        <3>2. CASE q = p
            BY <2>2, <3>1, <3>2
        <3>3. CASE q # p
            BY <2>2, <3>1, <3>3
        <3> QED BY <3>2, <3>3
    <2>4. made[p] + 1 \in 1..MaxLogs /\ ~ (made[p] + 1 <= made[p])
        BY <2>1, BoundsAssumption
    <2>5. <<p, made[p] + 1>> \notin ToSet(listed)
        BY <2>4 DEF NewInv
    <2>6. \A q \in Producers :
             adding'[q] # None => adding'[q] = <<q, made'[q]>> /\ adding'[q] \notin ToSet(listed)
        <3> SUFFICES ASSUME NEW q \in Producers, adding'[q] # None
                     PROVE  adding'[q] = <<q, made'[q]>> /\ adding'[q] \notin ToSet(listed)
            OBVIOUS
        <3>1. CASE q = p
            <4>1. adding'[p] = <<p, made[p] + 1>>
                BY <1>0, <2>1, <3>1
            <4> QED BY <2>2, <2>5, <3>1, <4>1
        <3>2. CASE q # p
            <4>1. adding'[q] = adding[q]
                BY <1>0, <2>1, <3>2
            <4> QED BY <2>2, <3>2, <4>1 DEF NewInv
        <3> QED BY <3>1, <3>2
    <2> QED BY <2>1, <2>3, <2>6 DEF NewInv
<1>3. ASSUME NEW p \in Producers, AddLog(p) PROVE NewInv'
    <2>1. /\ UNCHANGED <<made, conn, bev>> /\ adding' = [adding EXCEPT ![p] = None]
          /\ adding[p] # None /\ listed' = Append(listed, adding[p])
        BY <1>3 DEF AddLog, List
    <2>2. PICK l \in Logs : l = adding[p] /\ l = <<p, made[p]>>
        BY <1>0, <2>1 DEF NewInv
    <2>3. ToSet(listed') = ToSet(listed) \cup {l}
        BY <1>0, <2>1, <2>2, AppendToSet
    <2>4. adding'[p] = None /\ \A q \in Producers \ {p} : adding'[q] = adding[q]
        BY <1>0, <2>1
    <2>5. \A q \in Producers \ {p} : adding[q] # None => adding[q] # l
        BY <2>2 DEF NewInv
    <2>6. \A c \in Conns : <<Self, c>> # l
        BY <2>2, ThreadsAssumption
    <2>7. \A q \in Producers :
             adding'[q] # None => adding'[q] = <<q, made'[q]>> /\ adding'[q] \notin ToSet(listed')
        BY <2>1, <2>3, <2>4, <2>5 DEF NewInv
    <2>8. \A q \in Producers, n \in 1..MaxLogs : <<q, n>> \in ToSet(listed') => n <= made'[q]
        <3> SUFFICES ASSUME NEW q \in Producers, NEW n \in 1..MaxLogs,
                            <<q, n>> \in ToSet(listed')
                     PROVE  n <= made[q]
            BY <2>1
        <3>1. CASE <<q, n>> = l
            BY <1>0, <2>2, <3>1
        <3>2. CASE <<q, n>> \in ToSet(listed)
            BY <3>2 DEF NewInv
        <3> QED BY <2>3, <3>1, <3>2
    <2>9. /\ \A c \in Conns : <<Self, c>> \in ToSet(listed') => c <= conn'
          /\ bev' = "connecting" => <<Self, conn'>> \notin ToSet(listed')
        <3>1. <<Self, conn>> # l
            BY <2>2, ThreadsAssumption
        <3> QED BY <2>1, <2>3, <2>6, <3>1 DEF NewInv
    <2> QED BY <2>7, <2>8, <2>9 DEF NewInv
<1>4. CASE Connect
    <2>1. /\ UNCHANGED <<made, adding, listed>> /\ conn' = conn + 1
        BY <1>4 DEF Connect
    <2>2. \A c \in Conns : <<Self, c>> \in ToSet(listed) => c <= conn'
        BY <1>0, <2>1 DEF NewInv
    <2>3. <<Self, conn'>> \notin ToSet(listed)
        <3>1. SUFFICES ASSUME <<Self, conn'>> \in ToSet(listed) PROVE FALSE
            OBVIOUS
        <3>2. <<Self, conn'>> \in Logs
            BY <1>0, <3>1, SequenceFacts
        <3>3. conn' \in Conns
            BY <3>2, ThreadsAssumption DEF Logs
        <3>4. conn' <= conn
            BY <3>1, <3>3 DEF NewInv
        <3> QED BY <1>0, <2>1, <3>4
    <2> QED BY <2>1, <2>2, <2>3 DEF NewInv
<1>5. CASE Connected
    <2>1. /\ UNCHANGED <<made, adding, conn>> /\ bev' = "up"
          /\ bev = "connecting" /\ listed' = Append(listed, <<Self, conn>>)
        BY <1>5 DEF Connected, List
    <2>2. PICK l \in Logs : l = <<Self, conn>>
        <3>1. conn \in Conns
            BY <2>1 DEF TypeInv, TypeOK
        <3> QED BY <3>1 DEF Logs
    <2>3. ToSet(listed') = ToSet(listed) \cup {l}
        BY <1>0, <2>1, <2>2, AppendToSet
    <2>4. \A q \in Producers : \A n : <<q, n>> # l
        BY <2>2, ThreadsAssumption
    <2>5. \A q \in Producers : adding[q] # None => adding[q] # l
        BY <2>4 DEF NewInv
    <2>6. \A c \in Conns : <<Self, c>> = l => c <= conn
        BY <1>0, <2>2
    <2>7. bev' # "connecting"
        BY <2>1
    <2> QED BY <2>1, <2>3, <2>4, <2>5, <2>6, <2>7 DEF NewInv
<1>6. ASSUME UNCHANGED <<made, adding, listed, conn>>, bev' = "none" PROVE NewInv'
    BY <1>6 DEF NewInv
<1>7. CASE ConnectionEnds \/ ConnectionFails
    BY <1>6, <1>7 DEF ConnectionEnds, ConnectionFails, CloseBev
<1>8. CASE TimerFires \/ TimerPop \/ TimerSend \/ Flush \/ ServerRestart \/ UNCHANGED vars
    BY <1>1, <1>8 DEF TimerFires, TimerPop, TimerSend, Flush, ServerRestart, vars
<1>9. CASE \E c \in Conns : AddLogReq(c)
    BY <1>1, <1>9 DEF AddLogReq
<1> QED
    BY <1>2, <1>3, <1>4, <1>5, <1>7, <1>8, <1>9 DEF Next, EventThread

\* At the start every place is empty.
LEMMA OnceInvInit == Init => OnceInv
<1> SUFFICES ASSUME Init PROVE OnceInv
    OBVIOUS
<1>1. /\ ToSet(listed) = {} /\ ToSet(logs) = {} /\ ToSet(out) = {} /\ Saved = {}
      /\ \A c \in Conns : ToSet(wire[c]) = {}
      /\ log = None /\ dropped = {} /\ lost = {}
    BY DEF Init, ToSet, Saved
<1>2. SplitNow
    BY <1>1 DEF SplitNow, Split
<1>3. NoneTwice
    BY DEF Init, NoneTwice, IsInjective
<1>4. NewInv
    BY <1>1 DEF Init, NewInv
<1> QED BY <1>2, <1>3, <1>4 DEF OnceInv

\* Every step moves logs from one place to another, or lists a new one.
LEMMA OnceInvNext == TypeInv /\ OnceInv /\ [Next]_vars => OnceInv'
<1> SUFFICES ASSUME TypeInv, SplitNow, NoneTwice, NewInv, [Next]_vars
             PROVE  SplitNow' /\ NoneTwice'
    BY NewInvNext DEF OnceInv
<1> USE DEF clientVars, timerVars, serverVars
<1>1. ASSUME UNCHANGED <<listed, logs, log, out, wire, rows, dropped, lost>>,
             evPc' = "send" <=> evPc = "send"
      PROVE  SplitNow' /\ NoneTwice'
    BY <1>1 DEF SplitNow, NoneTwice, Saved
<1>2. CASE \/ \E p \in Producers : Compose(p)
           \/ TimerFires \/ (TimerPop /\ logs = <<>>) \/ Connect \/ UNCHANGED vars
    BY <1>1, <1>2 DEF Compose, TimerFires, TimerPop, Connect, vars
<1>3. ASSUME NEW p \in Producers, AddLog(p) PROVE SplitNow' /\ NoneTwice'
    <2>1. /\ List(adding[p]) /\ adding[p] # None
          /\ UNCHANGED <<evPc, log, out, wire, rows, lost>>
        BY <1>3 DEF AddLog
    <2>2. adding[p] \in Logs /\ adding[p] \notin ToSet(listed) /\ TypeOK
        BY <2>1 DEF NewInv, TypeInv, TypeOK
    <2> QED BY <2>1, <2>2, ListOnce
<1>4. CASE Connected
    <2>1. /\ List(<<Self, conn>>) /\ bev = "connecting"
          /\ UNCHANGED <<evPc, log, out, wire, rows, lost>>
        BY <1>4 DEF Connected
    <2>2. <<Self, conn>> \in Logs /\ <<Self, conn>> \notin ToSet(listed) /\ TypeOK
        BY <2>1 DEF NewInv, TypeInv, TypeOK, Logs
    <2> QED BY <2>1, <2>2, ListOnce
<1>5. CASE ConnectionEnds \/ ConnectionFails
    <2>1. CloseBev /\ bev # "none"
        BY <1>5 DEF ConnectionEnds, ConnectionFails, CloseBev
    <2> QED BY <2>1, CloseOnce
<1>6. CASE TimerPop /\ logs # <<>>
    BY <1>6, PopOnce DEF TypeInv
<1>7. CASE TimerSend \/ Flush \/ ServerRestart
    BY <1>7, SendOnce, FlushOnce, RestartOnce
<1>8. CASE \E c \in Conns : AddLogReq(c)
    BY <1>8, StoreOnce
<1> QED
    BY <1>2, <1>3, <1>4, <1>5, <1>6, <1>7, <1>8 DEF Next, EventThread

\* Split between the places, without repetition in any of them, a log has one
\* place.
LEMMA OncePlaces == TypeInv /\ OnceInv => OnePlace
<1> SUFFICES ASSUME TypeInv, OnceInv, NEW l \in ToSet(listed)
             PROVE  \E x : Places(l) = {x}
    BY FS_Singleton DEF OnePlace
<1>1. /\ l # None
      /\ \A s : ToSet(s) = {s[i] : i \in DOMAIN s}
      /\ \A s : At(s, l) = {i \in DOMAIN s : s[i] = l}
    <2>1. None \notin Logs
        BY DEF None, Logs
    <2> QED BY <2>1, SequenceFacts DEF TypeInv, TypeOK, ToSet, At
<1>2. \A s : l \notin ToSet(s) => At(s, l) = {}
    BY <1>1
<1>3. \A s : l \in ToSet(s) /\ IsInjective(s) => \E i : At(s, l) = {i}
    BY <1>1 DEF IsInjective
<1>4. /\ l # log => At(<<log>>, l) = {}
      /\ l = log => At(<<log>>, l) = {1}
    BY DEF At
<1>5. /\ l \notin Saved => {j \in DOMAIN rows : rows[j][2] = l} = {}
      /\ l \in Saved => \E i : {j \in DOMAIN rows : rows[j][2] = l} = {i}
    BY DEF Saved, OnceInv, NoneTwice
<1> DEFINE A1 == {<<"logs", 0, i>> : i \in At(logs, l)}
           A2 == {<<"log", 0, i>> : i \in At(<<log>>, l)}
           A3 == {<<"out", 0, i>> : i \in At(out, l)}
           A4 == UNION {{<<"wire", c, i>> : i \in At(wire[c], l)} : c \in Conns}
           A5 == {<<"rows", 0, i>> : i \in {j \in DOMAIN rows : rows[j][2] = l}}
           A6 == {p \in {<<"dropped", 0, 0>>} : l \in dropped}
           A7 == {p \in {<<"lost", 0, 0>>} : l \in lost}
<1>6. Places(l) = A1 \cup A2 \cup A3 \cup A4 \cup A5 \cup A6 \cup A7
    BY DEF Places
<1>7. /\ l \notin ToSet(logs) => A1 = {}
      /\ l \in ToSet(logs) => \E x : A1 = {x}
    <2>1. l \notin ToSet(logs) => A1 = {}
        BY <1>2
    <2>2. ASSUME l \in ToSet(logs) PROVE \E x : A1 = {x}
        <3>1. PICK i : At(logs, l) = {i}
            BY <1>3, <2>2 DEF OnceInv, NoneTwice
        <3>2. A1 = {<<"logs", 0, i>>}
            BY <3>1
        <3> QED BY <3>2
    <2> QED BY <2>1, <2>2
<1>8. /\ l # log => A2 = {}
      /\ l = log => \E x : A2 = {x}
    <2>1. l = log => A2 = {<<"log", 0, 1>>}
        BY <1>4
    <2> QED BY <1>4, <2>1
<1>9. /\ l \notin ToSet(out) => A3 = {}
      /\ l \in ToSet(out) => \E x : A3 = {x}
    <2>1. l \notin ToSet(out) => A3 = {}
        BY <1>2
    <2>2. ASSUME l \in ToSet(out) PROVE \E x : A3 = {x}
        <3>1. PICK i : At(out, l) = {i}
            BY <1>3, <2>2 DEF OnceInv, NoneTwice
        <3>2. A3 = {<<"out", 0, i>>}
            BY <3>1
        <3> QED BY <3>2
    <2> QED BY <2>1, <2>2
<1>10. /\ (\A c \in Conns : l \notin ToSet(wire[c])) => A4 = {}
       /\ (\E c \in Conns : l \in ToSet(wire[c])) => \E x : A4 = {x}
    <2>1. ASSUME \A c \in Conns : l \notin ToSet(wire[c]) PROVE A4 = {}
        BY <1>2, <2>1
    <2>2. ASSUME NEW d \in Conns, l \in ToSet(wire[d]) PROVE \E x : A4 = {x}
        <3>1. \A c \in Conns : c # d => At(wire[c], l) = {}
            BY <1>2, <2>2 DEF OnceInv, SplitNow, Split
        <3>2. PICK i : At(wire[d], l) = {i}
            BY <1>3, <2>2 DEF OnceInv, NoneTwice
        <3>3. A4 = {<<"wire", d, i>>}
            BY <3>1, <3>2
        <3> QED BY <3>3
    <2> QED BY <2>1, <2>2
<1>11. /\ l \notin Saved => A5 = {}
       /\ l \in Saved => \E x : A5 = {x}
    <2>1. ASSUME l \in Saved PROVE \E x : A5 = {x}
        <3>1. PICK i : {j \in DOMAIN rows : rows[j][2] = l} = {i}
            BY <1>5, <2>1
        <3>2. A5 = {<<"rows", 0, i>>}
            BY <3>1
        <3> QED BY <3>2
    <2> QED BY <1>5, <2>1
<1>12. /\ l \notin dropped => A6 = {}
       /\ l \in dropped => \E x : A6 = {x}
    OBVIOUS
<1>13. /\ l \notin lost => A7 = {}
       /\ l \in lost => \E x : A7 = {x}
    OBVIOUS
<1> HIDE DEF A1, A2, A3, A4, A5, A6, A7
<1>14. PICK U \in {{}, {1}} : U = {} <=> \A c \in Conns : l \notin ToSet(wire[c])
    OBVIOUS
<1>15. /\ l \in ToSet(logs) \/ l = log \/ l \in ToSet(out) \/ U # {} \/ l \in Saved
            \/ l \in dropped \/ l \in lost
       /\ l \in ToSet(logs) => /\ l # log /\ l \notin ToSet(out) /\ U = {} /\ l \notin Saved
                               /\ l \notin dropped /\ l \notin lost
       /\ l = log => /\ l \notin ToSet(out) /\ U = {} /\ l \notin Saved
                     /\ l \notin dropped /\ l \notin lost
       /\ l \in ToSet(out) => /\ U = {} /\ l \notin Saved
                              /\ l \notin dropped /\ l \notin lost
       /\ U # {} => l \notin Saved /\ l \notin dropped /\ l \notin lost
       /\ l \in Saved => l \notin dropped /\ l \notin lost
       /\ l \in dropped => l \notin lost
    BY <1>14 DEF OnceInv, SplitNow, Split
<1>16. (U = {} => A4 = {}) /\ (U # {} => \E x : A4 = {x})
    BY <1>10, <1>14
<1> QED BY <1>6, <1>7, <1>8, <1>9, <1>11, <1>12, <1>13, <1>15, <1>16

\* From the list to the table, across reconnections, closed connections and
\* restarts of the server: every log ever listed is in exactly one place, be it
\* dropped or lost (addLog, timerCb, closeBev, addLogReq).
THEOREM OnePlaceAlways == Spec => []OnePlace
BY TypeInvInit, TypeInvNext, OnceInvInit, OnceInvNext, OncePlaces, PTL DEF Spec

-----------------------------------------------------------------------------
(* The client and the server implement LogDelivery.                         *)

\* What the connections carry, and its logs.
Lanes == [c \in Conns |-> Carried(c)]
Load(f) == UNION {ToSet(f[c]) : c \in Conns}

\* The timer runs only once there is a connection, and nothing is under way to a
\* server side that is gone.
LinkInv ==
    /\ evPc # "loop" => conn > 0
    /\ bev = "up" /\ conn \notin alive => wire[conn] = <<>>

\* All that the steps of LogDelivery are derived from.
DeliveryInv == TypeInv /\ WaitInv /\ OrderInv /\ OnceInv /\ LinkInv

\* At the start the timer does not run and no connection is up.
LEMMA LinkInvInit == Init => LinkInv
BY DEF Init, LinkInv

\* A restart of the server leaves nothing under way, and a connection that comes
\* up has a server side.
LEMMA LinkInvNext == TypeInv /\ LinkInv /\ [Next]_vars => LinkInv'
<1> SUFFICES ASSUME TypeInv, LinkInv, [Next]_vars PROVE LinkInv'
    OBVIOUS
<1> USE DEF LinkInv, clientVars, timerVars, serverVars
<1>0. conn \in Nat /\ conn \in {0} \cup Conns /\ wire \in [Conns -> Seq(Logs)]
    BY BoundsAssumption DEF TypeInv, TypeOK, Conns
<1>1. ASSUME NEW p \in Producers, Compose(p) \/ AddLog(p) PROVE LinkInv'
    BY <1>1 DEF Compose, AddLog
<1>2. CASE TimerFires \/ TimerPop \/ TimerSend \/ UNCHANGED vars
    BY <1>2 DEF TimerFires, TimerExists, TimerPop, TimerSend, vars
<1>3. CASE Connect \/ Connected
    BY <1>0, <1>3 DEF Connect, Connected
<1>4. CASE Flush
    BY <1>0, <1>4 DEF Flush
<1>5. CASE ConnectionEnds \/ ConnectionFails
    BY <1>5 DEF ConnectionEnds, ConnectionFails, CloseBev
<1>6. ASSUME NEW c \in Conns, AddLogReq(c) PROVE LinkInv'
    BY <1>0, <1>6 DEF AddLogReq
<1>7. CASE ServerRestart
    <2>1. bev = "up" => conn \in Conns
        BY <1>0 DEF TypeInv
    <2> QED BY <1>7, <2>1 DEF ServerRestart
<1> QED BY <1>1, <1>2, <1>3, <1>4, <1>5, <1>6, <1>7 DEF Next, EventThread

\* The logs of two stages of a lane, put together.
LEMMA JoinFacts ==
    ASSUME NEW s \in Seq(Logs), NEW t \in Seq(Logs)
    PROVE  s \o t \in Seq(Logs) /\ ToSet(s \o t) = ToSet(s) \cup ToSet(t)
<1>1. /\ Len(s) \in Nat /\ Len(t) \in Nat /\ DOMAIN s = 1..Len(s) /\ DOMAIN t = 1..Len(t)
      /\ s \o t \in Seq(Logs) /\ DOMAIN (s \o t) = 1..(Len(s) + Len(t))
      /\ \A i \in 1..Len(s) : (s \o t)[i] = s[i]
      /\ \A i \in 1..Len(t) : (s \o t)[Len(s) + i] = t[i]
    OBVIOUS
<1>2. \A i \in 1..(Len(s) + Len(t)) :
          i \in 1..Len(s) \/ (i - Len(s) \in 1..Len(t) /\ Len(s) + (i - Len(s)) = i)
    BY <1>1
<1>3. /\ \A i \in 1..Len(s) : i \in 1..(Len(s) + Len(t))
      /\ \A i \in 1..Len(t) : Len(s) + i \in 1..(Len(s) + Len(t))
    BY <1>1
<1>4. ToSet(s \o t) \subseteq ToSet(s) \cup ToSet(t)
    BY <1>1, <1>2 DEF ToSet
<1>5. ToSet(s) \cup ToSet(t) \subseteq ToSet(s \o t)
    BY <1>1, <1>3 DEF ToSet
<1> QED BY <1>1, <1>4, <1>5

\* Nothing joins a lane.
LEMMA JoinNothing ==
    ASSUME NEW s \in Seq(Logs) PROVE s \o <<>> = s /\ <<>> \o s = s
OBVIOUS

\* The first log of a lane is the first of its first stage.
LEMMA JoinHead ==
    ASSUME NEW s \in Seq(Logs), NEW t \in Seq(Logs), s # <<>>
    PROVE  s \o t # <<>> /\ Head(s \o t) = Head(s) /\ Tail(s \o t) = Tail(s) \o t
OBVIOUS

\* A log that moves on to the next stage stays where it is in the lane.
LEMMA JoinMove ==
    ASSUME NEW s \in Seq(Logs), NEW t \in Seq(Logs), t # <<>>
    PROVE  Append(s, Head(t)) \o Tail(t) = s \o t
OBVIOUS

\* A log that joins the last stage joins the lane.
LEMMA JoinLast ==
    ASSUME NEW s \in Seq(Logs), NEW t \in Seq(Logs), NEW e \in Logs
    PROVE  s \o Append(t, e) = Append(s \o t, e) /\ s \o <<e>> = Append(s, e)
OBVIOUS

\* The stages of a lane may be put together in either order.
LEMMA JoinThree ==
    ASSUME NEW s \in Seq(Logs), NEW t \in Seq(Logs), NEW u \in Seq(Logs)
    PROVE  (s \o t) \o u = s \o (t \o u)
OBVIOUS

\* What is left of a sequence when something is taken from its ends.
LEMMA EndsFacts ==
    ASSUME NEW s \in Seq(Logs), NEW t \in Seq(Logs)
    PROVE  /\ s \in SubSeqs(s) /\ <<>> \in SubSeqs(s)
           /\ s # <<>> => Tail(s) \in SubSeqs(s)
           /\ s \in SubSeqs(s \o t) /\ t \in SubSeqs(s \o t)
           /\ \A k \in 0..Len(s) : SubSeq(s, 1, k) \in SubSeqs(s \o t)
<1>1. /\ Len(s) \in Nat /\ Len(t) \in Nat
      /\ s \o t \in Seq(Logs) /\ Len(s \o t) = Len(s) + Len(t)
    OBVIOUS
<1>2. ASSUME NEW u \in Seq(Logs), NEW m \in 0..Len(u), NEW n \in 0..Len(u)
      PROVE  SubSeq(u, m + 1, n) \in SubSeqs(u)
    BY DEF SubSeqs
<1>3. s = SubSeq(s, 0 + 1, Len(s)) /\ 0 \in 0..Len(s) /\ Len(s) \in 0..Len(s)
    BY <1>1
<1>4. <<>> = SubSeq(s, 0 + 1, 0)
    BY <1>1
<1>5. s # <<>> => Tail(s) = SubSeq(s, 1 + 1, Len(s)) /\ 1 \in 0..Len(s)
    BY <1>1
<1>6. /\ s = SubSeq(s \o t, 0 + 1, Len(s)) /\ t = SubSeq(s \o t, Len(s) + 1, Len(s \o t))
      /\ Len(s) \in 0..Len(s \o t) /\ 0 \in 0..Len(s \o t) /\ Len(s \o t) \in 0..Len(s \o t)
    BY <1>1
<1>7. ASSUME NEW k \in 0..Len(s)
      PROVE  SubSeq(s, 1, k) = SubSeq(s \o t, 0 + 1, k) /\ k \in 0..Len(s \o t)
    BY <1>1
<1>8. s \in SubSeqs(s) /\ <<>> \in SubSeqs(s)
    BY <1>2, <1>3, <1>4
<1>9. s # <<>> => Tail(s) \in SubSeqs(s)
    BY <1>2, <1>3, <1>5
<1>10. s \in SubSeqs(s \o t) /\ t \in SubSeqs(s \o t)
    BY <1>1, <1>2, <1>6
<1>11. \A k \in 0..Len(s) : SubSeq(s, 1, k) \in SubSeqs(s \o t)
    BY <1>1, <1>2, <1>6, <1>7
<1> QED BY <1>8, <1>9, <1>10, <1>11

\* Carried is typed, and made of the parts in which OnceInv accounts for the logs.
LEMMA LoadOfLanes ==
    TypeInv /\ FreshInv /\ LinkInv /\ NoneTwice =>
        /\ \A c \in Conns : Carried(c) \in Seq(Logs)
        /\ Load(Lanes) = (UNION {ToSet(wire[c]) : c \in Conns}) \cup ToSet(out) \cup ({log} \ {None})
<1> SUFFICES ASSUME TypeInv, FreshInv, LinkInv, NoneTwice
             PROVE  /\ \A c \in Conns : Carried(c) \in Seq(Logs)
                    /\ Load(Lanes) = (UNION {ToSet(wire[c]) : c \in Conns}) \cup ToSet(out)
                                        \cup ({log} \ {None})
    OBVIOUS
<1>1. PICK h : h = IF evPc = "send" THEN <<log>> ELSE <<>>
    OBVIOUS
<1>2. h \in Seq(Logs) /\ ToSet(h) = {log} \ {None}
    <2>1. None \notin Logs
        BY DEF None, Logs
    <2>2. CASE evPc = "send"
        <3>1. h = <<log>> /\ log \in Logs
            BY <1>1, <2>2 DEF TypeInv
        <3>2. DOMAIN h = {1} /\ h[1] = log
            BY <3>1
        <3> QED BY <2>1, <3>1, <3>2 DEF ToSet
    <2>3. CASE evPc # "send"
        BY <1>1, <2>3 DEF NoneTwice, ToSet
    <2> QED BY <2>2, <2>3
<1>3. wire \in [Conns -> Seq(Logs)] /\ out \in Seq(Logs)
    BY DEF TypeInv, TypeOK
<1>4. \A c \in Conns : c # conn => Carried(c) = wire[c]
    BY DEF Carried
<1>5. ASSUME conn \in Conns
      PROVE  /\ Carried(conn) \in Seq(Logs)
             /\ ToSet(Carried(conn)) = ToSet(wire[conn]) \cup ToSet(out) \cup ToSet(h)
    <2>1. PICK w \in Seq(Logs) : w = wire[conn]
        BY <1>3, <1>5
    <2>2. PICK u : u = w \o out
        OBVIOUS
    <2>3. Carried(conn) = u \o h
        BY <1>1, <2>1, <2>2 DEF Carried
    <2>4. u \in Seq(Logs) /\ ToSet(u) = ToSet(w) \cup ToSet(out)
        BY <1>3, <2>2, JoinFacts
    <2>5. u \o h \in Seq(Logs) /\ ToSet(u \o h) = ToSet(u) \cup ToSet(h)
        BY <1>2, <2>4, JoinFacts
    <2> QED BY <2>1, <2>3, <2>4, <2>5
<1>6. ASSUME conn \notin Conns PROVE ToSet(out) = {} /\ ToSet(h) = {}
    <2>1. conn = 0
        BY <1>6 DEF TypeInv, TypeOK
    <2>2. out = <<>> /\ h = <<>>
        BY <1>1, <2>1 DEF TypeInv, FreshInv, LinkInv
    <2> QED BY <2>2 DEF ToSet
<1>7. \A c \in Conns : Carried(c) \in Seq(Logs)
    BY <1>3, <1>4, <1>5
<1>8. \A c \in Conns : Lanes[c] = Carried(c)
    BY DEF Lanes
<1>9. Load(Lanes) = (UNION {ToSet(wire[c]) : c \in Conns}) \cup ToSet(out) \cup ToSet(h)
    <2>1. \A x : x \in Load(Lanes) <=> \E c \in Conns : x \in ToSet(Carried(c))
        BY <1>8 DEF Load
    <2>2. \A c \in Conns : c # conn => ToSet(Carried(c)) = ToSet(wire[c])
        BY <1>4
    <2>3. CASE conn \in Conns
        BY <1>5, <2>1, <2>2, <2>3
    <2>4. CASE conn \notin Conns
        BY <1>6, <2>1, <2>2, <2>4
    <2> QED BY <2>3, <2>4
<1> QED BY <1>2, <1>7, <1>9

\* The logs that LogDelivery accounts for are those that were listed.
Accounted ==
    /\ \A l : l \in ToSet(listed) <=>
                 l \in ToSet(logs) \/ l \in Load(Lanes) \/ l \in Saved \/ l \in dropped \cup lost
    /\ \A l \in Load(Lanes) : l \notin ToSet(logs) /\ l \notin Saved /\ l \notin dropped \cup lost
    /\ \A l \in dropped \cup lost : l \notin ToSet(logs) /\ l \notin Saved

\* OnceInv, with the places on a connection taken together.
LEMMA ListedAreKnown == DeliveryInv => Accounted
<1> SUFFICES ASSUME DeliveryInv PROVE Accounted
    OBVIOUS
<1>1. PICK w : w = [c \in Conns |-> ToSet(wire[c])]
    OBVIOUS
<1>2. \A l : l \in Load(Lanes) <=>
                (\E c \in Conns : l \in w[c]) \/ l \in ToSet(out) \/ l \in {log} \ {None}
    BY <1>1, LoadOfLanes DEF DeliveryInv, OrderInv, OnceInv
<1>3. Split(ToSet(listed), ToSet(logs), log, ToSet(out), w, Saved, dropped, lost)
    BY <1>1 DEF DeliveryInv, OnceInv, SplitNow
<1> QED BY <1>2, <1>3 DEF Split, Accounted

\* What LogDelivery says of a step in which logs get lost, in the terms above.
LEMMA LoseStep ==
    ASSUME \A c \in Conns : Lanes'[c] \in SubSeqs(Lanes[c]),
           dropped' \cup lost' = (dropped \cup lost) \cup (Load(Lanes) \ Load(Lanes')),
           UNCHANGED <<logs, rows>>
    PROVE  Delivery!Lose
BY DEF Delivery!Lose, Delivery!OnLinks, Delivery!SubSeqs, SubSeqs, Delivery!ToSet, ToSet,
       Lanes, Load

\* The logs in the lanes before and not after a step that keeps the rest are the
\* ones counted as lost.
LEMMA LoseMaps ==
    ASSUME DeliveryInv, DeliveryInv', \A c \in Conns : Lanes'[c] \in SubSeqs(Lanes[c]),
           UNCHANGED <<listed, logs, rows, dropped>>, lost \subseteq lost'
    PROVE  Delivery!Lose
<1>1. Saved' = Saved
    BY DEF Saved
<1>2. Accounted /\ Accounted'
    BY ListedAreKnown, PTL
<1>3. dropped' \cup lost' = (dropped \cup lost) \cup (Load(Lanes) \ Load(Lanes'))
    BY <1>1, <1>2 DEF Accounted
<1> QED BY <1>3, LoseStep

\* LoseMaps, lane by lane.
LEMMA LoseLanes ==
    ASSUME DeliveryInv, DeliveryInv', \A c \in Conns : Carried(c)' \in SubSeqs(Carried(c)),
           UNCHANGED <<listed, logs, rows, dropped>>, lost \subseteq lost'
    PROVE  Delivery!Lose
<1>1. \A c \in Conns : Lanes[c] = Carried(c) /\ Lanes'[c] = Carried(c)'
    BY DEF Lanes
<1> QED BY <1>1, LoseMaps

\* What a connection carries is logs.
LEMMA LanesTyped == DeliveryInv => \A c \in Conns : Carried(c) \in Seq(Logs)
BY LoadOfLanes DEF DeliveryInv, OrderInv, OnceInv

\* A step that leaves the list, the lanes and the table alone is none of LogDelivery.
LEMMA StayMaps ==
    ASSUME \A c \in Conns : Carried(c)' = Carried(c), UNCHANGED <<logs, rows, dropped, lost>>
    PROVE  UNCHANGED Delivery!vars
BY DEF Delivery!vars

\* addLog: the log is known nowhere yet, and the oldest gives way in a full list.
LEMMA LogMaps ==
    ASSUME DeliveryInv, NEW l \in Logs, l \notin ToSet(listed), List(l),
           UNCHANGED <<evPc, log, conn, out, wire, rows, lost>>
    PROVE  Delivery!Log(l)
<1>1. l \notin Delivery!Known
    <2>1. l \notin ToSet(logs) /\ l \notin Load(Lanes) /\ l \notin Saved /\ l \notin dropped \cup lost
        BY ListedAreKnown DEF Accounted
    <2>2. Delivery!OnLinks = Load(Lanes)
        BY DEF Delivery!OnLinks, Delivery!ToSet, ToSet, Load, Lanes
    <2> QED BY <2>1, <2>2 DEF Delivery!Known, Delivery!ToSet, ToSet, Saved
<1>2. \A c \in Conns : Carried(c)' = Carried(c)
    BY DEF Carried
<1>3. /\ logs' = Append(AfterOverflow(logs), l)
      /\ dropped' = dropped \cup (ToSet(logs) \ ToSet(AfterOverflow(logs)))
    BY DEF List
<1>4. logs \in Seq(Logs) /\ Len(logs) \in Nat /\ IsInjective(logs)
    BY DEF DeliveryInv, TypeInv, TypeOK, OnceInv, NoneTwice
<1>5. CASE Len(logs) > LOG_LIST_MAX
    <2>1. logs # <<>>
        BY <1>4, <1>5, ListAssumption
    <2>2. AfterOverflow(logs) = Tail(logs)
        BY <1>5 DEF AfterOverflow
    <2>3. ToSet(logs) \ ToSet(Tail(logs)) = {Head(logs)}
        BY <1>4, <2>1, OnceFacts
    <2> QED BY <1>1, <1>2, <1>3, <1>5, <2>2, <2>3 DEF Delivery!Log
<1>6. CASE ~ (Len(logs) > LOG_LIST_MAX)
    <2>1. AfterOverflow(logs) = logs /\ Len(logs) <= LOG_LIST_MAX
        BY <1>4, <1>6, ListAssumption DEF AfterOverflow
    <2> QED BY <1>1, <1>2, <1>3, <2>1 DEF Delivery!Log
<1> QED BY <1>5, <1>6

\* A lane that holds no log is empty.
LEMMA HeadInSet == ASSUME NEW s \in Seq(Logs), s # <<>> PROVE Head(s) \in ToSet(s)
<1>1. Head(s) = s[1] /\ 1 \in DOMAIN s
    OBVIOUS
<1> QED BY <1>1 DEF ToSet

\* timerCb takes the next log: it goes with the connection of that moment, and no
\* later one has been used.
LEMMA SendMaps ==
    ASSUME DeliveryInv, TimerPop, logs # <<>>
    PROVE  conn \in Conns /\ Delivery!Send(conn)
<1>1. /\ evPc = "pop" /\ evPc' = "send" /\ log' = Head(logs) /\ logs' = Tail(logs)
      /\ UNCHANGED <<conn, dropped, out, wire, rows, lost>>
    BY DEF TimerPop, PopFrom, serverVars
<1>2. conn \in Conns /\ wire \in [Conns -> Seq(Logs)] /\ out \in Seq(Logs)
    <2>1. conn \in {0} \cup Conns /\ conn > 0
        BY <1>1 DEF DeliveryInv, TypeInv, TypeOK, LinkInv
    <2> QED BY <2>1 DEF DeliveryInv, TypeInv, TypeOK
<1>3. Head(logs) \in Logs
    BY DEF DeliveryInv, TypeInv, TypeOK
<1>4. Carried(conn)' = Append(Carried(conn), Head(logs))
    <2>1. PICK u \in Seq(Logs) : u = wire[conn] \o out
        BY <1>2, JoinFacts
    <2>2. Carried(conn) = u
        BY <1>1, <2>1, JoinNothing DEF Carried
    <2>3. Carried(conn)' = u \o <<Head(logs)>>
        BY <1>1, <2>1 DEF Carried
    <2> QED BY <1>3, <2>2, <2>3, JoinLast
<1>5. \A c \in Conns : c # conn => Carried(c)' = Carried(c)
    BY <1>1 DEF Carried
<1>6. \A d \in Conns : d > conn => Carried(d) = <<>> /\ \A i \in DOMAIN rows : rows[i][1] # d
    <2> SUFFICES ASSUME NEW d \in Conns, d > conn
                 PROVE  wire[d] = <<>> /\ \A i \in DOMAIN rows : rows[i][1] # d
        BY DEF Carried, Conns
    <2>1. Stored(d) = {} /\ ToSet(wire[d]) = {}
        BY DEF DeliveryInv, OrderInv, FreshInv, Written
    <2>2. wire[d] \in Seq(Logs)
        BY <1>2
    <2>3. wire[d] # <<>> => Head(wire[d]) \in ToSet(wire[d])
        BY <2>2, HeadInSet
    <2>4. wire[d] = <<>>
        BY <2>1, <2>3
    <2> QED BY <2>1, <2>4 DEF Stored
<1> QED BY <1>1, <1>2, <1>4, <1>5, <1>6 DEF Delivery!Send

\* A handle takes the first log of its lane.
LEMMA LaneServed ==
    ASSUME DeliveryInv, NEW c \in Conns, wire[c] # <<>>,
           wire' = [wire EXCEPT ![c] = Tail(@)], UNCHANGED <<conn, out, evPc, log>>
    PROVE  /\ Carried(c) \in Seq(Logs) /\ Carried(c) # <<>>
           /\ Head(Carried(c)) = Head(wire[c]) /\ Carried(c)' = Tail(Carried(c))
           /\ \A d \in Conns : d # c => Carried(d)' = Carried(d)
<1>1. /\ wire \in [Conns -> Seq(Logs)] /\ out \in Seq(Logs) /\ wire[c] \in Seq(Logs)
      /\ wire'[c] = Tail(wire[c]) /\ \A d \in Conns : d # c => wire'[d] = wire[d]
    BY DEF DeliveryInv, TypeInv, TypeOK
<1>2. \A d \in Conns : d # c => Carried(d)' = Carried(d)
    BY <1>1 DEF Carried
<1>3. CASE c # conn
    BY <1>1, <1>2, <1>3 DEF Carried
<1>4. CASE c = conn
    <2>1. PICK h : h = IF evPc = "send" THEN <<log>> ELSE <<>>
        OBVIOUS
    <2>2. h \in Seq(Logs)
        BY <2>1 DEF DeliveryInv, TypeInv
    <2>3. PICK u \in Seq(Logs) : u = wire[c] \o out
        BY <1>1, JoinFacts
    <2>4. u # <<>> /\ Head(u) = Head(wire[c]) /\ Tail(u) = Tail(wire[c]) \o out
        BY <1>1, <2>3, JoinHead
    <2>5. u \o h \in Seq(Logs)
        BY <2>2, <2>3, JoinFacts
    <2>6. u \o h # <<>> /\ Head(u \o h) = Head(u) /\ Tail(u \o h) = Tail(u) \o h
        BY <2>2, <2>3, <2>4, JoinHead
    <2>7. Carried(c) = u \o h
        BY <1>4, <2>1, <2>3 DEF Carried
    <2>8. Carried(c)' = (Tail(wire[c]) \o out) \o h
        BY <1>1, <1>4, <2>1 DEF Carried
    <2> QED BY <1>2, <2>4, <2>5, <2>6, <2>7, <2>8
<1> QED BY <1>3, <1>4

\* addLogReq: the log is stored.
LEMMA StoreMaps ==
    ASSUME DeliveryInv, NEW c \in Conns, AddLogReq(c), rows' # rows
    PROVE  Delivery!Store(c)
<1>1. /\ wire[c] # <<>> /\ wire' = [wire EXCEPT ![c] = Tail(@)]
      /\ rows' = Append(rows, <<c, Head(wire[c])>>)
      /\ UNCHANGED <<logs, dropped, lost, conn, out, evPc, log>>
    BY DEF AddLogReq, clientVars, timerVars
<1>2. /\ Carried(c) # <<>> /\ Head(Carried(c)) = Head(wire[c])
      /\ Carried(c)' = Tail(Carried(c))
      /\ \A d \in Conns : d # c => Carried(d)' = Carried(d)
    BY <1>1, LaneServed
<1> QED BY <1>1, <1>2 DEF Delivery!Store

\* addLogReq without success: the first log of a lane is lost.
LEMMA LoseStored ==
    ASSUME DeliveryInv, DeliveryInv', NEW c \in Conns, AddLogReq(c), rows' = rows
    PROVE  Delivery!Lose
<1>1. /\ wire[c] # <<>> /\ wire' = [wire EXCEPT ![c] = Tail(@)]
      /\ UNCHANGED <<listed, logs, dropped, conn, out, evPc, log>> /\ lost \subseteq lost'
    BY DEF AddLogReq, clientVars, timerVars
<1>2. /\ Carried(c) \in Seq(Logs) /\ Carried(c) # <<>> /\ Carried(c)' = Tail(Carried(c))
      /\ \A d \in Conns : d # c => Carried(d)' = Carried(d)
    BY <1>1, LaneServed
<1>3. \A d \in Conns : Carried(d)' \in SubSeqs(Carried(d))
    BY <1>2, EndsFacts, LanesTyped
<1> QED BY <1>1, <1>3, LoseLanes

\* timerCb without a bufferevent: the log it holds is lost.
LEMMA LoseSent ==
    ASSUME DeliveryInv, DeliveryInv', TimerSend, bev = "none"
    PROVE  Delivery!Lose
<1>1. /\ evPc = "send" /\ evPc' = "pop" /\ out = <<>> /\ out' = <<>>
      /\ UNCHANGED <<listed, logs, dropped, rows, conn, wire>> /\ lost \subseteq lost'
    BY DEF TimerSend, TakesWrites, clientVars, serverVars, DeliveryInv, OrderInv, FreshInv
<1>2. wire \in [Conns -> Seq(Logs)] /\ log \in Logs
    BY <1>1 DEF DeliveryInv, TypeInv, TypeOK
<1>3. ASSUME NEW c \in Conns PROVE Carried(c)' \in SubSeqs(Carried(c))
    <2>1. PICK w \in Seq(Logs) : w = wire[c]
        BY <1>2
    <2>2. PICK h : h = <<log>>
        OBVIOUS
    <2>3. h \in Seq(Logs)
        BY <1>2, <2>2
    <2>4. CASE c = conn
        <3>1. Carried(c) = w \o h /\ Carried(c)' = w
            BY <1>1, <2>1, <2>2, <2>4, JoinNothing DEF Carried
        <3> QED BY <2>3, <3>1, EndsFacts
    <2>5. CASE c # conn
        <3>1. Carried(c) = w /\ Carried(c)' = w
            BY <1>1, <2>1, <2>5 DEF Carried
        <3> QED BY <3>1, EndsFacts
    <2> QED BY <2>4, <2>5
<1> QED BY <1>1, <1>3, LoseLanes

\* A write to a server that is gone: the lane holds nothing but the output buffer.
LEMMA LoseFlushed ==
    ASSUME DeliveryInv, DeliveryInv', Flush, conn \notin alive
    PROVE  Delivery!Lose
<1>1. /\ evPc = "loop" /\ evPc' = "loop" /\ bev = "up" /\ out # <<>> /\ out' = Tail(out)
      /\ UNCHANGED <<listed, logs, dropped, rows, conn, wire>> /\ lost \subseteq lost'
    BY DEF Flush, clientVars, timerVars
<1>2. /\ wire \in [Conns -> Seq(Logs)] /\ out \in Seq(Logs) /\ Tail(out) \in Seq(Logs)
      /\ wire[conn] = <<>>
    BY <1>1 DEF DeliveryInv, TypeInv, TypeOK, LinkInv
<1>3. ASSUME NEW c \in Conns PROVE Carried(c)' \in SubSeqs(Carried(c))
    <2>1. CASE c = conn
        <3>1. Carried(c) = out /\ Carried(c)' = Tail(out)
            BY <1>1, <1>2, <2>1, JoinNothing DEF Carried
        <3> QED BY <1>1, <1>2, <3>1, EndsFacts
    <2>2. CASE c # conn
        BY <1>1, <1>2, <2>2, EndsFacts DEF Carried
    <2> QED BY <2>1, <2>2
<1> QED BY <1>1, <1>3, LoseLanes

\* closeBev: the output buffer and the end of what the server had not received.
LEMMA LoseClosed ==
    ASSUME DeliveryInv, DeliveryInv', evPc = "loop", CloseBev
    PROVE  Delivery!Lose
<1>1. /\ evPc' = "loop" /\ out' = <<>>
      /\ UNCHANGED <<listed, logs, dropped, rows, conn>> /\ lost \subseteq lost'
    BY DEF CloseBev, clientVars, timerVars
<1>2. wire \in [Conns -> Seq(Logs)] /\ out \in Seq(Logs)
    BY DEF DeliveryInv, TypeInv, TypeOK
<1>3. PICK k \in 0..Len(wire[conn]) : wire' = [wire EXCEPT ![conn] = SubSeq(@, 1, k)]
    BY DEF CloseBev
<1>4. ASSUME NEW c \in Conns PROVE Carried(c)' \in SubSeqs(Carried(c))
    <2>1. PICK w \in Seq(Logs) : w = wire[c]
        BY <1>2
    <2>2. CASE c = conn
        <3>1. wire'[c] = SubSeq(w, 1, k) /\ k \in 0..Len(w)
            BY <1>2, <1>3, <2>1, <2>2
        <3>2. SubSeq(w, 1, k) \in Seq(Logs)
            BY <3>1
        <3>3. Carried(c)' = SubSeq(w, 1, k)
            BY <1>1, <2>2, <3>1, <3>2, JoinNothing DEF Carried
        <3>4. w \o out \in Seq(Logs)
            BY <1>2, JoinFacts
        <3>5. Carried(c) = w \o out
            BY <2>1, <2>2, <3>4, JoinNothing DEF Carried
        <3> QED BY <1>2, <3>1, <3>3, <3>5, EndsFacts
    <2>3. CASE c # conn
        <3>1. wire'[c] = w
            BY <1>2, <1>3, <2>1, <2>3
        <3>2. Carried(c) = w /\ Carried(c)' = w
            BY <1>1, <2>1, <2>3, <3>1 DEF Carried
        <3> QED BY <3>2, EndsFacts
    <2> QED BY <2>2, <2>3
<1> QED BY <1>1, <1>4, LoseLanes

\* The end of the server: every lane loses its first stage.
LEMMA LoseRestarted ==
    ASSUME DeliveryInv, DeliveryInv', ServerRestart
    PROVE  Delivery!Lose
<1>1. /\ wire' = [c \in Conns |-> <<>>] /\ lost \subseteq lost'
      /\ UNCHANGED <<listed, logs, dropped, rows, conn, out, evPc, log>>
    BY DEF ServerRestart, clientVars, timerVars
<1>2. wire \in [Conns -> Seq(Logs)] /\ out \in Seq(Logs)
    BY DEF DeliveryInv, TypeInv, TypeOK
<1>3. ASSUME NEW c \in Conns PROVE Carried(c)' \in SubSeqs(Carried(c))
    <2>1. PICK w \in Seq(Logs) : w = wire[c]
        BY <1>2
    <2>2. PICK h : h = IF evPc = "send" THEN <<log>> ELSE <<>>
        OBVIOUS
    <2>3. h \in Seq(Logs)
        BY <2>2 DEF DeliveryInv, TypeInv
    <2>4. CASE c = conn
        <3>1. Carried(c) = (w \o out) \o h
            BY <2>1, <2>2, <2>4 DEF Carried
        <3>2. Carried(c)' = (<<>> \o out) \o h
            BY <1>1, <2>2, <2>4 DEF Carried
        <3>3. out \o h \in Seq(Logs) /\ (w \o out) \o h = w \o (out \o h)
            BY <1>2, <2>3, JoinFacts, JoinThree
        <3>4. Carried(c) = w \o (out \o h) /\ Carried(c)' = out \o h
            BY <1>2, <3>1, <3>2, <3>3, JoinNothing
        <3> QED BY <3>3, <3>4, EndsFacts
    <2>5. CASE c # conn
        <3>1. Carried(c) = w /\ Carried(c)' = <<>>
            BY <1>1, <2>1, <2>5 DEF Carried
        <3> QED BY <3>1, EndsFacts
    <2> QED BY <2>4, <2>5
<1> QED BY <1>1, <1>3, LoseLanes

\* Steps of the event thread that move a log from one stage of its lane to the next.
LEMMA MovesStay ==
    ASSUME DeliveryInv,
           (TimerSend /\ bev # "none") \/ (Flush /\ conn \in alive)
    PROVE  UNCHANGED Delivery!vars
<1>1. /\ wire \in [Conns -> Seq(Logs)] /\ out \in Seq(Logs)
      /\ UNCHANGED <<logs, rows, dropped, conn>>
    BY DEF TimerSend, Flush, clientVars, serverVars, DeliveryInv, TypeInv, TypeOK
<1>2. CASE TimerSend /\ bev # "none"
    <2>1. /\ evPc = "send" /\ evPc' = "pop" /\ out' = Append(out, log)
          /\ UNCHANGED <<lost, wire>>
        BY <1>2 DEF TimerSend, TakesWrites, serverVars
    <2>2. log \in Logs
        BY <2>1 DEF DeliveryInv, TypeInv
    <2>3. ASSUME NEW c \in Conns PROVE Carried(c)' = Carried(c)
        <3>1. PICK w \in Seq(Logs) : w = wire[c]
            BY <1>1
        <3>2. PICK u \in Seq(Logs) : u = w \o out
            BY <1>1, <3>1, JoinFacts
        <3>3. w \o Append(out, log) = Append(u, log) /\ u \o <<log>> = Append(u, log)
            BY <1>1, <2>2, <3>2, JoinLast
        <3>4. Append(u, log) \in Seq(Logs)
            BY <2>2
        <3>5. CASE c = conn
            <4>1. Carried(c) = u \o <<log>>
                BY <2>1, <3>1, <3>2, <3>5 DEF Carried
            <4>2. Carried(c)' = (w \o Append(out, log)) \o <<>>
                BY <1>1, <2>1, <3>1, <3>5 DEF Carried
            <4> QED BY <3>3, <3>4, <4>1, <4>2, JoinNothing
        <3>6. CASE c # conn
            BY <1>1, <2>1, <3>6 DEF Carried
        <3> QED BY <3>5, <3>6
    <2> QED BY <1>1, <2>1, <2>3, StayMaps
<1>3. CASE Flush /\ conn \in alive
    <2>1. /\ evPc = "loop" /\ evPc' = "loop" /\ out # <<>> /\ out' = Tail(out)
          /\ wire' = [wire EXCEPT ![conn] = Append(@, Head(out))] /\ UNCHANGED lost
        BY <1>3 DEF Flush, timerVars
    <2>2. ASSUME NEW c \in Conns PROVE Carried(c)' = Carried(c)
        <3>1. PICK w \in Seq(Logs) : w = wire[c]
            BY <1>1
        <3>2. CASE c = conn
            <4>1. Carried(c) = (w \o out) \o <<>>
                BY <2>1, <3>1, <3>2 DEF Carried
            <4>2. wire'[c] = Append(w, Head(out))
                BY <1>1, <2>1, <3>1, <3>2
            <4>3. Carried(c)' = (Append(w, Head(out)) \o Tail(out)) \o <<>>
                BY <1>1, <2>1, <3>2, <4>2 DEF Carried
            <4> QED BY <1>1, <2>1, <4>1, <4>3, JoinMove
        <3>3. CASE c # conn
            <4>1. wire'[c] = wire[c]
                BY <1>1, <2>1, <3>3
            <4> QED BY <1>1, <3>3, <4>1 DEF Carried
        <3> QED BY <3>2, <3>3
    <2> QED BY <1>1, <2>1, <2>2, StayMaps
<1> QED BY <1>2, <1>3

\* Steps that touch no log on its way: a new connection finds its lane empty, the
\* old one is left with what the server had received.
LEMMA RestStays ==
    ASSUME DeliveryInv,
           \/ \E p \in Producers : Compose(p)
           \/ TimerFires \/ (TimerPop /\ logs = <<>>) \/ Connect \/ UNCHANGED vars
    PROVE  UNCHANGED Delivery!vars
<1>1. /\ UNCHANGED <<logs, rows, dropped, lost, out, wire, log>>
      /\ evPc' = "send" <=> evPc = "send"
    BY DEF Compose, TimerFires, TimerPop, Connect, vars, clientVars, timerVars, serverVars
<1>2. conn' = conn \/ (Connect /\ evPc = "loop" /\ bev = "none")
    BY DEF Compose, TimerFires, TimerPop, Connect, vars
<1>3. CASE conn' = conn
    <2>1. \A c \in Conns : Carried(c)' = Carried(c)
        BY <1>1, <1>3 DEF Carried
    <2> QED BY <1>1, <2>1, StayMaps
<1>4. CASE evPc = "loop" /\ bev = "none"
    <2>1. out = <<>> /\ wire \in [Conns -> Seq(Logs)]
        BY <1>4 DEF DeliveryInv, OrderInv, FreshInv, TypeInv, TypeOK
    <2>2. ASSUME NEW c \in Conns PROVE Carried(c) = wire[c] /\ Carried(c)' = wire[c]
        <3>1. PICK w \in Seq(Logs) : w = wire[c]
            BY <2>1
        <3>2. (w \o <<>>) \o <<>> = w
            BY JoinNothing
        <3>3. Carried(c) = w
            BY <1>4, <2>1, <3>1, <3>2 DEF Carried
        <3>4. Carried(c)' = w
            BY <1>1, <1>4, <2>1, <3>1, <3>2 DEF Carried
        <3> QED BY <3>1, <3>3, <3>4
    <2>3. \A c \in Conns : Carried(c)' = Carried(c)
        BY <2>2
    <2> QED BY <1>1, <2>3, StayMaps
<1> QED BY <1>2, <1>3, <1>4

\* Every step of the client and the server is a step of LogDelivery or none.
LEMMA StepDelivers ==
    DeliveryInv /\ DeliveryInv' /\ [Next]_vars => [Delivery!Next]_(Delivery!vars)
<1> SUFFICES ASSUME DeliveryInv, DeliveryInv', [Next]_vars
             PROVE  Delivery!Next \/ UNCHANGED Delivery!vars
    OBVIOUS
<1>1. CASE \/ \E p \in Producers : Compose(p)
           \/ TimerFires \/ (TimerPop /\ logs = <<>>) \/ Connect \/ UNCHANGED vars
    BY <1>1, RestStays
<1>2. ASSUME NEW p \in Producers, AddLog(p) PROVE Delivery!Next
    <2>1. PICK l : l = adding[p]
        OBVIOUS
    <2>2. List(l) /\ l # None /\ UNCHANGED <<evPc, log, conn, out, wire, rows, lost>>
        BY <1>2, <2>1 DEF AddLog, timerVars, serverVars
    <2>3. l \in Logs /\ l \notin ToSet(listed)
        BY <2>1, <2>2 DEF DeliveryInv, OnceInv, NewInv, TypeInv, TypeOK
    <2>4. Delivery!Log(l)
        BY <2>2, <2>3, LogMaps
    <2> QED BY <2>3, <2>4 DEF Delivery!Next
<1>3. CASE Connected
    <2>1. PICK l : l = <<Self, conn>>
        OBVIOUS
    <2>2. /\ List(l) /\ bev = "connecting"
          /\ UNCHANGED <<evPc, log, conn, out, wire, rows, lost>>
        BY <1>3, <2>1 DEF Connected, timerVars
    <2>3. l \in Logs /\ l \notin ToSet(listed)
        BY <2>1, <2>2 DEF DeliveryInv, OnceInv, NewInv, TypeInv, TypeOK, Logs
    <2>4. Delivery!Log(l)
        BY <2>2, <2>3, LogMaps
    <2> QED BY <2>3, <2>4 DEF Delivery!Next
<1>4. CASE TimerPop /\ logs # <<>>
    BY <1>4, SendMaps DEF Delivery!Next
<1>5. CASE TimerSend \/ Flush
    <2>1. CASE (TimerSend /\ bev # "none") \/ (Flush /\ conn \in alive)
        BY <2>1, MovesStay
    <2>2. CASE (TimerSend /\ bev = "none") \/ (Flush /\ conn \notin alive)
        BY <2>2, LoseSent, LoseFlushed DEF Delivery!Next
    <2> QED BY <1>5, <2>1, <2>2
<1>6. CASE ConnectionEnds \/ ConnectionFails \/ ServerRestart
    <2>1. (evPc = "loop" /\ CloseBev) \/ ServerRestart
        BY <1>6 DEF ConnectionEnds, ConnectionFails, CloseBev
    <2> QED BY <2>1, LoseClosed, LoseRestarted DEF Delivery!Next
<1>7. ASSUME NEW c \in Conns, AddLogReq(c) PROVE Delivery!Next
    BY <1>7, StoreMaps, LoseStored DEF Delivery!Next
<1> QED
    BY <1>1, <1>2, <1>3, <1>4, <1>5, <1>6, <1>7 DEF Next, EventThread

\* ImplementsDelivery: whatever the failures, a log is handed to one connection, in
\* the order in which addLog listed it, is stored at most once and in the order of
\* its connection, and is gone only where LogDelivery lets it go.
THEOREM ClientImplementsDelivery == Spec => ImplementsDelivery
<1>1. Init => Delivery!Init
    <2> SUFFICES ASSUME Init PROVE Delivery!Init
        OBVIOUS
    <2>1. \A c \in Conns : Carried(c) = <<>>
        BY DEF Init, Carried, Conns
    <2> QED BY <2>1 DEF Init, Delivery!Init
<1>2. Init => DeliveryInv
    <2>1. Init => WaitInv
        BY DEF Init, WaitInv
    <2> QED BY <2>1, TypeInvInit, OrderInvInit, OnceInvInit, LinkInvInit DEF DeliveryInv
<1>3. DeliveryInv /\ [Next]_vars => DeliveryInv'
    BY TypeInvNext, WaitInvNext, OrderInvNext, OnceInvNext, LinkInvNext DEF DeliveryInv
<1>4. DeliveryInv /\ DeliveryInv' /\ [Next]_vars => [Delivery!Next]_(Delivery!vars)
    BY StepDelivers
<1> QED
    BY <1>1, <1>2, <1>3, <1>4, PTL DEF Spec, ImplementsDelivery, Delivery!Spec
=============================================================================
