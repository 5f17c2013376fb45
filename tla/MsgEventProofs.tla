--------------------------- MODULE MsgEventProofs ---------------------------
(* What is proved of MsgEvent, for messages of any number and size: the      *)
(* buffers hold however the network cuts the stream; with cuts that recvMsg  *)
(* can cope with (Promise), the messages arrive as MsgChannel says.          *)
EXTENDS MsgEvent, SequenceTheorems, TLAPS

-----------------------------------------------------------------------------
(* Sequences of bytes. *)

\* What is taken from the front of a sequence, and what is left.
LEMMA Pieces ==
    ASSUME NEW S, NEW s \in Seq(S), NEW n \in Nat
    PROVE  LET k == IF n < Len(s) THEN n ELSE Len(s)
           IN  /\ k \in 0 .. n /\ k <= Len(s)
               /\ SubSeq(s, 1, k) \in Seq(S) /\ Len(SubSeq(s, 1, k)) = k
               /\ SubSeq(s, k + 1, Len(s)) \in Seq(S)
<1> DEFINE k == IF n < Len(s) THEN n ELSE Len(s)
<1>1. Len(s) \in Nat /\ \A i \in 1 .. Len(s) : s[i] \in S
    BY LenProperties, ElementOfSeq
<1>2. k \in 0 .. n /\ k <= Len(s)
    BY <1>1
<1> HIDE DEF k
<1>3. SubSeq(s, 1, k) \in Seq(S) /\ Len(SubSeq(s, 1, k)) = k
    BY <1>1, <1>2, SubSeqProperties
<1>4. SubSeq(s, k + 1, Len(s)) \in Seq(S)
    BY <1>1, <1>2, SubSeqProperties
<1> QED
    BY <1>2, <1>3, <1>4 DEF k

LEMMA BytesAreSequences ==
    ASSUME NEW m, NEW part, NEW n \in Nat
    PROVE  \E S : Bytes(m, part, n) \in Seq(S)
<1>1. Bytes(m, part, n) \in Seq({<<m, part, i>> : i \in 1 .. n})
    BY DEF Bytes
<1> QED
    BY <1>1

IsSequence(s) == \E S : s \in Seq(S)

LEMMA Joined ==
    ASSUME NEW s, NEW t, IsSequence(s), IsSequence(t)
    PROVE  IsSequence(s \o t) /\ Len(s \o t) = Len(s) + Len(t)
<1>1. PICK S, T : s \in Seq(S) /\ t \in Seq(T)
    BY DEF IsSequence
<1>2. s \in Seq(S \cup T) /\ t \in Seq(S \cup T)
    BY <1>1, SeqMonotonic
<1> QED
    BY <1>2, ConcatProperties DEF IsSequence

-----------------------------------------------------------------------------
(* The buffers. *)

\* A buffer with room for size bytes.
IsBuffer(c) ==
    /\ c = [size |-> c.size, data |-> c.data]
    /\ c.size \in 0 .. MaxMsgSize /\ IsSequence(c.data) /\ Len(c.data) <= c.size

\* The body is read once the head is complete: recvMsg sets the size of an empty
\* body without a look at what it has received.
HeadFirst ==
    /\ msg.data # <<>> => head.size # 0 /\ Recved(head)
    /\ recvPc \in {"head", "body"} => head.size # 0
    /\ recvPc = "body" => Recved(head)

\* The handlers were called with heads that were sent.
Handed ==
    /\ IsSequence(delivered)
    /\ \A i \in 1 .. Len(delivered) : delivered[i].head \in 1 .. Len(size)

\* A connection is lost between two read events, with all that was on its way.
Closed == ~open => recvPc = "idle" /\ wire = <<>> /\ inbuf = <<>>

Inv ==
    /\ TypeOK /\ HeadFirst
    /\ IsSequence(wire) /\ IsSequence(inbuf)
    /\ IsBuffer(head) /\ IsBuffer(msg)
    /\ sendPc # "len" => Len(size) # 0
    /\ Handed /\ Closed

LEMMA ClearedIsBuffer == IsBuffer(Cleared)
<1>1. <<>> \in Seq({}) /\ Len(<<>>) = 0
    BY EmptySeq
<1> QED
    BY <1>1, MaxMsgSizeAssumption DEF IsBuffer, IsSequence, Cleared

LEMMA EmptyIsSequence == IsSequence(<<>>)
BY EmptySeq DEF IsSequence

\* A new buffer.
LEMMA NewBuffer ==
    ASSUME NEW n \in 0 .. MaxMsgSize
    PROVE  IsBuffer([size |-> n, data |-> <<>>])
<1>1. <<>> \in Seq({}) /\ Len(<<>>) = 0
    BY EmptySeq
<1> QED
    BY <1>1 DEF IsBuffer, IsSequence

\* recvMsg asks for no more than there is room for.
LEMMA Filled ==
    ASSUME NEW c, IsBuffer(c), IsSequence(inbuf)
    PROVE  IsBuffer(Fill(c)) /\ Wanted(c) \in Nat /\ Fill(c).size = c.size
<1>1. PICK S, d, n : d \in Seq(S) /\ c = [size |-> n, data |-> d] /\ n \in 0 .. MaxMsgSize
                     /\ Len(d) <= n
    BY DEF IsBuffer, IsSequence
<1>2. Len(d) \in Nat /\ n \in Nat
    BY <1>1, LenProperties, MaxMsgSizeAssumption
<1>3. Wanted(c) \in Nat /\ Wanted(c) = n - Len(d)
    BY <1>1, <1>2 DEF Wanted
<1>4. PICK T : inbuf \in Seq(T)
    BY DEF IsSequence
<1>5. PICK w, g, p : w \in Nat /\ w = Wanted(c) /\ g = Got(w) /\ p = SubSeq(inbuf, 1, g)
    BY <1>3
<1>6. g \in 0 .. w /\ p \in Seq(T) /\ Len(p) = g
    BY <1>4, <1>5, Pieces DEF Got
<1>7. IsSequence(d \o p) /\ Len(d \o p) = Len(d) + g
    BY <1>1, <1>6, Joined DEF IsSequence
<1>8. PICK e : e = d \o p
    OBVIOUS
<1>10. Fill(c) = [size |-> n, data |-> e]
    <2>1. SubSeq(inbuf, 1, Got(Wanted(c))) = p
        BY <1>5
    <2>2. Fill(c) = [c EXCEPT !.data = @ \o p]
        BY <2>1 DEF Fill
    <2>3. [c EXCEPT !.data = @ \o p] = [size |-> n, data |-> e]
        <3>1. c.data = d
            BY <1>1
        <3>2. [c EXCEPT !.data = @ \o p] = [c EXCEPT !.data = e]
            BY <1>8, <3>1
        <3>3. [c EXCEPT !.data = e] = [size |-> n, data |-> e]
            BY <1>1
        <3> QED
            BY <3>2, <3>3
    <2> QED
        BY <2>2, <2>3
<1>9. Len(d \o p) <= n
    BY <1>2, <1>3, <1>5, <1>6, <1>7
<1>11. IsBuffer([size |-> n, data |-> e])
    BY <1>1, <1>7, <1>8, <1>9 DEF IsBuffer
<1>12. Fill(c).size = c.size
    BY <1>1, <1>10
<1> QED
    BY <1>3, <1>10, <1>11, <1>12

LEMMA ReadKeepsSequence ==
    ASSUME IsSequence(inbuf), NEW n \in Nat, Read(n)
    PROVE  IsSequence(inbuf')
<1>1. PICK T : inbuf \in Seq(T)
    BY DEF IsSequence
<1>2. SubSeq(inbuf, Got(n) + 1, Len(inbuf)) \in Seq(T)
    BY <1>1, Pieces DEF Got
<1> QED
    BY <1>2 DEF Read, IsSequence

-----------------------------------------------------------------------------

\* The invariant holds initially, and every step keeps it.
LEMMA InvInit == Init => Inv
<1> SUFFICES ASSUME Init PROVE Inv
    OBVIOUS
<1>1. /\ size = <<>> /\ sent = <<>> /\ sendPc = "len" /\ wire = <<>> /\ inbuf = <<>>
      /\ recvPc = "idle" /\ head = Cleared /\ msg = Cleared /\ pbHead = 0 /\ breaks = 0
      /\ open = TRUE /\ torn = FALSE
    BY DEF Init
<1>2. IsBuffer(head) /\ IsBuffer(msg) /\ IsSequence(wire) /\ IsSequence(inbuf)
    BY <1>1, ClearedIsBuffer, EmptyIsSequence
<1>3. size \in Seq(Sizes) /\ Len(size) = 0 /\ sent \in Seq(Messages)
    BY <1>1, EmptySeq
<1>7. open \in BOOLEAN /\ torn \in BOOLEAN
    BY <1>1
<1>8. 0 \in 0 .. MaxBreaks /\ 0 <= MaxFrames
    BY BoundsAssumption
<1>4. TypeOK
    BY <1>1, <1>2, <1>3, <1>7, <1>8 DEF TypeOK, IsBuffer
<1>5. HeadFirst
    BY <1>1 DEF HeadFirst, Cleared
<1>6. Handed /\ Closed
    BY <1>1, EmptyIsSequence, EmptySeq DEF Init, Handed, Closed
<1> QED
    BY <1>1, <1>2, <1>4, <1>5, <1>6 DEF Inv

LEMMA InvSend ==
    ASSUME Inv, Send
    PROVE  Inv'
<1>1. /\ size \in Seq(Sizes) /\ Len(size) \in Nat /\ Len(size) <= MaxFrames /\ MaxFrames \in Nat
      /\ sent \in Seq(Messages) /\ pbHead \in 0 .. Len(size) /\ IsSequence(wire)
    BY LenProperties, BoundsAssumption DEF Inv, TypeOK
<1>2. UNCHANGED <<inbuf, recvPc, head, msg, pbHead, open, torn, breaks>>
    BY DEF Send, SendLen, SendHead, SendBody, GiveUp, recvVars, connVars
<1>3. /\ size' \in Seq(Sizes) /\ Len(size') <= MaxFrames /\ sent' \in Seq(Messages)
      /\ Len(size) <= Len(size') /\ Len(size') \in Nat
    <2>1. CASE SendLen
        <3>1. PICK s \in Sizes : size' = Append(size, s)
            BY <2>1 DEF SendLen
        <3>2. size' \in Seq(Sizes) /\ Len(size') = Len(size) + 1
            BY <1>1, <3>1, AppendProperties
        <3>3. Len(size) + 1 \in Messages
            BY <1>1, <2>1 DEF SendLen, Messages
        <3>4. sent' \in Seq(Messages)
            BY <1>1, <2>1, <3>3, AppendProperties DEF SendLen, Sending
        <3> QED
            BY <1>1, <2>1, <3>2, <3>4 DEF SendLen
    <2>2. CASE SendHead \/ SendBody \/ GiveUp
        BY <1>1, <2>2 DEF SendHead, SendBody, GiveUp
    <2> QED
        BY <2>1, <2>2 DEF Send
<1>4. IsSequence(wire')
    <2>1. ASSUME NEW m, NEW part, NEW n \in Nat, wire' = wire \o Bytes(m, part, n)
          PROVE  IsSequence(wire')
        BY <1>1, <2>1, BytesAreSequences, Joined DEF IsSequence
    <2>2. SendBody => size[Sending] \in Nat
        <3>1. SendBody => Len(size) # 0
            BY DEF SendBody, Inv
        <3>2. ASSUME Len(size) # 0
              PROVE  size[Sending] \in Sizes
            <4>1. PICK n \in 1 .. Len(size) : n = Len(size)
                BY <1>1, <3>2
            <4>2. size[n] \in Sizes
                BY <1>1, ElementOfSeq
            <4> QED
                BY <4>1, <4>2 DEF Sending
        <3> QED
            BY <3>1, <3>2, SizesAssumption
    <2> QED
        BY <1>1, <2>1, <2>2 DEF Send, SendLen, SendHead, SendBody, GiveUp, LenSize, HeadSize
<1>5. sendPc' \in {"len", "head", "body"}
    BY DEF Send, SendLen, SendHead, SendBody, GiveUp
<1>6. sendPc' # "len" => Len(size') # 0
    <2>1. ASSUME NEW s \in Sizes, size' = Append(size, s)
          PROVE  Len(size') # 0
        BY <1>1, <2>1, AppendProperties
    <2> QED
        BY <2>1 DEF Send, SendLen, SendHead, SendBody, GiveUp, Inv
<1>7. Handed'
    <2>1. UNCHANGED delivered
        BY DEF Send, SendLen, SendHead, SendBody, GiveUp, recvVars
    <2>2. \A h \in 1 .. Len(size) : h \in 1 .. Len(size')
        BY <1>1, <1>3
    <2> QED
        BY <2>1, <2>2 DEF Inv, Handed
<1>8. Closed'
    BY <1>2 DEF Send, SendLen, SendHead, SendBody, GiveUp, Inv, Closed
<1> QED
    BY <1>1, <1>2, <1>3, <1>4, <1>5, <1>6, <1>7, <1>8 DEF Inv, TypeOK, HeadFirst, Recved

LEMMA InvReceive ==
    ASSUME Inv, Receive
    PROVE  Inv'
<1>1. /\ UNCHANGED <<size, sent, sendPc, head, msg, pbHead, open, torn, breaks>>
      /\ recvPc' = "len"
    BY DEF Receive, connVars
<1>2. IsSequence(inbuf') /\ IsSequence(wire')
    <2>1. PICK n \in 1 .. Len(wire) : /\ inbuf' = inbuf \o SubSeq(wire, 1, n)
                                      /\ wire' = SubSeq(wire, n + 1, Len(wire))
        BY DEF Receive
    <2>2. PICK S : wire \in Seq(S)
        BY DEF Inv, IsSequence
    <2>3. n \in Nat /\ n <= Len(wire) /\ Len(wire) \in Nat
        BY <2>2, LenProperties
    <2>4. SubSeq(wire, 1, n) \in Seq(S) /\ SubSeq(wire, n + 1, Len(wire)) \in Seq(S)
        <3>1. \A i \in 1 .. Len(wire) : wire[i] \in S
            BY <2>2, ElementOfSeq
        <3> QED
            BY <2>2, <2>3, <3>1, SubSeqProperties
    <2>5. PICK p : p = SubSeq(wire, 1, n)
        OBVIOUS
    <2>6. IsSequence(inbuf \o p)
        BY <2>4, <2>5, Joined DEF Inv, IsSequence
    <2> QED
        BY <2>1, <2>4, <2>5, <2>6 DEF IsSequence
<1>3. Handed'
    BY <1>1 DEF Receive, Inv, Handed
<1>4. Closed'
    <2>1. wire # <<>>
        BY EmptySeq DEF Receive
    <2> QED
        BY <1>1, <2>1 DEF Inv, Closed
<1> QED
    BY <1>1, <1>2, <1>3, <1>4 DEF Inv, TypeOK, HeadFirst, Recved

LEMMA InvCloseBev ==
    ASSUME Inv, CloseBev
    PROVE  Inv'
<1>1. /\ wire' = <<>> /\ inbuf' = <<>> /\ sendPc' \in {sendPc, "len"}
      /\ open' = FALSE /\ breaks' = breaks + 1 /\ breaks < MaxBreaks
      /\ UNCHANGED <<size, sent, recvPc, head, msg, pbHead, torn>>
    BY DEF CloseBev, recvVars
<1>2. breaks' \in 0 .. MaxBreaks
    BY <1>1, BoundsAssumption DEF Inv, TypeOK
<1>3. Handed' /\ Closed'
    BY <1>1 DEF CloseBev, recvVars, Inv, Handed, Closed
<1> QED
    BY <1>1, <1>2, <1>3, EmptyIsSequence DEF Inv, TypeOK, HeadFirst, Recved

LEMMA InvConnect ==
    ASSUME Inv, Connect
    PROVE  Inv'
<1>1. /\ sent' = <<>> /\ open' = TRUE /\ torn' \in BOOLEAN
      /\ UNCHANGED <<size, sendPc, wire, inbuf, recvPc, breaks>>
    BY DEF Connect
<1>2. IsBuffer(head') /\ IsBuffer(msg') /\ pbHead' \in 0 .. Len(size)
    <2>1. /\ head' \in {head, Cleared} /\ msg' \in {msg, Cleared} /\ pbHead' \in {pbHead, 0}
        BY DEF Connect, Renewed
    <2>2. Len(size) \in Nat
        BY LenProperties DEF Inv, TypeOK
    <2> QED
        BY <2>1, <2>2, ClearedIsBuffer DEF Inv, TypeOK
<1>3. sent' \in Seq(Messages)
    BY <1>1, EmptySeq
<1>4. HeadFirst'
    <2>1. recvPc = "idle" /\ (UNCHANGED <<head, msg>> \/ (head' = Cleared /\ msg' = Cleared))
        BY DEF Connect, Renewed, Inv, Closed
    <2> QED
        BY <1>1, <2>1 DEF Inv, HeadFirst, Recved, Cleared
<1>5. Handed' /\ Closed'
    <2>1. delivered' = <<>> /\ Len(<<>>) = 0
        BY EmptySeq DEF Connect
    <2> QED
        BY <1>1, <2>1, EmptyIsSequence DEF Handed, Closed
<1> QED
    BY <1>1, <1>2, <1>3, <1>4, <1>5, EmptyIsSequence DEF Inv, TypeOK, IsBuffer

LEMMA InvRecv ==
    ASSUME Inv, Recv
    PROVE  Inv'
<1>1. UNCHANGED <<size, sent, sendPc, wire, open, torn, breaks>>
    BY DEF Recv, RecvLen, RecvHead, RecvBody, Dispatch, connVars
<1>2. IsSequence(inbuf) /\ IsBuffer(head) /\ IsBuffer(msg) /\ pbHead \in 0 .. Len(size)
    BY DEF Inv, TypeOK
<1>3. IsBuffer(Fill(head)) /\ Wanted(head) \in Nat /\ Fill(head).size = head.size
    BY <1>2, Filled
<1>4. IsBuffer(Fill(msg)) /\ Wanted(msg) \in Nat
    BY <1>2, Filled
<1>5. ASSUME NEW n \in Nat, Read(n)
      PROVE  IsSequence(inbuf')
    BY <1>2, <1>5, ReadKeepsSequence
<1>6. SUFFICES /\ IsSequence(inbuf') /\ IsBuffer(head') /\ IsBuffer(msg')
               /\ recvPc' \in {"idle", "len", "head", "body", "test"} /\ pbHead' \in 0 .. Len(size)
               /\ HeadFirst'
    <2>1. Handed'
        <3>1. CASE UNCHANGED delivered
            BY <1>1, <3>1 DEF Inv, Handed
        <3>2. CASE Dispatch /\ ~UNCHANGED delivered
            <4>1. PICK b : /\ b = [head |-> pbHead, data |-> msg.data] /\ pbHead # 0
                           /\ delivered' = Append(delivered, b)
                BY <3>2 DEF Dispatch
            <4>2. PICK S : delivered \in Seq(S)
                BY DEF Inv, Handed, IsSequence
            <4>3. PICK T : T = S \cup {b}
                OBVIOUS
            <4>4. delivered \in Seq(T) /\ b \in T
                <5>1. S \subseteq T
                    BY <4>3
                <5> QED
                    BY <4>2, <4>3, <5>1, SeqMonotonic
            <4>5. PICK l \in Nat : l = Len(delivered)
                BY <4>2, LenProperties
            <4>6. /\ IsSequence(delivered') /\ Len(delivered') = l + 1 /\ delivered'[l + 1] = b
                  /\ \A i \in 1 .. l : delivered'[i] = delivered[i]
                BY <4>1, <4>4, <4>5, AppendProperties DEF IsSequence
            <4>7. b.head \in 1 .. Len(size)
                <5>1. Len(size) \in Nat
                    BY LenProperties DEF Inv, TypeOK
                <5> QED
                    BY <1>2, <4>1, <5>1
            <4>8. ASSUME NEW i \in 1 .. l + 1
                  PROVE  delivered'[i].head \in 1 .. Len(size)
                <5>1. CASE i \in 1 .. l
                    BY <4>5, <4>6, <5>1 DEF Inv, Handed
                <5>2. CASE i = l + 1
                    BY <4>6, <4>7, <5>2
                <5> QED
                    BY <5>1, <5>2
            <4> QED
                BY <1>1, <4>6, <4>8 DEF Handed
        <3> QED
            BY <3>1, <3>2 DEF Recv, RecvLen, RecvHead, RecvBody
    <2>2. Closed'
        BY <1>1 DEF Recv, RecvLen, RecvHead, RecvBody, Dispatch, Inv, Closed
    <2> QED
        BY <1>1, <2>1, <2>2 DEF Inv, TypeOK, IsBuffer
<1>7. CASE RecvLen
    <2>1. pbHead' = pbHead /\ recvPc' \in {"idle", "head"}
        BY <1>7 DEF RecvLen, Fail
    <2>2. UNCHANGED inbuf \/ Read(LenSize)
        BY <1>7 DEF RecvLen
    <2>3. \/ UNCHANGED head
          \/ head' = Cleared
          \/ \E n : n > 0 /\ n <= MaxMsgSize /\ n \in {0, 1, HeadSize, MaxMsgSize + 1}
                    /\ head' = [size |-> n, data |-> <<>>]
        BY <1>7 DEF RecvLen, Fail, LenRead
    <2>4. msg' \in {msg, Cleared}
        BY <1>7 DEF RecvLen, Fail
    <2>5. ASSUME NEW n, n > 0, n <= MaxMsgSize, n \in {0, 1, HeadSize, MaxMsgSize + 1}
          PROVE  n \in 0 .. MaxMsgSize
        BY <2>5, MaxMsgSizeAssumption DEF HeadSize
    <2>6. HeadFirst'
        <3>1. CASE head' = Cleared /\ msg' = Cleared /\ recvPc' = "idle"
            BY <3>1 DEF HeadFirst, Cleared
        <3>2. CASE UNCHANGED <<head, msg>> /\ head.size # 0 /\ recvPc' = "head"
            BY <3>2 DEF Inv, HeadFirst, Recved
        <3>3. ASSUME NEW n, n > 0, head' = [size |-> n, data |-> <<>>], head.size = 0,
                     UNCHANGED msg, recvPc' = "head", n \in {0, 1, HeadSize, MaxMsgSize + 1}
              PROVE  HeadFirst'
            <4>1. msg.data = <<>>
                BY <3>3 DEF Inv, HeadFirst
            <4>2. head'.size # 0
                BY <3>3, MaxMsgSizeAssumption DEF HeadSize
            <4> QED
                BY <3>3, <4>1, <4>2 DEF HeadFirst
        <3> QED
            BY <1>7, <3>1, <3>2, <3>3 DEF RecvLen, Fail, LenRead
    <2> QED
        BY <1>2, <1>5, <2>1, <2>2, <2>3, <2>4, <2>5, <2>6, ClearedIsBuffer, NewBuffer DEF LenSize
<1>8. CASE RecvHead
    <2>1. UNCHANGED inbuf \/ Read(Wanted(head))
        BY <1>8 DEF RecvHead
    <2>2. head' \in {head, Fill(head), Cleared} /\ recvPc' \in {"idle", "body", "test"}
        BY <1>8 DEF RecvHead, Fail
    <2>3. pbHead' = pbHead \/ pbHead' \in 1 .. Len(size)
        BY <1>8 DEF RecvHead, HeadOf
    <2>4. \/ msg' = msg /\ Recved(head) /\ head' = head /\ recvPc' = "body"
          \/ ~Recved(head) /\ msg' = Cleared /\ head' = Cleared /\ recvPc' = "idle"
          \/ ~Recved(head) /\ head' = Fill(head) /\ recvPc' = "test"
                /\ msg' \in {msg, [msg EXCEPT !.size = 0]}
          \/ ~Recved(head) /\ head' = Fill(head) /\ recvPc' = "body" /\ Recved(Fill(head))
                /\ \E n \in 1 .. MaxMsgSize : msg' = [size |-> n, data |-> <<>>]
        BY <1>8 DEF RecvHead, Fail
    <2>5. head.size # 0
        BY <1>8 DEF RecvHead, Inv, HeadFirst
    <2>6. ~Recved(head) => msg.data = <<>>
        BY DEF Inv, HeadFirst
    <2>7. msg.data = <<>> => IsBuffer([msg EXCEPT !.size = 0]) /\ [msg EXCEPT !.size = 0].data = <<>>
        <3>1. ASSUME msg.data = <<>>
              PROVE  [msg EXCEPT !.size = 0] = [size |-> 0, data |-> <<>>]
            BY <1>2, <3>1 DEF IsBuffer
        <3>2. 0 \in 0 .. MaxMsgSize
            BY MaxMsgSizeAssumption
        <3> QED
            BY <3>1, <3>2, NewBuffer
    <2>8. IsBuffer(msg')
        BY <1>2, <2>4, <2>6, <2>7, ClearedIsBuffer, NewBuffer
    <2>9. HeadFirst'
        <3>1. CASE msg' = msg /\ Recved(head) /\ head' = head /\ recvPc' = "body"
            BY <2>5, <3>1 DEF HeadFirst, Recved
        <3>2. CASE msg' = Cleared /\ recvPc' = "idle"
            BY <3>2 DEF HeadFirst, Cleared
        <3>3. CASE ~Recved(head) /\ head' = Fill(head) /\ recvPc' = "test"
                     /\ msg' \in {msg, [msg EXCEPT !.size = 0]}
            BY <2>6, <2>7, <3>3 DEF HeadFirst
        <3>4. CASE ~Recved(head) /\ head' = Fill(head) /\ recvPc' = "body" /\ Recved(Fill(head))
                     /\ \E n \in 1 .. MaxMsgSize : msg' = [size |-> n, data |-> <<>>]
            <4>1. Recved(head') /\ head'.size # 0 /\ msg'.data = <<>>
                BY <1>3, <2>5, <3>4
            <4>2. Recved(head)'
                BY <4>1 DEF Recved
            <4> QED
                BY <4>1, <4>2 DEF HeadFirst
        <3> QED
            BY <2>4, <3>1, <3>2, <3>3, <3>4
    <2> QED
        BY <1>2, <1>3, <1>5, <2>1, <2>2, <2>3, <2>8, <2>9, ClearedIsBuffer
<1>9. CASE RecvBody
    <2>1. UNCHANGED <<head, pbHead>> /\ recvPc' = "test" /\ recvPc = "body"
        BY <1>9 DEF RecvBody
    <2>2. (UNCHANGED inbuf \/ Read(Wanted(msg))) /\ msg' \in {msg, Fill(msg)}
        BY <1>9 DEF RecvBody
    <2>3. HeadFirst'
        BY <2>1 DEF Inv, HeadFirst, Recved
    <2> QED
        BY <1>2, <1>4, <1>5, <2>1, <2>2, <2>3
<1>10. CASE Dispatch
    <2>1. HeadFirst'
        BY <1>10 DEF Dispatch, Inv, HeadFirst, Recved, Cleared
    <2> QED
        BY <1>2, <1>10, <2>1, ClearedIsBuffer DEF Dispatch
<1> QED
    BY <1>7, <1>8, <1>9, <1>10 DEF Recv

LEMMA InvStep == Inv /\ [Next]_vars => Inv'
<1>1. Inv /\ UNCHANGED vars => Inv'
    BY DEF Inv, TypeOK, HeadFirst, Handed, Closed, Recved, vars, recvVars, connVars
<1> QED
    BY <1>1, InvSend, InvReceive, InvCloseBev, InvConnect, InvRecv DEF Next

\* However the network cuts the stream, whatever a wrong length word says and
\* whatever is left in the object of a lost connection: recvMsg never writes
\* behind the end of head_ or msg_, and never allocates more than MAX_MSG_SIZE.
THEOREM TypeCorrect == Spec => []TypeOK
<1>1. Inv => TypeOK
    BY DEF Inv
<1> QED
    BY <1>1, InvInit, InvStep, PTL DEF Spec

-----------------------------------------------------------------------------
(* The stream: where the bytes of each message are.                        *)

Parts == {"len", "head", "body"}
Byte == Nat \X Parts \X Nat

\* What the promise rests on: the services send what fits into a message, every
\* connection has an object of its own, and the network cuts no length word, and
\* no head but that of the first message of an object.
Promise ==
    Sizes \subseteq 0 .. MaxMsgSize /\ FreshHandle /\ ~LenCuts /\ HeadCuts # "any"

\* A part of message m begins after Offset bytes and has PartSize of them; y is
\* the size of the bodies.
Offset(p) == IF p = "len" THEN 0 ELSE IF p = "head" THEN LenSize ELSE LenSize + HeadSize
PartSize(y, m, p) == IF p = "len" THEN LenSize ELSE IF p = "head" THEN HeadSize ELSE y[m]

\* Message m begins after place at[m] of the unread bytes: before them if at[m]
\* is negative, behind them if it is yet to be written.
Ends(y, at) ==
    /\ at \in [Nat -> Int]
    /\ \A m \in 1 .. Len(y) : at[m + 1] = at[m] + LenSize + HeadSize + y[m]
    /\ \A m, n \in 1 .. Len(y) + 1 : m <= n => at[m] <= at[n]

\* Each byte is in its place.
Placed(y, at, e) ==
    \A m \in 1 .. Len(y), p \in Parts, k \in Nat \ {0} :
        LET i == at[m] + Offset(p) + k
        IN  k <= PartSize(y, m, p) /\ i \in 1 .. Len(e) => e[i] = <<m, p, k>>

\* The messages of the connection: the first, and the one delivered next.
First == Sending - Len(sent) + 1
Due == First + Len(delivered)

Unread == inbuf \o wire

\* Where sendMsg goes on.
Written(at) ==
    Len(Unread) = IF sendPc = "len" THEN at[Sending + 1] ELSE at[Sending] + Offset(sendPc)

\* Where the bytes end that have arrived: not within a head, but for the first.
WellCut(at) ==
    \A m \in (1 .. Sending) \cap (Due .. Sending) :
        \/ Len(inbuf) <= at[m] \/ Len(inbuf) >= at[m] + LenSize + HeadSize
        \/ m = First /\ Len(inbuf) >= at[m] + LenSize

\* Where recvMsg is: between two messages, ...
AtStart(at) ==
    /\ recvPc \in {"idle", "len"} /\ head = Cleared /\ msg = Cleared
    /\ pbHead = 0 <=> delivered = <<>>
    /\ at[Due] = 0

\* ... with n bytes of a head, ...
InHead(at, n) ==
    /\ recvPc # "body" /\ msg = Cleared /\ n < HeadSize
    /\ head = [size |-> HeadSize, data |-> Bytes(Due, "head", n)]
    /\ pbHead = 0 <=> delivered = <<>>
    /\ delivered = <<>> \/ recvPc = "head"
    /\ at[Due] = - (LenSize + n)

\* ... or with the head and k bytes of the body.
InBody(at, k) ==
    /\ Due <= Sending /\ pbHead = Due
    /\ head = [size |-> HeadSize, data |-> Bytes(Due, "head", HeadSize)]
    /\ k <= size[Due] /\ (k = size[Due] => recvPc = "test")
    /\ msg = [size |-> size[Due], data |-> Bytes(Due, "body", k)]
    /\ at[Due] = - (LenSize + HeadSize + k)

Reading(at) == AtStart(at) \/ \E n \in Nat : InHead(at, n) \/ InBody(at, n)

\* The messages of a connection are numbered one after the other, and delivered
\* so, each with its body.
Numbered ==
    /\ Len(delivered) <= Len(sent) /\ Len(sent) <= Sending
    /\ sendPc # "len" => Len(sent) # 0
    /\ \A i \in 1 .. Len(sent) : sent[i] = First + i - 1
    /\ \A i \in 1 .. Len(delivered) :
           delivered[i] = [head |-> First + i - 1, data |-> BodyOf(First + i - 1)]

StreamAt(at) ==
    /\ Ends(size, at) /\ Placed(size, at, Unread)
    /\ Written(at) /\ WellCut(at) /\ Reading(at)

StreamInv ==
    /\ Inv /\ Numbered
    /\ inbuf \in Seq(Byte) /\ wire \in Seq(Byte)
    /\ IsSequence(delivered)
    /\ \E at : StreamAt(at)

\* All messages sent so far, on any connection, one after the other.
Chained == \E at : Ends(size, at)

\* The stream of a connection that began with a message is as above while the
\* connection is there; when it is lost, what was delivered remains.
Streaming ==
    /\ Inv /\ Chained
    /\ open /\ ~torn => StreamInv
    /\ ~open => WholeMessages

-----------------------------------------------------------------------------
(* What the parts of the stream do, for any stream.                        *)

LEMMA Sizing ==
    ASSUME NEW y \in Seq(Nat), NEW m \in 1 .. Len(y), NEW p \in Parts
    PROVE  PartSize(y, m, p) \in Nat /\ Offset(p) \in Nat
<1>1. y[m] \in Nat
    BY ElementOfSeq
<1> QED
    BY <1>1 DEF PartSize, Offset, Parts, LenSize, HeadSize

\* Where a part ends is within its message.
LEMMA PartWithin ==
    ASSUME NEW y \in Seq(Nat), NEW at, Ends(y, at), NEW m \in 1 .. Len(y), NEW p \in Parts
    PROVE  at[m] + Offset(p) + PartSize(y, m, p) <= at[m + 1] /\ at[m] \in Int /\ at[m + 1] \in Int
<1>1. y[m] \in Nat /\ m \in Nat /\ m + 1 \in Nat
    BY ElementOfSeq
<1>2. at[m + 1] = at[m] + LenSize + HeadSize + y[m] /\ at[m] \in Int /\ at[m + 1] \in Int
    BY <1>1 DEF Ends
<1>3. PICK x \in Int, z \in Int, v \in Nat : x = at[m] /\ z = at[m + 1] /\ v = y[m]
    BY <1>1, <1>2
<1>4. z = x + 2 + 2 + v
    BY <1>2, <1>3 DEF LenSize, HeadSize
<1>5. CASE p = "len"
    BY <1>3, <1>4, <1>5 DEF PartSize, Offset, LenSize
<1>6. CASE p = "head"
    BY <1>3, <1>4, <1>6 DEF PartSize, Offset, LenSize, HeadSize
<1>7. CASE p = "body"
    BY <1>3, <1>4, <1>7 DEF PartSize, Offset, LenSize, HeadSize
<1> QED
    BY <1>5, <1>6, <1>7 DEF Parts

\* Nothing of an earlier message, or of another part, is among new bytes.
LEMMA BehindAll ==
    ASSUME NEW x \in Int, NEW next \in Int, NEW last \in Int, NEW o \in Nat, NEW r \in Nat,
           NEW k \in Nat, NEW w \in Nat, k <= w, x + o + w <= next, next <= last
    PROVE  ~(x + o + k > last + r)
OBVIOUS

\* Parts do not overlap.
LEMMA OnePart ==
    ASSUME NEW y \in Seq(Nat), NEW m \in 1 .. Len(y), NEW p \in Parts, NEW q \in Parts,
           NEW k \in Nat \ {0}, k <= PartSize(y, m, q),
           Offset(q) + k > Offset(p), Offset(q) + k <= Offset(p) + PartSize(y, m, p)
    PROVE  q = p
<1>1. y[m] \in Nat
    BY ElementOfSeq
<1>2. PICK w \in Nat : w = y[m]
    BY <1>1
<1> QED
    BY <1>2 DEF Offset, PartSize, Parts, LenSize, HeadSize

\* writeMsg writes part p of the last message.
LEMMA PlacedAppended ==
    ASSUME NEW y \in Seq(Nat), NEW at, Ends(y, at), Len(y) # 0, NEW p \in Parts,
           NEW e \in Seq(Byte), Placed(y, at, e), Len(e) = at[Len(y)] + Offset(p),
           NEW b \in Seq(Byte), Len(b) = PartSize(y, Len(y), p),
           \A i \in 1 .. Len(b) : b[i] = <<Len(y), p, i>>
    PROVE  Placed(y, at, e \o b)
<1>1. PICK l, n, f : l = Len(y) /\ n = Len(e) /\ f = e \o b
    OBVIOUS
<1>2. l \in 1 .. Len(y) /\ n \in Nat /\ Len(b) \in Nat /\ Len(y) \in Nat
    BY <1>1, LenProperties
<1>3. Len(f) = n + Len(b) /\ \A i \in 1 .. n + Len(b) : f[i] = IF i <= n THEN e[i] ELSE b[i - n]
    BY <1>1, ConcatProperties
<1>10. SUFFICES Placed(y, at, f)
    BY <1>1
<1>0. SUFFICES ASSUME NEW m \in 1 .. Len(y), NEW q \in Parts, NEW k \in Nat \ {0}, NEW i,
                      i = at[m] + Offset(q) + k, k <= PartSize(y, m, q), i \in 1 .. Len(f)
               PROVE  f[i] = <<m, q, k>>
    BY Zenon DEF Placed
<1>4. CASE i <= n
    <2>2. i \in 1 .. n + Len(b) /\ i \in 1 .. n
        BY <1>0, <1>2, <1>3, <1>4
    <2>1. i \in 1 .. Len(e) /\ f[i] = e[i]
        BY <1>1, <1>3, <1>4, <2>2
    <2> QED
        BY <1>0, <2>1 DEF Placed
<1>5. CASE i > n
    <2>1. PICK x, next, last, o, r, w, v :
              /\ x = at[m] /\ next = at[m + 1] /\ last = at[l] /\ o = Offset(q) /\ r = Offset(p)
              /\ w = PartSize(y, m, q) /\ v = PartSize(y, l, p)
        OBVIOUS
    <2>2. /\ x \in Int /\ next \in Int /\ last \in Int /\ o \in Nat /\ r \in Nat /\ w \in Nat
          /\ v \in Nat
        <3>1. o \in Nat /\ r \in Nat /\ w \in Nat /\ v \in Nat
            BY <1>2, <2>1, Sizing
        <3>2. x \in Int /\ next \in Int
            BY <2>1, PartWithin
        <3>3. last \in Int
            BY <1>2, <2>1, PartWithin
        <3> QED
            BY <3>1, <3>2, <3>3
    <2>3. x + o + w <= next
        BY <2>1, PartWithin
    <2>4. n = last + r /\ Len(b) = v
        BY <1>1, <2>1
    <2>5. i = x + o + k /\ k <= w /\ k \in Nat
        BY <1>0, <2>1
    <2>6. m = l
        <3>1. SUFFICES ASSUME m < l PROVE FALSE
            BY <1>1, <1>2
        <3>2. m + 1 <= l /\ m + 1 \in 1 .. Len(y) + 1 /\ l \in 1 .. Len(y) + 1
            BY <1>1, <1>2, <3>1
        <3>3. next <= last
            BY <2>1, <3>2 DEF Ends
        <3> QED
            BY <1>5, <2>2, <2>3, <2>4, <2>5, <3>3, BehindAll
    <2>7. x = last /\ i <= n + v
        BY <1>0, <1>2, <1>3, <2>1, <2>4, <2>6
    <2>8. o + k > r /\ o + k <= r + v
        BY <1>5, <2>2, <2>4, <2>5, <2>7
    <2>9. q = p
        <3>1. Offset(q) + k > Offset(p) /\ Offset(q) + k <= Offset(p) + PartSize(y, m, p)
            BY <2>1, <2>6, <2>8
        <3> QED
            BY <1>0, <3>1, OnePart
    <2>10. o = r /\ v = w
        BY <2>1, <2>6, <2>9
    <2>11. i - n = k /\ k \in 1 .. Len(b)
        BY <2>2, <2>4, <2>5, <2>7, <2>10
    <2>12. i \in 1 .. n + Len(b) /\ ~(i <= n)
        BY <1>0, <1>2, <1>3, <1>5
    <2>13. f[i] = b[k]
        BY <1>3, <2>11, <2>12
    <2> QED
        BY <1>1, <2>6, <2>9, <2>11, <2>13
<1> QED
    <2>1. i \in Int
        BY <1>0, <1>2, <1>3
    <2> QED
        BY <1>2, <1>4, <1>5, <2>1

\* sendMsg begins a message of size s.
LEMMA PlacedBegun ==
    ASSUME NEW y \in Seq(Nat), NEW at, Ends(y, at), NEW s \in Nat,
           NEW e \in Seq(Byte), Placed(y, at, e), Len(e) = at[Len(y) + 1]
    PROVE  \E to \in [Nat -> Int] :
               /\ Ends(Append(y, s), to) /\ Placed(Append(y, s), to, e)
               /\ \A m \in 1 .. Len(y) + 1 : to[m] = at[m]
<1>1. PICK l, z : l = Len(y) /\ z = Append(y, s)
    OBVIOUS
<1>2. PICK v : v = at[l + 1] + LenSize + HeadSize + s
    OBVIOUS
<1>3. PICK to : to = [at EXCEPT ![l + 2] = v]
    OBVIOUS
<1>4. l \in Nat /\ Len(z) = l + 1 /\ z \in Seq(Nat) /\ z[l + 1] = s
      /\ \A m \in 1 .. l : z[m] = y[m]
    BY <1>1, LenProperties, AppendProperties
<1>5. at \in [Nat -> Int] /\ at[l + 1] \in Int /\ v \in Int /\ at[l + 1] <= v
    <2>1. at \in [Nat -> Int] /\ l + 1 \in Nat
        BY <1>4 DEF Ends
    <2>2. PICK x \in Int : x = at[l + 1]
        BY <2>1
    <2>3. v = x + 2 + 2 + s
        BY <1>2, <2>2 DEF LenSize, HeadSize
    <2>4. v \in Int /\ x <= v
        BY <2>2, <2>3
    <2> QED
        BY <2>1, <2>2, <2>4
<1>6. to \in [Nat -> Int] /\ to[l + 2] = v /\ \A m \in 1 .. l + 1 : to[m] = at[m]
    BY <1>3, <1>4, <1>5
<1>7. Ends(z, to)
    <2>1. \A m \in 1 .. l : at[m + 1] = at[m] + LenSize + HeadSize + y[m]
        BY <1>1 DEF Ends
    <2>2. \A m, n \in 1 .. l + 1 : m <= n => at[m] <= at[n]
        BY <1>1 DEF Ends
    <2>3. ASSUME NEW m \in 1 .. l + 1
          PROVE  to[m + 1] = to[m] + LenSize + HeadSize + z[m]
        <3>1. CASE m \in 1 .. l
            <4>1. m \in 1 .. l + 1 /\ m + 1 \in 1 .. l + 1
                BY <1>4, <3>1
            <4> QED
                BY <1>4, <1>6, <2>1, <3>1, <4>1
        <3>2. CASE m = l + 1
            <4>1. m + 1 = l + 2
                BY <1>4, <3>2
            <4> QED
                BY <1>2, <1>4, <1>6, <3>2, <4>1
        <3> QED
            BY <1>4, <3>1, <3>2
    <2>4. ASSUME NEW m \in 1 .. l + 2, NEW n \in 1 .. l + 2, m <= n
          PROVE  to[m] <= to[n]
        <3>1. CASE n \in 1 .. l + 1
            <4>1. m \in 1 .. l + 1
                BY <1>4, <2>4, <3>1
            <4> QED
                BY <1>6, <2>2, <2>4, <3>1, <4>1
        <3>2. CASE n = l + 2 /\ m \in 1 .. l + 1
            <4>1. at[m] <= at[l + 1]
                BY <1>4, <2>2, <3>2
            <4>2. m \in Nat
                BY <3>2
            <4>3. PICK x \in Int, t \in Int : x = at[m] /\ t = at[l + 1]
                BY <1>5, <4>2
            <4>4. x <= t /\ t <= v
                BY <1>5, <4>1, <4>3
            <4>5. x <= v
                BY <1>5, <4>4
            <4> QED
                BY <1>6, <3>2, <4>3, <4>5
        <3>3. CASE n = l + 2 /\ m = l + 2
            BY <1>5, <1>6, <3>3
        <3> QED
            BY <1>4, <3>1, <3>2, <3>3
    <2> QED
        BY <1>4, <1>6, <2>3, <2>4 DEF Ends
<1>8. Placed(z, to, e)
    <2> SUFFICES ASSUME NEW m \in 1 .. Len(z), NEW q \in Parts, NEW k \in Nat \ {0}, NEW i,
                        i = to[m] + Offset(q) + k, k <= PartSize(z, m, q), i \in 1 .. Len(e)
                 PROVE  e[i] = <<m, q, k>>
        BY DEF Placed
    <2>1. CASE m \in 1 .. l
        <3>1. to[m] = at[m] /\ PartSize(z, m, q) = PartSize(y, m, q) /\ m \in 1 .. Len(y)
            BY <1>1, <1>4, <1>6, <2>1 DEF PartSize
        <3> QED
            BY <3>1 DEF Placed
    <2>2. CASE m = l + 1
        <3>1. to[m] = Len(e) /\ Offset(q) \in Nat
            BY <1>1, <1>4, <1>6, <2>2, Sizing
        <3>2. Len(e) \in Nat
            BY LenProperties
        <3> QED
            BY <3>1, <3>2
    <2> QED
        BY <1>4, <2>1, <2>2
<1> QED
    BY <1>1, <1>6, <1>7, <1>8

\* Concatenation, by places.
LEMMA ConcatAt ==
    ASSUME NEW S, NEW s \in Seq(S), NEW t \in Seq(S), NEW n, n = Len(s), NEW l, l = Len(t),
           NEW e, e = s \o t
    PROVE  /\ e \in Seq(S) /\ n \in Nat /\ l \in Nat /\ Len(e) = n + l
           /\ \A i \in 1 .. n : e[i] = s[i]
           /\ \A i \in 1 .. l : e[n + i] = t[i]
<1>1. n \in Nat /\ l \in Nat
    BY LenProperties
<1>2. e \in Seq(S) /\ Len(e) = n + l
      /\ \A i \in 1 .. n + l : e[i] = IF i <= n THEN s[i] ELSE t[i - n]
    BY ConcatProperties
<1>3. ASSUME NEW i \in 1 .. n
      PROVE  e[i] = s[i]
    BY <1>1, <1>2
<1>4. ASSUME NEW i \in 1 .. l
      PROVE  e[n + i] = t[i]
    <2>1. PICK j : j = n + i
        OBVIOUS
    <2>2. j \in 1 .. n + l /\ ~(j <= n) /\ j - n = i
        BY <1>1, <2>1
    <2>3. e[j] = t[j - n]
        BY <1>2, <2>2
    <2> QED
        BY <2>1, <2>2, <2>3
<1> QED
    BY <1>1, <1>2, <1>3, <1>4

\* A subsequence, by places.
LEMMA SubSeqAt ==
    ASSUME NEW S, NEW s \in Seq(S), NEW m \in Nat, NEW n \in Nat, m <= n, n <= Len(s),
           NEW e, e = SubSeq(s, m + 1, n)
    PROVE  e \in Seq(S) /\ Len(e) = n - m /\ \A i \in 1 .. n - m : e[i] = s[m + i]
<1>1. Len(s) \in Nat /\ \A i \in 1 .. Len(s) : s[i] \in S
    BY LenProperties, ElementOfSeq
<1>2. PICK k \in Nat : k = m + 1
    OBVIOUS
<1>3. \A i \in k .. n : s[i] \in S
    BY <1>1, <1>2
<1>4. /\ e \in Seq(S) /\ Len(e) = IF k <= n THEN n - k + 1 ELSE 0
      /\ \A i \in 1 .. n - k + 1 : e[i] = s[k + i - 1]
    BY <1>2, <1>3, SubSeqProperties
<1>5. Len(e) = n - m
    BY <1>2, <1>4
<1>6. ASSUME NEW i \in 1 .. n - m
      PROVE  e[i] = s[m + i]
    <2>1. i \in 1 .. n - k + 1 /\ k + i - 1 = m + i
        BY <1>2
    <2> QED
        BY <1>4, <2>1
<1> QED
    BY <1>4, <1>5, <1>6

\* The places when n bytes have been read.
Shifted(at, n) == [m \in Nat |-> at[m] - n]

\* Reading moves all places by as much.
LEMMA EndsShifted ==
    ASSUME NEW y \in Seq(Nat), NEW at, Ends(y, at), NEW n \in Int
    PROVE  /\ Ends(y, Shifted(at, n))
           /\ \A m \in Nat : Shifted(at, n)[m] = at[m] - n
<1>1. PICK to : to = Shifted(at, n)
    OBVIOUS
<1>2. at \in [Nat -> Int] /\ Len(y) \in Nat
    BY LenProperties DEF Ends
<1>3. \A m \in Nat : at[m] \in Int /\ to[m] = at[m] - n
    BY <1>1, <1>2 DEF Shifted
<1>4. to \in [Nat -> Int]
    BY <1>1, <1>2 DEF Shifted
<1>5. ASSUME NEW m \in 1 .. Len(y)
      PROVE  to[m + 1] = to[m] + LenSize + HeadSize + y[m]
    <2>0. m \in Nat /\ m + 1 \in Nat /\ y[m] \in Nat
        BY <1>2, ElementOfSeq
    <2>1. PICK x \in Int, z \in Int, v \in Nat : x = at[m] /\ z = at[m + 1] /\ v = y[m]
        BY <1>3, <2>0
    <2>2. z = x + 2 + 2 + v
        BY <2>1 DEF Ends, LenSize, HeadSize
    <2>3. to[m] = x - n /\ to[m + 1] = z - n
        BY <1>3, <2>0, <2>1
    <2>4. z - n = (x - n) + 2 + 2 + v
        BY <2>2
    <2> QED
        BY <2>1, <2>3, <2>4 DEF LenSize, HeadSize
<1>6. ASSUME NEW m \in 1 .. Len(y) + 1, NEW l \in 1 .. Len(y) + 1, m <= l
      PROVE  to[m] <= to[l]
    <2>1. m \in Nat /\ l \in Nat
        BY <1>2
    <2>2. PICK x \in Int, z \in Int : x = at[m] /\ z = at[l]
        BY <1>3, <2>1
    <2>3. x <= z
        BY <1>6, <2>2 DEF Ends
    <2>4. to[m] = x - n /\ to[l] = z - n
        BY <1>3, <2>1, <2>2
    <2> QED
        BY <2>2, <2>3, <2>4
<1> QED
    BY <1>1, <1>3, <1>4, <1>5, <1>6 DEF Ends

\* The sequence f is what e has after its first n elements.
IsRest(f, e, n) == Len(f) = Len(e) - n /\ \A i \in 1 .. Len(e) - n : f[i] = e[n + i]

\* What is left when n bytes have been read is in its place.
LEMMA PlacedRest ==
    ASSUME NEW y \in Seq(Nat), NEW at, Ends(y, at), NEW n \in Nat,
           NEW e \in Seq(Byte), Placed(y, at, e), NEW f \in Seq(Byte),
           IsRest(f, e, n)
    PROVE  Placed(y, Shifted(at, n), f)
<1>1. PICK to : to = Shifted(at, n)
    OBVIOUS
<1>2. Len(e) \in Nat /\ Len(f) \in Nat /\ \A m \in Nat : at[m] \in Int /\ to[m] = at[m] - n
    <2>1. \A m \in Nat : to[m] = at[m] - n
        BY <1>1 DEF Shifted
    <2> QED
        BY <2>1, LenProperties DEF Ends
<1>0. SUFFICES ASSUME NEW m \in 1 .. Len(y), NEW q \in Parts, NEW k \in Nat \ {0}, NEW i,
                      i = to[m] + Offset(q) + k, k <= PartSize(y, m, q), i \in 1 .. Len(f)
               PROVE  f[i] = <<m, q, k>>
    BY <1>1, Zenon DEF Placed
<1>3. PICK x \in Int, o \in Nat : x = at[m] /\ o = Offset(q)
    <2>1. m \in Nat /\ Offset(q) \in Nat
        BY Sizing
    <2> QED
        BY <1>2, <2>1
<1>4. i + n = x + o + k /\ i + n \in 1 .. Len(e)
    <2>1. to[m] = x - n
        BY <1>2, <1>3
    <2>2. PICK j \in Int : j = i
        BY <1>0, <1>2
    <2>3. j = (x - n) + o + k
        BY <1>0, <1>3, <2>1, <2>2
    <2>5. PICK u \in Nat, v \in Nat : u = Len(e) /\ v = Len(f)
        BY <1>2
    <2>6. v = u - n /\ j \in 1 .. v
        BY <1>0, <2>2, <2>5 DEF IsRest
    <2>7. j + n \in 1 .. u
        BY <2>5, <2>6
    <2>8. j + n = x + o + k
        <3>1. ASSUME NEW h \in Int, NEW c \in Int
              PROVE  ((x - c) + o + h) + c = x + o + h
            OBVIOUS
        <3>2. n \in Int /\ k \in Int
            OBVIOUS
        <3> QED
            BY <2>3, <3>1, <3>2
    <2>4. j + n = x + o + k /\ j + n \in 1 .. Len(e)
        BY <2>5, <2>7, <2>8
    <2> QED
        BY <2>2, <2>4
<1>5. e[i + n] = <<m, q, k>>
    BY <1>0, <1>3, <1>4 DEF Placed
<1>6. f[i] = e[n + i] /\ n + i = i + n
    <2>1. PICK j \in Nat, v \in Nat : j = i /\ v = Len(f)
        BY <1>0, <1>2
    <2>2. j \in 1 .. v /\ n + j = j + n
        BY <1>0, <2>1
    <2>3. \A h \in 1 .. v : f[h] = e[n + h]
        BY <2>1 DEF IsRest
    <2> QED
        BY <2>1, <2>2, <2>3
<1> QED
    BY <1>5, <1>6

LEMMA BytesTyped ==
    ASSUME NEW m \in Nat, NEW p \in Parts, NEW n \in Nat
    PROVE  /\ Bytes(m, p, n) \in Seq(Byte) /\ Len(Bytes(m, p, n)) = n
           /\ \A i \in 1 .. n : Bytes(m, p, n)[i] = <<m, p, i>>
<1>1. \A i \in 1 .. n : <<m, p, i>> \in Byte
    BY DEF Byte
<1> QED
    BY <1>1 DEF Bytes

LEMMA NoBytes ==
    ASSUME NEW m \in Nat, NEW p \in Parts
    PROVE  Bytes(m, p, 0) = <<>>
<1>1. Bytes(m, p, 0) \in Seq(Byte) /\ Len(Bytes(m, p, 0)) = 0
    BY BytesTyped
<1> QED
    BY <1>1, EmptySeq

\* A part that was read in two pieces.
LEMMA BytesJoined ==
    ASSUME NEW m \in Nat, NEW p \in Parts, NEW k \in Nat, NEW d \in Seq(Byte),
           \A i \in 1 .. Len(d) : d[i] = <<m, p, k + i>>
    PROVE  Bytes(m, p, k) \o d = Bytes(m, p, k + Len(d))
<1>1. PICK g, s, t : g = Len(d) /\ s = Bytes(m, p, k) \o d /\ t = Bytes(m, p, k + g)
    OBVIOUS
<1>2. g \in Nat /\ k + g \in Nat
    BY <1>1, LenProperties
<1>3. t \in Seq(Byte) /\ Len(t) = k + g /\ \A i \in 1 .. k + g : t[i] = <<m, p, i>>
    BY <1>1, <1>2, BytesTyped
<1>4. PICK b : b = Bytes(m, p, k)
    OBVIOUS
<1>5. b \in Seq(Byte) /\ Len(b) = k /\ \A i \in 1 .. k : b[i] = <<m, p, i>>
    BY <1>4, BytesTyped
<1>6. /\ s \in Seq(Byte) /\ Len(s) = k + g
      /\ \A i \in 1 .. k : s[i] = b[i]
      /\ \A i \in 1 .. g : s[k + i] = d[i]
    <2>1. PICK h : h = Len(b)
        OBVIOUS
    <2>2. /\ s \in Seq(Byte) /\ Len(s) = h + g
          /\ \A i \in 1 .. h : s[i] = b[i]
          /\ \A i \in 1 .. g : s[h + i] = d[i]
        <3>1. b \in Seq(Byte) /\ d \in Seq(Byte) /\ g = Len(d) /\ s = b \o d
            BY <1>1, <1>4, <1>5
        <3>2. s \in Seq(Byte)
            BY <2>1, <3>1, ConcatAt
        <3>3. Len(s) = h + g
            BY <2>1, <3>1, ConcatAt
        <3>4. \A i \in 1 .. h : s[i] = b[i]
            BY <2>1, <3>1, ConcatAt
        <3>5. \A i \in 1 .. g : s[h + i] = d[i]
            BY <2>1, <3>1, ConcatAt
        <3> QED
            BY <3>2, <3>3, <3>4, <3>5
    <2>3. h = k
        BY <1>5, <2>1
    <2> QED
        BY <2>2, <2>3
<1>7. ASSUME NEW i \in 1 .. k + g
      PROVE  s[i] = t[i]
    <2>1. CASE i <= k
        <3>1. i \in 1 .. k
            BY <2>1
        <3> QED
            BY <1>3, <1>5, <1>6, <3>1
    <2>2. CASE i > k
        <3>1. PICK j \in 1 .. g : i = k + j
            BY <1>2, <2>2
        <3>2. d[j] = <<m, p, i>>
            BY <1>1, <3>1
        <3> QED
            BY <1>3, <1>6, <3>1, <3>2
    <2> QED
        BY <1>2, <2>1, <2>2
<1>8. s = t
    BY <1>3, <1>6, <1>7, SeqEqual
<1> QED
    BY <1>1, <1>8

\* What is left of the first of two sequences, and the second.
LEMMA RestAt ==
    ASSUME NEW a \in Seq(Byte), NEW w \in Seq(Byte), NEW g \in Nat, g <= Len(a),
           NEW x \in Seq(Byte), IsRest(x, a, g)
    PROVE  IsRest(x \o w, a \o w, g)
<1>7. PICK e, f : e = a \o w /\ f = x \o w
    OBVIOUS
<1>1. PICK n, c, l : n = Len(a) /\ c = Len(x) /\ l = Len(w)
    OBVIOUS
<1>2. n \in Nat /\ l \in Nat /\ Len(e) = n + l
      /\ (\A i \in 1 .. n : e[i] = a[i]) /\ (\A i \in 1 .. l : e[n + i] = w[i])
    BY <1>1, <1>7, ConcatAt
<1>3. c \in Nat /\ Len(f) = c + l
      /\ (\A i \in 1 .. c : f[i] = x[i]) /\ (\A i \in 1 .. l : f[c + i] = w[i])
    BY <1>1, <1>7, ConcatAt
<1>4. c = n - g /\ \A i \in 1 .. c : x[i] = a[g + i]
    BY <1>1 DEF IsRest
<1>5. ASSUME NEW i \in 1 .. c + l
      PROVE  f[i] = e[g + i]
    <2>1. i \in Nat
        OBVIOUS
    <2>2. CASE i \in 1 .. c
        <3>1. g + i \in 1 .. n /\ g + i = i + g
            BY <1>2, <1>3, <1>4, <2>2
        <3> QED
            BY <1>2, <1>3, <1>4, <2>2, <3>1
    <2>3. CASE ~(i \in 1 .. c)
        <3>1. PICK j \in 1 .. l : j = i - c
            BY <1>2, <1>3, <2>1, <2>3
        <3>2. i = c + j /\ g + i = n + j
            <4>1. j \in Nat /\ i = c + j
                BY <1>2, <1>3, <2>1, <3>1
            <4>2. g + (c + j) = n + j
                BY <1>2, <1>3, <1>4, <4>1
            <4> QED
                BY <4>1, <4>2
        <3> QED
            BY <1>2, <1>3, <3>2
    <2> QED
        BY <2>2, <2>3
<1>6. Len(f) = Len(e) - g
    BY <1>2, <1>3, <1>4
<1>8. \A i \in 1 .. Len(e) - g : f[i] = e[g + i]
    BY <1>2, <1>3, <1>4, <1>5
<1> QED
    BY <1>6, <1>7, <1>8 DEF IsRest

\* recvMsg has read k bytes of part p of message m, and reads g more from a,
\* which leaves x.
PartIsRead(y, at, a, w, m, p, k, g, x) ==
    /\ x \in Seq(Byte) /\ Len(x) = Len(a) - g /\ Len(x \o w) = Len(a \o w) - g
    /\ Ends(y, Shifted(at, g)) /\ Placed(y, Shifted(at, g), x \o w)
    /\ \A l \in Nat : Shifted(at, g)[l] = at[l] - g
    /\ Bytes(m, p, k) \o SubSeq(a, 1, g) = Bytes(m, p, k + g)
    /\ SubSeq(a, 1, g) \in Seq(Byte) /\ Len(SubSeq(a, 1, g)) = g

LEMMA PartRead ==
    ASSUME NEW y \in Seq(Nat), NEW at, Ends(y, at), NEW a \in Seq(Byte), NEW w \in Seq(Byte),
           Placed(y, at, a \o w), NEW m \in 1 .. Len(y), NEW p \in Parts, NEW k \in Nat,
           at[m] + Offset(p) + k = 0, NEW g \in Nat, g <= Len(a), k + g <= PartSize(y, m, p),
           NEW x
    PROVE  x = SubSeq(a, g + 1, Len(a)) => PartIsRead(y, at, a, w, m, p, k, g, x)
<1>0. SUFFICES ASSUME x = SubSeq(a, g + 1, Len(a))
               PROVE  /\ x \in Seq(Byte) /\ Len(x) = Len(a) - g /\ Len(x \o w) = Len(a \o w) - g
                      /\ Ends(y, Shifted(at, g)) /\ Placed(y, Shifted(at, g), x \o w)
                      /\ \A l \in Nat : Shifted(at, g)[l] = at[l] - g
                      /\ Bytes(m, p, k) \o SubSeq(a, 1, g) = Bytes(m, p, k + g)
                      /\ SubSeq(a, 1, g) \in Seq(Byte) /\ Len(SubSeq(a, 1, g)) = g
    BY DEF PartIsRead
<1>1. PICK n, e, f, d : n = Len(a) /\ e = a \o w /\ f = x \o w /\ d = SubSeq(a, 1, g)
    OBVIOUS
<1>2. n \in Nat /\ Len(w) \in Nat /\ \A i \in 1 .. n : a[i] \in Byte
    BY <1>1, LenProperties, ElementOfSeq
<1>3. x \in Seq(Byte) /\ Len(x) = n - g /\ \A i \in 1 .. n - g : x[i] = a[g + i]
    <2>1. n \in Nat /\ g <= n /\ n <= Len(a) /\ x = SubSeq(a, g + 1, n)
        BY <1>0, <1>1, <1>2
    <2> QED
        BY <2>1, SubSeqAt
<1>4. d \in Seq(Byte) /\ Len(d) = g /\ \A i \in 1 .. g : d[i] = a[i]
    <2>1. d = SubSeq(a, 0 + 1, g)
        BY <1>1
    <2>2. d \in Seq(Byte) /\ Len(d) = g - 0 /\ \A i \in 1 .. g - 0 : d[i] = a[0 + i]
        <3>1. 0 <= g /\ g <= Len(a) /\ 0 \in Nat
            OBVIOUS
        <3> QED
            BY <2>1, <3>1, SubSeqAt
    <2>3. g - 0 = g /\ \A i \in 1 .. g : 0 + i = i
        OBVIOUS
    <2> QED
        BY <2>2, <2>3
<1>5. /\ e \in Seq(Byte) /\ Len(e) = n + Len(w)
      /\ \A i \in 1 .. n : e[i] = a[i]
      /\ \A i \in 1 .. Len(w) : e[n + i] = w[i]
    BY <1>1, ConcatAt
<1>7. IsRest(f, e, g) /\ Len(f) = Len(e) - g
    <2>1. IsRest(x, a, g)
        BY <1>1, <1>3 DEF IsRest
    <2>2. IsRest(x \o w, a \o w, g)
        BY <1>3, <2>1, RestAt
    <2>3. IsRest(f, e, g)
        BY <1>1, <2>2
    <2> QED
        BY <2>3 DEF IsRest
<1>8. Placed(y, Shifted(at, g), f)
    <2>1. f \in Seq(Byte)
        BY <1>1, <1>3, ConcatProperties
    <2> QED
        BY <1>1, <1>5, <1>7, <2>1, PlacedRest
<1>9. ASSUME NEW i \in 1 .. Len(d)
      PROVE  d[i] = <<m, p, k + i>>
    <2>1. i \in 1 .. g /\ i \in 1 .. n /\ i \in 1 .. n + Len(w) /\ i \in Nat \ {0} /\ i <= g
        <3>1. g <= n
            BY <1>1
        <3>2. i \in 1 .. g
            BY <1>4
        <3> QED
            BY <1>2, <3>1, <3>2
    <2>2. d[i] = e[i]
        BY <1>4, <1>5, <2>1
    <2>3. PICK z \in Int, o \in Nat, v \in Nat : z = at[m] /\ o = Offset(p) /\ v = PartSize(y, m, p)
        BY Sizing, PartWithin
    <2>4. z + o + k = 0 /\ k + g <= v
        BY <2>3
    <2>5. k + i \in Nat \ {0} /\ k + i <= v /\ z + o + (k + i) = i
        <3>1. PICK j \in Nat : j = i
            BY <2>1
        <3>6. j # 0
            BY <2>1, <3>1
        <3>2. j <= g
            BY <2>1, <3>1
        <3>4. k + j \in Nat \ {0} /\ k + j <= v
            <4>1. ASSUME NEW h \in Nat, NEW c \in Nat, NEW r \in Nat, h # 0, h <= c, k + c <= r
                  PROVE  k + h \in Nat \ {0} /\ k + h <= r
                BY <4>1
            <4> QED
                BY <2>3, <2>4, <3>1, <3>2, <3>6, <4>1
        <3>5. z + o + (k + j) = j
            <4>1. ASSUME NEW h \in Nat
                  PROVE  z + o + (k + h) = (z + o + k) + h
                OBVIOUS
            <4>2. 0 + j = j
                BY <3>1
            <4> QED
                BY <2>4, <4>1, <4>2
        <3>3. k + j \in Nat \ {0} /\ k + j <= v /\ z + o + (k + j) = j
            BY <3>4, <3>5
        <3> QED
            BY <3>1, <3>3
    <2>6. i \in 1 .. Len(e)
        BY <1>5, <2>1
    <2>7. e[i] = <<m, p, k + i>>
        BY <1>1, <2>3, <2>5, <2>6 DEF Placed
    <2> QED
        BY <2>2, <2>7
<1>10. Bytes(m, p, k) \o d = Bytes(m, p, k + g)
    <2>1. m \in Nat
        OBVIOUS
    <2> QED
        BY <1>4, <1>9, <2>1, BytesJoined
<1>11. Ends(y, Shifted(at, g)) /\ \A l \in Nat : Shifted(at, g)[l] = at[l] - g
    BY EndsShifted
<1> QED
    BY <1>1, <1>3, <1>4, <1>7, <1>8, <1>10, <1>11

-----------------------------------------------------------------------------
(* The steps of the stream.                                                *)

\* The numbers that the other lemmas calculate with.
LEMMA StreamFacts ==
    ASSUME StreamInv
    PROVE  /\ size \in Seq(Nat) /\ Sending \in Nat /\ Sending = Len(size)
           /\ Len(sent) \in Nat /\ Len(delivered) \in Nat
           /\ First \in 1 .. Sending + 1 /\ Due \in 1 .. Sending + 1 /\ First <= Due
           /\ First \in Nat /\ Due \in Nat
           /\ First = Sending - Len(sent) + 1 /\ Due = First + Len(delivered)
           /\ Len(inbuf) \in Nat /\ Len(wire) \in Nat
           /\ Unread \in Seq(Byte) /\ Len(Unread) = Len(inbuf) + Len(wire)
<1>1. size \in Seq(Sizes) /\ sent \in Seq(Messages) /\ IsSequence(delivered)
      /\ inbuf \in Seq(Byte) /\ wire \in Seq(Byte)
    BY DEF StreamInv, Inv, TypeOK
<1>2. size \in Seq(Nat) /\ Len(size) \in Nat /\ Len(sent) \in Nat
      /\ Len(inbuf) \in Nat /\ Len(wire) \in Nat
    BY <1>1, SizesAssumption, SeqMonotonic, LenProperties
<1>3. Len(delivered) \in Nat
    BY <1>1, LenProperties DEF IsSequence
<1>4. Unread \in Seq(Byte) /\ Len(Unread) = Len(inbuf) + Len(wire)
    BY <1>1, ConcatProperties DEF Unread
<1>5. Len(delivered) <= Len(sent) /\ Len(sent) <= Len(size)
    BY DEF StreamInv, Numbered, Sending
<1> QED
    BY <1>2, <1>3, <1>4, <1>5 DEF Sending, First, Due

LEMMA StreamInit == Init => StreamInv
<1> SUFFICES ASSUME Init PROVE StreamInv
    OBVIOUS
<1>1. /\ size = <<>> /\ sent = <<>> /\ sendPc = "len" /\ wire = <<>> /\ inbuf = <<>>
      /\ recvPc = "idle" /\ head = Cleared /\ msg = Cleared /\ pbHead = 0 /\ delivered = <<>>
    BY DEF Init
<1>2. Len(size) = 0 /\ Len(sent) = 0 /\ Len(delivered) = 0 /\ Len(inbuf) = 0 /\ Len(wire) = 0
      /\ inbuf \in Seq(Byte) /\ wire \in Seq(Byte)
    BY <1>1, EmptySeq
<1>3. Sending = 0 /\ First = 1 /\ Due = 1
    BY <1>2 DEF Sending, First, Due
<1>4. Len(Unread) = 0
    BY <1>2, ConcatProperties DEF Unread
<1>5. PICK at : at = [m \in Nat |-> 0]
    OBVIOUS
<1>6. at \in [Nat -> Int] /\ at[1] = 0
    BY <1>5
<1>7. Ends(size, at) /\ Placed(size, at, Unread)
    BY <1>2, <1>4, <1>6 DEF Ends, Placed
<1>8. Written(at) /\ WellCut(at) /\ Reading(at)
    BY <1>1, <1>2, <1>3, <1>4, <1>6 DEF Written, WellCut, Reading, AtStart
<1>9. Numbered
    BY <1>1, <1>2, <1>3 DEF Numbered
<1> QED
    BY <1>1, <1>2, <1>7, <1>8, <1>9, InvInit, EmptyIsSequence DEF StreamInv, StreamAt

\* sendMsg begins a message of size s and writes its length: the stream u with
\* its n messages, y, becomes one with another message.
BegunAs(y, at, s, u, n) ==
    /\ Append(y, s) \in Seq(Nat) /\ Len(Append(y, s)) = n + 1
    /\ \A m \in 1 .. n : Append(y, s)[m] = y[m]
    /\ \E to \in [Nat -> Int] :
           /\ Ends(Append(y, s), to)
           /\ Placed(Append(y, s), to, u \o Bytes(n + 1, "len", LenSize))
           /\ \A m \in 1 .. n + 1 : to[m] = at[m]

LEMMA Begun ==
    ASSUME NEW y \in Seq(Nat), NEW at, Ends(y, at), NEW s \in Nat,
           NEW u \in Seq(Byte), Placed(y, at, u), NEW n \in Nat
    PROVE  n = Len(y) /\ Len(u) = at[n + 1] => BegunAs(y, at, s, u, n)
<1>0. SUFFICES ASSUME n = Len(y), Len(u) = at[n + 1]
               PROVE  BegunAs(y, at, s, u, n)
    OBVIOUS
<1>1. PICK z, b : z = Append(y, s) /\ b = Bytes(n + 1, "len", LenSize)
    OBVIOUS
<1>2. z \in Seq(Nat) /\ Len(z) = n + 1 /\ \A m \in 1 .. n : z[m] = y[m]
    BY <1>0, <1>1, AppendProperties
<1>3. b \in Seq(Byte) /\ Len(b) = LenSize /\ \A i \in 1 .. LenSize : b[i] = <<n + 1, "len", i>>
    <2>1. n + 1 \in Nat /\ "len" \in Parts /\ LenSize \in Nat
        BY DEF Parts, LenSize
    <2> QED
        BY <1>1, <2>1, BytesTyped
<1>4. Len(u) = at[Len(y) + 1]
    BY <1>0
<1>5. PICK to \in [Nat -> Int] : /\ Ends(z, to) /\ Placed(z, to, u)
                                 /\ \A m \in 1 .. Len(y) + 1 : to[m] = at[m]
    BY <1>1, <1>4, PlacedBegun
<1>6. Placed(z, to, u \o b)
    <2>1. Len(z) \in 1 .. Len(y) + 1 /\ Len(z) # 0 /\ Len(u) = at[Len(z)] /\ Len(u) \in Nat
        BY <1>0, <1>2, LenProperties
    <2>2. Len(u) = to[Len(z)] + Offset("len")
        <3>1. to[Len(z)] = Len(u)
            BY <1>5, <2>1
        <3> QED
            BY <2>1, <3>1 DEF Offset
    <2>3. Len(b) = PartSize(z, Len(z), "len") /\ "len" \in Parts
        BY <1>3 DEF PartSize, Parts
    <2>4. \A i \in 1 .. Len(b) : b[i] = <<Len(z), "len", i>>
        BY <1>2, <1>3
    <2> QED
        BY <1>2, <1>3, <1>5, <2>1, <2>2, <2>3, <2>4, PlacedAppended
<1> QED
    BY <1>0, <1>1, <1>2, <1>5, <1>6 DEF BegunAs

\* What a sender appends to the stream.
LEMMA Lengthened ==
    ASSUME inbuf \in Seq(Byte), wire \in Seq(Byte), UNCHANGED inbuf,
           NEW b \in Seq(Byte), wire' = wire \o b
    PROVE  Unread' = Unread \o b /\ wire' \in Seq(Byte) /\ Len(Unread') = Len(Unread) + Len(b)
<1>1. Unread' = inbuf \o (wire \o b)
    BY DEF Unread
<1>2. inbuf \o (wire \o b) = (inbuf \o wire) \o b
    BY ConcatAssociative
<1>3. wire \o b \in Seq(Byte) /\ Unread \in Seq(Byte)
    BY ConcatProperties DEF Unread
<1>4. Len(Unread \o b) = Len(Unread) + Len(b)
    BY <1>3, ConcatProperties
<1> QED
    BY <1>1, <1>2, <1>3, <1>4 DEF Unread

\* Sending leaves the receiver alone.
LEMMA StreamSendLen ==
    ASSUME StreamInv, SendLen
    PROVE  StreamInv'
<1>1. UNCHANGED <<inbuf, recvPc, head, msg, pbHead, delivered>>
    BY DEF SendLen, recvVars
<1>2. Inv'
    BY InvSend DEF StreamInv, Send
<1>3. PICK at : StreamAt(at)
    BY DEF StreamInv
<1>4. /\ Ends(size, at) /\ Placed(size, at, Unread) /\ Written(at) /\ WellCut(at) /\ Reading(at)
      /\ sendPc = "len"
    BY <1>3 DEF StreamAt, SendLen
<1>5. PICK s \in Sizes : size' = Append(size, s)
    BY DEF SendLen
<1>6. PICK n, u, y : n = Len(size) /\ u = Unread /\ y = size
    OBVIOUS
<1>7. y \in Seq(Nat) /\ n \in Nat /\ u \in Seq(Byte) /\ n = Len(y) /\ n = Sending
    BY <1>6, StreamFacts
<1>8. Len(u) = at[n + 1]
    BY <1>4, <1>6, <1>7 DEF Written
<1>9. s \in Nat
    BY SizesAssumption
<1>10. Ends(y, at) /\ Placed(y, at, u)
    BY <1>4, <1>6
<1>11. PICK z, b : z = Append(y, s) /\ b = Bytes(n + 1, "len", LenSize)
    OBVIOUS
<1>31. BegunAs(y, at, s, u, n)
    <2>1. y \in Seq(Nat) /\ n \in Nat /\ u \in Seq(Byte) /\ s \in Nat
        BY <1>7, <1>9
    <2>2. n = Len(y) /\ Len(u) = at[n + 1]
        BY <1>7, <1>8
    <2>3. n = Len(y) /\ Len(u) = at[n + 1] => BegunAs(y, at, s, u, n)
        BY <1>10, <2>1, Begun
    <2> QED
        BY <2>2, <2>3
<1>12. z \in Seq(Nat) /\ Len(z) = n + 1 /\ \A m \in 1 .. n : z[m] = y[m]
    BY <1>11, <1>31 DEF BegunAs
<1>13. PICK to \in [Nat -> Int] : Ends(z, to) /\ Placed(z, to, u \o b)
                                  /\ \A m \in 1 .. n + 1 : to[m] = at[m]
    BY <1>11, <1>31 DEF BegunAs
<1>14. b \in Seq(Byte) /\ Len(b) = LenSize
    <2>1. n + 1 \in Nat /\ "len" \in Parts /\ LenSize \in Nat
        BY <1>7 DEF Parts, LenSize
    <2> QED
        BY <1>11, <2>1, BytesTyped
<1>15. /\ size' = z /\ Sending' = n + 1 /\ sendPc' = "head" /\ sent' = Append(sent, n + 1)
       /\ wire' = wire \o b
    <2>1. size' = z
        BY <1>5, <1>6, <1>11
    <2>2. Sending' = n + 1
        BY <1>12, <2>1 DEF Sending
    <2> QED
        BY <1>7, <1>11, <2>1, <2>2 DEF SendLen
<1>16. Unread' = u \o b /\ wire' \in Seq(Byte) /\ Len(Unread') = Len(u) + LenSize
    BY <1>1, <1>6, <1>14, <1>15, Lengthened DEF StreamInv
<1>17. /\ sent \in Seq(Messages) /\ n + 1 \in Messages
    <2>1. n < MaxFrames /\ MaxFrames \in Nat
        BY <1>6, BoundsAssumption DEF SendLen, StreamInv
    <2> QED
        BY <1>7, <2>1 DEF StreamInv, Inv, TypeOK, Messages
<1>18. PICK l \in Nat, d \in Nat : l = Len(sent) /\ d = Len(delivered)
    BY StreamFacts
<1>19. /\ Len(sent') = l + 1 /\ sent'[l + 1] = n + 1
       /\ \A i \in 1 .. l : sent'[i] = sent[i]
    BY <1>15, <1>17, <1>18, AppendProperties
<1>20. d <= l /\ l <= n
    BY <1>7, <1>18 DEF StreamInv, Numbered
<1>21. PICK f \in Nat, c \in Nat : f = First /\ c = Due /\ f = n - l + 1 /\ c = f + d
    <2>1. First = n - l + 1 /\ Due = First + d
        BY <1>7, <1>18 DEF First, Due
    <2>2. n - l + 1 \in Nat /\ n - l + 1 + d \in Nat
        BY <1>7, <1>18, <1>20
    <2> QED
        BY <2>1, <2>2
<1>22. First' = f /\ Due' = c
    <2>1. First' = f
        BY <1>7, <1>15, <1>18, <1>19, <1>21 DEF First
    <2> QED
        BY <1>1, <1>18, <1>21, <2>1 DEF Due
<1>23. Ends(size, to)' /\ Placed(size, to, Unread)'
    BY <1>13, <1>15, <1>16
<1>24. PICK x \in Nat : x = Len(u) /\ x = to[n + 1] /\ x = at[n + 1]
    <2>1. to[n + 1] = at[n + 1] /\ Len(u) \in Nat
        BY <1>7, <1>13, LenProperties
    <2> QED
        BY <1>8, <2>1
<1>25. Written(to)'
    <2>1. Len(Unread)' = Len(u) + LenSize
        BY <1>16
    <2> QED
        BY <1>15, <1>24, <2>1 DEF Written, Offset
<1>26. PICK r \in Nat : r = Len(inbuf) /\ r <= x
    <2>1. PICK v \in Nat, w \in Nat : v = Len(inbuf) /\ w = Len(wire)
        BY StreamFacts
    <2>2. x = v + w
        BY <1>6, <1>24, <2>1, StreamFacts
    <2>3. v <= x
        BY <2>1, <2>2
    <2> QED
        BY <2>1, <2>3
<1>27. WellCut(to)'
    <2>1. ASSUME NEW m \in (1 .. n + 1) \cap (c .. n + 1)
          PROVE  \/ r <= to[m] \/ r >= to[m] + LenSize + HeadSize
                 \/ m = f /\ r >= to[m] + LenSize
        <3>1. CASE m \in 1 .. n
            <4>1. m \in (1 .. Sending) \cap (Due .. Sending) /\ to[m] = at[m]
                BY <1>7, <1>13, <1>21, <2>1, <3>1
            <4> QED
                BY <1>4, <1>21, <1>26, <4>1 DEF WellCut
        <3>2. CASE m = n + 1
            BY <1>24, <1>26, <3>2
        <3> QED
            BY <1>7, <2>1, <3>1, <3>2
    <2> QED
        BY <1>1, <1>15, <1>22, <1>26, <2>1 DEF WellCut
<1>28. /\ c \in 1 .. n + 1 /\ to[c] = at[c] /\ (c <= n => size'[c] = size[c])
    <2>1. c \in 1 .. n + 1
        BY <1>7, <1>18, <1>20, <1>21
    <2>2. c <= n => c \in 1 .. n
        BY <2>1
    <2> QED
        BY <1>6, <1>12, <1>13, <1>15, <2>1, <2>2
<1>29. Reading(to)'
    <2>1. AtStart(at) => AtStart(to)'
        BY <1>1, <1>21, <1>22, <1>28 DEF AtStart
    <2>2. ASSUME NEW k \in Nat
          PROVE  InHead(at, k) => InHead(to, k)'
        BY <1>1, <1>21, <1>22, <1>28 DEF InHead
    <2>3. ASSUME NEW k \in Nat
          PROVE  InBody(at, k) => InBody(to, k)'
        <3>1. SUFFICES ASSUME InBody(at, k) PROVE InBody(to, k)'
            OBVIOUS
        <3>2. c <= n /\ Due' <= Sending'
            BY <1>7, <1>15, <1>21, <1>22, <3>1 DEF InBody
        <3> QED
            BY <1>1, <1>21, <1>22, <1>28, <3>1, <3>2 DEF InBody
    <2> QED
        BY <1>4, <2>1, <2>2, <2>3 DEF Reading
<1>30. Numbered'
    <2>1. Len(delivered)' <= Len(sent)' /\ Len(sent)' <= Sending' /\ Len(sent)' # 0
        BY <1>1, <1>7, <1>15, <1>18, <1>19, <1>20
    <2>2. ASSUME NEW i \in 1 .. l + 1
          PROVE  sent'[i] = f + i - 1
        <3>1. CASE i \in 1 .. l
            BY <1>18, <1>19, <1>21, <3>1 DEF StreamInv, Numbered
        <3>2. CASE i = l + 1
            BY <1>7, <1>18, <1>19, <1>20, <1>21, <3>2
        <3> QED
            BY <2>2, <3>1, <3>2
    <2>3. ASSUME NEW i \in 1 .. d
          PROVE  delivered[i] = [head |-> f + i - 1, data |-> BodyOf(f + i - 1)']
        <3>1. PICK m : m = f + i - 1
            OBVIOUS
        <3>2. m \in 1 .. n
            <4>1. i \in Nat /\ 1 <= i /\ i <= d
                BY <1>18
            <4>2. m = n - l + 1 + i - 1
                BY <1>21, <3>1
            <4> QED
                BY <1>7, <1>18, <1>20, <4>1, <4>2
        <3>3. BodyOf(m)' = BodyOf(m)
            BY <1>6, <1>12, <1>15, <3>2 DEF BodyOf
        <3>4. delivered[i] = [head |-> f + i - 1, data |-> BodyOf(f + i - 1)]
            BY <1>18, <1>21 DEF StreamInv, Numbered
        <3> QED
            BY <3>1, <3>3, <3>4
    <2> QED
        BY <1>1, <1>18, <1>19, <1>22, <2>1, <2>2, <2>3 DEF Numbered
<1> QED
    BY <1>1, <1>2, <1>16, <1>23, <1>25, <1>27, <1>29, <1>30 DEF StreamInv, StreamAt

LEMMA StreamSendPart ==
    ASSUME StreamInv, SendHead \/ SendBody
    PROVE  StreamInv'
<1>1. UNCHANGED <<size, sent, inbuf, recvPc, head, msg, pbHead, delivered>>
    BY DEF SendHead, SendBody, recvVars
<1>2. Inv'
    BY InvSend DEF StreamInv, Send
<1>3. PICK at : StreamAt(at)
    BY DEF StreamInv
<1>4. /\ Ends(size, at) /\ Placed(size, at, Unread) /\ Written(at) /\ WellCut(at) /\ Reading(at)
    BY <1>3 DEF StreamAt
<1>5. PICK n, u, y, p : n = Len(size) /\ u = Unread /\ y = size /\ p = sendPc
    OBVIOUS
<1>6. /\ y \in Seq(Nat) /\ n \in Nat /\ u \in Seq(Byte) /\ n = Len(y) /\ n = Sending
      /\ n \in 1 .. Len(y) /\ Len(y) # 0
    <2>1. y \in Seq(Nat) /\ n \in Nat /\ u \in Seq(Byte) /\ n = Len(y) /\ n = Sending
        BY <1>5, StreamFacts
    <2>2. n # 0
        BY <1>5 DEF StreamInv, Inv, SendHead, SendBody
    <2> QED
        BY <2>1, <2>2
<1>7. /\ p \in Parts /\ p # "len"
      /\ wire' = wire \o Bytes(n, p, PartSize(y, n, p))
      /\ sendPc' = IF p = "head" THEN "body" ELSE "len"
    BY <1>5, <1>6 DEF SendHead, SendBody, Parts, PartSize
<1>8. PICK b, v : b = Bytes(n, p, v) /\ v = PartSize(y, n, p)
    OBVIOUS
<1>9. v \in Nat /\ Offset(p) \in Nat
    BY <1>6, <1>7, <1>8, Sizing
<1>10. b \in Seq(Byte) /\ Len(b) = v /\ \A i \in 1 .. v : b[i] = <<n, p, i>>
    <2>1. n \in Nat /\ p \in Parts /\ v \in Nat
        BY <1>6, <1>7, <1>9
    <2>2. /\ Bytes(n, p, v) \in Seq(Byte) /\ Len(Bytes(n, p, v)) = v
          /\ \A i \in 1 .. v : Bytes(n, p, v)[i] = <<n, p, i>>
        BY <2>1, BytesTyped
    <2> QED
        BY <1>8, <2>2
<1>11. Len(u) = at[n] + Offset(p)
    BY <1>4, <1>5, <1>6, <1>7 DEF Written
<1>12. Unread' = u \o b /\ wire' \in Seq(Byte) /\ Len(Unread') = Len(u) + v
    <2>1. wire' = wire \o b /\ b \in Seq(Byte)
        BY <1>7, <1>8, <1>10
    <2> QED
        BY <1>1, <1>5, <1>10, <2>1, Lengthened DEF StreamInv
<1>13. Placed(y, at, u \o b)
    <2>1. Ends(y, at) /\ Placed(y, at, u)
        BY <1>4, <1>5
    <2>2. Len(u) = at[Len(y)] + Offset(p)
        BY <1>6, <1>11
    <2>3. Len(b) = PartSize(y, Len(y), p) /\ \A i \in 1 .. Len(b) : b[i] = <<Len(y), p, i>>
        BY <1>6, <1>8, <1>10
    <2> QED
        BY <1>6, <1>7, <1>10, <2>1, <2>2, <2>3, PlacedAppended
<1>14. Ends(size, at)' /\ Placed(size, at, Unread)'
    BY <1>1, <1>4, <1>5, <1>12, <1>13
<1>15. Written(at)'
    <2>1. n + 1 \in Nat /\ Sending' = n /\ at[n] \in Int /\ at[n + 1] = at[n] + LenSize + HeadSize + y[n]
          /\ y[n] \in Nat
        BY <1>1, <1>4, <1>5, <1>6, ElementOfSeq DEF Ends, Sending
    <2>2. PICK x \in Int, c \in Nat : x = at[n] /\ c = y[n]
        BY <2>1
    <2>3. CASE p = "head"
        <3>1. Len(Unread)' = x + 2 + 2
            BY <1>8, <1>11, <1>12, <2>2, <2>3 DEF Offset, PartSize, HeadSize, LenSize
        <3> QED
            BY <1>7, <2>1, <2>2, <2>3, <3>1 DEF Written, Offset, LenSize, HeadSize
    <2>4. CASE p = "body"
        <3>1. Len(Unread)' = x + (2 + 2) + c
            BY <1>8, <1>11, <1>12, <2>2, <2>4 DEF Offset, PartSize, HeadSize, LenSize
        <3>2. at[n + 1] = x + 2 + 2 + c
            BY <2>1, <2>2 DEF HeadSize, LenSize
        <3>3. Len(Unread)' = at[n + 1]
            BY <2>2, <3>1, <3>2
        <3> QED
            BY <1>7, <2>1, <2>4, <3>3 DEF Written
    <2> QED
        BY <1>7, <2>3, <2>4 DEF Parts
<1>16. First' = First /\ Due' = Due /\ Sending' = Sending
    BY <1>1 DEF First, Due, Sending
<1>17. WellCut(at)' /\ Reading(at)'
    BY <1>1, <1>4, <1>16 DEF WellCut, Reading, AtStart, InHead, InBody
<1>18. Numbered'
    <2>1. Len(sent) # 0
        BY DEF StreamInv, Numbered, SendHead, SendBody
    <2>2. \A m : BodyOf(m)' = BodyOf(m)
        BY <1>1 DEF BodyOf
    <2> QED
        BY <1>1, <1>16, <2>1, <2>2 DEF StreamInv, Numbered
<1> QED
    BY <1>1, <1>2, <1>12, <1>14, <1>15, <1>17, <1>18 DEF StreamInv, StreamAt

\* Byte b is the k-th of message m, before its body.
IsByte(b, m, k) == b = IF k <= LenSize THEN <<m, "len", k>> ELSE <<m, "head", k - LenSize>>

LEMMA ByteOfHead ==
    ASSUME NEW y \in Seq(Nat), NEW at, Ends(y, at), NEW e \in Seq(Byte), Placed(y, at, e),
           NEW m \in 1 .. Len(y), NEW k \in Nat, k # 0, k < LenSize + HeadSize, NEW i \in 1 .. Len(e)
    PROVE  i = at[m] + k => IsByte(e[i], m, k)
<1>0. SUFFICES ASSUME i = at[m] + k
               PROVE  e[i] = IF k <= LenSize THEN <<m, "len", k>> ELSE <<m, "head", k - LenSize>>
    BY DEF IsByte
<1>1. PICK x \in Int : x = at[m]
    <2>1. m \in Nat
        OBVIOUS
    <2> QED
        BY <2>1 DEF Ends
<1>2. CASE k <= LenSize
    <2>1. i = at[m] + Offset("len") + k
        BY <1>0, <1>1 DEF Offset
    <2>2. k \in Nat \ {0} /\ k <= PartSize(y, m, "len") /\ "len" \in Parts
        BY <1>2 DEF PartSize, Parts
    <2>3. e[i] = <<m, "len", k>>
        BY <2>1, <2>2 DEF Placed
    <2> QED
        BY <1>2, <2>3
<1>3. CASE ~(k <= LenSize)
    <2>1. PICK j \in Nat : j = k - LenSize /\ j # 0 /\ j <= HeadSize
        <3>1. k - 2 \in Nat /\ k - 2 # 0 /\ k - 2 <= 2
            BY <1>3 DEF LenSize, HeadSize
        <3> QED
            BY <3>1 DEF LenSize, HeadSize
    <2>2. i = at[m] + Offset("head") + j
        <3>1. i = x + k
            BY <1>0, <1>1
        <3>2. x + k = x + LenSize + j
            BY <2>1 DEF LenSize
        <3> QED
            BY <1>1, <3>1, <3>2 DEF Offset
    <2>3. j \in Nat \ {0} /\ j <= PartSize(y, m, "head") /\ "head" \in Parts
        BY <2>1 DEF PartSize, Parts
    <2>4. e[i] = <<m, "head", j>>
        BY <2>2, <2>3 DEF Placed
    <2> QED
        BY <1>3, <2>1, <2>4
<1> QED
    BY <1>2, <1>3

\* The network: the cuts that the promise allows keep WellCut.
LEMMA StreamReceive ==
    ASSUME Promise, StreamInv, ~torn, Receive
    PROVE  StreamInv'
<1>1. /\ UNCHANGED <<size, sent, sendPc, head, msg, pbHead, delivered>>
      /\ recvPc = "idle" /\ recvPc' = "len"
    BY DEF Receive
<1>2. Inv'
    BY InvReceive DEF StreamInv
<1>3. PICK at : StreamAt(at)
    BY DEF StreamInv
<1>4. /\ Ends(size, at) /\ Placed(size, at, Unread) /\ Written(at) /\ WellCut(at) /\ Reading(at)
    BY <1>3 DEF StreamAt
<1>5. PICK n \in 1 .. Len(wire) : /\ MayEndWith(wire[n])
                                  /\ inbuf' = inbuf \o SubSeq(wire, 1, n)
                                  /\ wire' = SubSeq(wire, n + 1, Len(wire))
    BY DEF Receive
<1>6. PICK a, w, p, q, e, r, l :
          /\ a = inbuf /\ w = wire /\ p = SubSeq(w, 1, n) /\ q = SubSeq(w, n + 1, Len(w))
          /\ e = Unread /\ r = Len(inbuf) /\ l = Len(w)
    OBVIOUS
<1>7. /\ a \in Seq(Byte) /\ w \in Seq(Byte) /\ r \in Nat /\ l \in Nat /\ e \in Seq(Byte)
      /\ Len(e) = r + l /\ n \in Nat /\ n <= l /\ n # 0
    <2>1. a \in Seq(Byte) /\ w \in Seq(Byte)
        BY <1>6 DEF StreamInv
    <2>2. r \in Nat /\ l \in Nat /\ e \in Seq(Byte) /\ Len(e) = r + l
        BY <1>6, StreamFacts
    <2>3. n \in 1 .. l
        BY <1>5, <1>6
    <2> QED
        BY <2>1, <2>2, <2>3
<1>8. /\ p \in Seq(Byte) /\ Len(p) = n /\ q \in Seq(Byte) /\ w = p \o q
    <2>1. \A i \in 1 .. Len(w) : w[i] \in Byte
        BY <1>7, ElementOfSeq
    <2>2. p \in Seq(Byte) /\ Len(p) = n /\ \A i \in 1 .. n : p[i] = w[i]
        <3>1. p = SubSeq(w, 0 + 1, n) /\ 0 \in Nat /\ 0 <= n /\ n <= Len(w)
            BY <1>6, <1>7
        <3>2. p \in Seq(Byte) /\ Len(p) = n - 0 /\ \A i \in 1 .. n - 0 : p[i] = w[0 + i]
            BY <1>7, <3>1, SubSeqAt
        <3>3. n - 0 = n /\ \A i \in 1 .. n : 0 + i = i
            BY <1>7
        <3> QED
            BY <3>2, <3>3
    <2>3. q \in Seq(Byte) /\ Len(q) = l - n /\ \A i \in 1 .. l - n : q[i] = w[n + i]
        <3>1. n \in Nat /\ l \in Nat /\ w \in Seq(Byte) /\ n <= l /\ l <= Len(w)
            BY <1>6, <1>7
        <3>2. PICK x : x = SubSeq(w, n + 1, l)
            OBVIOUS
        <3>3. x \in Seq(Byte)
            BY <3>1, <3>2, SubSeqAt
        <3>4. Len(x) = l - n
            BY <3>1, <3>2, SubSeqAt
        <3>5. \A i \in 1 .. l - n : x[i] = w[n + i]
            BY <3>1, <3>2, SubSeqAt
        <3> QED
            BY <1>6, <3>2, <3>3, <3>4, <3>5
    <2>4. PICK v : v = p \o q
        OBVIOUS
    <2>5. /\ v \in Seq(Byte) /\ Len(v) = n + (l - n)
          /\ \A i \in 1 .. n : v[i] = p[i]
          /\ \A i \in 1 .. l - n : v[n + i] = q[i]
        <3>1. PICK c, d : c = Len(p) /\ d = Len(q)
            OBVIOUS
        <3>2. /\ v \in Seq(Byte) /\ Len(v) = c + d
              /\ \A i \in 1 .. c : v[i] = p[i]
              /\ \A i \in 1 .. d : v[c + i] = q[i]
            <4>1. p \in Seq(Byte) /\ q \in Seq(Byte)
                BY <2>2, <2>3
            <4>2. v \in Seq(Byte) /\ Len(v) = c + d
                BY <2>4, <3>1, <4>1, ConcatAt
            <4>3. \A i \in 1 .. c : v[i] = p[i]
                BY <2>4, <3>1, <4>1, ConcatAt
            <4>4. \A i \in 1 .. d : v[c + i] = q[i]
                BY <2>4, <3>1, <4>1, ConcatAt
            <4> QED
                BY <4>2, <4>3, <4>4
        <3> QED
            BY <2>2, <2>3, <3>1, <3>2
    <2>6. ASSUME NEW i \in 1 .. l
          PROVE  v[i] = w[i]
        <3>1. CASE i <= n
            BY <1>7, <2>2, <2>5, <3>1
        <3>2. CASE i > n
            <4>1. PICK j \in 1 .. l - n : i = n + j
                BY <1>7, <3>2
            <4> QED
                BY <2>3, <2>5, <4>1
        <3> QED
            BY <1>7, <3>1, <3>2
    <2>7. Len(v) = l /\ Len(w) = l
        BY <1>6, <1>7, <2>5
    <2>8. v = w
        BY <1>7, <2>5, <2>6, <2>7, SeqEqual
    <2> QED
        BY <2>2, <2>3, <2>4, <2>8
<1>17. p \in Seq(Byte) /\ Len(p) = n /\ q \in Seq(Byte)
    BY <1>8
<1>9. /\ inbuf' = a \o p /\ wire' = q
      /\ inbuf' \in Seq(Byte) /\ wire' \in Seq(Byte) /\ Len(inbuf') = r + n
    <2>1. inbuf' = a \o p /\ wire' = q
        BY <1>5, <1>6
    <2>2. PICK v : v = a \o p
        OBVIOUS
    <2>3. v \in Seq(Byte) /\ Len(v) = Len(a) + Len(p)
        BY <1>7, <1>17, <2>2, ConcatProperties
    <2>4. Len(v) = r + n
        BY <1>6, <1>17, <2>3
    <2> QED
        BY <1>17, <2>1, <2>2, <2>3, <2>4
<1>10. Unread' = e
    <2>1. Unread' = (a \o p) \o q
        BY <1>9 DEF Unread
    <2>2. a \in Seq(Byte) /\ p \in Seq(Byte) /\ q \in Seq(Byte)
        BY <1>7, <1>17
    <2>3. (a \o p) \o q = a \o (p \o q)
        BY <2>2, ConcatAssociative
    <2> QED
        BY <1>6, <1>8, <2>1, <2>3 DEF Unread
<1>11. First' = First /\ Due' = Due /\ Sending' = Sending
    BY <1>1 DEF First, Due, Sending
<1>12. Ends(size, at)' /\ Placed(size, at, Unread)' /\ Written(at)'
    BY <1>1, <1>4, <1>6, <1>10, <1>11 DEF Written
<1>13. e[r + n] = w[n] /\ r + n \in 1 .. Len(e)
    <2>1. e = a \o w /\ r = Len(a) /\ l = Len(w)
        BY <1>6 DEF Unread
    <2>2. \A i \in 1 .. l : e[r + i] = w[i]
        BY <1>7, <2>1, ConcatAt
    <2> QED
        BY <1>7, <2>2
<1>14. WellCut(at)'
    <2>1. ASSUME NEW m \in (1 .. Sending) \cap (Due .. Sending)
          PROVE  \/ r + n <= at[m] \/ r + n >= at[m] + LenSize + HeadSize
                 \/ m = First /\ r + n >= at[m] + LenSize
        <3>1. size \in Seq(Nat) /\ m \in 1 .. Len(size) /\ m \in Nat
            BY StreamFacts
        <3>2. PICK x \in Int, h \in Nat : x = at[m] /\ h = r + n
            BY <1>4, <1>7, <3>1 DEF Ends
        <3>3. SUFFICES ASSUME h > x, h < x + LenSize + HeadSize
                       PROVE  m = First /\ h >= x + LenSize
            BY <3>2 DEF LenSize, HeadSize
        <3>4. PICK k \in Nat : k = h - x /\ k # 0 /\ k < LenSize + HeadSize /\ h = x + k
            <4>1. h - x \in Nat /\ h - x # 0 /\ h - x < LenSize + HeadSize /\ h = x + (h - x)
                BY <3>2, <3>3 DEF LenSize, HeadSize
            <4> QED
                BY <4>1
        <3>5. e[h] = IF k <= LenSize THEN <<m, "len", k>> ELSE <<m, "head", k - LenSize>>
            <4>1. h = at[m] + k /\ h \in 1 .. Len(e)
                BY <1>13, <3>2, <3>4
            <4>2. Ends(size, at) /\ Placed(size, at, e)
                BY <1>4, <1>6
            <4>3. k \in Nat /\ k # 0 /\ k < LenSize + HeadSize
                BY <3>4
            <4>4. h = at[m] + k => IsByte(e[h], m, k)
                BY <1>7, <3>1, <4>1, <4>2, <4>3, ByteOfHead
            <4> QED
                BY <4>1, <4>4 DEF IsByte
        <3>6. MayEndWith(e[h])
            BY <1>5, <1>6, <1>13, <3>2
        <3>7. k >= LenSize /\ pbHead = 0 /\ m = sent[1]
            <4>1. CASE k <= LenSize
                <5>1. e[h] = <<m, "len", k>>
                    BY <3>5, <4>1
                <5> QED
                    BY <3>4, <3>6, <4>1, <5>1 DEF MayEndWith, Promise, LenSize
            <4>2. CASE ~(k <= LenSize)
                <5>1. e[h] = <<m, "head", k - LenSize>> /\ k - LenSize # HeadSize
                    BY <3>4, <3>5, <4>2 DEF LenSize, HeadSize
                <5> QED
                    BY <3>4, <3>6, <4>2, <5>1 DEF MayEndWith, Promise, LenSize
            <4> QED
                BY <4>1, <4>2
        <3>8. m = First
            <4>1. PICK c \in Nat, d \in Nat, f \in Nat :
                      /\ c = Len(sent) /\ d = Sending /\ f = First /\ f = d - c + 1
                      /\ f <= m /\ m <= d
                <5>1. First = Sending - Len(sent) + 1 /\ First \in Nat /\ First <= Due
                      /\ Len(sent) \in Nat /\ Sending \in Nat /\ Due \in Nat
                    <6>1. First \in Nat /\ Due \in Nat
                        BY StreamFacts
                    <6>2. First <= Due
                        BY StreamFacts
                    <6>3. Sending \in Nat /\ Len(sent) \in Nat
                        BY StreamFacts
                    <6>4. First = Sending - Len(sent) + 1
                        BY DEF First
                    <6> QED
                        BY <6>1, <6>2, <6>3, <6>4
                <5>2. First <= m /\ m <= Sending
                    BY <3>1, <5>1
                <5> QED
                    BY <5>1, <5>2
            <4>2. 1 \in 1 .. c
                BY <3>1, <4>1
            <4>3. sent[1] = f + 1 - 1
                BY <4>1, <4>2 DEF StreamInv, Numbered
            <4> QED
                BY <3>7, <4>1, <4>3
        <3>9. h >= x + LenSize
            BY <3>4, <3>7 DEF LenSize
        <3> QED
            BY <3>8, <3>9
    <2> QED
        BY <1>9, <1>11, <2>1 DEF WellCut
<1>15. Reading(at)'
    <2>1. AtStart(at) => AtStart(at)'
        BY <1>1, <1>11 DEF AtStart
    <2>2. ASSUME NEW k \in Nat
          PROVE  InHead(at, k) => InHead(at, k)'
        BY <1>1, <1>11 DEF InHead
    <2>3. ASSUME NEW k \in Nat
          PROVE  InBody(at, k) => InBody(at, k)'
        BY <1>1, <1>11 DEF InBody
    <2> QED
        BY <1>4, <2>1, <2>2, <2>3 DEF Reading
<1>16. Numbered'
    <2>1. \A m : BodyOf(m)' = BodyOf(m)
        BY <1>1 DEF BodyOf
    <2> QED
        BY <1>1, <1>11, <2>1 DEF StreamInv, Numbered
<1> QED
    BY <1>1, <1>2, <1>9, <1>12, <1>14, <1>15, <1>16 DEF StreamInv, StreamAt

\* A new connection: the places start afresh behind all that was sent.
\* A connection that is made while no message is being sent begins with one.
LEMMA StreamConnect ==
    ASSUME Promise, Inv, Chained, sendPc = "len", Connect
    PROVE  StreamInv'
<1>1. /\ sent' = <<>> /\ sendPc' = "len" /\ wire' = <<>> /\ inbuf' = <<>> /\ delivered' = <<>>
      /\ head' = Cleared /\ msg' = Cleared /\ pbHead' = 0 /\ size' = size /\ recvPc' = "idle"
    BY DEF Connect, Renewed, Promise, Inv, Closed
<1>2. Inv'
    BY InvConnect
<1>3. PICK at : Ends(size, at)
    BY DEF Chained
<1>4. PICK n, y, to : n = Sending /\ y = size /\ to = Shifted(at, at[n + 1])
    OBVIOUS
<1>5. y \in Seq(Nat) /\ n \in Nat /\ n = Len(y) /\ Ends(y, at) /\ at[n + 1] \in Int
    <2>1. y \in Seq(Nat) /\ n \in Nat /\ n = Len(y)
        BY <1>4, SizesAssumption, SeqMonotonic, LenProperties DEF Inv, TypeOK, Sending
    <2>2. Ends(y, at)
        BY <1>3, <1>4
    <2>3. n + 1 \in Nat
        BY <2>1
    <2> QED
        BY <2>1, <2>2, <2>3 DEF Ends
<1>6. Ends(y, to) /\ to[n + 1] = 0
    <2>1. Ends(y, Shifted(at, at[n + 1]))
        BY <1>5, EndsShifted
    <2>2. Shifted(at, at[n + 1])[n + 1] = at[n + 1] - at[n + 1]
        BY <1>5 DEF Shifted
    <2>3. at[n + 1] - at[n + 1] = 0
        BY <1>5
    <2> QED
        BY <1>4, <2>1, <2>2, <2>3
<1>7. Len(sent') = 0 /\ Len(delivered') = 0 /\ Len(inbuf') = 0 /\ Len(wire') = 0
      /\ inbuf' \in Seq(Byte) /\ wire' \in Seq(Byte)
    BY <1>1, EmptySeq
<1>8. Len(Unread') = 0
    <2>1. <<>> \o <<>> = <<>>
        BY EmptySeq, ConcatProperties
    <2> QED
        BY <1>1, <2>1, EmptySeq DEF Unread
<1>9. Sending' = n /\ First' = n + 1 /\ Due' = n + 1
    BY <1>1, <1>4, <1>5, <1>7 DEF Sending, First, Due
<1>10. Ends(size, to)' /\ Placed(size, to, Unread)'
    BY <1>1, <1>4, <1>6, <1>8 DEF Placed
<1>11. Written(to)'
    BY <1>1, <1>6, <1>8, <1>9 DEF Written
<1>12. WellCut(to)'
    BY <1>5, <1>9 DEF WellCut
<1>13. Reading(to)'
    BY <1>1, <1>6, <1>9 DEF Reading, AtStart
<1>14. Numbered'
    BY <1>1, <1>5, <1>7, <1>9 DEF Numbered
<1> QED
    BY <1>1, <1>2, <1>7, <1>10, <1>11, <1>12, <1>13, <1>14, EmptyIsSequence DEF StreamInv, StreamAt

\* There are bytes of a message only once it is begun.
LEMMA Ahead ==
    ASSUME StreamInv, NEW at, StreamAt(at), Len(Unread) > at[Due]
    PROVE  Due \in 1 .. Sending
<1>1. PICK n, y, c : n = Sending /\ y = size /\ c = Due
    OBVIOUS
<1>2. y \in Seq(Nat) /\ n \in Nat /\ n = Len(y) /\ Ends(y, at) /\ c \in 1 .. n + 1
    <2>1. y \in Seq(Nat) /\ n \in Nat /\ n = Len(y) /\ c \in 1 .. n + 1
        BY <1>1, StreamFacts
    <2>2. Ends(y, at)
        BY <1>1 DEF StreamAt
    <2> QED
        BY <2>1, <2>2
<1>3. at[n + 1] \in Int /\ Len(Unread) \in Int
    <2>1. Len(Unread) \in Int
        <3>1. Unread \in Seq(Byte)
            BY StreamFacts
        <3> QED
            BY <3>1, LenProperties
    <2>2. n + 1 \in Nat
        BY <1>2
    <2> QED
        BY <1>2, <2>1, <2>2 DEF Ends
<1>4. Len(Unread) <= at[n + 1]
    <2>1. CASE sendPc = "len"
        BY <1>1, <1>3, <2>1 DEF StreamAt, Written
    <2>2. CASE sendPc # "len"
        <3>1. sendPc \in Parts /\ n \in 1 .. Len(y)
            <4>1. sendPc \in Parts /\ n # 0
                BY <1>1, <1>2, <2>2 DEF StreamInv, Inv, TypeOK, Parts
            <4> QED
                BY <1>2, <4>1
        <3>2. Len(Unread) = at[n] + Offset(sendPc)
            BY <1>1, <2>2 DEF StreamAt, Written
        <3>3. PICK v \in Nat, o \in Nat : v = PartSize(y, n, sendPc) /\ o = Offset(sendPc)
            BY <1>2, <3>1, Sizing
        <3>4. at[n] + o + v <= at[n + 1] /\ at[n] \in Int
            BY <1>2, <3>1, <3>3, PartWithin
        <3> QED
            BY <1>3, <3>2, <3>3, <3>4
    <2> QED
        BY <2>1, <2>2
<1>5. c # n + 1
    BY <1>1, <1>3, <1>4
<1> QED
    BY <1>1, <1>2, <1>5

\* All of the invariant but what recvMsg has in its buffers.
Kept(at) ==
    /\ Ends(size, at) /\ Placed(size, at, Unread) /\ Written(at) /\ WellCut(at)
    /\ Numbered /\ inbuf \in Seq(Byte)

\* A step of the receiver that neither reads nor delivers, ...
LEMMA StreamStays ==
    ASSUME StreamInv, NEW at, StreamAt(at), UNCHANGED <<size, sent, sendPc, wire, inbuf, delivered>>
    PROVE  Kept(at)' /\ First' = First /\ Due' = Due /\ Sending' = Sending
<1>1. First' = First /\ Due' = Due /\ Sending' = Sending
    BY DEF First, Due, Sending
<1>2. Ends(size, at)' /\ Placed(size, at, Unread)' /\ Written(at)' /\ WellCut(at)'
    BY <1>1 DEF StreamAt, Unread, Written, WellCut
<1>3. Numbered'
    <2>1. \A i : BodyOf(i)' = BodyOf(i)
        BY DEF BodyOf
    <2> QED
        BY <1>1, <2>1 DEF StreamInv, Numbered
<1> QED
    BY <1>1, <1>2, <1>3 DEF Kept, StreamInv

\* ... and what remains to be shown of any step of it.
LEMMA StreamBack ==
    ASSUME StreamInv, Recv, NEW to, Kept(to)', Reading(to)', IsSequence(delivered')
    PROVE  StreamInv'
<1>1. Inv'
    BY InvRecv DEF StreamInv
<1>2. wire' = wire
    BY DEF Recv, RecvLen, RecvHead, RecvBody, Dispatch
<1> QED
    BY <1>1, <1>2 DEF StreamInv, StreamAt, Kept

\* recvMsg reads g more bytes of a part of which it has read k.
ReadOn(at, p, k, g) ==
    /\ Kept(Shifted(at, g))'
    /\ First' = First /\ Due' = Due /\ Sending' = Sending
    /\ Shifted(at, g)[Due] = at[Due] - g
    /\ Bytes(Due, p, k) \o SubSeq(inbuf, 1, g) = Bytes(Due, p, k + g)

LEMMA StreamRead ==
    ASSUME StreamInv, NEW at, StreamAt(at), UNCHANGED <<size, sent, sendPc, wire, delivered>>,
           NEW p \in Parts, NEW k \in Nat, NEW g \in Nat,
           Due \in 1 .. Sending, at[Due] + Offset(p) + k = 0, g <= Len(inbuf),
           k + g <= PartSize(size, Due, p)
    PROVE  inbuf' = SubSeq(inbuf, g + 1, Len(inbuf)) => ReadOn(at, p, k, g)
<1>0. SUFFICES ASSUME inbuf' = SubSeq(inbuf, g + 1, Len(inbuf))
               PROVE  /\ Ends(size, Shifted(at, g))' /\ Placed(size, Shifted(at, g), Unread)'
                      /\ Written(Shifted(at, g))' /\ WellCut(Shifted(at, g))'
                      /\ Numbered' /\ inbuf' \in Seq(Byte)
                      /\ First' = First /\ Due' = Due /\ Sending' = Sending
                      /\ Shifted(at, g)[Due] = at[Due] - g
                      /\ Bytes(Due, p, k) \o SubSeq(inbuf, 1, g) = Bytes(Due, p, k + g)
    BY DEF ReadOn, Kept
<1>1. PICK y, a, w, m, x, n : y = size /\ a = inbuf /\ w = wire /\ m = Due /\ x = inbuf' /\ n = Sending
    OBVIOUS
<1>2. PICK to : to = Shifted(at, g)
    OBVIOUS
<1>3. y \in Seq(Nat) /\ n \in Nat /\ n = Len(y) /\ m \in 1 .. n /\ m \in 1 .. Len(y)
    <2>1. y \in Seq(Nat) /\ n \in Nat /\ n = Len(y)
        BY <1>1, StreamFacts
    <2> QED
        BY <1>1, <2>1
<1>4. a \in Seq(Byte) /\ w \in Seq(Byte)
    BY <1>1 DEF StreamInv
<1>5. Ends(y, at) /\ Placed(y, at, a \o w) /\ Written(at) /\ WellCut(at)
    BY <1>1 DEF StreamAt, Unread
<1>6. at[m] + Offset(p) + k = 0 /\ g <= Len(a) /\ k + g <= PartSize(y, m, p)
    BY <1>1
<1>7. x = SubSeq(a, g + 1, Len(a))
    BY <1>0, <1>1
<1>8. /\ x \in Seq(Byte) /\ Len(x) = Len(a) - g /\ Len(x \o w) = Len(a \o w) - g
      /\ Ends(y, Shifted(at, g)) /\ Placed(y, Shifted(at, g), x \o w)
      /\ \A l \in Nat : Shifted(at, g)[l] = at[l] - g
      /\ Bytes(m, p, k) \o SubSeq(a, 1, g) = Bytes(m, p, k + g)
    <2>1. x = SubSeq(a, g + 1, Len(a)) => PartIsRead(y, at, a, w, m, p, k, g, x)
        BY <1>3, <1>4, <1>5, <1>6, PartRead
    <2> QED
        BY <1>7, <2>1 DEF PartIsRead
<1>9. /\ Ends(y, to) /\ Placed(y, to, x \o w) /\ \A l \in Nat : to[l] = at[l] - g
    BY <1>2, <1>8
<1>10. PICK r \in Nat, u \in Nat : r = Len(inbuf) /\ u = Len(Unread)
    BY <1>4, LenProperties, StreamFacts
<1>11. Unread' = x \o w /\ Len(inbuf') = r - g /\ Len(Unread') = u - g
    BY <1>1, <1>8, <1>10 DEF Unread
<1>12. First' = First /\ Due' = Due /\ Sending' = n /\ sendPc' = sendPc
    BY <1>1 DEF First, Due, Sending
<1>13. Ends(size, to)' /\ Placed(size, to, Unread)'
    BY <1>1, <1>9, <1>11
<1>14. \A l \in Nat : at[l] \in Int
    BY <1>5 DEF Ends
<1>15. Written(to)'
    <2>1. CASE sendPc = "len"
        <3>1. n + 1 \in Nat
            BY <1>3
        <3>2. to[n + 1] = at[n + 1] - g /\ u = at[n + 1]
            BY <1>1, <1>5, <1>9, <1>10, <2>1, <3>1 DEF Written
        <3> QED
            BY <1>11, <1>12, <2>1, <3>2 DEF Written
    <2>2. CASE sendPc # "len"
        <3>1. to[n] = at[n] - g /\ u = at[n] + Offset(sendPc) /\ at[n] \in Int
            BY <1>1, <1>3, <1>5, <1>9, <1>10, <1>14, <2>2 DEF Written
        <3>2. Offset(sendPc) \in Nat
            BY DEF Offset, LenSize, HeadSize
        <3>3. u - g = to[n] + Offset(sendPc)
            BY <1>10, <3>1, <3>2
        <3> QED
            BY <1>11, <1>12, <2>2, <3>3 DEF Written
    <2> QED
        BY <2>1, <2>2
<1>16. WellCut(to)'
    <2>1. ASSUME NEW h \in (1 .. n) \cap (m .. n)
          PROVE  \/ r - g <= to[h] \/ r - g >= to[h] + LenSize + HeadSize
                 \/ h = First /\ r - g >= to[h] + LenSize
        <3>1. \/ r <= at[h] \/ r >= at[h] + LenSize + HeadSize
              \/ h = First /\ r >= at[h] + LenSize
            BY <1>1, <1>5, <1>10 DEF WellCut
        <3>2. PICK z \in Int : z = at[h] /\ to[h] = z - g
            <4>1. h \in Nat
                BY <1>3
            <4>2. PICK z \in Int : z = at[h]
                BY <1>14, <4>1
            <4>3. to[h] = z - g
                BY <1>9, <4>1, <4>2
            <4> QED
                BY <4>2, <4>3
        <3>3. ASSUME NEW i \in Int
              PROVE  /\ r <= i => r - g <= i - g
                     /\ r >= i + 2 + 2 => r - g >= (i - g) + 2 + 2
                     /\ r >= i + 2 => r - g >= (i - g) + 2
            BY <1>10, <3>3
        <3>4. CASE r <= z
            BY <3>2, <3>3, <3>4
        <3>5. CASE r >= z + 2 + 2
            <4>1. r - g >= (z - g) + 2 + 2
                BY <3>2, <3>3, <3>5
            <4> QED
                BY <3>2, <4>1 DEF LenSize, HeadSize
        <3>6. CASE h = First /\ r >= z + 2
            <4>1. r - g >= (z - g) + 2
                BY <3>2, <3>3, <3>6
            <4> QED
                BY <3>2, <3>6, <4>1 DEF LenSize, HeadSize
        <3> QED
            BY <3>1, <3>2, <3>4, <3>5, <3>6 DEF LenSize, HeadSize
    <2> QED
        BY <1>1, <1>11, <1>12, <2>1 DEF WellCut
<1>17. Numbered'
    <2>1. \A i : BodyOf(i)' = BodyOf(i)
        BY DEF BodyOf
    <2> QED
        BY <1>1, <1>12, <2>1 DEF StreamInv, Numbered
<1>18. to[m] = at[m] - g
    BY <1>3, <1>9
<1> QED
    BY <1>1, <1>2, <1>8, <1>12, <1>13, <1>15, <1>16, <1>17, <1>18

\* A length word is read as the size of a head.
LEMMA WordRead ==
    ASSUME NEW m \in Messages
    PROVE  LenRead(Bytes(m, "len", LenSize)) = {HeadSize}
<1>1. PICK b : b = Bytes(m, "len", LenSize)
    OBVIOUS
<1>2. b \in Seq(Byte) /\ Len(b) = LenSize
    <2>1. m \in Nat /\ "len" \in Parts /\ LenSize \in Nat
        BY DEF Messages, Parts, LenSize
    <2> QED
        BY <1>1, <2>1, BytesTyped
<1>3. SubSeq(b, 1, Len(b)) = b
    <2>1. PICK d : d = SubSeq(b, 1, Len(b))
        OBVIOUS
    <2>2. d = SubSeq(b, 0 + 1, 2) /\ 0 \in Nat /\ 2 \in Nat /\ 0 <= 2 /\ 2 <= Len(b)
        BY <1>2, <2>1 DEF LenSize
    <2>3. d \in Seq(Byte) /\ Len(d) = 2 - 0 /\ \A i \in 1 .. 2 - 0 : d[i] = b[0 + i]
        BY <1>2, <2>2, SubSeqAt
    <2>4. Len(d) = Len(b) /\ \A i \in 1 .. Len(b) : d[i] = b[i]
        BY <1>2, <2>3 DEF LenSize
    <2>5. d = b
        BY <1>2, <2>3, <2>4, SeqEqual
    <2> QED
        BY <2>1, <2>5
<1>4. \E h \in Messages : b = SubSeq(Bytes(h, "len", LenSize), 1, Len(b))
    BY <1>1, <1>3
<1>5. LenRead(b) = {HeadSize}
    BY <1>4 DEF LenRead
<1> QED
    BY <1>1, <1>5

LEMMA NothingBefore ==
    ASSUME NEW S, NEW s \in Seq(S)
    PROVE  <<>> \o s = s
<1>1. <<>> \in Seq(S) /\ Len(<<>>) = 0
    BY EmptySeq
<1> QED
    BY <1>1, ConcatEmptySeq

\* The length word: WellCut has it arrive as a whole.
LEMMA StreamRecvLen ==
    ASSUME Promise, StreamInv, RecvLen
    PROVE  StreamInv'
<1>1. UNCHANGED <<size, sent, sendPc, wire, pbHead, delivered>> /\ recvPc = "len"
    BY DEF RecvLen
<1>2. PICK at : StreamAt(at)
    BY DEF StreamInv
<1>3. SUFFICES \E to : Kept(to)' /\ Reading(to)'
    BY <1>1, StreamBack DEF Recv, StreamInv
<1>4. UNCHANGED inbuf =>
          Kept(at)' /\ First' = First /\ Due' = Due /\ Sending' = Sending
    BY <1>1, <1>2, StreamStays
<1>5. CASE head.size # 0
    <2>1. recvPc' = "head" /\ UNCHANGED <<inbuf, head, msg>>
        BY <1>5 DEF RecvLen
    <2>2. ~AtStart(at)
        BY <1>5 DEF AtStart, Cleared
    <2>3. ASSUME NEW k \in Nat
          PROVE  InHead(at, k) => InHead(at, k)'
        BY <1>1, <1>4, <2>1 DEF InHead
    <2>4. ASSUME NEW k \in Nat
          PROVE  InBody(at, k) => InBody(at, k)'
        BY <1>1, <1>4, <2>1 DEF InBody
    <2> QED
        BY <1>2, <1>4, <2>1, <2>2, <2>3, <2>4 DEF StreamAt, Reading
<1>6. CASE head.size = 0
    <2>1. AtStart(at)
        <3>1. ASSUME NEW k \in Nat
              PROVE  ~InHead(at, k) /\ ~InBody(at, k)
            BY <1>6 DEF InHead, InBody, HeadSize
        <3> QED
            BY <1>2, <3>1 DEF StreamAt, Reading
    <2>2. CASE inbuf = <<>>
        <3>1. Fail /\ UNCHANGED inbuf
            BY <1>6, <2>2 DEF RecvLen
        <3>2. AtStart(at)'
            BY <1>1, <1>4, <2>1, <3>1 DEF AtStart, Fail
        <3> QED
            BY <1>4, <3>1, <3>2 DEF Reading
    <2>3. CASE inbuf # <<>>
        <3>1. PICK r, m : r \in Nat /\ r = Len(inbuf) /\ m = Due /\ at[m] = 0 /\ r # 0
            <4>1. inbuf \in Seq(Byte)
                BY DEF StreamInv
            <4>2. Len(inbuf) \in Nat /\ Len(inbuf) # 0
                BY <2>3, <4>1, EmptySeq, LenProperties
            <4> QED
                BY <2>1, <4>2 DEF AtStart
        <3>2. m \in 1 .. Sending
            <4>1. Len(Unread) > at[Due]
                <5>1. PICK w \in Nat : w = Len(wire)
                    BY StreamFacts
                <5>2. Len(Unread) = r + w
                    BY <3>1, <5>1, StreamFacts
                <5> QED
                    BY <3>1, <5>1, <5>2
            <4> QED
                BY <1>2, <3>1, <4>1, Ahead
        <3>3. r >= LenSize
            <4>1. Sending \in Nat /\ m \in Nat /\ m <= Sending /\ m \in (1 .. Sending) \cap (Due .. Sending)
                BY <3>1, <3>2, StreamFacts
            <4>2. \/ r <= at[m] \/ r >= at[m] + LenSize + HeadSize
                  \/ m = First /\ r >= at[m] + LenSize
                BY <1>2, <3>1, <4>1 DEF StreamAt, WellCut
            <4> QED
                BY <3>1, <4>2 DEF LenSize, HeadSize
        <3>4. Got(LenSize) = LenSize
            BY <3>1, <3>3 DEF Got, LenSize
        <3>5. ReadOn(at, "len", 0, LenSize)
            <4>1. inbuf' = SubSeq(inbuf, LenSize + 1, Len(inbuf))
                BY <1>6, <2>3, <3>4 DEF RecvLen, Read
            <4>2. at[Due] + Offset("len") + 0 = 0 /\ LenSize <= Len(inbuf)
                BY <3>1, <3>3 DEF Offset
            <4>3. 0 + LenSize <= PartSize(size, Due, "len") /\ LenSize \in Nat /\ 0 \in Nat
                  /\ "len" \in Parts /\ Due \in 1 .. Sending
                BY <3>1, <3>2 DEF PartSize, LenSize, Parts
            <4>4. inbuf' = SubSeq(inbuf, LenSize + 1, Len(inbuf)) => ReadOn(at, "len", 0, LenSize)
                BY <1>1, <1>2, <4>2, <4>3, StreamRead
            <4> QED
                BY <4>1, <4>4
        <3>6. PICK to : to = Shifted(at, LenSize)
            OBVIOUS
        <3>7. m \in Nat /\ m \in Messages
            <4>1. Sending \in Nat /\ Sending <= MaxFrames /\ MaxFrames \in Nat
                BY StreamFacts, BoundsAssumption DEF StreamInv, Inv, TypeOK, Sending
            <4> QED
                BY <3>2, <4>1 DEF Messages
        <3>8. SubSeq(inbuf, 1, LenSize) = Bytes(m, "len", LenSize)
            <4>1. Bytes(m, "len", 0) \o SubSeq(inbuf, 1, LenSize) = Bytes(m, "len", 0 + LenSize)
                BY <3>1, <3>5 DEF ReadOn
            <4>2. Bytes(m, "len", 0) = <<>>
                BY <3>7, NoBytes DEF Parts
            <4>3. SubSeq(inbuf, 1, LenSize) \in Seq(Byte)
                <5>1. inbuf \in Seq(Byte) /\ LenSize \in Nat
                    BY DEF StreamInv, LenSize
                <5> QED
                    BY <3>4, <5>1, Pieces DEF Got
            <4>4. 0 + LenSize = LenSize
                BY DEF LenSize
            <4>5. <<>> \o SubSeq(inbuf, 1, LenSize) = SubSeq(inbuf, 1, LenSize)
                BY <4>3, NothingBefore
            <4> QED
                BY <4>1, <4>2, <4>4, <4>5
        <3>9. LenRead(SubSeq(inbuf, 1, Got(LenSize))) = {HeadSize}
            BY <3>4, <3>7, <3>8, WordRead
        <3>10. head' = [size |-> HeadSize, data |-> <<>>] /\ recvPc' = "head" /\ msg' = msg
            <4>1. HeadSize > 0 /\ HeadSize <= MaxMsgSize /\ ~(HeadSize <= 0) /\ ~(HeadSize > MaxMsgSize)
                BY MaxMsgSizeAssumption DEF HeadSize
            <4> QED
                BY <1>6, <2>3, <3>9, <4>1 DEF RecvLen
        <3>11. InHead(to, 0)'
            <4>1. First' = First /\ Due' = m /\ to[m] = - (LenSize + 0)
                BY <3>1, <3>5, <3>6 DEF ReadOn, LenSize
            <4>2. Bytes(m, "head", 0) = <<>>
                BY <3>7, NoBytes DEF Parts
            <4>3. 0 < HeadSize
                BY DEF HeadSize
            <4> QED
                BY <1>1, <2>1, <3>10, <4>1, <4>2, <4>3 DEF InHead, AtStart
        <3> QED
            BY <3>5, <3>6, <3>11 DEF ReadOn, Reading
    <2> QED
        BY <2>2, <2>3
<1> QED
    BY <1>5, <1>6

\* A head is recognised, and no other than the one that was sent.
LEMMA HeadKnown ==
    ASSUME NEW m \in 1 .. Len(size), Len(size) \in Nat
    PROVE  HeadOf(Bytes(m, "head", HeadSize)) = {m}
<1>1. ASSUME NEW h \in 1 .. Len(size), Bytes(m, "head", HeadSize) = Bytes(h, "head", HeadSize)
      PROVE  h = m
    <2>1. m \in Nat /\ h \in Nat /\ "head" \in Parts /\ HeadSize \in Nat /\ 1 \in 1 .. HeadSize
        BY DEF Parts, HeadSize
    <2>2. Bytes(m, "head", HeadSize)[1] = <<m, "head", 1>>
        BY <2>1, BytesTyped
    <2>3. Bytes(h, "head", HeadSize)[1] = <<h, "head", 1>>
        BY <2>1, BytesTyped
    <2> QED
        BY <1>1, <2>2, <2>3
<1> QED
    BY <1>1 DEF HeadOf

\* What there is to read of a part of n bytes of which k are in buffer c: g bytes.
FilledBy(c, n, m, p, k, g) ==
    /\ g = Got(Wanted(c)) /\ g <= Len(inbuf) /\ k + g <= n
    /\ k + g < n => g = Len(inbuf)
    /\ Fill(c) = [size |-> n, data |-> Bytes(m, p, k) \o SubSeq(inbuf, 1, g)]
    /\ Read(Wanted(c)) => inbuf' = SubSeq(inbuf, g + 1, Len(inbuf))
    /\ (Recved(c) <=> k = n)

LEMMA Filling ==
    ASSUME NEW c, NEW n \in Nat, NEW m \in Nat, NEW p \in Parts, NEW k \in Nat, k <= n,
           c = [size |-> n, data |-> Bytes(m, p, k)], inbuf \in Seq(Byte)
    PROVE  \E g \in Nat : FilledBy(c, n, m, p, k, g)
<1>1. Len(Bytes(m, p, k)) = k
    BY BytesTyped
<1>2. c.data = Bytes(m, p, k) /\ c.size = n
    OBVIOUS
<1>3. Wanted(c) = n - k /\ (Recved(c) <=> k = n)
    BY <1>1, <1>2 DEF Wanted, Recved
<1>4. PICK r \in Nat, v \in Nat : r = Len(inbuf) /\ v = n - k
    BY LenProperties
<1>5. PICK g : g = Got(v)
    OBVIOUS
<1>6. g \in Nat /\ g <= r /\ g <= v /\ (g < v => g = r)
    BY <1>4, <1>5 DEF Got
<1>7. k + g <= n /\ (k + g < n => g = r)
    BY <1>4, <1>6
<1>8. Fill(c) = [size |-> n, data |-> Bytes(m, p, k) \o SubSeq(inbuf, 1, g)]
    <2>1. Got(Wanted(c)) = g
        BY <1>3, <1>4, <1>5
    <2>2. Fill(c) = [c EXCEPT !.data = @ \o SubSeq(inbuf, 1, g)]
        BY <2>1 DEF Fill
    <2>3. PICK d, e : d = Bytes(m, p, k) /\ e = d \o SubSeq(inbuf, 1, g)
        OBVIOUS
    <2>4. [c EXCEPT !.data = @ \o SubSeq(inbuf, 1, g)] = [c EXCEPT !.data = e]
        BY <1>2, <2>3
    <2>5. [c EXCEPT !.data = e] = [size |-> n, data |-> e]
        OBVIOUS
    <2> QED
        BY <2>2, <2>3, <2>4, <2>5
<1>9. Read(Wanted(c)) => inbuf' = SubSeq(inbuf, g + 1, Len(inbuf))
    BY <1>3, <1>4, <1>5 DEF Read
<1> QED
    BY <1>3, <1>4, <1>5, <1>6, <1>7, <1>8, <1>9 DEF FilledBy

\* The head: it is incomplete only for the first message.
LEMMA StreamRecvHead ==
    ASSUME Promise, StreamInv, RecvHead
    PROVE  StreamInv'
<1>1. UNCHANGED <<size, sent, sendPc, wire, delivered>> /\ recvPc = "head"
    BY DEF RecvHead
<1>2. PICK at : StreamAt(at)
    BY DEF StreamInv
<1>3. SUFFICES \E to : Kept(to)' /\ Reading(to)'
    BY <1>1, StreamBack DEF Recv, StreamInv
<1>4. Due \in Nat /\ Due # 0 /\ inbuf \in Seq(Byte)
    BY StreamFacts DEF StreamInv
<1>5. ~AtStart(at)
    BY <1>1 DEF AtStart
<1>6. CASE \E k \in Nat : InBody(at, k)
    <2>1. PICK k \in Nat : InBody(at, k)
        BY <1>6
    <2>2. Recved(head)
        <3>1. Len(Bytes(Due, "head", HeadSize)) = HeadSize
            BY <1>4, BytesTyped DEF Parts, HeadSize
        <3> QED
            BY <2>1, <3>1 DEF InBody, Recved
    <2>3. recvPc' = "body" /\ UNCHANGED <<inbuf, head, msg, pbHead>>
        BY <2>2 DEF RecvHead
    <2>4. Kept(at)' /\ First' = First /\ Due' = Due /\ Sending' = Sending
        BY <1>1, <1>2, <2>3, StreamStays
    <2>5. InBody(at, k)'
        BY <1>1, <2>1, <2>3, <2>4 DEF InBody
    <2> QED
        BY <2>4, <2>5 DEF Reading
<1>7. CASE \E k \in Nat : InHead(at, k)
    <2>1. PICK k \in Nat : InHead(at, k)
        BY <1>7
    <2>2. PICK m : m = Due
        OBVIOUS
    <2>3. /\ msg = Cleared /\ k < HeadSize /\ head = [size |-> HeadSize, data |-> Bytes(m, "head", k)]
          /\ at[m] = - (LenSize + k) /\ (pbHead = 0 <=> delivered = <<>>)
        BY <2>1, <2>2 DEF InHead
    <2>15. PICK g \in Nat : FilledBy(head, HeadSize, m, "head", k, g)
        <3>1. HeadSize \in Nat /\ m \in Nat /\ "head" \in Parts /\ k <= HeadSize
            BY <1>4, <2>2, <2>3 DEF HeadSize, Parts
        <3>2. head = [size |-> HeadSize, data |-> Bytes(m, "head", k)]
            BY <2>3
        <3> QED
            BY <1>4, <3>1, <3>2, Filling
    <2>4. /\ g = Got(Wanted(head)) /\ g <= Len(inbuf) /\ k + g <= HeadSize
          /\ k + g < HeadSize => g = Len(inbuf)
          /\ Fill(head) = [size |-> HeadSize, data |-> Bytes(m, "head", k) \o SubSeq(inbuf, 1, g)]
          /\ Read(Wanted(head)) => inbuf' = SubSeq(inbuf, g + 1, Len(inbuf))
          /\ (Recved(head) <=> k = HeadSize)
        BY <2>15 DEF FilledBy
    <2>5. ~Recved(head)
        BY <2>3, <2>4 DEF HeadSize
    <2>6. m \in 1 .. Sending
        <3>1. PICK u \in Nat : u = Len(Unread)
            BY StreamFacts
        <3>2. u > at[m]
            BY <2>3, <3>1 DEF LenSize
        <3> QED
            BY <1>2, <2>2, <3>1, <3>2, Ahead
    <2>7. ReadOn(at, "head", k, g)
        <3>1. inbuf' = SubSeq(inbuf, g + 1, Len(inbuf))
            BY <2>4, <2>5 DEF RecvHead
        <3>2. at[Due] + Offset("head") + k = 0
            BY <2>2, <2>3 DEF Offset, LenSize
        <3>3. k + g <= PartSize(size, Due, "head") /\ "head" \in Parts /\ Due \in 1 .. Sending
              /\ g <= Len(inbuf)
            BY <2>2, <2>4, <2>6 DEF PartSize, Parts
        <3>4. inbuf' = SubSeq(inbuf, g + 1, Len(inbuf)) => ReadOn(at, "head", k, g)
            BY <1>1, <1>2, <3>2, <3>3, StreamRead
        <3> QED
            BY <3>1, <3>4
    <2>8. PICK to : to = Shifted(at, g)
        OBVIOUS
    <2>9. /\ Kept(to)' /\ First' = First /\ Due' = m /\ Sending' = Sending /\ to[m] = at[m] - g
          /\ Fill(head) = [size |-> HeadSize, data |-> Bytes(m, "head", k + g)]
        BY <2>2, <2>4, <2>7, <2>8 DEF ReadOn
    <2>10. to[m] = - (LenSize + (k + g)) /\ k + g \in Nat
        BY <2>3, <2>9 DEF LenSize
    <2>11. Len(Bytes(m, "head", k + g)) = k + g
        BY <1>4, <2>2, <2>10, BytesTyped DEF Parts
    <2>12. Recved(Fill(head)) <=> k + g = HeadSize
        BY <2>9, <2>11 DEF Recved
    <2>13. CASE k + g < HeadSize
        <3>1. ~Recved(Fill(head))
            BY <2>10, <2>12, <2>13 DEF HeadSize
        <3>2. head' = Fill(head) /\ recvPc' = "test" /\ UNCHANGED <<msg, pbHead>>
            BY <2>5, <3>1 DEF RecvHead
        <3>3. delivered = <<>>
            <4>1. PICK r \in Nat : r = Len(inbuf)
                BY StreamFacts
            <4>2. r = g
                BY <2>4, <2>13, <4>1
            <4>3. Sending \in Nat /\ m \in (1 .. Sending) \cap (Due .. Sending)
                BY <1>4, <2>2, <2>6, StreamFacts
            <4>4. \/ r <= at[m] \/ r >= at[m] + LenSize + HeadSize
                  \/ m = First /\ r >= at[m] + LenSize
                BY <1>2, <4>1, <4>3 DEF StreamAt, WellCut
            <4>5. ~(r <= at[m])
                BY <2>3, <4>1 DEF LenSize
            <4>6. ~(r >= at[m] + LenSize + HeadSize)
                BY <2>3, <2>13, <4>1, <4>2 DEF LenSize, HeadSize
            <4>7. m = First
                BY <4>4, <4>5, <4>6
            <4>8. PICK d \in Nat, f \in Nat : d = Len(delivered) /\ f = First /\ m = f + d
                <5>1. Len(delivered) \in Nat /\ First \in Nat /\ m = First + Len(delivered)
                    BY <2>2, StreamFacts
                <5> QED
                    BY <5>1
            <4>9. Len(delivered) = 0
                BY <4>7, <4>8
            <4> QED
                BY <4>9, EmptySeq DEF StreamInv, IsSequence
        <3>4. InHead(to, k + g)'
            BY <1>1, <2>3, <2>9, <2>10, <2>13, <3>2, <3>3 DEF InHead
        <3> QED
            BY <2>9, <2>10, <3>4 DEF Reading
    <2>14. CASE k + g = HeadSize
        <3>1. Recved(Fill(head)) /\ Fill(head).data = Bytes(m, "head", HeadSize)
            BY <2>9, <2>12, <2>14
        <3>2. HeadOf(Fill(head).data) = {m}
            <4>1. Len(size) \in Nat /\ m \in 1 .. Len(size)
                BY <2>6, StreamFacts
            <4> QED
                BY <3>1, <4>1, HeadKnown
        <3>3. size[m] \in Nat /\ size[m] <= MaxMsgSize /\ size' = size
            <4>1. size \in Seq(Sizes) /\ m \in 1 .. Len(size)
                BY <2>6, StreamFacts DEF StreamInv, Inv, TypeOK
            <4>2. size[m] \in Sizes
                BY <4>1, ElementOfSeq
            <4>3. size[m] \in 0 .. MaxMsgSize
                BY <4>2 DEF Promise
            <4> QED
                BY <1>1, <4>3, MaxMsgSizeAssumption
        <3>4. /\ pbHead' = m /\ head' = Fill(head)
              /\ \/ size[m] = 0 /\ msg' = [msg EXCEPT !.size = 0] /\ recvPc' = "test"
                 \/ size[m] # 0 /\ msg' = [size |-> size[m], data |-> <<>>] /\ recvPc' = "body"
            <4>1. ~(size[m] > MaxMsgSize)
                BY <3>3, MaxMsgSizeAssumption
            <4> QED
                BY <2>5, <3>1, <3>2, <4>1 DEF RecvHead
        <3>5. Bytes(m, "body", 0) = <<>>
            BY <1>4, <2>2, NoBytes DEF Parts
        <3>6. msg' = [size |-> size[m], data |-> Bytes(m, "body", 0)] /\ recvPc' # "head"
              /\ (0 = size[m] => recvPc' = "test")
            BY <2>3, <3>4, <3>5 DEF Cleared
        <3>7. m <= Sending /\ to[m] = - (LenSize + HeadSize + 0) /\ 0 <= size[m]
            <4>1. Sending \in Nat
                BY StreamFacts
            <4> QED
                BY <2>6, <2>10, <2>14, <3>3, <4>1 DEF LenSize, HeadSize
        <3>8. InBody(to, 0)'
            BY <2>9, <2>14, <3>3, <3>4, <3>6, <3>7 DEF InBody
        <3> QED
            BY <2>9, <3>8 DEF Reading
    <2> QED
        BY <2>4, <2>10, <2>13, <2>14 DEF HeadSize
<1> QED
    BY <1>2, <1>5, <1>6, <1>7 DEF StreamAt, Reading

\* The body, in as many pieces as it comes in.
LEMMA StreamRecvBody ==
    ASSUME Promise, StreamInv, RecvBody
    PROVE  StreamInv'
<1>1. UNCHANGED <<size, sent, sendPc, wire, head, pbHead, delivered>> /\ recvPc = "body"
      /\ recvPc' = "test"
    BY DEF RecvBody
<1>2. PICK at : StreamAt(at)
    BY DEF StreamInv
<1>3. SUFFICES \E to : Kept(to)' /\ Reading(to)'
    BY <1>1, StreamBack DEF Recv, StreamInv
<1>4. Due \in Nat /\ Due # 0 /\ inbuf \in Seq(Byte)
    BY StreamFacts DEF StreamInv
<1>5. PICK k \in Nat : InBody(at, k)
    BY <1>1, <1>2 DEF StreamAt, Reading, AtStart, InHead
<1>6. PICK m, n : m = Due /\ n = size[m]
    OBVIOUS
<1>7. /\ m \in 1 .. Sending /\ m \in Nat /\ m <= Sending /\ n \in Nat
    <2>1. Sending \in Nat /\ Sending = Len(size) /\ size \in Seq(Nat)
        BY StreamFacts
    <2>2. m \in 1 .. Sending
        BY <1>4, <1>5, <1>6, <2>1 DEF InBody
    <2>3. size[m] \in Nat
        BY <2>1, <2>2, ElementOfSeq
    <2> QED
        BY <1>4, <1>6, <2>1, <2>2, <2>3
<1>8. /\ k <= n /\ k # n /\ msg = [size |-> n, data |-> Bytes(m, "body", k)]
      /\ at[m] = - (LenSize + HeadSize + k)
    BY <1>1, <1>5, <1>6 DEF InBody
<1>9. PICK g \in Nat : FilledBy(msg, n, m, "body", k, g)
    BY <1>4, <1>7, <1>8, Filling DEF Parts
<1>10. /\ g = Got(Wanted(msg)) /\ g <= Len(inbuf) /\ k + g <= n
       /\ Fill(msg) = [size |-> n, data |-> Bytes(m, "body", k) \o SubSeq(inbuf, 1, g)]
       /\ Read(Wanted(msg)) => inbuf' = SubSeq(inbuf, g + 1, Len(inbuf))
       /\ ~Recved(msg)
    BY <1>8, <1>9 DEF FilledBy
<1>11. msg' = Fill(msg) /\ inbuf' = SubSeq(inbuf, g + 1, Len(inbuf))
    BY <1>10 DEF RecvBody
<1>12. ReadOn(at, "body", k, g)
    <2>1. at[Due] + Offset("body") + k = 0
        BY <1>6, <1>8 DEF Offset, LenSize, HeadSize
    <2>2. k + g <= PartSize(size, Due, "body") /\ "body" \in Parts /\ Due \in 1 .. Sending
        BY <1>6, <1>7, <1>10 DEF PartSize, Parts
    <2>3. inbuf' = SubSeq(inbuf, g + 1, Len(inbuf)) => ReadOn(at, "body", k, g)
        BY <1>1, <1>2, <1>10, <2>1, <2>2, StreamRead
    <2> QED
        BY <1>11, <2>3
<1>13. PICK to : to = Shifted(at, g)
    OBVIOUS
<1>14. /\ Kept(to)' /\ Due' = m /\ Sending' = Sending /\ to[m] = at[m] - g
       /\ msg' = [size |-> n, data |-> Bytes(m, "body", k + g)]
    BY <1>6, <1>10, <1>11, <1>12, <1>13 DEF ReadOn
<1>15. to[m] = - (LenSize + HeadSize + (k + g)) /\ k + g \in Nat
    BY <1>8, <1>14 DEF LenSize, HeadSize
<1>16. InBody(to, k + g)'
    BY <1>1, <1>5, <1>6, <1>7, <1>10, <1>14, <1>15 DEF InBody
<1> QED
    BY <1>14, <1>15, <1>16 DEF Reading

\* What Dispatch hands to the callback.
LEMMA Delivering ==
    ASSUME StreamInv, NEW at, StreamAt(at), Dispatch
    PROVE  \/ recvPc' = "idle" /\ UNCHANGED <<head, msg, delivered>>
              /\ (\E k \in Nat : InHead(at, k) \/ (InBody(at, k) /\ k # size[Due]))
              /\ (\A k \in Nat : InHead(at, k) => delivered = <<>>)
           \/ /\ InBody(at, size[Due]) /\ size[Due] \in Nat /\ Due \in 1 .. Sending
              /\ delivered' = Append(delivered, [head |-> Due, data |-> BodyOf(Due)])
              /\ head' = Cleared /\ msg' = Cleared /\ recvPc' = "len"
<1>1. recvPc = "test"
    BY DEF Dispatch
<1>2. ~AtStart(at)
    BY <1>1 DEF AtStart
<1>3. Due \in Nat /\ Due # 0
    BY StreamFacts
<1>4. CASE \E k \in Nat : InHead(at, k)
    <2>1. PICK k \in Nat : InHead(at, k)
        BY <1>4
    <2>2. delivered = <<>> /\ pbHead = 0
        BY <1>1, <2>1 DEF InHead
    <2> QED
        BY <2>1, <2>2 DEF Dispatch
<1>5. CASE ~\E k \in Nat : InHead(at, k)
    <2>1. PICK k \in Nat : InBody(at, k)
        BY <1>2, <1>5 DEF StreamAt, Reading
    <2>2. Due \in 1 .. Sending /\ size[Due] \in Nat
        <3>1. Sending \in Nat /\ Sending = Len(size) /\ size \in Seq(Nat)
            BY StreamFacts
        <3>2. Due \in 1 .. Sending
            BY <1>3, <2>1, <3>1 DEF InBody
        <3> QED
            BY <3>1, <3>2, ElementOfSeq
    <2>3. pbHead = Due /\ msg = [size |-> size[Due], data |-> Bytes(Due, "body", k)]
        BY <2>1 DEF InBody
    <2>4. Recved(msg) <=> k = size[Due]
        <3>1. Len(Bytes(Due, "body", k)) = k
            BY <1>3, BytesTyped DEF Parts
        <3> QED
            BY <2>3, <3>1 DEF Recved
    <2>5. CASE k = size[Due]
        <3>1. Recved(msg) /\ pbHead # 0 /\ msg.data = BodyOf(Due)
            BY <1>3, <2>3, <2>4, <2>5 DEF BodyOf
        <3> QED
            BY <2>1, <2>2, <2>3, <2>5, <3>1 DEF Dispatch
    <2>6. CASE k # size[Due]
        <3>1. ~Recved(msg)
            BY <2>4, <2>6
        <3> QED
            BY <1>5, <2>1, <2>6, <3>1 DEF Dispatch
    <2> QED
        BY <2>5, <2>6
<1> QED
    BY <1>4, <1>5

\* A message is handed over once it is complete, or the next bytes are awaited.
LEMMA StreamDispatch ==
    ASSUME Promise, StreamInv, Dispatch
    PROVE  StreamInv'
<1>1. UNCHANGED <<size, sent, sendPc, wire, inbuf, pbHead>> /\ recvPc = "test"
    BY DEF Dispatch
<1>2. PICK at : StreamAt(at)
    BY DEF StreamInv
<1>3. SUFFICES IsSequence(delivered') /\ Kept(at)' /\ Reading(at)'
    BY StreamBack DEF Recv
<1>4. CASE /\ recvPc' = "idle" /\ UNCHANGED <<head, msg, delivered>>
           /\ (\E k \in Nat : InHead(at, k) \/ (InBody(at, k) /\ k # size[Due]))
           /\ (\A k \in Nat : InHead(at, k) => delivered = <<>>)
    <2>1. Kept(at)' /\ First' = First /\ Due' = Due /\ Sending' = Sending
        BY <1>1, <1>2, <1>4, StreamStays
    <2>2. ASSUME NEW k \in Nat
          PROVE  InHead(at, k) => InHead(at, k)'
        BY <1>1, <1>4, <2>1 DEF InHead
    <2>3. ASSUME NEW k \in Nat
          PROVE  InBody(at, k) /\ k # size[Due] => InBody(at, k)'
        BY <1>1, <1>4, <2>1 DEF InBody
    <2> QED
        BY <1>4, <2>1, <2>2, <2>3 DEF Reading, StreamInv
<1>5. CASE /\ InBody(at, size[Due]) /\ size[Due] \in Nat /\ Due \in 1 .. Sending
           /\ delivered' = Append(delivered, [head |-> Due, data |-> BodyOf(Due)])
           /\ head' = Cleared /\ msg' = Cleared /\ recvPc' = "len"
    <2>1. PICK m, n, l, f, c : m = Due /\ n = Sending /\ l = Len(delivered) /\ f = First /\ c = Len(sent)
        OBVIOUS
    <2>2. /\ m \in Nat /\ n \in Nat /\ l \in Nat /\ f \in Nat /\ c \in Nat /\ f # 0 /\ m <= n
          /\ m = f + l /\ f = n - c + 1
        <3>1. Due \in Nat /\ Sending \in Nat /\ Len(delivered) \in Nat /\ First \in Nat
              /\ Len(sent) \in Nat /\ First # 0
            BY StreamFacts
        <3>2. Due = First + Len(delivered) /\ First = Sending - Len(sent) + 1
            BY StreamFacts
        <3>3. Due <= Sending
            BY <1>5, <3>1
        <3> QED
            BY <2>1, <3>1, <3>2, <3>3
    <2>3. PICK b : b = [head |-> m, data |-> BodyOf(m)]
        OBVIOUS
    <2>4. /\ IsSequence(delivered') /\ Len(delivered') = l + 1 /\ delivered'[l + 1] = b
          /\ \A i \in 1 .. l : delivered'[i] = delivered[i]
        <3>1. PICK S : delivered \in Seq(S)
            BY DEF StreamInv, IsSequence
        <3>2. PICK T : T = S \cup {b}
            OBVIOUS
        <3>3. delivered \in Seq(T) /\ b \in T
            <4>1. S \subseteq T
                BY <3>2
            <4> QED
                BY <3>1, <3>2, <4>1, SeqMonotonic
        <3>4. delivered' = Append(delivered, b)
            BY <1>5, <2>1, <2>3
        <3> QED
            BY <2>1, <3>3, <3>4, AppendProperties DEF IsSequence
    <2>5. Sending' = n /\ First' = f /\ Due' = m + 1
        <3>1. Sending' = n /\ First' = f
            BY <1>1, <2>1 DEF Sending, First
        <3>2. Due' = f + (l + 1)
            BY <2>4, <3>1 DEF Due
        <3> QED
            BY <2>2, <3>1, <3>2
    <2>6. Ends(size, at)' /\ Placed(size, at, Unread)' /\ Written(at)'
        BY <1>1, <1>2, <2>1, <2>5 DEF StreamAt, Unread, Written
    <2>7. WellCut(at)'
        <3>1. \A h \in (1 .. n) \cap (m + 1 .. n) : h \in (1 .. Sending) \cap (Due .. Sending)
            BY <2>1, <2>2
        <3> QED
            BY <1>1, <1>2, <2>1, <2>5, <3>1 DEF StreamAt, WellCut
    <2>8. Numbered'
        <3>1. Len(delivered)' <= Len(sent)' /\ Len(sent)' <= Sending' /\ (sendPc' # "len" => Len(sent)' # 0)
            <4>1. l + 1 <= c /\ c <= n
                BY <2>2
            <4> QED
                BY <1>1, <2>1, <2>4, <2>5, <4>1 DEF StreamInv, Numbered
        <3>2. \A i \in 1 .. c : sent'[i] = f + i - 1
            BY <1>1, <2>1 DEF StreamInv, Numbered
        <3>3. \A i : BodyOf(i)' = BodyOf(i)
            BY <1>1 DEF BodyOf
        <3>4. ASSUME NEW i \in 1 .. l + 1
              PROVE  delivered'[i] = [head |-> f + i - 1, data |-> BodyOf(f + i - 1)]
            <4>1. CASE i \in 1 .. l
                BY <2>1, <2>4, <4>1 DEF StreamInv, Numbered
            <4>2. CASE i = l + 1
                <5>1. f + i - 1 = m
                    BY <2>2, <4>2
                <5> QED
                    BY <2>3, <2>4, <4>2, <5>1
            <4> QED
                BY <2>2, <4>1, <4>2
        <3> QED
            BY <1>1, <2>1, <2>4, <2>5, <3>1, <3>2, <3>3, <3>4 DEF Numbered
    <2>9. AtStart(at)'
        <3>1. at[m] = - (LenSize + HeadSize + size[m]) /\ size[m] \in Nat /\ pbHead = m
            BY <1>5, <2>1 DEF InBody
        <3>2. at[m + 1] = at[m] + LenSize + HeadSize + size[m]
            <4>1. m \in 1 .. Len(size)
                BY <1>5, <2>1, StreamFacts
            <4> QED
                BY <1>2, <4>1 DEF StreamAt, Ends
        <3>3. at[m + 1] = 0
            BY <3>1, <3>2 DEF LenSize, HeadSize
        <3>4. pbHead' # 0 /\ delivered' # <<>>
            <4>1. m # 0 /\ l + 1 # 0
                BY <2>2
            <4> QED
                BY <1>1, <2>4, <3>1, <4>1, EmptySeq
        <3> QED
            BY <1>5, <2>5, <3>3, <3>4 DEF AtStart
    <2> QED
        BY <1>1, <2>4, <2>6, <2>7, <2>8, <2>9 DEF Kept, Reading, StreamInv
<1> QED
    BY <1>2, <1>4, <1>5, Delivering

\* A message more makes the chain longer.
LEMMA ChainedStep ==
    ASSUME Inv, Chained, Next
    PROVE  Chained'
<1>1. CASE UNCHANGED size
    BY <1>1 DEF Chained
<1>2. CASE SendLen
    <2>1. PICK s \in Sizes : size' = Append(size, s)
        BY <1>2 DEF SendLen
    <2>2. PICK at : Ends(size, at)
        BY DEF Chained
    <2>3. PICK y, n, e, z : y = size /\ n = Len(size) + 1 /\ e = <<>> /\ z = at[n]
        OBVIOUS
    <2>4. y \in Seq(Nat) /\ n \in Nat /\ n = Len(y) + 1 /\ s \in Nat
        <3>1. size \in Seq(Sizes) /\ size \in Seq(Nat)
            BY SizesAssumption, SeqMonotonic DEF Inv, TypeOK
        <3>2. Len(size) \in Nat
            BY <3>1, LenProperties
        <3> QED
            BY <2>3, <3>1, <3>2, SizesAssumption
    <2>5. Ends(y, at) /\ z \in Int
        <3>1. Ends(y, at)
            BY <2>2, <2>3
        <3> QED
            BY <2>3, <2>4, <3>1 DEF Ends
    <2>6. PICK to : to = Shifted(at, z)
        OBVIOUS
    <2>7. Ends(y, to) /\ to[n] = 0
        <3>1. Ends(y, Shifted(at, z)) /\ Shifted(at, z)[n] = at[n] - z
            BY <2>4, <2>5, EndsShifted
        <3>2. at[n] - z = 0
            BY <2>3, <2>5
        <3> QED
            BY <2>6, <3>1, <3>2
    <2>8. e \in Seq(Byte) /\ Len(e) = 0
        BY <2>3, EmptySeq
    <2>9. Placed(y, to, e)
        BY <2>8 DEF Placed
    <2>10. Len(e) = to[Len(y) + 1]
        BY <2>4, <2>7, <2>8
    <2>11. PICK t \in [Nat -> Int] : Ends(Append(y, s), t)
        <3>1. y \in Seq(Nat) /\ s \in Nat /\ e \in Seq(Byte)
            BY <2>4, <2>8
        <3> QED
            BY <2>7, <2>9, <2>10, <3>1, PlacedBegun
    <2> QED
        BY <2>1, <2>3, <2>11 DEF Chained
<1> QED
    BY <1>1, <1>2 DEF Next, Send, SendHead, SendBody, GiveUp, Receive, CloseBev, Connect, Recv,
                      RecvLen, RecvHead, RecvBody, Dispatch

\* A stream in which each message is in its place delivers whole messages.
LEMMA StreamWhole ==
    ASSUME StreamInv
    PROVE  WholeMessages
<1>1. PICK l \in Nat, f \in Nat : l = Len(delivered) /\ f = First
    <2>1. Len(delivered) \in Nat /\ First \in Nat
        BY StreamFacts
    <2> QED
        BY <2>1
<1>2. \A i \in 1 .. l : delivered[i] = [head |-> f + i - 1, data |-> BodyOf(f + i - 1)]
    BY <1>1 DEF StreamInv, Numbered
<1>3. ASSUME NEW i \in 1 .. l
      PROVE  delivered[i].head = f + i - 1 /\ delivered[i].data = BodyOf(delivered[i].head)
    <2>1. PICK m : m = f + i - 1
        OBVIOUS
    <2>2. delivered[i] = [head |-> m, data |-> BodyOf(m)]
        BY <1>2, <2>1
    <2>3. delivered[i].head = m /\ delivered[i].data = BodyOf(m)
        BY <2>2
    <2> QED
        BY <2>1, <2>3
<1>4. ASSUME NEW i \in 1 .. l, NEW j \in 1 .. l, i # j
      PROVE  delivered[i].head # delivered[j].head
    <2>1. f + i - 1 # f + j - 1
        BY <1>1, <1>4
    <2> QED
        BY <1>3, <2>1
<1> QED
    BY <1>1, <1>3, <1>4 DEF WholeMessages

LEMMA WholeStays ==
    ASSUME WholeMessages, UNCHANGED <<size, delivered, torn>>
    PROVE  WholeMessages'
<1>1. \A m : BodyOf(m)' = BodyOf(m)
    BY DEF BodyOf
<1> QED
    BY <1>1 DEF WholeMessages

LEMMA StreamingInit == Init => Streaming
<1> SUFFICES ASSUME Init PROVE Streaming
    OBVIOUS
<1>1. StreamInv
    BY StreamInit
<1>2. open = TRUE
    BY DEF Init
<1> QED
    BY <1>1, <1>2 DEF Streaming, StreamInv, StreamAt, Chained

LEMMA StreamUnchanged ==
    ASSUME StreamInv, UNCHANGED vars
    PROVE  StreamInv'
<1>1. UNCHANGED <<size, sent, sendPc, wire, inbuf, recvPc, head, msg, pbHead, delivered>>
    BY DEF vars, recvVars
<1>2. PICK at : StreamAt(at)
    BY DEF StreamInv
<1>3. Kept(at)' /\ First' = First /\ Due' = Due /\ Sending' = Sending
    BY <1>1, <1>2, StreamStays
<1>4. Reading(at)'
    BY <1>1, <1>2, <1>3 DEF StreamAt, Reading, AtStart, InHead, InBody
<1>5. Inv'
    BY InvStep DEF StreamInv
<1> QED
    BY <1>1, <1>3, <1>4, <1>5 DEF StreamInv, StreamAt, Kept

LEMMA StreamStep == Promise /\ Streaming /\ [Next]_vars => Streaming'
<1> SUFFICES ASSUME Promise, Streaming, [Next]_vars PROVE Streaming'
    OBVIOUS
<1>1. Inv' /\ Chained'
    <2>1. Inv'
        BY InvStep DEF Streaming
    <2>2. Chained'
        <3>1. CASE Next
            BY <3>1, ChainedStep DEF Streaming
        <3>2. CASE UNCHANGED vars
            BY <3>2 DEF vars, Streaming, Chained
        <3> QED
            BY <3>1, <3>2
    <2> QED
        BY <2>1, <2>2
<1>2. SUFFICES /\ open' /\ ~torn' => StreamInv'
               /\ ~open' => WholeMessages'
    BY <1>1 DEF Streaming
<1>3. CASE SendLen \/ SendHead \/ SendBody \/ Receive \/ Recv
    <2>1. UNCHANGED <<open, torn>>
        BY <1>3 DEF SendLen, SendHead, SendBody, Receive, Recv, RecvLen, RecvHead, RecvBody,
                    Dispatch, connVars
    <2>2. open
        <3>1. Receive => wire # <<>>
            BY EmptySeq DEF Receive
        <3> QED
            BY <1>3, <3>1 DEF SendLen, SendHead, SendBody, Receive, Recv, RecvLen, RecvHead,
                              RecvBody, Dispatch, Streaming, Inv, Closed
    <2>3. ASSUME ~torn
          PROVE  StreamInv'
        <3>1. StreamInv
            BY <2>2, <2>3 DEF Streaming
        <3>2. CASE SendLen \/ SendHead \/ SendBody
            BY <3>1, <3>2, StreamSendLen, StreamSendPart
        <3>3. CASE Receive
            BY <2>3, <3>1, <3>3, StreamReceive
        <3>4. CASE Recv
            BY <3>1, <3>4, StreamRecvLen, StreamRecvHead, StreamRecvBody, StreamDispatch DEF Recv
        <3> QED
            BY <1>3, <3>2, <3>3, <3>4
    <2> QED
        BY <2>1, <2>2, <2>3
<1>4. CASE GiveUp
    <2>1. ~open /\ UNCHANGED <<size, delivered, open, torn>>
        BY <1>4 DEF GiveUp, recvVars, connVars
    <2>2. WholeMessages'
        BY <2>1, WholeStays DEF Streaming
    <2> QED
        BY <2>1, <2>2
<1>5. CASE CloseBev
    <2>1. open /\ open' = FALSE /\ UNCHANGED <<size, delivered, torn>>
        BY <1>5 DEF CloseBev, recvVars
    <2>2. WholeMessages
        <3>1. CASE torn
            BY <3>1 DEF WholeMessages
        <3>2. CASE ~torn
            BY <2>1, <3>2, StreamWhole DEF Streaming
        <3> QED
            BY <3>1, <3>2
    <2> QED
        BY <2>1, <2>2, WholeStays
<1>6. CASE Connect
    <2>1. open' = TRUE /\ torn' = (sendPc # "len")
        BY <1>6 DEF Connect
    <2>2. sendPc = "len" => StreamInv'
        BY <1>6, StreamConnect DEF Streaming
    <2> QED
        BY <2>1, <2>2
<1>7. CASE UNCHANGED vars
    <2>1. UNCHANGED <<size, delivered, open, torn>>
        BY <1>7 DEF vars, recvVars, connVars
    <2>2. StreamInv => StreamInv'
        BY <1>7, StreamUnchanged
    <2>3. WholeMessages => WholeMessages'
        BY <2>1, WholeStays
    <2> QED
        BY <2>1, <2>2, <2>3 DEF Streaming
<1> QED
    BY <1>3, <1>4, <1>5, <1>6, <1>7 DEF Next, Send

\* On a connection that did not begin in the middle of a frame, a handler is called
\* with the head and the whole body of one message, never with less and with no
\* message twice (CMsgEvent::readCb and recvMsg), if what is promised holds.
THEOREM Whole ==
    ASSUME Promise
    PROVE  Spec => []WholeMessages
<1>1. Streaming => WholeMessages
    BY StreamWhole DEF Streaming, WholeMessages
<1>2. Streaming /\ [Next]_vars => Streaming'
    BY StreamStep
<1> QED
    BY <1>1, <1>2, StreamingInit, PTL DEF Spec

-----------------------------------------------------------------------------
(* The channel.                                                            *)

Heads == [i \in 1 .. Len(delivered) |-> delivered[i].head]

\* One more message delivered, and the messages delivered so far.
ExtendsBy(d, c, b, l) ==
    /\ Len(d) = l + 1 /\ d[l + 1].head = b
    /\ Len(c) = l /\ \A i \in 1 .. l : d[i].head = c[i]

LEMMA HeadsAre ==
    ASSUME NEW d, NEW c \in Seq(Int), NEW b \in Int, NEW l \in Nat
    PROVE  ExtendsBy(d, c, b, l) => [i \in 1 .. Len(d) |-> d[i].head] = Append(c, b)
<1> SUFFICES ASSUME Len(d) = l + 1, d[l + 1].head = b, Len(c) = l,
                    \A i \in 1 .. l : d[i].head = c[i]
             PROVE  [i \in 1 .. Len(d) |-> d[i].head] = Append(c, b)
    BY DEF ExtendsBy
<1>1. PICK g, h : g = Append(c, b) /\ h = [i \in 1 .. l + 1 |-> d[i].head]
    OBVIOUS
<1>2. g \in Seq(Int) /\ Len(g) = l + 1 /\ g[l + 1] = b /\ \A i \in 1 .. l : g[i] = c[i]
    BY <1>1, AppendProperties
<1>3. \A i \in 1 .. l : c[i] \in Int
    BY ElementOfSeq
<1>4. ASSUME NEW i \in 1 .. l + 1
      PROVE  d[i].head = g[i] /\ d[i].head \in Int
    <2>1. CASE i \in 1 .. l
        BY <1>2, <1>3, <2>1
    <2>2. CASE i = l + 1
        BY <1>2, <2>2
    <2> QED
        BY <2>1, <2>2
<1>5. h \in Seq(Int) /\ Len(h) = l + 1
    BY <1>1, <1>4
<1>6. \A i \in 1 .. l + 1 : h[i] = g[i]
    BY <1>1, <1>4
<1>7. h = g
    BY <1>2, <1>5, <1>6, SeqEqual
<1> QED
    BY <1>1, <1>7

LEMMA HeadsSoFar ==
    ASSUME Inv
    PROVE  Heads \in Seq(Int) /\ Len(Heads) = Len(delivered) /\ Len(delivered) \in Nat
           /\ \A i \in 1 .. Len(delivered) : Heads[i] = delivered[i].head
<1>1. PICK l \in Nat : l = Len(delivered)
    BY LenProperties DEF Inv, Handed, IsSequence
<1>2. \A i \in 1 .. l : delivered[i].head \in Int
    BY <1>1 DEF Inv, Handed
<1>3. Heads = [i \in 1 .. l |-> delivered[i].head]
    BY <1>1 DEF Heads
<1> QED
    BY <1>1, <1>2, <1>3

\* No handler has been called.
LEMMA NoHeads ==
    ASSUME NEW d, d = <<>>
    PROVE  [i \in 1 .. Len(d) |-> d[i].head] = <<>>
<1>1. PICK h : h = [i \in 1 .. 0 |-> d[i].head]
    OBVIOUS
<1>2. h \in Seq({}) /\ Len(h) = 0
    BY <1>1
<1>3. h = <<>>
    BY <1>2, EmptySeq
<1>4. Len(d) = 0
    BY EmptySeq
<1> QED
    BY <1>1, <1>3, <1>4

\* A call of a handler adds the head it is called with.
LEMMA OneMoreHead ==
    ASSUME Inv, NEW m \in Int, NEW x, delivered' = Append(delivered, [head |-> m, data |-> x])
    PROVE  Heads' = Append(Heads, m)
<1>1. PICK l \in Nat : l = Len(delivered)
    BY HeadsSoFar
<1>2. PICK b : b = [head |-> m, data |-> x]
    OBVIOUS
<1>3. Len(delivered') = l + 1 /\ delivered'[l + 1] = b /\ \A i \in 1 .. l : delivered'[i] = delivered[i]
    <2>1. PICK S : delivered \in Seq(S)
        BY DEF Inv, Handed, IsSequence
    <2>2. PICK T : T = S \cup {b}
        OBVIOUS
    <2>3. S \subseteq T /\ b \in T
        BY <2>2
    <2>4. delivered \in Seq(T)
        BY <2>1, <2>3, SeqMonotonic
    <2>5. delivered' = Append(delivered, b)
        BY <1>2
    <2> QED
        BY <1>1, <2>3, <2>4, <2>5, AppendProperties
<1>4. \A i \in 1 .. l : delivered'[i].head = Heads[i]
    BY <1>1, <1>3, HeadsSoFar
<1>5. delivered'[l + 1].head = m
    BY <1>2, <1>3
<1>6. PICK d : d = delivered'
    OBVIOUS
<1>7. /\ Heads \in Seq(Int) /\ Len(Heads) = l /\ Len(d) = l + 1 /\ d[l + 1].head = m
      /\ \A i \in 1 .. l : d[i].head = Heads[i]
    BY <1>1, <1>3, <1>4, <1>5, <1>6, HeadsSoFar
<1>8. [i \in 1 .. Len(d) |-> d[i].head] = Append(Heads, m)
    <2>1. PICK c \in Seq(Int) : c = Heads
        BY <1>7
    <2>2. Len(c) = l /\ \A i \in 1 .. l : d[i].head = c[i]
        BY <1>7, <2>1
    <2>3. ExtendsBy(d, c, m, l)
        BY <1>7, <2>2 DEF ExtendsBy
    <2>4. [i \in 1 .. Len(d) |-> d[i].head] = Append(c, m)
        BY <1>1, <2>1, <2>3, HeadsAre
    <2> QED
        BY <2>1, <2>4
<1> QED
    BY <1>6, <1>8 DEF Heads

\* Each step is one of the channel, or none.
LEMMA ChannelStep ==
    ASSUME Promise, Streaming, [Next]_vars
    PROVE  [Channel!Next]_(Channel!vars)
<1> DEFINE sending == sendPc # "len"
<1>1. SUFFICES \/ /\ ~sending /\ sending' = TRUE /\ UNCHANGED <<torn, Heads>>
                  /\ \E m \in Messages : sent' = Append(sent, m)
               \/ sending /\ sending' = FALSE /\ UNCHANGED <<sent, torn, Heads>>
               \/ /\ Len(Heads) < Len(sent) /\ UNCHANGED <<sent, sending, torn>>
                  /\ Heads' = Append(Heads, sent[Len(Heads) + 1])
               \/ /\ torn /\ UNCHANGED <<sent, sending, torn>>
                  /\ \E m \in Messages : Heads' = Append(Heads, m)
               \/ sent' = <<>> /\ Heads' = <<>> /\ torn' = sending /\ UNCHANGED sending
               \/ UNCHANGED <<sent, sending, torn, Heads>>
    BY DEF Channel!Next, Channel!Begin, Channel!End, Channel!Deliver, Channel!Connect,
           Channel!vars, Heads
<1>2. UNCHANGED delivered => UNCHANGED Heads
    BY DEF Heads
<1>3. CASE SendLen
    <2>1. Sending + 1 \in Messages
        <3>1. Len(size) \in Nat /\ MaxFrames \in Nat
            BY LenProperties, BoundsAssumption DEF Streaming, Inv, TypeOK
        <3> QED
            BY <1>3, <3>1 DEF SendLen, Messages, Sending
    <2>2. ~sending /\ sending' = TRUE /\ UNCHANGED <<torn, delivered>>
        BY <1>3 DEF SendLen, recvVars, connVars
    <2> QED
        BY <1>2, <1>3, <2>1, <2>2 DEF SendLen
<1>4. CASE SendBody \/ GiveUp
    <2>1. sending /\ sending' = FALSE /\ UNCHANGED <<sent, torn, delivered>>
        BY <1>4 DEF SendBody, GiveUp, recvVars, connVars
    <2> QED
        BY <1>2, <2>1
<1>5. CASE SendHead \/ Receive \/ CloseBev \/ RecvLen \/ RecvHead \/ RecvBody \/ UNCHANGED vars
    <2>1. UNCHANGED <<sent, sending, torn, delivered>>
        BY <1>5 DEF SendHead, Receive, CloseBev, RecvLen, RecvHead, RecvBody, recvVars, connVars,
                    vars, Promise
    <2> QED
        BY <1>2, <2>1
<1>6. CASE Connect
    <2>1. sent' = <<>> /\ delivered' = <<>> /\ torn' = sending /\ UNCHANGED sending
        BY <1>6 DEF Connect
    <2>2. Heads' = [i \in 1 .. Len(delivered') |-> delivered'[i].head]
        BY DEF Heads
    <2> QED
        BY <2>1, <2>2, NoHeads
<1>7. CASE Dispatch
    <2>1. UNCHANGED <<sent, sending, torn>> /\ open
        BY <1>7 DEF Dispatch, connVars, Streaming, Inv, Closed
    <2>2. CASE UNCHANGED delivered
        BY <1>2, <2>1, <2>2
    <2>3. CASE torn /\ ~UNCHANGED delivered
        <3>1. PICK m : m = pbHead /\ m # 0 /\ delivered' = Append(delivered, [head |-> m, data |-> msg.data])
            BY <1>7, <2>3 DEF Dispatch
        <3>2. m \in Messages /\ m \in Int
            <4>1. Len(size) \in Nat /\ Len(size) <= MaxFrames /\ MaxFrames \in Nat
                  /\ m \in 0 .. Len(size)
                BY <3>1, LenProperties, BoundsAssumption DEF Streaming, Inv, TypeOK
            <4> QED
                BY <3>1, <4>1 DEF Messages
        <3>3. Heads' = Append(Heads, m)
            BY <3>1, <3>2, OneMoreHead DEF Streaming
        <3> QED
            BY <2>1, <2>3, <3>2, <3>3
    <2>4. CASE ~torn /\ ~UNCHANGED delivered
        <3>1. StreamInv
            BY <2>1, <2>4 DEF Streaming
        <3>2. PICK at : StreamAt(at)
            BY <3>1 DEF StreamInv
        <3>3. Due \in 1 .. Sending /\ delivered' = Append(delivered, [head |-> Due, data |-> BodyOf(Due)])
            BY <1>7, <2>4, <3>1, <3>2, Delivering
        <3>4. PICK l \in Nat, c \in Nat, m \in Nat, n \in Nat :
                  l = Len(delivered) /\ c = Len(sent) /\ m = Due /\ n = Sending
                  /\ m = (n - c + 1) + l /\ m <= n
            <4>1. Due \in Nat /\ Sending \in Nat /\ Len(delivered) \in Nat /\ Len(sent) \in Nat
                BY <3>1, StreamFacts
            <4>2. Due = First + Len(delivered) /\ First = Sending - Len(sent) + 1
                BY <3>1, StreamFacts
            <4>3. Due <= Sending
                BY <3>3, <4>1
            <4> QED
                BY <4>1, <4>2, <4>3
        <3>5. sent[l + 1] = m
            <4>1. l + 1 \in 1 .. c
                BY <3>4
            <4>2. sent[l + 1] = First + (l + 1) - 1
                BY <3>1, <3>4, <4>1 DEF StreamInv, Numbered
            <4>3. First = n - c + 1
                BY <3>4 DEF First
            <4> QED
                BY <3>4, <4>2, <4>3
        <3>6. Heads' = Append(Heads, m) /\ Len(Heads) = l
            <4>1. Inv
                BY DEF Streaming
            <4>2. m \in Int /\ delivered' = Append(delivered, [head |-> m, data |-> BodyOf(m)])
                BY <3>3, <3>4
            <4> QED
                BY <3>4, <4>1, <4>2, HeadsSoFar, OneMoreHead
        <3>7. Len(Heads) < Len(sent)
            BY <3>4, <3>6
        <3> QED
            BY <2>1, <3>5, <3>6, <3>7
    <2> QED
        BY <2>2, <2>3, <2>4
<1> QED
    BY <1>3, <1>4, <1>5, <1>6, <1>7 DEF Next, Send, Recv

\* What was sent on a connection is delivered in order and nothing else is, a new
\* connection starts afresh, and only one that is made while a message is being
\* sent promises nothing: sendMsg, readCb and recvMsg implement the channel the
\* services use, if what is promised holds.
THEOREM Implements ==
    ASSUME Promise
    PROVE  Spec => ImplementsChannel
<1>1. Init => Channel!Init
    <2> SUFFICES ASSUME Init PROVE Channel!Init
        OBVIOUS
    <2>1. sent = <<>> /\ delivered = <<>> /\ sendPc = "len" /\ torn = FALSE
        BY DEF Init
    <2>2. [i \in 1 .. Len(delivered) |-> delivered[i].head] = <<>>
        BY <2>1, NoHeads
    <2> QED
        BY <2>1, <2>2 DEF Channel!Init
<1>2. Streaming /\ [Next]_vars => Streaming'
    BY StreamStep
<1>3. Streaming /\ [Next]_vars => [Channel!Next]_(Channel!vars)
    BY ChannelStep
<1> QED
    BY <1>1, <1>2, <1>3, StreamingInit, PTL DEF Spec, ImplementsChannel, Channel!Spec
=============================================================================
