------------------------------ MODULE MsgEvent ------------------------------
(***************************************************************************)
(* CMsgEvent (cplatform/cmsgevent.cpp, cmsg.h): messages as frames on the  *)
(* byte stream of a CComeTask.  A frame is a length (the size of the head),*)
(* the head (a CMsgHead: type and size of the body) and the body.  sendMsg *)
(* writes the three parts one by one; the network delivers the stream in   *)
(* pieces; the read callback of the peer reassembles the frames.  The mutex*)
(* of the bufferevent is taken for one writeMsg, not for one sendMsg.      *)
(*                                                                         *)
(* A byte is <<message, part, position>>.  Lengths are scaled down: a      *)
(* length word has LenSize bytes, a head HeadSize, a body MaxMsgSize at    *)
(* most.  Messages are numbered in the order in which they are sent.       *)
(***************************************************************************)
EXTENDS Integers, Sequences

CONSTANTS
    Sizes,            \* body sizes the services send
    MaxMsgSize,       \* MAX_MSG_SIZE
    MaxFrames,        \* bound: messages sent in all
    MaxBreaks,        \* bound: connections lost
    FreshHandle,      \* TRUE: a client object sends, and each connection is read
                      \* by a new handle of the server; FALSE: the other way round
    HeadCuts,         \* where the network may cut a frame before its head is
                      \* complete: "never", "first" frame of an object, "any"
    LenCuts           \* TRUE: the network may cut inside a length word

LenSize == 2
HeadSize == 2

ASSUME SizesAssumption == Sizes \subseteq Nat
ASSUME MaxMsgSizeAssumption == MaxMsgSize \in Nat /\ MaxMsgSize >= HeadSize
ASSUME BoundsAssumption == MaxFrames \in Nat /\ MaxBreaks \in Nat
ASSUME CutsAssumption ==
    /\ FreshHandle \in BOOLEAN /\ LenCuts \in BOOLEAN
    /\ HeadCuts \in {"never", "first", "any"}

Messages == 1 .. MaxFrames

VARIABLES
    size,       \* body sizes of the messages begun so far, on any connection
    sent,       \* messages begun on this connection, in order
    sendPc,     \* the part sendMsg writes next: "len", "head" or "body"
    wire,       \* bytes written and not yet read off the socket
    inbuf,      \* the input buffer of bev_
    recvPc,     \* where readCb/recvMsg is; "idle" between two read events
    head,       \* head_: [size, data]; recvSize_ is Len(data)
    msg,        \* msg_:  [size, data]
    pbHead,     \* *pbHead_: the message whose head was parsed last, 0: null
    delivered,  \* what readCb(head, msg) was called with on this connection
    open,       \* bev_ is not null
    torn,       \* history: this connection was made in the middle of a sendMsg
    breaks      \* connections lost so far

recvVars == <<recvPc, head, msg, pbHead, delivered>>
connVars == <<open, torn, breaks>>
vars == <<size, sent, sendPc, wire, inbuf, recvVars, connVars>>

Bytes(m, part, n) == [i \in 1 .. n |-> <<m, part, i>>]

Cleared == [size |-> 0, data |-> <<>>]

Init ==
    /\ size = <<>> /\ sent = <<>> /\ sendPc = "len"
    /\ wire = <<>> /\ inbuf = <<>>
    /\ recvPc = "idle" /\ head = Cleared /\ msg = Cleared /\ pbHead = 0
    /\ delivered = <<>> /\ open = TRUE /\ torn = FALSE /\ breaks = 0

-----------------------------------------------------------------------------
(* CMsgEvent::sendMsg.  One thread sends on a connection; each writeMsg     *)
(* adds to an output buffer that may be flushed before the next call, and   *)
(* takes the bev_ there is at the time: the one of the next connection when *)
(* this one was lost and made again between two calls.                      *)

Sending == Len(size)

SendLen ==
    /\ open /\ sendPc = "len" /\ Len(size) < MaxFrames
    /\ \E s \in Sizes : size' = Append(size, s)
    /\ sent' = Append(sent, Sending + 1)
    /\ wire' = wire \o Bytes(Sending + 1, "len", LenSize)
    /\ sendPc' = "head"
    /\ UNCHANGED <<inbuf, recvVars, connVars>>

SendHead ==
    /\ open /\ sendPc = "head"
    /\ wire' = wire \o Bytes(Sending, "head", HeadSize)
    /\ sendPc' = "body"
    /\ UNCHANGED <<size, sent, inbuf, recvVars, connVars>>

\* writeMsg refuses an empty body, so sendMsg returns false although the
\* frame is complete; the sender does not compare the size with MAX_MSG_SIZE.
SendBody ==
    /\ open /\ sendPc = "body"
    /\ wire' = wire \o Bytes(Sending, "body", size[Sending])
    /\ sendPc' = "len"
    /\ UNCHANGED <<size, sent, inbuf, recvVars, connVars>>

\* writeMsg finds no bev_, and sendMsg returns false with a part of the frame
\* written.
GiveUp ==
    /\ ~open /\ sendPc # "len"
    /\ sendPc' = "len"
    /\ UNCHANGED <<size, sent, wire, inbuf, recvVars, connVars>>

-----------------------------------------------------------------------------
(* The network.                                                            *)

\* May the bytes that arrive together end with byte b?
MayEndWith(b) ==
    \/ b[2] = "body"
    \/ b[2] = "head" /\ b[3] = HeadSize
    \/ b[2] = "len" /\ b[3] < LenSize /\ LenCuts
    \/ /\ b[2] = "head" \/ b[3] = LenSize
       /\ \/ HeadCuts = "any"
          \/ HeadCuts = "first" /\ pbHead = 0 /\ (~torn => b[1] = sent[1])

\* The event loop reads what has arrived and calls readCb().
Receive ==
    /\ recvPc = "idle"
    /\ \E n \in 1 .. Len(wire) :
          /\ MayEndWith(wire[n])
          /\ inbuf' = inbuf \o SubSeq(wire, 1, n)
          /\ wire' = SubSeq(wire, n + 1, Len(wire))
    /\ recvPc' = "len"
    /\ UNCHANGED <<size, sent, sendPc, head, msg, pbHead, delivered, connVars>>

\* Mutant: a server reuses the object of the previous connection.
Renewed_Reused(old, new) == old

\* closeBev() frees the bufferevent and leaves head_, msg_ and pbHead_ of
\* the object; on the server side the object is deleted as well.
Renewed(old, new) == IF FreshHandle THEN new ELSE old

\* The connection is lost: eventCb() frees bev_, and the bytes on their way are
\* gone.  The handle of a server is deleted, with the sendMsg it was in; a
\* client in another thread may be between two parts of a frame.
CloseBev ==
    /\ open /\ recvPc = "idle" /\ breaks < MaxBreaks
    /\ open' = FALSE /\ breaks' = breaks + 1
    /\ wire' = <<>> /\ inbuf' = <<>>
    /\ sendPc' = IF FreshHandle THEN sendPc ELSE "len"
    /\ UNCHANGED <<size, sent, recvVars, torn>>

\* connect() makes a new bev_.
Connect ==
    /\ ~open
    /\ open' = TRUE /\ torn' = (sendPc # "len")
    /\ sent' = <<>> /\ delivered' = <<>>
    /\ head' = Renewed(head, Cleared)
    /\ msg' = Renewed(msg, Cleared)
    /\ pbHead' = Renewed(pbHead, 0)
    /\ UNCHANGED <<size, sendPc, wire, inbuf, recvPc, breaks>>

-----------------------------------------------------------------------------
(* CMsgEvent::readCb() and recvMsg() of the peer.                          *)

\* Mutant: an empty message does not count as received.
Recved_NotEmpty(c) == c.size > 0 /\ Len(c.data) = c.size

\* Mutant: a message counts as received one byte early.
Recved_OffByOne(c) == Len(c.data) >= c.size - 1

\* CMsg::recved; a cleared message counts as received, too.
Recved(c) == Len(c.data) = c.size

\* Mutant: a second read asks for the whole message again.
Wanted_Whole(c) == c.size

Wanted(c) == c.size - Len(c.data)

\* bufferevent_read of at most n bytes.
Got(n) == IF n < Len(inbuf) THEN n ELSE Len(inbuf)

Read(n) == inbuf' = SubSeq(inbuf, Got(n) + 1, Len(inbuf))

Fill(c) == [c EXCEPT !.data = @ \o SubSeq(inbuf, 1, Got(Wanted(c)))]

\* The integer in head_.size_ after reading word into the cleared field: the
\* low-order byte comes first, so a part of the word already has the value;
\* any other bytes are read as some number.
LenRead(word) ==
    IF \E m \in Messages : word = SubSeq(Bytes(m, "len", LenSize), 1, Len(word))
    THEN {HeadSize}
    ELSE {0, 1, HeadSize, MaxMsgSize + 1}

\* recvMsg returns false: readCb clears and returns, and what is left in the
\* input buffer stays there until the next bytes arrive.
Fail == recvPc' = "idle" /\ head' = Cleared /\ msg' = Cleared

RecvLen ==
    /\ recvPc = "len"
    /\ \/ /\ head.size # 0
          /\ recvPc' = "head"
          /\ UNCHANGED <<inbuf, head, msg>>
       \/ /\ head.size = 0 /\ inbuf = <<>>
          /\ Fail
          /\ UNCHANGED inbuf
       \/ /\ head.size = 0 /\ inbuf # <<>>
          /\ Read(LenSize)
          /\ \E n \in LenRead(SubSeq(inbuf, 1, Got(LenSize))) :
                \/ /\ n > 0 /\ n <= MaxMsgSize
                   /\ head' = [size |-> n, data |-> <<>>]
                   /\ recvPc' = "head"
                   /\ UNCHANGED msg
                \/ /\ n <= 0 \/ n > MaxMsgSize
                   /\ Fail
    /\ UNCHANGED <<size, sent, sendPc, wire, pbHead, delivered, connVars>>

\* ParseFromArray succeeds on the bytes of one head and on nothing else.
HeadOf(data) == {m \in 1 .. Len(size) : data = Bytes(m, "head", HeadSize)}

RecvHead ==
    /\ recvPc = "head"
    /\ \/ /\ Recved(head)
          /\ recvPc' = "body"
          /\ UNCHANGED <<inbuf, head, msg, pbHead>>
       \/ /\ ~Recved(head)
          /\ Read(Wanted(head))
          /\ \/ /\ ~Recved(Fill(head))
                /\ head' = Fill(head)
                /\ recvPc' = "test"
                /\ UNCHANGED <<msg, pbHead>>
             \/ /\ Recved(Fill(head)) /\ HeadOf(Fill(head).data) = {}
                /\ Fail
                /\ UNCHANGED pbHead
             \/ \E m \in HeadOf(Fill(head).data) :
                   /\ Recved(Fill(head))
                   /\ pbHead' = m
                   /\ \/ /\ size[m] = 0
                         /\ head' = Fill(head)
                         /\ msg' = [msg EXCEPT !.size = 0]
                         /\ recvPc' = "test"
                      \/ /\ size[m] \in 1 .. MaxMsgSize
                         /\ head' = Fill(head)
                         /\ msg' = [size |-> size[m], data |-> <<>>]
                         /\ recvPc' = "body"
                      \/ /\ size[m] > MaxMsgSize
                         /\ Fail
    /\ UNCHANGED <<size, sent, sendPc, wire, delivered, connVars>>

RecvBody ==
    /\ recvPc = "body"
    /\ IF Recved(msg)
       THEN UNCHANGED <<inbuf, msg>>
       ELSE Read(Wanted(msg)) /\ msg' = Fill(msg)
    /\ recvPc' = "test"
    /\ UNCHANGED <<size, sent, sendPc, wire, head, pbHead, delivered, connVars>>

\* readCb() once recvMsg has returned true: wait for more bytes, or hand the
\* message to its callback, clear and go on.
Dispatch ==
    /\ recvPc = "test"
    /\ \/ /\ pbHead = 0 \/ ~Recved(msg)
          /\ recvPc' = "idle"
          /\ UNCHANGED <<head, msg, delivered>>
       \/ /\ pbHead # 0 /\ Recved(msg)
          /\ delivered' = Append(delivered, [head |-> pbHead, data |-> msg.data])
          /\ head' = Cleared /\ msg' = Cleared
          /\ recvPc' = "len"
    /\ UNCHANGED <<size, sent, sendPc, wire, inbuf, pbHead, connVars>>

-----------------------------------------------------------------------------
Send == SendLen \/ SendHead \/ SendBody \/ GiveUp
Recv == RecvLen \/ RecvHead \/ RecvBody \/ Dispatch

Next == Send \/ Receive \/ CloseBev \/ Connect \/ Recv

\* A sendMsg that was begun goes on, bytes arrive, and the event loop runs.
Fairness ==
    /\ WF_vars(SendHead \/ SendBody \/ GiveUp)
    /\ WF_vars(Receive) /\ WF_vars(Recv)

Spec == Init /\ [][Next]_vars
FairSpec == Spec /\ Fairness

-----------------------------------------------------------------------------
(* Properties.                                                             *)

BodyOf(m) == Bytes(m, "body", size[m])

\* Every variable keeps its type.  A buffer is never filled beyond the size
\* it was allocated with (the writes at data_ + recvSize_, cmsgevent.cpp:101
\* and 141), nor allocated beyond MAX_MSG_SIZE.
TypeOK ==
    /\ size \in Seq(Sizes) /\ Len(size) <= MaxFrames
    /\ sent \in Seq(Messages)
    /\ sendPc \in {"len", "head", "body"}
    /\ recvPc \in {"idle", "len", "head", "body", "test"}
    /\ head.size \in 0 .. MaxMsgSize /\ Len(head.data) <= head.size
    /\ msg.size \in 0 .. MaxMsgSize /\ Len(msg.data) <= msg.size
    /\ pbHead \in 0 .. Len(size)
    /\ open \in BOOLEAN /\ torn \in BOOLEAN /\ breaks \in 0 .. MaxBreaks

\* "Received correctly, call the handler; received incompletely, wait for the
\* next time" (cmsgevent.h:17-18): on a connection that did not begin in the
\* middle of a frame, a handler is called with the head and the whole body of one
\* message, never with less, and with no message twice.
WholeMessages ==
    ~torn =>
        /\ \A i \in 1 .. Len(delivered) :
              delivered[i].data = BodyOf(delivered[i].head)
        /\ \A i, j \in 1 .. Len(delivered) :
              i # j => delivered[i].head # delivered[j].head

Channel == INSTANCE MsgChannel WITH
    sending <- sendPc # "len",
    delivered <- [i \in 1 .. Len(delivered) |-> delivered[i].head]

\* The framing implements the channel the services use: what was sent on a
\* connection is delivered in order and nothing else is, a new connection starts
\* afresh (no bytes of the old one are delivered on it), and this is so unless
\* a sendMsg was going on while the connection was made.
ImplementsChannel == Channel!Spec

\* Message m is on the connection, and sendMsg has written all of it.
Complete(m) == sendPc = "len" /\ \E i \in 1 .. Len(sent) : sent[i] = m

Arrives(m) ==
    \/ \E i \in 1 .. Len(delivered) : delivered[i].head = m
    \/ ~open \/ \A i \in 1 .. Len(sent) : sent[i] # m

\* A message that sendMsg has written completely is handed to its handler,
\* unless the connection is lost or began in the middle of a frame: no bytes are
\* left behind in the input buffer waiting for a later message to push them out
\* (cmsgevent.cpp:55-82).
SentIsDelivered == \A m \in Messages : (~torn /\ Complete(m)) ~> Arrives(m)

\* "Clear the buffers, to receive the next message" (cmsgevent.h:33): after bytes
\* that are no message, a message that is sent completely is received.
NextIsReceived == \A m \in Messages : Complete(m) ~> Arrives(m)
=============================================================================
