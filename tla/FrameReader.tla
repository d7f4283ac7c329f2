---------------------------- MODULE FrameReader ----------------------------
(***************************************************************************)
(* fl_connection::Recv (net.cpp): one connection slot over the sessions    *)
(* that use it one after another, with one reader at a time.               *)
(*                                                                         *)
(* A client sends frames, four bytes of length and that many bytes; they   *)
(* arrive in any pieces.  Recv reads what there is, goes on in a later     *)
(* call where it stopped, delivers a message when its last byte is read    *)
(* and skips a message that is too large.  Every recv(2) is a step, so     *)
(* that bytes arrive between two of them.                                  *)
(***************************************************************************)
EXTENDS Integers, Sequences, SequencesExt

CONSTANTS message_max_length, \* a positive number
          CHUNK,             \* bytes a recv takes of a message to skip (1024)
          Bodies,            \* what clients may send: finitely many sequences of Bytes
          MaxFrames,         \* bound: frames a client sends
          MaxSession         \* bound: sessions of the slot

\* What clients send: bodies of any bytes, of any length an int counts.
Bytes == 0 .. 255
MaxInt == 2147483647
FramesAssumption ==
    /\ message_max_length \in Nat \ {0} /\ CHUNK \in Nat \ {0}
    /\ MaxFrames \in Nat /\ MaxSession \in Nat
    /\ \A b \in Bodies : b \in Seq(Bytes) /\ Len(b) <= MaxInt

VARIABLES
    session,       \* the slot's session, 0 when it is closed
    lastSession,
    msg,           \* recv_message
    reader,        \* where the reader is in Recv
    tries,         \* tryContinueTime
    peer,          \* what the client has done with its end
    wire, sock,    \* bytes under way, and bytes that have arrived
    sent, delivered, \* of this session (history)
    upset          \* what has gone wrong with this session's framing (history)

readVars == <<msg, reader, tries, delivered>>
clientVars == <<peer, wire, sent>>
frameVars == <<session, lastSession, readVars, clientVars, sock, upset>>

\* What fl_drop_message_data leaves of a message.  No message at all (NULL) is
\* written so too: Recv begins anew with either.
Emptied == [session |-> 0, headerReadLength |-> 0, header |-> <<>>, length |-> 0,
         data |-> <<>>, readLength |-> 0, isDropMessage |-> FALSE]

\* What a signed char holds of n.
Char(n) == ((n + 128) % 256) - 128

\* The four bytes of htonl(n), and ntohl of the bytes at header.c as an int;
\* those never stored there are zero.
Header(n) == <<n \div 16777216, (n \div 65536) % 256, (n \div 256) % 256, n % 256>>
Ntohl(h) == LET c == h \o <<0, 0, 0>> IN
    Char(c[1]) * 16777216 + c[2] * 65536 + c[3] * 256 + c[4]

Frame(b) == Header(Len(b)) \o b
Encode(bs) == FlattenSeq([i \in DOMAIN bs |-> Frame(bs[i])])

FramesInit ==
    /\ session = 0 /\ lastSession = 0
    /\ msg = Emptied /\ reader = "idle" /\ tries = 0
    /\ peer = "closed" /\ wire = <<>> /\ sock = <<>>
    /\ sent = <<>> /\ delivered = <<>>
    /\ upset = {}

-----------------------------------------------------------------------------
(* The client and the network.                                             *)

Send(b) ==
    /\ peer = "open"
    /\ Len(sent) < MaxFrames
    /\ sent' = Append(sent, b)
    /\ wire' = wire \o Frame(b)
    /\ UNCHANGED <<session, lastSession, readVars, peer, sock, upset>>

Arrive(k) ==
    /\ k <= Len(wire)
    /\ sock' = sock \o SubSeq(wire, 1, k)
    /\ wire' = SubSeq(wire, k + 1, Len(wire))
    /\ UNCHANGED <<session, lastSession, readVars, peer, sent, upset>>

\* The client closes its end, or resets the connection: bytes not read are lost.
Finish ==
    /\ peer = "open"
    /\ peer' = "closed"
    /\ UNCHANGED <<session, lastSession, readVars, wire, sent, sock, upset>>

Reset ==
    /\ peer = "open"
    /\ peer' = "reset"
    /\ wire' = <<>> /\ sock' = <<>>
    /\ UNCHANGED <<session, lastSession, readVars, sent, upset>>

EndOfStream == peer = "closed" /\ wire = <<>> /\ sock = <<>>
Readable == sock # <<>> \/ EndOfStream \/ peer = "reset"

-----------------------------------------------------------------------------
(* The slot.                                                               *)

\* SetSocketInfo for a new client.
SetSocketInfo ==
    /\ session = 0 /\ reader = "idle"
    /\ lastSession < MaxSession
    /\ session' = lastSession + 1
    /\ lastSession' = lastSession + 1
    /\ peer' = "open"
    /\ sent' = <<>> /\ delivered' = <<>> /\ upset' = {}
    /\ UNCHANGED <<msg, reader, tries, wire, sock>>

\* Recv failed: the read thread closes the slot.
Close ==
    /\ reader = "close"
    /\ session' = 0
    /\ peer' = "closed"
    /\ wire' = <<>> /\ sock' = <<>>
    /\ reader' = "idle"
    /\ UNCHANGED <<lastSession, msg, tries, sent, delivered, upset>>

-----------------------------------------------------------------------------
(* Recv.                                                                   *)

\* A faulty variant of Begin: what a former session left is kept.
BeginKept == IF msg = Emptied THEN [Emptied EXCEPT !.session = session] ELSE msg

\* fl_malloc_message_data, fl_reset_message_data
Begin == IF session # msg.session THEN [Emptied EXCEPT !.session = session] ELSE msg

\* After the header: the body is read, unless there is nothing of it to read.
AfterHeader(m) ==
    /\ tries' = 0
    /\ reader' = IF m.readLength < m.length THEN "body" ELSE "idle"

RecvStart ==
    /\ reader = "idle" /\ session # 0
    /\ Readable
    /\ msg' = Begin
    /\ IF Begin.headerReadLength = 4
         THEN AfterHeader(Begin)
         ELSE reader' = "header" /\ tries' = 0
    /\ UNCHANGED <<session, lastSession, clientVars, sock, delivered, upset>>

\* recv(2) returns at most n bytes, end of stream, an error or EAGAIN.
Take(n) == SubSeq(sock, 1, IF n < Len(sock) THEN n ELSE Len(sock))

Fails ==
    /\ reader \in {"header", "body"}
    /\ EndOfStream \/ peer = "reset"
    /\ reader' = "close"
    /\ UNCHANGED <<session, lastSession, clientVars, sock, msg, tries, delivered, upset>>

MoreTries == tries < 3

NothingYet ==
    /\ reader \in {"header", "body"}
    /\ sock = <<>> /\ ~EndOfStream /\ peer # "reset"
    /\ IF MoreTries /\ ~(reader = "body" /\ msg.isDropMessage)
         THEN tries' = tries + 1 /\ UNCHANGED reader
         ELSE reader' = "idle" /\ UNCHANGED tries
    /\ UNCHANGED <<session, lastSession, clientVars, sock, msg, delivered, upset>>

\* Where bytes read after the first n of the header go: &header.c + n is n
\* arrays of four further on.  That is the header itself, then headerReadLength
\* and padding, then padding, then the data pointer, which is set anew below.
StoreHeader(bytes) ==
    LET n == msg.headerReadLength IN
    CASE n = 0 -> [msg EXCEPT !.header = bytes, !.headerReadLength = Len(bytes)]
      [] n = 1 -> [msg EXCEPT !.headerReadLength = Char(bytes[1] + Len(bytes))]
      [] OTHER -> [msg EXCEPT !.headerReadLength = n + Len(bytes)]

\* A faulty variant of Sized that takes the longest message for too large.
SizedStrict(m) ==
    LET length == Ntohl(m.header) IN
    [m EXCEPT !.length = length, !.data = <<>>, !.readLength = 0,
              !.isDropMessage = length >= message_max_length]

\* The header is complete.
Sized(m) ==
    LET length == Ntohl(m.header) IN
    [m EXCEPT !.length = length, !.data = <<>>, !.readLength = 0,
              !.isDropMessage = length > message_max_length]

\* Should the count pass four, recv is asked for a negative number of bytes; should
\* it be negative, the next bytes go before the header.  Nothing more is said of
\* the reader then ("undefined").
RecvHeader ==
    /\ reader = "header"
    /\ sock # <<>>
    /\ LET bytes == Take(4 - msg.headerReadLength)
           m == StoreHeader(bytes)
       IN /\ sock' = SubSeq(sock, Len(bytes) + 1, Len(sock))
          /\ IF m.headerReadLength = 4
               THEN msg' = Sized(m) /\ AfterHeader(Sized(m))
               ELSE /\ msg' = m
                    /\ reader' = IF m.headerReadLength \in 0 .. 3 THEN "header" ELSE "undefined"
                    /\ UNCHANGED tries
          /\ upset' = upset
               \cup (IF m.headerReadLength # 4 THEN {"split"} ELSE {})
               \cup (IF m.headerReadLength = 4 /\ Sized(m).length = 0 THEN {"empty"} ELSE {})
    /\ UNCHANGED <<session, lastSession, clientVars, delivered>>

\* A faulty variant of Asked: the next message's bytes are read too.
AskedFromStart == IF msg.isDropMessage THEN CHUNK ELSE msg.length

\* How many bytes the body loop asks for.
Asked == IF msg.isDropMessage THEN CHUNK ELSE msg.length - msg.readLength

\* A faulty variant of Deliver: recv_message is not set to Emptied after it.
DeliverAndKeep(m) == /\ delivered' = Append(delivered, m) /\ msg' = m

\* The callback takes the message over.
Deliver(m) == delivered' = Append(delivered, m) /\ msg' = Emptied

RecvBody ==
    /\ reader = "body"
    /\ sock # <<>>
    /\ LET bytes == Take(Asked)
           m == [msg EXCEPT !.data = IF msg.isDropMessage THEN <<>> ELSE @ \o bytes,
                            !.readLength = @ + Len(bytes)]
       IN /\ sock' = SubSeq(sock, Len(bytes) + 1, Len(sock))
          /\ IF m.readLength = m.length
               THEN /\ IF m.isDropMessage
                         THEN msg' = Emptied /\ UNCHANGED delivered
                         ELSE Deliver(m)
                    /\ reader' = "idle"
               ELSE /\ msg' = m
                    /\ reader' = IF m.isDropMessage THEN "idle" ELSE "body"
                    /\ UNCHANGED delivered
          /\ upset' = IF m.readLength > m.length THEN upset \cup {"overshoot"} ELSE upset
    /\ UNCHANGED <<session, lastSession, clientVars, tries>>

Recv == RecvStart \/ Fails \/ NothingYet \/ RecvHeader \/ RecvBody \/ Close

FramesNext ==
    \/ \E b \in Bodies : Send(b)
    \/ \E k \in 1 .. Len(wire) : Arrive(k)
    \/ Finish \/ Reset
    \/ SetSocketInfo
    \/ Recv

FramesSpec == FramesInit /\ [][FramesNext]_frameVars

\* Bytes arrive, and a watched slot's reader runs.
FramesFairness == WF_frameVars(\E k \in 1 .. Len(wire) : Arrive(k)) /\ WF_frameVars(Recv)
FramesFairSpec == FramesSpec /\ FramesFairness

-----------------------------------------------------------------------------
(* Properties.                                                             *)

\* What is to be delivered of the bodies bs: those neither empty nor too large.
Legal(bs) ==
    FlattenSeq([i \in DOMAIN bs |->
        IF Len(bs[i]) \in 1 .. message_max_length THEN <<bs[i]>> ELSE <<>>])

\* As long as headers come whole, no message is empty and none is skipped past
\* its end, what has been delivered is a prefix of what this session's client
\* sent, under this session's number: nothing of a former session gets in.
DeliveredAsSent ==
    session # 0 /\ upset = {} =>
        /\ IsPrefix([i \in DOMAIN delivered |-> delivered[i].data], Legal(sent))
        /\ \A i \in DOMAIN delivered : delivered[i].session = session

\* The bytes of the message under way that have been read, when b is its body.
Read(b) == IF msg.session # session THEN <<>>
           ELSE IF msg.headerReadLength = 4 THEN Header(msg.length) \o SubSeq(b, 1, msg.readLength)
           ELSE SubSeq(Frame(b), 1, msg.headerReadLength)

\* Under the same condition the reader is in step with the stream: some frames
\* have been dealt with, and the part read of the next one, the bytes that have
\* arrived and those under way are the others.  No byte is lost or read twice.
InStep ==
    session # 0 /\ upset = {} /\ peer # "reset" =>
        \E k \in 0 .. Len(sent) :
            LET rest == SubSeq(sent, k + 1, Len(sent)) IN
            /\ [i \in DOMAIN delivered |-> delivered[i].data] = Legal(SubSeq(sent, 1, k))
            /\ (IF rest = <<>> THEN <<>> ELSE Read(Head(rest))) \o sock \o wire = Encode(rest)

AllDelivered == Len(delivered) = Len(Legal(sent))

\* Under the same condition every legal message of a client that stays is
\* delivered, in however many pieces it comes.
EveryMessageDelivered == []<>(upset # {} \/ peer # "open" \/ AllDelivered)

\* "message_max_length" (config): every message up to that length is received,
\* wherever the network cuts the stream.
LegalMessagesArrive == []<>(peer # "open" \/ AllDelivered)
=============================================================================
