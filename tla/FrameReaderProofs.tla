------------------------- MODULE FrameReaderProofs -------------------------
(***************************************************************************)
(* That Recv delivers what was sent, frame by frame, as long as headers    *)
(* come whole, for bodies of any bytes and of any length an int counts,    *)
(* any message_max_length, and any cut of the stream into pieces.          *)
(***************************************************************************)
EXTENDS FrameReader, SequenceLemmas, TLAPS

Messages == [session : Nat, headerReadLength : Int, header : Seq(Bytes), length : Int,
             data : Seq(Bytes), readLength : Nat, isDropMessage : BOOLEAN]

TypeOK ==
    /\ session \in Nat /\ lastSession \in Nat
    /\ msg \in Messages
    /\ reader \in {"idle", "header", "body", "close", "undefined"}
    /\ tries \in Nat
    /\ peer \in {"open", "closed", "reset"}
    /\ wire \in Seq(Bytes) /\ sock \in Seq(Bytes)
    /\ sent \in Seq(Bodies) /\ delivered \in Seq(Messages)
    /\ upset \subseteq {"split", "empty", "overshoot"}
    \* Ntohl has a byte to look at once a header has begun.
    /\ msg.headerReadLength # 0 => msg.header # <<>>

\* Where a slot without a client is, and what a message left by a former one has.
Slot ==
    /\ session \in {0, lastSession}
    /\ session = 0 => reader = "idle" /\ peer = "closed" /\ wire = <<>> /\ sock = <<>>
    /\ msg.session <= lastSession
    /\ reader \in {"header", "body"} => msg.session = session
    /\ reader = "undefined" => upset # {}
    /\ peer = "reset" => wire = <<>> /\ sock = <<>>

\* A message of this session is under way and its header has been read.
UnderWay == msg.session = session /\ msg.headerReadLength = 4

Datas(ms) == [i \in DOMAIN ms |-> ms[i].data]

\* The bytes read of the message under way, whose body is b.
ReadOf(b) == IF UnderWay THEN Header(msg.length) \o SubSeq(b, 1, msg.readLength) ELSE <<>>

\* The first k frames have been dealt with; the message under way is the next one.
AtFrame(k) ==
    /\ Datas(delivered) = Legal(SubSeq(sent, 1, k))
    /\ UnderWay =>
         /\ k < Len(sent)
         /\ msg.length = Len(sent[k + 1]) /\ msg.readLength < msg.length
         /\ msg.isDropMessage = (msg.length > message_max_length)
         /\ ~msg.isDropMessage => msg.data = SubSeq(sent[k + 1], 1, msg.readLength)
    /\ peer # "reset" =>
         ReadOf(sent[k + 1]) \o (sock \o wire) = Encode(SubSeq(sent, k + 1, Len(sent)))

Framed ==
    session # 0 /\ upset = {} =>
        /\ msg.session = session => msg.headerReadLength \in {0, 4}
        /\ reader = "header" => msg.headerReadLength = 0
        /\ reader = "body" => msg.headerReadLength = 4
        /\ \A i \in DOMAIN delivered : delivered[i].session = session
        /\ \E k \in 0 .. Len(sent) : AtFrame(k)

Inv == TypeOK /\ Slot /\ Framed

-----------------------------------------------------------------------------
(* The stream.                                                             *)

LEMMA CharType == \A n \in Int : Char(n) \in Int
<1>1. \A n \in Int : (n + 128) % 256 \in Int
  OBVIOUS
<1> QED
  BY <1>1 DEF Char

LEMMA CharSmall == \A n \in 0 .. 127 : Char(n) = n
<1>1. \A n \in 0 .. 127 : (n + 128) % 256 = n + 128
  OBVIOUS
<1> QED
  BY <1>1 DEF Char

\* Four bytes say every length an int counts.
LEMMA HeaderSays ==
    ASSUME NEW n \in Nat, n <= MaxInt
    PROVE  Header(n) \in Seq(Bytes) /\ Len(Header(n)) = 4 /\ Ntohl(Header(n)) = n
<1> DEFINE q1 == n \div 256
           q2 == n \div 65536
           q3 == n \div 16777216
           r0 == n % 256
           r1 == q1 % 256
           r2 == q2 % 256
<1>1. n \in Nat /\ n \div 16777216 <= 127
  BY SMT DEF MaxInt
<1>2. q1 \in Nat /\ r0 \in 0 .. 255 /\ n = 256 * q1 + r0
  BY SMT, <1>1
<1>3. q2 \in Nat /\ r1 \in 0 .. 255 /\ q1 = 256 * q2 + r1
  BY SMT, <1>1
<1>4. q3 \in 0 .. 127 /\ r2 \in 0 .. 255 /\ q2 = 256 * q3 + r2
  BY SMT, <1>1
<1>5. Header(n) = <<q3, r2, r1, r0>>
  BY SMT DEF Header
<1> HIDE DEF q1, q2, q3, r0, r1, r2
<1>6. Header(n) \in Seq(Bytes) /\ Len(Header(n)) = 4
  <2>1. q3 \in Bytes /\ r2 \in Bytes /\ r1 \in Bytes /\ r0 \in Bytes
    BY SMT, <1>2, <1>3, <1>4 DEF Bytes
  <2> QED
    BY SMT, <1>5, <2>1
<1>7. Ntohl(Header(n)) = Char(q3) * 16777216 + r2 * 65536 + r1 * 256 + r0
  BY SMT, <1>5 DEF Ntohl
<1>8. Char(q3) = q3
  BY SMT, <1>4, CharSmall
<1>9. q3 * 16777216 + r2 * 65536 + r1 * 256 + r0 = n
  BY SMT, <1>2, <1>3, <1>4
<1> QED
  BY SMT, <1>6, <1>7, <1>8, <1>9

LEMMA FrameType ==
    ASSUME FramesAssumption, NEW b \in Bodies
    PROVE  /\ b \in Seq(Bytes) /\ Len(b) \in Nat /\ Len(b) <= MaxInt
           /\ Header(Len(b)) \in Seq(Bytes) /\ Len(Header(Len(b))) = 4
           /\ Frame(b) \in Seq(Bytes) /\ Len(Frame(b)) = 4 + Len(b)
           /\ Ntohl(Header(Len(b))) = Len(b)
<1>1. b \in Seq(Bytes) /\ Len(b) \in Nat /\ Len(b) <= MaxInt
  BY DEF FramesAssumption
<1>2. Header(Len(b)) \in Seq(Bytes) /\ Len(Header(Len(b))) = 4 /\ Ntohl(Header(Len(b))) = Len(b)
  BY <1>1, HeaderSays
<1>3. Frame(b) \in Seq(Bytes) /\ Len(Frame(b)) = 4 + Len(b)
  <2> DEFINE h == Header(Len(b))
  <2>1. h \o b \in Seq(Bytes) /\ Len(h \o b) = Len(h) + Len(b)
    <3>1. h \in Seq(Bytes)
      BY <1>2
    <3> HIDE DEF h
    <3> QED
      BY <1>1, <3>1, ConcatProperties
  <2> QED
    BY <1>2, <2>1 DEF Frame
<1> QED
  BY <1>1, <1>2, <1>3

Framing == [b \in Bodies |-> Frame(b)]

LEMMA EncodeIsEach ==
    ASSUME FramesAssumption
    PROVE  /\ Framing \in Stands(Bodies, Bytes)
           /\ \A s \in Seq(Bodies) : Encode(s) = FlattenSeq(Each(Framing, s))
<1>1. Framing \in Stands(Bodies, Bytes)
  BY FrameType DEF Framing, Stands
<1>2. ASSUME NEW s \in Seq(Bodies)
      PROVE  [i \in DOMAIN s |-> Frame(s[i])] = Each(Framing, s)
  <2>1. \A i \in DOMAIN s : Framing[s[i]] = Frame(s[i])
    BY DEF Framing
  <2> QED
    BY <2>1 DEF Each
<1> QED
  BY <1>1, <1>2 DEF Encode

\* The bytes of a sequence of bodies, and of more bodies after it.
LEMMA EncodeConcat ==
    ASSUME FramesAssumption, NEW s \in Seq(Bodies), NEW t \in Seq(Bodies)
    PROVE  Encode(s) \in Seq(Bytes) /\ Encode(s \o t) = Encode(s) \o Encode(t)
<1>1. s \o t \in Seq(Bodies)
  OBVIOUS
<1>2. FlattenSeq(Each(Framing, s \o t)) = FlattenSeq(Each(Framing, s)) \o FlattenSeq(Each(Framing, t))
  BY EncodeIsEach, EachConcat
<1>3. FlattenSeq(Each(Framing, s)) \in Seq(Bytes)
  BY EncodeIsEach, EachType
<1> QED
  BY <1>1, <1>2, <1>3, EncodeIsEach

LEMMA EncodeOne ==
    ASSUME FramesAssumption
    PROVE  Encode(<<>>) = <<>> /\ \A b \in Bodies : Encode(<<b>>) = Frame(b)
<1>1. Encode(<<>>) = <<>>
  BY DEF Encode, FlattenSeq
<1>2. ASSUME NEW b \in Bodies PROVE Encode(<<b>>) = Frame(b)
  <2>1. FlattenSeq(Each(Framing, <<b>>)) = Framing[b]
    BY EncodeIsEach, EachOne
  <2>2. <<b>> \in Seq(Bodies)
    OBVIOUS
  <2> QED
    BY <2>1, <2>2, EncodeIsEach DEF Framing
<1> QED
  BY <1>1, <1>2

\* The bytes from the k-th frame on begin with that frame.
LEMMA EncodeNext ==
    ASSUME FramesAssumption, NEW s \in Seq(Bodies), NEW k \in 0 .. Len(s)
    PROVE  /\ Encode(SubSeq(s, k + 1, Len(s))) \in Seq(Bytes)
           /\ k = Len(s) => Encode(SubSeq(s, k + 1, Len(s))) = <<>>
           /\ k < Len(s) => Encode(SubSeq(s, k + 1, Len(s)))
                              = Frame(s[k + 1]) \o Encode(SubSeq(s, k + 2, Len(s)))
<1> DEFINE rest == SubSeq(s, k + 1, Len(s))
<1>1. rest \in Seq(Bodies)
  OBVIOUS
<1>2. Encode(rest) \in Seq(Bytes)
  BY <1>1, EncodeConcat
<1>3. k = Len(s) => rest = <<>>
  OBVIOUS
<1>4. ASSUME k < Len(s) PROVE Encode(rest) = Frame(s[k + 1]) \o Encode(SubSeq(s, k + 2, Len(s)))
  <2> DEFINE more == SubSeq(s, k + 2, Len(s))
  <2>1. /\ k + 1 \in 1 .. Len(s) /\ Len(s) \in k + 1 .. Len(s) /\ (k + 1) + 1 = k + 2
        /\ s[k + 1] \in Bodies /\ <<s[k + 1]>> \in Seq(Bodies)
    BY <1>4
  <2>2. rest = <<s[k + 1]>> \o more
    BY <2>1, SubSeqRecursiveFirst
  <2>3. more \in Seq(Bodies)
    OBVIOUS
  <2> HIDE DEF rest, more
  <2>4. Encode(rest) = Encode(<<s[k + 1]>>) \o Encode(more)
    BY <2>1, <2>2, <2>3, EncodeConcat
  <2> QED
    BY <2>1, <2>4, EncodeOne DEF more
<1> HIDE DEF rest
<1> QED
  BY <1>2, <1>3, <1>4, EncodeOne DEF rest

\* One more body adds its frame.
LEMMA EncodeSend ==
    ASSUME FramesAssumption, NEW s \in Seq(Bodies), NEW b \in Bodies, NEW k \in 0 .. Len(s)
    PROVE  Encode(SubSeq(Append(s, b), k + 1, Len(s) + 1))
             = Encode(SubSeq(s, k + 1, Len(s))) \o Frame(b)
<1> DEFINE rest == SubSeq(s, k + 1, Len(s))
<1>1. rest \in Seq(Bodies) /\ <<b>> \in Seq(Bodies)
  OBVIOUS
<1>2. SubSeq(Append(s, b), k + 1, Len(s) + 1) = rest \o <<b>>
  <2>1. Append(s, b) \in Seq(Bodies) /\ Len(Append(s, b)) = Len(s) + 1 /\ Append(s, b)[Len(s) + 1] = b
        /\ k + 1 \in 1 .. Len(s) + 1 /\ Len(s) + 1 \in k + 1 .. Len(s) + 1 /\ (Len(s) + 1) - 1 = Len(s)
    OBVIOUS
  <2>2. SubSeq(Append(s, b), k + 1, Len(s) + 1) = SubSeq(Append(s, b), k + 1, Len(s)) \o <<b>>
    BY <2>1, SubSeqRecursiveSecond
  <2>3. SubSeq(Append(s, b), k + 1, Len(s)) = SubSeq(s, k + 1, Len(s))
    OBVIOUS
  <2> QED
    BY <2>2, <2>3
<1> HIDE DEF rest
<1> QED
  BY <1>1, <1>2, EncodeConcat, EncodeOne DEF rest

-----------------------------------------------------------------------------
(* The bodies to be delivered.                                             *)

Offered == [b \in Bodies |-> IF Len(b) \in 1 .. message_max_length THEN <<b>> ELSE <<>>]

LEMMA LegalIsEach ==
    /\ Offered \in Stands(Bodies, Bodies)
    /\ \A s \in Seq(Bodies) : Legal(s) = FlattenSeq(Each(Offered, s))
<1>1. Offered \in Stands(Bodies, Bodies)
  BY DEF Offered, Stands
<1>2. ASSUME NEW s \in Seq(Bodies)
      PROVE  [i \in DOMAIN s |-> IF Len(s[i]) \in 1 .. message_max_length THEN <<s[i]>> ELSE <<>>]
               = Each(Offered, s)
  <2>1. \A i \in DOMAIN s : Offered[s[i]] = IF Len(s[i]) \in 1 .. message_max_length THEN <<s[i]>> ELSE <<>>
    BY DEF Offered
  <2> QED
    BY <2>1 DEF Each
<1> QED
  BY <1>1, <1>2 DEF Legal

\* The next body is to be delivered if it is neither empty nor too large.
LEMMA LegalNext ==
    ASSUME NEW s \in Seq(Bodies), NEW k \in 0 .. Len(s), k < Len(s)
    PROVE  Legal(SubSeq(s, 1, k + 1)) = IF Len(s[k + 1]) \in 1 .. message_max_length
                                        THEN Append(Legal(SubSeq(s, 1, k)), s[k + 1])
                                        ELSE Legal(SubSeq(s, 1, k))
<1> DEFINE p == SubSeq(s, 1, k)
           b == s[k + 1]
<1>1. b \in Bodies /\ p \in Seq(Bodies) /\ SubSeq(s, 1, k + 1) = Append(p, b)
  OBVIOUS
<1> HIDE DEF p, b
<1>2. FlattenSeq(Each(Offered, Append(p, b))) = FlattenSeq(Each(Offered, p)) \o Offered[b]
  BY <1>1, LegalIsEach, EachAppend
<1>3. FlattenSeq(Each(Offered, p)) \in Seq(Bodies)
  BY <1>1, LegalIsEach, EachType
<1>4. Append(p, b) \in Seq(Bodies)
  BY <1>1
<1>5. Legal(Append(p, b)) = Legal(p) \o Offered[b] /\ Legal(p) \in Seq(Bodies)
  BY <1>1, <1>2, <1>3, <1>4, LegalIsEach
<1>6. Legal(p) \o <<b>> = Append(Legal(p), b) /\ Legal(p) \o <<>> = Legal(p)
  BY <1>1, <1>5
<1> QED
  BY <1>1, <1>5, <1>6 DEF p, b, Offered

\* What is to be delivered of the first bodies is a prefix of all that is.
LEMMA LegalPrefix ==
    ASSUME NEW s \in Seq(Bodies), NEW k \in 0 .. Len(s)
    PROVE  IsPrefix(Legal(SubSeq(s, 1, k)), Legal(s))
<1> DEFINE p == SubSeq(s, 1, k)
           r == SubSeq(s, k + 1, Len(s))
<1>1. p \in Seq(Bodies) /\ r \in Seq(Bodies) /\ s = p \o r
  BY CutAnywhere
<1> HIDE DEF p, r
<1>2. FlattenSeq(Each(Offered, p \o r)) = FlattenSeq(Each(Offered, p)) \o FlattenSeq(Each(Offered, r))
  BY <1>1, LegalIsEach, EachConcat
<1>3. FlattenSeq(Each(Offered, p)) \in Seq(Bodies) /\ FlattenSeq(Each(Offered, r)) \in Seq(Bodies)
  BY <1>1, LegalIsEach, EachType
<1>4. Legal(s) = Legal(p) \o Legal(r) /\ Legal(p) \in Seq(Bodies) /\ Legal(r) \in Seq(Bodies)
  BY <1>1, <1>2, <1>3, LegalIsEach
<1> DEFINE x == Legal(p)
           y == Legal(r)
<1> HIDE DEF x, y
<1>5. IsPrefix(x, x \o y)
  BY <1>4 DEF x, y, IsPrefix
<1> QED
  BY <1>4, <1>5 DEF p, x, y

-----------------------------------------------------------------------------
(* The client, the network, and the slot.                                  *)

LEMMA InitInv == FramesAssumption /\ FramesInit => Inv
<1> SUFFICES ASSUME FramesAssumption, FramesInit PROVE Inv
  OBVIOUS
<1>1. Emptied \in Messages
  BY DEF Emptied, Messages
<1>2. TypeOK /\ Slot
  BY <1>1 DEF FramesInit, TypeOK, Slot, Emptied
<1> QED
  BY <1>2 DEF FramesInit, Inv, Framed

\* A step that reads nothing, delivers nothing and leaves the order of the bytes
\* alone changes nothing in the framing.
LEMMA Unmoved ==
    ASSUME Inv, session' = session, msg' = msg, delivered' = delivered, sent' = sent, upset' = upset,
           peer' # "reset" => peer # "reset" /\ sock' \o wire' = sock \o wire,
           reader' = reader \/ reader' \notin {"header", "body"}
    PROVE  Framed'
<1> SUFFICES ASSUME session # 0, upset = {}
             PROVE  /\ msg.session = session => msg.headerReadLength \in {0, 4}
                    /\ reader' = "header" => msg.headerReadLength = 0
                    /\ reader' = "body" => msg.headerReadLength = 4
                    /\ \A i \in DOMAIN delivered : delivered[i].session = session
                    /\ \E k \in 0 .. Len(sent) : AtFrame(k)'
  BY DEF Framed
<1>1. PICK k \in 0 .. Len(sent) : AtFrame(k)
  BY DEF Inv, Framed
<1>2. AtFrame(k)'
  BY <1>1 DEF AtFrame, UnderWay, ReadOf
<1> QED
  BY <1>1, <1>2 DEF Inv, Framed

\* A frame more is on the way.
LEMMA SendInv ==
    ASSUME FramesAssumption, Inv, NEW b \in Bodies, Send(b)
    PROVE  Inv'
<1> USE DEF Inv, Send
<1>1. /\ Frame(b) \in Seq(Bytes) /\ sent' \in Seq(Bodies) /\ wire' \in Seq(Bytes)
      /\ Len(sent) \in Nat /\ Len(sent') = Len(sent) + 1
      /\ \A i \in 1 .. Len(sent) : sent'[i] = sent[i]
  BY FrameType DEF TypeOK
<1>2. TypeOK' /\ Slot'
  BY <1>1 DEF TypeOK, Slot, readVars
<1>3. Framed'
  <2> SUFFICES ASSUME session # 0, upset = {}
               PROVE  \E k \in 0 .. Len(sent') : AtFrame(k)'
    BY DEF Framed, readVars
  <2>1. PICK k \in 0 .. Len(sent) : AtFrame(k)
    BY DEF Framed
  <2>2. SubSeq(sent', 1, k) = SubSeq(sent, 1, k)
    BY <1>1 DEF TypeOK
  <2>3. Encode(SubSeq(sent', k + 1, Len(sent'))) = Encode(SubSeq(sent, k + 1, Len(sent))) \o Frame(b)
    BY <1>1, EncodeSend DEF TypeOK
  <2>4. UnderWay' = UnderWay /\ (UnderWay => sent'[k + 1] = sent[k + 1] /\ sent[k + 1] \in Bodies)
    BY <2>1, <1>1 DEF UnderWay, AtFrame, readVars, TypeOK
  <2>5. ReadOf(sent[k + 1])' = ReadOf(sent[k + 1]) /\ ReadOf(sent[k + 1]) \in Seq(Bytes)
    <3>1. UnderWay => Header(msg.length) \in Seq(Bytes) /\ sent[k + 1] \in Seq(Bytes)
      BY <2>1, <2>4, FrameType DEF AtFrame
    <3>2. UnderWay => SubSeq(sent[k + 1], 1, msg.readLength) \in Seq(Bytes)
      <4> SUFFICES ASSUME UnderWay PROVE SubSeq(sent[k + 1], 1, msg.readLength) \in Seq(Bytes)
        OBVIOUS
      <4>1. msg.readLength < Len(sent[k + 1])
        BY <2>1 DEF AtFrame
      <4>2. msg.readLength \in Nat
        BY DEF TypeOK, Messages
      <4>3. Len(sent[k + 1]) \in Nat /\ sent[k + 1] \in Seq(Bytes)
        BY <3>1
      <4> HIDE DEF Inv, Send
      <4>4. msg.readLength \in 0 .. Len(sent[k + 1])
        BY <4>1, <4>2, <4>3
      <4> QED
        BY <4>3, <4>4, CutAnywhere
    <3>3. ReadOf(sent[k + 1]) \in Seq(Bytes)
      BY <3>1, <3>2 DEF ReadOf
    <3>4. ReadOf(sent[k + 1])' = ReadOf(sent[k + 1])
      BY <2>1, <2>4 DEF ReadOf, readVars
    <3> QED
      BY <3>3, <3>4
  <2>6. (ReadOf(sent[k + 1]) \o (sock \o wire)) \o Frame(b)
          = ReadOf(sent[k + 1]) \o (sock \o (wire \o Frame(b)))
    <3> DEFINE r == ReadOf(sent[k + 1])
               x == Frame(b)
    <3>1. r \in Seq(Bytes) /\ sock \in Seq(Bytes) /\ wire \in Seq(Bytes) /\ x \in Seq(Bytes)
      BY <2>5, <1>1 DEF TypeOK
    <3> HIDE DEF r, x
    <3>2. Joined(Joined(r, Joined(sock, wire)), x) = Joined(r, Joined(sock, Joined(wire, x)))
      BY <3>1, JoinedAssociative
    <3> QED
      BY <3>2 DEF r, x, Joined
  <2>7. AtFrame(k)'
    <3>1. Datas(delivered)' = Legal(SubSeq(sent', 1, k)) /\ peer' = peer
      BY <2>1, <2>2 DEF AtFrame, readVars
    <3>2. UnderWay' => /\ k < Len(sent')
                       /\ msg'.length = Len(sent'[k + 1]) /\ msg'.readLength < msg'.length
                       /\ msg'.isDropMessage = (msg'.length > message_max_length)
                       /\ ~msg'.isDropMessage => msg'.data = SubSeq(sent'[k + 1], 1, msg'.readLength)
      <4>1. UnderWay => k < Len(sent) + 1
        BY <2>1, <1>1 DEF AtFrame
      <4> QED
        BY <4>1, <2>1, <2>4, <1>1 DEF AtFrame, readVars
    <3>3. ReadOf(sent[k + 1])' = ReadOf(sent[k + 1])
      BY <2>5
    <3>4. peer # "reset" => ReadOf(sent[k + 1]) \o (sock \o wire') = Encode(SubSeq(sent', k + 1, Len(sent')))
      BY <2>1, <2>3, <2>6 DEF AtFrame
    <3> QED
      BY <3>1, <3>2, <3>3, <3>4 DEF AtFrame
  <2> QED
    BY <2>7, <1>1
<1> QED
  BY <1>2, <1>3

\* Bytes arrive in the order they were sent in.
LEMMA ArriveInv ==
    ASSUME FramesAssumption, Inv, NEW n \in 1 .. Len(wire), Arrive(n)
    PROVE  Inv'
<1> USE DEF Inv, Arrive
<1> DEFINE a == SubSeq(wire, 1, n)
           b == SubSeq(wire, n + 1, Len(wire))
<1>1. a \in Seq(Bytes) /\ b \in Seq(Bytes) /\ a \o b = wire
  <2>1. wire \in Seq(Bytes) /\ n \in 0 .. Len(wire)
    BY DEF TypeOK
  <2> QED
    BY <2>1, CutAnywhere
<1>2. sock' = sock \o a /\ wire' = b
  OBVIOUS
<1> HIDE DEF a, b
<1>3. sock' \o wire' = sock \o wire
  <2>1. sock \in Seq(Bytes)
    BY DEF TypeOK
  <2>2. Joined(Joined(sock, a), b) = Joined(sock, Joined(a, b))
    BY <2>1, <1>1, JoinedAssociative
  <2> QED
    BY <2>2, <1>1, <1>2 DEF Joined
<1>4. wire # <<>>
  BY DEF TypeOK
<1>5. TypeOK' /\ Slot'
  BY <1>1, <1>2, <1>4 DEF TypeOK, Slot, readVars
<1>6. Framed'
  BY <1>3, Unmoved DEF readVars
<1> QED
  BY <1>5, <1>6

\* A reset loses the bytes that were not read.
LEMMA ClientEndsInv ==
    ASSUME FramesAssumption, Inv, Finish \/ Reset
    PROVE  Inv'
<1> USE DEF Inv, Finish, Reset
<1>1. TypeOK'
  <2>1. <<>> \in Seq(Bytes)
    OBVIOUS
  <2>2. CASE Finish
    BY <2>2 DEF TypeOK, readVars
  <2>3. CASE Reset
    BY <2>1, <2>3 DEF TypeOK, readVars
  <2> QED
    BY <2>2, <2>3
<1>3. Slot'
  BY DEF Slot, readVars
<1>2. Framed'
  BY Unmoved DEF readVars
<1> QED
  BY <1>1, <1>2, <1>3

\* In a new session nothing of a former one is under way.
LEMMA SetSocketInfoInv ==
    ASSUME FramesAssumption, Inv, SetSocketInfo
    PROVE  Inv'
<1> USE DEF Inv, SetSocketInfo
<1>1. TypeOK' /\ Slot'
  BY DEF TypeOK, Slot, Messages
<1>2. ~UnderWay' /\ msg'.session # session'
  BY DEF UnderWay, Slot, TypeOK, Messages
<1>3. AtFrame(0)'
  <2>1. Legal(<<>>) = <<>> /\ SubSeq(<<>>, 1, 0) = <<>> /\ Datas(<<>>) = <<>>
    BY DEF Legal, FlattenSeq, Datas
  <2>2. SubSeq(<<>>, 0 + 1, Len(<<>>)) = <<>> /\ <<>> \o (<<>> \o <<>>) = <<>>
    OBVIOUS
  <2>3. sock' = <<>> /\ wire' = <<>> /\ sent' = <<>> /\ delivered' = <<>>
    BY DEF Slot
  <2> QED
    BY <1>2, <2>1, <2>2, <2>3, EncodeOne DEF AtFrame, ReadOf
<1>4. Framed'
  BY <1>2, <1>3 DEF Framed
<1> QED
  BY <1>1, <1>4

LEMMA CloseInv ==
    ASSUME FramesAssumption, Inv, Close
    PROVE  Inv'
  BY DEF Inv, Close, TypeOK, Slot, Framed, Messages

-----------------------------------------------------------------------------
(* Recv.                                                                   *)

\* Recv goes on with the message of this session, or begins one.
LEMMA RecvStartInv ==
    ASSUME FramesAssumption, Inv, RecvStart
    PROVE  Inv'
<1> USE DEF Inv, RecvStart
<1>0. /\ Begin \in Messages /\ Begin.session = session /\ session \in Nat
      /\ (msg.session = session => Begin = msg)
      /\ (msg.session # session => Begin.headerReadLength = 0)
  <2>1. session \in Nat /\ msg \in Messages
    BY DEF TypeOK
  <2>2. [Emptied EXCEPT !.session = session] \in Messages
    <3>1. Emptied \in Messages
      BY DEF Emptied, Messages
    <3> QED
      BY <2>1, <3>1 DEF Messages
  <2>3. [Emptied EXCEPT !.session = session].session = session /\ Emptied.headerReadLength = 0
    BY DEF Emptied
  <2> QED
    BY <2>1, <2>2, <2>3 DEF Begin, Emptied
<1>1. TypeOK' /\ Slot'
  BY <1>0 DEF TypeOK, Slot, clientVars, AfterHeader
<1>2. UnderWay' = UnderWay
  BY <1>0 DEF UnderWay, TypeOK
<1>3. Framed'
  <2> SUFFICES ASSUME session # 0, upset = {}
               PROVE  /\ msg'.headerReadLength \in {0, 4}
                      /\ reader' = "header" => msg'.headerReadLength = 0
                      /\ reader' = "body" => msg'.headerReadLength = 4
                      /\ \E k \in 0 .. Len(sent) : AtFrame(k)'
    BY DEF Framed, clientVars
  <2>1. PICK k \in 0 .. Len(sent) : AtFrame(k)
    BY DEF Framed
  <2>2. UnderWay => msg' = msg
    BY <1>0 DEF UnderWay
  <2>3. AtFrame(k)'
    BY <2>1, <2>2, <1>2 DEF AtFrame, ReadOf, clientVars
  <2> QED
    BY <2>3, <1>0 DEF Framed, AfterHeader
<1> QED
  BY <1>1, <1>3

LEMMA NothingReadInv ==
    ASSUME FramesAssumption, Inv, Fails \/ NothingYet
    PROVE  Inv'
<1> USE DEF Inv, Fails, NothingYet
<1>1. TypeOK'
  <2>1. CASE Fails
    BY <2>1 DEF TypeOK, clientVars
  <2>2. CASE NothingYet
    <3>1. tries' \in Nat /\ reader' \in {reader, "idle"}
      BY <2>2 DEF TypeOK
    <3> QED
      BY <2>2, <3>1 DEF TypeOK, clientVars
  <2> QED
    BY <2>1, <2>2
<1>3. Slot'
  BY DEF Slot, clientVars
<1>2. Framed'
  BY Unmoved DEF clientVars
<1> QED
  BY <1>1, <1>2, <1>3

\* What a recv takes and what it leaves.
LEMMA TakeType ==
    ASSUME TypeOK, NEW n \in Int
    PROVE  /\ Take(n) \in Seq(Bytes) /\ SubSeq(sock, Len(Take(n)) + 1, Len(sock)) \in Seq(Bytes)
           /\ n >= 1 /\ sock # <<>> => Take(n) # <<>>
           /\ n >= 0 => /\ Len(Take(n)) <= n
                        /\ Take(n) \o SubSeq(sock, Len(Take(n)) + 1, Len(sock)) = sock
<1> DEFINE k == IF n < Len(sock) THEN n ELSE Len(sock)
<1>1. sock \in Seq(Bytes) /\ Len(sock) \in Nat /\ k \in Int /\ k <= Len(sock) /\ Take(n) = SubSeq(sock, 1, k)
  BY DEF TypeOK, Take
<1>2. ASSUME n >= 0
      PROVE  /\ Take(n) \in Seq(Bytes) /\ Len(Take(n)) = k
             /\ SubSeq(sock, k + 1, Len(sock)) \in Seq(Bytes)
             /\ Take(n) \o SubSeq(sock, k + 1, Len(sock)) = sock
  <2>1. k \in 0 .. Len(sock)
    BY <1>1, <1>2
  <2> HIDE DEF k
  <2>2. /\ SubSeq(sock, 1, k) \in Seq(Bytes) /\ Len(SubSeq(sock, 1, k)) = k
        /\ SubSeq(sock, k + 1, Len(sock)) \in Seq(Bytes)
        /\ SubSeq(sock, 1, k) \o SubSeq(sock, k + 1, Len(sock)) = sock
    BY <1>1, <2>1, CutAnywhere
  <2> QED
    BY <1>1, <2>2
<1>3. ASSUME n < 0
      PROVE  Take(n) \in Seq(Bytes) /\ Len(Take(n)) = 0
  <2>1. k = n /\ SubSeq(sock, 1, n) = <<>>
    BY <1>1, <1>3
  <2> QED
    BY <1>1, <2>1
<1>4. ASSUME n < 0
      PROVE  SubSeq(sock, 0 + 1, Len(sock)) \in Seq(Bytes)
  BY <1>1
<1>5. n >= 1 /\ sock # <<>> => k >= 1
  BY <1>1
<1>6. n >= 0 => k <= n
  OBVIOUS
<1> HIDE DEF k
<1>7. CASE n >= 0
  <2> DEFINE t == Take(n)
  <2>1. /\ t \in Seq(Bytes) /\ Len(t) = k
        /\ SubSeq(sock, Len(t) + 1, Len(sock)) \in Seq(Bytes)
        /\ t \o SubSeq(sock, Len(t) + 1, Len(sock)) = sock
    BY <1>2, <1>7
  <2> HIDE DEF t
  <2>2. n >= 1 /\ sock # <<>> => t # <<>>
    BY <1>5, <1>1, <2>1
  <2> QED
    BY <1>6, <2>1, <2>2 DEF t
<1>8. CASE n < 0
  BY <1>3, <1>4, <1>8
<1> QED
  BY <1>7, <1>8

\* A message keeps its type when one of its fields is set.
LEMMA MessageUpdate ==
    ASSUME NEW m \in Messages
    PROVE  /\ \A n \in Int : [m EXCEPT !.length = n] \in Messages
           /\ \A n \in Nat : [m EXCEPT !.readLength = n] \in Messages
           /\ \A s \in Seq(Bytes) : [m EXCEPT !.data = s] \in Messages
           /\ \A d \in BOOLEAN : [m EXCEPT !.isDropMessage = d] \in Messages
<1>1. ASSUME NEW n \in Int PROVE [m EXCEPT !.length = n] \in Messages
  BY SMT DEF Messages
<1>2. ASSUME NEW n \in Nat PROVE [m EXCEPT !.readLength = n] \in Messages
  BY SMT DEF Messages
<1>3. ASSUME NEW s \in Seq(Bytes) PROVE [m EXCEPT !.data = s] \in Messages
  BY SMT DEF Messages
<1>4. ASSUME NEW d \in BOOLEAN PROVE [m EXCEPT !.isDropMessage = d] \in Messages
  BY SMT DEF Messages
<1> QED
  BY <1>1, <1>2, <1>3, <1>4

LEMMA HeaderUpdate ==
    ASSUME NEW m \in Messages
    PROVE  /\ \A h \in Seq(Bytes) : LET x == [m EXCEPT !.header = h]
                                  IN x \in Messages /\ x.session = m.session /\ x.header = h
           /\ \A k \in Int : LET x == [m EXCEPT !.headerReadLength = k]
                           IN x \in Messages /\ x.session = m.session /\ x.header = m.header
<1>1. ASSUME NEW h \in Seq(Bytes)
      PROVE  LET x == [m EXCEPT !.header = h]
             IN x \in Messages /\ x.session = m.session /\ x.header = h
  BY SMT DEF Messages
<1>2. ASSUME NEW k \in Int
      PROVE  LET x == [m EXCEPT !.headerReadLength = k]
             IN x \in Messages /\ x.session = m.session /\ x.header = m.header
  BY SMT DEF Messages
<1> QED
  BY <1>1, <1>2

LEMMA SizedType ==
    ASSUME NEW m \in Messages, m.header # <<>>
    PROVE  Sized(m) \in Messages /\ Ntohl(m.header) \in Int
<1> DEFINE h == m.header
           z == <<0, 0, 0>>
           c == h \o z
<1>1. h \in Seq(Bytes) /\ Len(h) >= 1 /\ z \in Seq(Bytes) /\ Len(z) = 3
  BY DEF Messages, Bytes
<1>2. c \in Seq(Bytes) /\ Len(c) >= 4
  <2> HIDE DEF h, z
  <2>1. Joined(h, z) \in Seq(Bytes) /\ Len(Joined(h, z)) = Len(h) + Len(z)
    BY <1>1, JoinedType
  <2>2. c = Joined(h, z) /\ Len(h) \in Nat
    BY <1>1 DEF Joined
  <2> HIDE DEF c
  <2> QED
    BY <1>1, <2>1, <2>2
<1>3. Char(c[1]) \in Int /\ c[2] \in Nat /\ c[3] \in Nat /\ c[4] \in Nat
  <2> HIDE DEF c
  <2>0. \A i \in 1 .. Len(c) : c[i] \in Bytes
    BY <1>2
  <2>1. Bytes \subseteq Nat
    BY DEF Bytes
  <2>2. Len(c) \in Nat
    BY <1>2
  <2>3. 1 \in 1 .. Len(c) /\ 2 \in 1 .. Len(c) /\ 3 \in 1 .. Len(c) /\ 4 \in 1 .. Len(c)
    BY <1>2, <2>2
  <2>4. c[1] \in Nat /\ c[2] \in Nat /\ c[3] \in Nat /\ c[4] \in Nat
    BY <2>0, <2>1, <2>3
  <2>5. Char(c[1]) \in Int
    <3>1. c[1] \in Int
      BY <2>4
    <3> QED
      BY <3>1, CharType
  <2> QED
    BY <2>4, <2>5
<1>4. Ntohl(m.header) = Char(c[1]) * 16777216 + c[2] * 65536 + c[3] * 256 + c[4]
  BY SMT DEF Ntohl
<1> HIDE DEF c
<1>5. Ntohl(m.header) \in Int
  <2>1. ASSUME NEW x \in Int, NEW y \in Nat, NEW v \in Nat, NEW w \in Nat
        PROVE  x * 16777216 + y * 65536 + v * 256 + w \in Int
    BY SMT
  <2> DEFINE c1 == Char(c[1])
             c2 == c[2]
             c3 == c[3]
             c4 == c[4]
  <2>2. c1 \in Int /\ c2 \in Nat /\ c3 \in Nat /\ c4 \in Nat
    BY <1>3
  <2>3. Ntohl(m.header) = c1 * 16777216 + c2 * 65536 + c3 * 256 + c4
    BY SMT, <1>4
  <2> HIDE DEF c1, c2, c3, c4
  <2> QED
    BY SMT, <2>1, <2>2, <2>3
<1>6. <<>> \in Seq(Bytes)
  OBVIOUS
<1>7. ASSUME NEW n \in Int, NEW d \in BOOLEAN
      PROVE  [m EXCEPT !.length = n, !.data = <<>>, !.readLength = 0, !.isDropMessage = d] \in Messages
  <2> DEFINE m1 == [m EXCEPT !.length = n]
             m2 == [m1 EXCEPT !.data = <<>>]
             m3 == [m2 EXCEPT !.readLength = 0]
             m4 == [m3 EXCEPT !.isDropMessage = d]
  <2>0. [m EXCEPT !.length = n, !.data = <<>>, !.readLength = 0, !.isDropMessage = d] = m4
    BY SMT
  <2>1. m1 \in Messages
    BY MessageUpdate
  <2> HIDE DEF m1
  <2>2. m2 \in Messages
    BY <1>6, <2>1, MessageUpdate
  <2> HIDE DEF m2
  <2>3. m3 \in Messages
    BY <2>2, MessageUpdate
  <2> HIDE DEF m3
  <2>4. m4 \in Messages
    BY <2>3, MessageUpdate
  <2> HIDE DEF m4
  <2> QED
    BY <2>0, <2>4
<1> DEFINE n == Ntohl(m.header)
           d == n > message_max_length
<1>8. d \in BOOLEAN
  OBVIOUS
<1>9. Sized(m) = [m EXCEPT !.length = n, !.data = <<>>, !.readLength = 0, !.isDropMessage = d]
  BY SMT DEF Sized
<1> HIDE DEF n, d, h, z
<1>10. n \in Int
  BY <1>5 DEF n
<1>11. [m EXCEPT !.length = n, !.data = <<>>, !.readLength = 0, !.isDropMessage = d] \in Messages
  BY <1>7, <1>8, <1>10
<1> QED
  BY <1>5, <1>9, <1>11

\* Bytes of the header are stored, wherever they go.
LEMMA StoreHeaderType ==
    ASSUME TypeOK, sock # <<>>
    PROVE  LET bytes == Take(4 - msg.headerReadLength)
               m == StoreHeader(bytes)
           IN /\ m \in Messages /\ m.session = msg.session
              /\ m.header # <<>>
              /\ bytes \in Seq(Bytes) /\ SubSeq(sock, Len(bytes) + 1, Len(sock)) \in Seq(Bytes)
<1> DEFINE n == msg.headerReadLength
           bytes == Take(4 - n)
           m == StoreHeader(bytes)
<1>1. n \in Int /\ msg \in Messages /\ msg.header \in Seq(Bytes) /\ 4 - n \in Int
  BY DEF TypeOK, Messages
<1>2. /\ bytes \in Seq(Bytes) /\ SubSeq(sock, Len(bytes) + 1, Len(sock)) \in Seq(Bytes)
      /\ n \in {0, 1} => bytes # <<>>
  <2> DEFINE a == 4 - n
  <2>1. a \in Int /\ (n \in {0, 1} => a >= 1)
    BY <1>1
  <2> HIDE DEF a
  <2>2. /\ Take(a) \in Seq(Bytes) /\ SubSeq(sock, Len(Take(a)) + 1, Len(sock)) \in Seq(Bytes)
        /\ a >= 1 => Take(a) # <<>>
    BY <2>1, TakeType
  <2> QED
    BY <2>1, <2>2 DEF a
<1> HIDE DEF bytes
<1>3. Len(bytes) \in Nat /\ (bytes # <<>> => bytes[1] \in Nat)
  <2>1. bytes # <<>> => 1 \in 1 .. Len(bytes)
    BY <1>2
  <2>0. \A i \in 1 .. Len(bytes) : bytes[i] \in Bytes
    BY <1>2
  <2>2. Bytes \subseteq Nat
    BY DEF Bytes
  <2>3. Len(bytes) \in Nat
    BY <1>2
  <2> QED
    BY <2>0, <2>1, <2>2, <2>3
<1>4. CASE n = 0
  <2>1. m = [msg EXCEPT !.header = bytes, !.headerReadLength = Len(bytes)]
    BY SMT, <1>4 DEF StoreHeader
  <2>2. Len(bytes) \in Int /\ bytes # <<>> /\ bytes \in Seq(Bytes)
    BY <1>2, <1>3, <1>4
  <2>4. ASSUME NEW k \in Int, NEW h \in Seq(Bytes)
        PROVE  LET x == [msg EXCEPT !.header = h, !.headerReadLength = k]
               IN x \in Messages /\ x.session = msg.session /\ x.header = h
    <3> DEFINE y == [msg EXCEPT !.header = h]
               x == [msg EXCEPT !.header = h, !.headerReadLength = k]
    <3>1. y \in Messages /\ y.session = msg.session /\ y.header = h
      BY <1>1, HeaderUpdate
    <3>2. x = [y EXCEPT !.headerReadLength = k]
      BY SMT
    <3> HIDE DEF x, y
    <3>3. x \in Messages /\ x.session = y.session /\ x.header = y.header
      BY <3>1, <3>2, HeaderUpdate
    <3> QED
      BY <3>1, <3>3 DEF x
  <2>3. m \in Messages /\ m.session = msg.session /\ m.header = bytes
    <3> DEFINE k == Len(bytes)
    <3>1. k \in Int /\ m = [msg EXCEPT !.header = bytes, !.headerReadLength = k]
      BY <2>1, <2>2
    <3> HIDE DEF k, m
    <3> QED
      BY <2>2, <2>4, <3>1
  <2> QED
    BY <1>2, <2>2, <2>3 DEF bytes
<1>5. CASE n = 1
  <2>1. m = [msg EXCEPT !.headerReadLength = Char(bytes[1] + Len(bytes))]
    BY SMT, <1>5 DEF StoreHeader
  <2>3. Char(bytes[1] + Len(bytes)) \in Int
    <3>1. bytes[1] + Len(bytes) \in Int
      BY <1>2, <1>3, <1>5
    <3> QED
      BY <3>1, CharType
  <2>2. msg.header # <<>>
    BY <1>5 DEF TypeOK
  <2> QED
    BY <1>1, <1>2, <2>1, <2>2, <2>3 DEF Messages, bytes
<1>6. CASE n \notin {0, 1}
  <2>1. m = [msg EXCEPT !.headerReadLength = n + Len(bytes)] /\ n + Len(bytes) \in Int
    BY SMT, <1>1, <1>3, <1>6 DEF StoreHeader
  <2>2. msg.header # <<>>
    BY <1>6 DEF TypeOK
  <2> QED
    BY <1>1, <1>2, <2>1, <2>2 DEF Messages, bytes
<1> QED
  BY <1>4, <1>5, <1>6

\* What is left of the stream when a whole header has been taken: the rest of the
\* frame, and the frames after it.
LEMMA HeaderTaken ==
    ASSUME FramesAssumption, TypeOK, NEW k \in 0 .. Len(sent), sock # <<>>,
           sock \o wire = Encode(SubSeq(sent, k + 1, Len(sent))),
           Len(Take(4)) = 4
    PROVE  LET left == SubSeq(sock, Len(Take(4)) + 1, Len(sock))
           IN /\ k < Len(sent) /\ sent[k + 1] \in Bodies
              /\ Take(4) = Header(Len(sent[k + 1]))
              /\ Header(Len(sent[k + 1])) \o (left \o wire) = Encode(SubSeq(sent, k + 1, Len(sent)))
<1> DEFINE t == Take(4)
           left == SubSeq(sock, Len(t) + 1, Len(sock))
           rest == SubSeq(sent, k + 1, Len(sent))
           more == SubSeq(sent, k + 2, Len(sent))
           b == sent[k + 1]
<1>1. sock \in Seq(Bytes) /\ wire \in Seq(Bytes) /\ sent \in Seq(Bodies) /\ Len(sent) \in Nat
  BY DEF TypeOK
<1>2. t \in Seq(Bytes) /\ left \in Seq(Bytes) /\ t \o left = sock
  <2> DEFINE n == 4
  <2>1. n \in Int /\ n >= 0
    OBVIOUS
  <2> HIDE DEF n
  <2>2. /\ Take(n) \in Seq(Bytes) /\ SubSeq(sock, Len(Take(n)) + 1, Len(sock)) \in Seq(Bytes)
        /\ Take(n) \o SubSeq(sock, Len(Take(n)) + 1, Len(sock)) = sock
    BY <2>1, TakeType
  <2> QED
    BY <2>2 DEF n
<1>3. sock \o wire # <<>>
  <2>1. Len(Joined(sock, wire)) = Len(sock) + Len(wire)
    BY <1>1, JoinedType
  <2>2. Len(sock) \in Nat /\ Len(wire) \in Nat /\ Len(sock) # 0
    BY <1>1
  <2> QED
    BY <2>1, <2>2 DEF Joined
<1>4. k < Len(sent) /\ b \in Bodies /\ Encode(rest) = Frame(b) \o Encode(more) /\ Encode(more) \in Seq(Bytes)
  <2>1. k # Len(sent)
    BY <1>1, <1>3, EncodeNext
  <2>2. k < Len(sent) /\ b \in Bodies
    BY <1>1, <2>1
  <2>3. Encode(rest) = Frame(b) \o Encode(more)
    BY <1>1, <2>2, EncodeNext
  <2>4. more \in Seq(Bodies)
    BY <1>1
  <2> HIDE DEF more
  <2>5. Encode(more) \in Seq(Bytes)
    BY <2>4, EncodeConcat
  <2> QED
    BY <2>2, <2>3, <2>5
<1> DEFINE h == Header(Len(b))
           e == Encode(more)
<1>5. h \in Seq(Bytes) /\ Len(h) = 4 /\ b \in Seq(Bytes)
  BY <1>4, FrameType
<1>6. Frame(b) = Joined(h, b)
  BY DEF Frame, Joined
<1>a. Len(t) = 4 /\ sock \o wire = Encode(rest) /\ e \in Seq(Bytes)
  BY <1>4
<1>b. k < Len(sent) /\ Encode(rest) = Frame(b) \o e
  BY <1>4
<1>c. sent[k + 1] \in Bodies
  BY <1>4
<1> HIDE DEF t, left, rest, more, h, e, b
<1>7. Joined(Joined(t, left), wire) = Joined(Joined(h, b), e)
  BY <1>2, <1>a, <1>b, <1>6 DEF Joined
<1>8. Joined(t, Joined(left, wire)) = Joined(h, Joined(b, e))
  BY <1>7, <1>1, <1>2, <1>5, <1>a, JoinedAssociative
<1>9. t = h
  <2> DEFINE y == Joined(left, wire)
             z == Joined(b, e)
  <2>1. y \in Seq(Bytes) /\ z \in Seq(Bytes) /\ Joined(t, y) = Joined(h, z) /\ Len(t) <= Len(h)
    BY <1>8, <1>1, <1>2, <1>5, <1>a, JoinedType
  <2> HIDE DEF y, z
  <2>2. t = SubSeq(h, 1, Len(t))
    BY <1>2, <1>5, <2>1, BeginsSame
  <2>3. SubSeq(h, 1, Len(h)) = h
    BY <1>5, SubSeqFull
  <2> QED
    BY <2>2, <2>3, <1>5, <1>a
<1>10. h \o (left \o wire) = Encode(rest)
  <2>1. Joined(t, Joined(left, wire)) = Joined(Joined(t, left), wire)
    BY <1>1, <1>2, JoinedAssociative
  <2>2. Joined(t, left) = sock
    BY <1>2 DEF Joined
  <2>3. Joined(h, Joined(left, wire)) = Joined(sock, wire)
    BY <1>9, <2>1, <2>2
  <2> QED
    BY <2>3, <1>a DEF Joined
<1> QED
  BY <1>b, <1>c, <1>9, <1>10 DEF t, left, rest, h, b

LEMMA RecvHeaderInv ==
    ASSUME FramesAssumption, Inv, RecvHeader
    PROVE  Inv'
<1> USE DEF Inv
<1> DEFINE bytes == Take(4 - msg.headerReadLength)
           m == StoreHeader(bytes)
<1>0. reader = "header" /\ sock # <<>> /\ UNCHANGED <<session, lastSession, peer, wire, sent, delivered>>
  BY DEF RecvHeader, clientVars
<1>1. /\ sock' = SubSeq(sock, Len(bytes) + 1, Len(sock))
      /\ m.headerReadLength = 4 => msg' = Sized(m) /\ AfterHeader(Sized(m))
      /\ m.headerReadLength # 4 =>
           /\ msg' = m /\ tries' = tries
           /\ reader' = IF m.headerReadLength \in 0 .. 3 THEN "header" ELSE "undefined"
           /\ "split" \in upset'
      /\ upset \subseteq upset' /\ upset' \subseteq upset \cup {"split", "empty"}
      /\ m.headerReadLength = 4 /\ Sized(m).length = 0 => "empty" \in upset'
  BY DEF RecvHeader
<1>2. /\ m \in Messages /\ m.session = msg.session /\ m.header # <<>>
      /\ bytes \in Seq(Bytes) /\ SubSeq(sock, Len(bytes) + 1, Len(sock)) \in Seq(Bytes)
  BY <1>0, StoreHeaderType
<1>3. Sized(m) \in Messages /\ Ntohl(m.header) \in Int
  BY <1>2, SizedType
<1>4. /\ Sized(m).session = m.session /\ Sized(m).headerReadLength = m.headerReadLength
      /\ Sized(m).header = m.header /\ Sized(m).length = Ntohl(m.header) /\ Sized(m).readLength = 0
      /\ Sized(m).data = <<>> /\ Sized(m).isDropMessage = (Ntohl(m.header) > message_max_length)
  BY SMT, <1>2 DEF Sized, Messages
<1> DEFINE d == Sized(m)
<1>5. bytes = Take(4 - msg.headerReadLength) /\ m = StoreHeader(bytes) /\ d = Sized(m)
  OBVIOUS
<1> HIDE DEF bytes, m, d
<1>6. msg' \in Messages /\ msg'.session = msg.session /\ msg'.header = m.header
      /\ reader' \in {"header", "body", "idle", "undefined"} /\ tries' \in Nat
  <2>1. CASE m.headerReadLength = 4
    BY <1>1, <1>2, <1>3, <1>4, <1>5, <2>1 DEF AfterHeader
  <2>2. CASE m.headerReadLength # 4
    BY <1>1, <1>2, <2>2 DEF TypeOK
  <2> QED
    BY <2>1, <2>2
<1>7. TypeOK'
  <2>1. upset' \subseteq {"split", "empty", "overshoot"}
    BY <1>1 DEF TypeOK
  <2> QED
    BY <1>0, <1>1, <1>2, <1>6, <2>1 DEF TypeOK
<1>8. Slot'
  <2>1. session # 0 /\ msg.session = session /\ peer # "reset"
    BY <1>0 DEF Slot
  <2>2. reader' = "undefined" => upset' # {}
    BY <1>1 DEF AfterHeader
  <2> QED
    BY <1>0, <1>6, <2>1, <2>2 DEF Slot
<1>9. Framed'
  <2> SUFFICES ASSUME session # 0, upset' = {}
               PROVE  /\ msg'.headerReadLength \in {0, 4}
                      /\ reader' # "header"
                      /\ reader' = "body" => msg'.headerReadLength = 4
                      /\ \A i \in DOMAIN delivered : delivered[i].session = session
                      /\ \E k \in 0 .. Len(sent) : AtFrame(k)'
    BY <1>0 DEF Framed
  <2>1. upset = {} /\ m.headerReadLength = 4 /\ d.length # 0
    BY <1>1, <1>5
  <2>2. msg' = d /\ AfterHeader(d)
    BY <1>1, <1>5, <2>1
  <2>3. /\ msg.session = session /\ msg.headerReadLength = 0 /\ peer # "reset"
        /\ \A i \in DOMAIN delivered : delivered[i].session = session
    BY <1>0, <2>1 DEF Framed, Slot
  <2>4. bytes = Take(4) /\ m.header = bytes /\ Len(bytes) = 4
    <3>1. bytes = Take(4)
      BY <1>5, <2>3
    <3>2. m = [msg EXCEPT !.header = bytes, !.headerReadLength = Len(bytes)]
      BY <1>5, <2>3 DEF StoreHeader
    <3> QED
      BY <2>1, <3>1, <3>2 DEF TypeOK, Messages
  <2>5. PICK k \in 0 .. Len(sent) : AtFrame(k)
    BY <2>1 DEF Framed
  <2>6. sock \o wire = Encode(SubSeq(sent, k + 1, Len(sent)))
    <3>1. ~UnderWay
      BY <2>3 DEF UnderWay
    <3>2. <<>> \o (sock \o wire) = sock \o wire
      BY DEF TypeOK
    <3> QED
      BY <2>3, <2>5, <3>1, <3>2 DEF AtFrame, ReadOf
  <2> DEFINE b == sent[k + 1]
  <2>7. /\ k < Len(sent) /\ b \in Bodies /\ bytes = Header(Len(b))
        /\ Header(Len(b)) \o (sock' \o wire) = Encode(SubSeq(sent, k + 1, Len(sent)))
    BY <1>0, <1>1, <2>4, <2>6, HeaderTaken
  <2>8. /\ d.session = session /\ d.headerReadLength = 4 /\ d.length = Len(b) /\ d.readLength = 0
        /\ d.data = <<>> /\ d.isDropMessage = (Len(b) > message_max_length) /\ Len(b) \in Nat /\ Len(b) # 0
        /\ b \in Seq(Bytes)
    <3>1. Ntohl(m.header) = Len(b) /\ b \in Seq(Bytes) /\ Len(b) \in Nat
      BY <2>4, <2>7, FrameType
    <3> QED
      BY <1>2, <1>4, <1>5, <2>1, <2>3, <3>1
  <2>9. SubSeq(b, 1, 0) = <<>>
    BY <2>8
  <2>10. AtFrame(k)'
    <3> HIDE DEF b
    <3>1. Header(Len(b)) \in Seq(Bytes)
      BY <2>7, FrameType
    <3>2. UnderWay' /\ ReadOf(b)' = Header(Len(b)) \o SubSeq(b, 1, 0)
      BY <1>0, <2>2, <2>8 DEF UnderWay, ReadOf
    <3>3. Header(Len(b)) \o <<>> = Header(Len(b))
      BY <3>1
    <3>4. ReadOf(b)' \o (sock' \o wire) = Encode(SubSeq(sent, k + 1, Len(sent)))
      BY <2>7, <2>9, <3>2, <3>3
    <3>5. Datas(delivered) = Legal(SubSeq(sent, 1, k))
      BY <2>5 DEF AtFrame
    <3>6. msg'.length = Len(b) /\ msg'.readLength < msg'.length
      BY <2>2, <2>8
    <3>7. /\ msg'.isDropMessage = (msg'.length > message_max_length)
          /\ msg'.data = SubSeq(b, 1, msg'.readLength)
      BY <2>2, <2>8, <2>9
    <3> QED
      BY <1>0, <2>7, <3>2, <3>4, <3>5, <3>6, <3>7 DEF AtFrame, b
  <2>11. reader' # "header" /\ msg'.headerReadLength = 4
    BY <2>2, <2>8 DEF AfterHeader
  <2> QED
    BY <2>3, <2>10, <2>11
<1> QED
  BY <1>7, <1>8, <1>9

-----------------------------------------------------------------------------
(* The body.                                                               *)

\* The stream when bytes t of the body b are about to be taken after the first n
\* of it: h is its header, left and w the bytes after t, e the frames after b.
Taking(h, b, e, t, left, w, n, l) ==
    /\ h \in Seq(Bytes) /\ b \in Seq(Bytes) /\ e \in Seq(Bytes)
    /\ t \in Seq(Bytes) /\ left \in Seq(Bytes) /\ w \in Seq(Bytes)
    /\ n \in 0 .. Len(b) /\ l \in 0 .. Len(b) /\ l = n + Len(t)
    /\ Joined(Joined(h, SubSeq(b, 1, n)), Joined(Joined(t, left), w)) = Joined(Joined(h, b), e)

\* They are the bytes that follow in b, and what is left is the rest of the stream.
LEMMA BodyTaken ==
    ASSUME NEW h, NEW b, NEW e, NEW t, NEW left, NEW w, NEW n, NEW l,
           Taking(h, b, e, t, left, w, n, l)
    PROVE  /\ Joined(SubSeq(b, 1, n), t) = SubSeq(b, 1, l)
           /\ Joined(Joined(h, SubSeq(b, 1, l)), Joined(left, w)) = Joined(Joined(h, b), e)
           /\ l = Len(b) => Joined(left, w) = e
<1>0. /\ h \in Seq(Bytes) /\ b \in Seq(Bytes) /\ e \in Seq(Bytes)
      /\ t \in Seq(Bytes) /\ left \in Seq(Bytes) /\ w \in Seq(Bytes)
      /\ n \in 0 .. Len(b) /\ l \in 0 .. Len(b) /\ l = n + Len(t)
  BY DEF Taking
<1> USE <1>0
<1> DEFINE u == SubSeq(b, 1, n)
<1>1. u \in Seq(Bytes) /\ Len(u) = n
  BY CutAnywhere
<1> DEFINE p == Joined(u, t)
           y == Joined(left, w)
<1>2. Joined(Joined(h, u), Joined(Joined(t, left), w)) = Joined(Joined(h, b), e)
  BY DEF Taking
<1> HIDE DEF u
<1>3. p \in Seq(Bytes) /\ Len(p) = l /\ y \in Seq(Bytes)
  BY <1>1, JoinedType
<1>4. Joined(h, Joined(p, y)) = Joined(h, Joined(b, e))
  <2>1. Joined(Joined(t, left), w) = Joined(t, y)
    BY JoinedAssociative
  <2> HIDE DEF y
  <2>2. Joined(Joined(h, u), Joined(t, y)) = Joined(h, Joined(u, Joined(t, y)))
    <3>1. Joined(t, y) \in Seq(Bytes)
      BY <1>3, JoinedType
    <3> QED
      BY <1>1, <3>1, JoinedAssociative
  <2>3. Joined(u, Joined(t, y)) = Joined(p, y)
    BY <1>1, <1>3, JoinedAssociative
  <2>4. Joined(Joined(h, b), e) = Joined(h, Joined(b, e))
    BY JoinedAssociative
  <2> QED
    BY <1>2, <2>1, <2>2, <2>3, <2>4
<1> HIDE DEF p, y
<1>5. Joined(p, y) = Joined(b, e)
  <2> DEFINE v == Joined(p, y)
             z == Joined(b, e)
  <2>1. v \in Seq(Bytes) /\ z \in Seq(Bytes) /\ h \o v = h \o z
    BY <1>3, <1>4, JoinedType DEF Joined
  <2> HIDE DEF v, z
  <2>2. v = z
    BY <2>1, ConcatSimplifications
  <2> QED
    BY <2>2 DEF v, z
<1>6. p = SubSeq(b, 1, l) /\ y = Joined(SubSeq(b, l + 1, Len(b)), e)
  <2>1. Len(p) <= Len(b)
    BY <1>3
  <2>2. p = SubSeq(b, 1, Len(p)) /\ y = Joined(SubSeq(b, Len(p) + 1, Len(b)), e)
    BY <1>3, <1>5, <2>1, BeginsSame
  <2> QED
    BY <1>3, <2>2
<1>7. l = Len(b) => y = e
  <2>1. l = Len(b) => SubSeq(b, l + 1, Len(b)) = <<>>
    OBVIOUS
  <2>2. Joined(<<>>, e) = e
    BY DEF Joined
  <2> QED
    BY <1>6, <2>1, <2>2
<1>8. Joined(Joined(h, p), y) = Joined(Joined(h, b), e)
  BY <1>3, <1>4, JoinedAssociative
<1> QED
  BY <1>6, <1>7, <1>8 DEF p, y, u

LEMMA DatasAppend ==
    ASSUME NEW ms \in Seq(Messages), NEW m \in Messages
    PROVE  Datas(Append(ms, m)) = Append(Datas(ms), m.data)
<1>1. \A i \in DOMAIN ms : ms[i].data \in Seq(Bytes)
  <2> SUFFICES ASSUME NEW i \in DOMAIN ms PROVE ms[i].data \in Seq(Bytes)
    OBVIOUS
  <2>1. ms[i] \in Messages
    OBVIOUS
  <2> QED
    BY <2>1 DEF Messages
<1>2. m.data \in Seq(Bytes)
  BY DEF Messages
<1>3. Datas(ms) \in Seq(Seq(Bytes)) /\ Len(Datas(ms)) = Len(ms)
  BY <1>1 DEF Datas
<1>4. Append(ms, m) \in Seq(Messages) /\ Len(Append(ms, m)) = Len(ms) + 1
  OBVIOUS
<1>5. Datas(Append(ms, m)) \in Seq(Seq(Bytes)) /\ Len(Datas(Append(ms, m))) = Len(ms) + 1
  <2>1. \A i \in DOMAIN Append(ms, m) : Append(ms, m)[i].data \in Seq(Bytes)
    BY <1>1, <1>2
  <2> QED
    BY <1>4, <2>1 DEF Datas
<1>6. \A i \in 1 .. Len(ms) + 1 : Datas(Append(ms, m))[i] = Append(Datas(ms), m.data)[i]
  <2> SUFFICES ASSUME NEW i \in 1 .. Len(ms) + 1
               PROVE  Datas(Append(ms, m))[i] = Append(Datas(ms), m.data)[i]
    OBVIOUS
  <2>1. Datas(Append(ms, m))[i] = Append(ms, m)[i].data
    BY <1>4 DEF Datas
  <2>2. CASE i = Len(ms) + 1
    BY <1>3, <2>1, <2>2
  <2>3. CASE i # Len(ms) + 1
    <3>1. i \in 1 .. Len(ms)
      BY <2>3
    <3>2. Datas(ms)[i] = ms[i].data
      BY <3>1 DEF Datas
    <3> QED
      BY <1>3, <2>1, <3>1, <3>2
  <2> QED
    BY <2>2, <2>3
<1>7. Append(Datas(ms), m.data) \in Seq(Seq(Bytes)) /\ Len(Append(Datas(ms), m.data)) = Len(ms) + 1
  BY <1>2, <1>3
<1> DEFINE x == Datas(Append(ms, m))
           y == Append(Datas(ms), m.data)
<1>8. x \in Seq(Seq(Bytes)) /\ y \in Seq(Seq(Bytes)) /\ Len(x) = Len(ms) + 1 /\ Len(y) = Len(ms) + 1
  BY <1>5, <1>7
<1>9. \A i \in 1 .. Len(x) : x[i] = y[i]
  BY <1>6, <1>8
<1> HIDE DEF x, y
<1>10. x = y
  BY <1>8, <1>9, SeqEqual
<1> QED
  BY <1>10 DEF x, y

LEMMA RecvBodyInv ==
    ASSUME FramesAssumption, Inv, RecvBody
    PROVE  Inv'
<1> USE DEF Inv
<1> DEFINE t == Take(Asked)
           f == IF msg.isDropMessage THEN <<>> ELSE msg.data \o t
           n == msg.readLength + Len(t)
           m == [msg EXCEPT !.data = f, !.readLength = n]
<1>0. /\ reader = "body" /\ sock # <<>>
      /\ UNCHANGED <<session, lastSession, peer, wire, sent, tries>>
      /\ sock' = SubSeq(sock, Len(t) + 1, Len(sock))
  BY DEF RecvBody, clientVars
<1>1. /\ msg \in Messages /\ msg.readLength \in Nat /\ msg.length \in Int /\ msg.data \in Seq(Bytes)
      /\ msg.isDropMessage \in BOOLEAN /\ Asked \in Int /\ (msg.isDropMessage => Asked >= 1)
  BY DEF TypeOK, Messages, Asked, FramesAssumption
<1>2. t \in Seq(Bytes) /\ sock' \in Seq(Bytes) /\ (Asked >= 0 => Len(t) <= Asked /\ t \o sock' = sock)
  <2> DEFINE a == Asked
  <2>1. a \in Int
    BY <1>1
  <2> HIDE DEF a
  <2>2. /\ Take(a) \in Seq(Bytes) /\ SubSeq(sock, Len(Take(a)) + 1, Len(sock)) \in Seq(Bytes)
        /\ a >= 0 => /\ Len(Take(a)) <= a
                     /\ Take(a) \o SubSeq(sock, Len(Take(a)) + 1, Len(sock)) = sock
    BY <2>1, TakeType
  <2> QED
    BY <1>0, <2>2 DEF a
<1>3. f \in Seq(Bytes) /\ n \in Nat /\ Len(t) \in Nat
  <2> HIDE DEF t
  <2>1. msg.data \o t \in Seq(Bytes) /\ <<>> \in Seq(Bytes) /\ Len(t) \in Nat
    BY <1>1, <1>2
  <2> QED
    BY <1>1, <2>1
<1>4. [msg EXCEPT !.data = IF msg.isDropMessage THEN <<>> ELSE @ \o t, !.readLength = @ + Len(t)] = m
  OBVIOUS
<1>5. /\ m.session = msg.session /\ m.headerReadLength = msg.headerReadLength /\ m.header = msg.header
      /\ m.length = msg.length /\ m.data = f /\ m.readLength = n /\ m.isDropMessage = msg.isDropMessage
  <2> HIDE DEF f, n, t
  <2> QED
    BY SMT, <1>1 DEF Messages
<1>6. m \in Messages
  <2> HIDE DEF f, n, t
  <2> DEFINE m1 == [msg EXCEPT !.data = f]
             m2 == [m1 EXCEPT !.readLength = n]
  <2>0. m = m2
    BY SMT
  <2>1. m1 \in Messages
    BY <1>1, <1>3, MessageUpdate
  <2> HIDE DEF m1
  <2>2. m2 \in Messages
    BY <1>3, <2>1, MessageUpdate
  <2> HIDE DEF m2, m
  <2> QED
    BY <2>0, <2>2
<1>7. /\ n = msg.length => /\ msg' = Emptied /\ reader' = "idle"
                           /\ delivered' = IF msg.isDropMessage THEN delivered ELSE Append(delivered, m)
      /\ n # msg.length => /\ msg' = m /\ delivered' = delivered
                           /\ reader' = IF msg.isDropMessage THEN "idle" ELSE "body"
      /\ upset' = IF n > msg.length THEN upset \cup {"overshoot"} ELSE upset
  <2> HIDE DEF m, n, f
  <2> QED
    BY <1>4, <1>5 DEF RecvBody, Deliver
<1> HIDE DEF m, n, f, t
<1>8. Emptied \in Messages /\ Emptied.session = 0 /\ Emptied.headerReadLength = 0
  BY DEF Emptied, Messages
<1>9. session # 0 /\ msg.session = session /\ peer # "reset" /\ msg'.session \in {session, 0}
  BY <1>0, <1>5, <1>7, <1>8 DEF Slot
<1>10. TypeOK'
  <2>1. msg' \in Messages /\ reader' \in {"idle", "body"} /\ (msg'.headerReadLength # 0 => msg'.header # <<>>)
    BY <1>5, <1>6, <1>7, <1>8 DEF TypeOK
  <2>2. delivered' \in Seq(Messages)
    <3>1. delivered' = delivered \/ delivered' = Append(delivered, m)
      BY <1>7
    <3>2. delivered \in Seq(Messages) /\ Append(delivered, m) \in Seq(Messages)
      BY <1>6 DEF TypeOK
    <3> QED
      BY <3>1, <3>2
  <2>3. upset' \subseteq {"split", "empty", "overshoot"}
    BY <1>7 DEF TypeOK
  <2> QED
    BY <1>0, <1>2, <2>1, <2>2, <2>3 DEF TypeOK
<1>11. Slot'
  <2>1. reader' = "body" => msg'.session = session
    BY <1>5, <1>7, <1>9
  <2>2. reader' \in {"idle", "body"}
    BY <1>7
  <2> QED
    BY <1>0, <1>9, <2>1, <2>2 DEF Slot, TypeOK
<1>12. Framed'
  <2> SUFFICES ASSUME upset' = {}
               PROVE  /\ msg'.session = session => msg'.headerReadLength \in {0, 4}
                      /\ reader' = "body" => msg'.headerReadLength = 4
                      /\ \A i \in DOMAIN delivered' : delivered'[i].session = session
                      /\ \E k \in 0 .. Len(sent) : AtFrame(k)'
    <3>1. reader' # "header"
      BY <1>7
    <3> QED
      BY <1>0, <3>1 DEF Framed
  <2>1. upset = {} /\ n <= msg.length
    <3>1. ~(n > msg.length) /\ upset = {}
      BY <1>7
    <3> QED
      BY <1>1, <1>3, <3>1
  <2>2. msg.headerReadLength = 4 /\ \A i \in DOMAIN delivered : delivered[i].session = session
    BY <1>0, <1>9, <2>1 DEF Framed
  <2>3. PICK k \in 0 .. Len(sent) : AtFrame(k)
    BY <1>9, <2>1 DEF Framed
  <2> DEFINE b == sent[k + 1]
             h == Header(msg.length)
             e == Encode(SubSeq(sent, k + 2, Len(sent)))
  <2>4. /\ UnderWay /\ k < Len(sent) /\ msg.length = Len(b) /\ msg.readLength < msg.length
        /\ msg.isDropMessage = (msg.length > message_max_length)
        /\ ~msg.isDropMessage => msg.data = SubSeq(b, 1, msg.readLength)
        /\ Datas(delivered) = Legal(SubSeq(sent, 1, k))
    BY <1>9, <2>2, <2>3 DEF AtFrame, UnderWay
  <2>5. sent \in Seq(Bodies) /\ b \in Bodies /\ b \in Seq(Bytes) /\ h \in Seq(Bytes)
    <3>1. sent \in Seq(Bodies) /\ b \in Bodies
      BY <2>4 DEF TypeOK
    <3> HIDE DEF b
    <3> QED
      BY <3>1, <2>4, FrameType
  <2>6. e \in Seq(Bytes)
    <3> DEFINE more == SubSeq(sent, k + 2, Len(sent))
    <3>1. more \in Seq(Bodies)
      BY <2>5
    <3> HIDE DEF more
    <3> QED
      BY <3>1, EncodeConcat DEF more
  <2>7. Asked >= 0
    BY <1>1, <2>4 DEF Asked
  <2>8. (h \o SubSeq(b, 1, msg.readLength)) \o ((t \o sock') \o wire) = (h \o b) \o e
    <3>1. (h \o SubSeq(b, 1, msg.readLength)) \o (sock \o wire) = Encode(SubSeq(sent, k + 1, Len(sent)))
      BY <1>9, <2>3, <2>4 DEF AtFrame, ReadOf
    <3>2. Encode(SubSeq(sent, k + 1, Len(sent))) = Frame(b) \o e
      BY <2>4, <2>5, EncodeNext
    <3>3. Frame(b) = h \o b
      BY <2>4 DEF Frame
    <3> QED
      BY <1>2, <2>7, <3>1, <3>2, <3>3
  <2>9. /\ SubSeq(b, 1, msg.readLength) \o t = SubSeq(b, 1, n)
        /\ (h \o SubSeq(b, 1, n)) \o (sock' \o wire) = (h \o b) \o e
        /\ n = Len(b) => sock' \o wire = e
    <3> DEFINE r == msg.readLength
               v == sock'
    <3>1. r \in 0 .. Len(b) /\ n \in 0 .. Len(b) /\ n = r + Len(t)
      BY <1>1, <1>3, <2>1, <2>4, <2>5 DEF n
    <3>2. wire \in Seq(Bytes) /\ v \in Seq(Bytes)
      BY <1>2 DEF TypeOK
    <3>3. Joined(Joined(h, SubSeq(b, 1, r)), Joined(Joined(t, v), wire)) = Joined(Joined(h, b), e)
      BY <2>8 DEF Joined
    <3> HIDE DEF b, h, e, r, v
    <3>4. /\ Joined(SubSeq(b, 1, r), t) = SubSeq(b, 1, n)
          /\ Joined(Joined(h, SubSeq(b, 1, n)), Joined(v, wire)) = Joined(Joined(h, b), e)
          /\ n = Len(b) => Joined(v, wire) = e
      <4>1. Taking(h, b, e, t, v, wire, r, n)
        BY <1>2, <2>5, <2>6, <3>1, <3>2, <3>3 DEF Taking
      <4> QED
        BY <4>1, BodyTaken
    <3> QED
      BY <3>4 DEF Joined, r, v
  <2>10. ~msg.isDropMessage => f = SubSeq(b, 1, n)
    BY <2>4, <2>9 DEF f
  <2>11. CASE n # msg.length
    <3>1. UnderWay' /\ msg' = m
      BY <1>0, <1>5, <1>7, <1>9, <2>2, <2>11 DEF UnderWay
    <3>2. ReadOf(b)' = h \o SubSeq(b, 1, n)
      BY <1>0, <1>5, <3>1 DEF ReadOf
    <3>3. ReadOf(b)' \o (sock' \o wire) = Encode(SubSeq(sent, k + 1, Len(sent)))
      <4>1. Encode(SubSeq(sent, k + 1, Len(sent))) = Frame(b) \o e
        BY <2>4, <2>5, EncodeNext
      <4>2. Frame(b) = h \o b
        BY <2>4 DEF Frame
      <4> QED
        BY <2>9, <3>2, <4>1, <4>2
    <3>4. msg'.length = Len(b) /\ msg'.readLength < msg'.length
      BY <1>1, <1>3, <1>5, <2>1, <2>4, <2>11, <3>1
    <3>5. /\ msg'.isDropMessage = (msg'.length > message_max_length)
          /\ ~msg'.isDropMessage => msg'.data = SubSeq(b, 1, msg'.readLength)
      BY <1>5, <2>4, <2>10, <3>1
    <3>6. Datas(delivered)' = Legal(SubSeq(sent, 1, k))
      BY <1>7, <2>4, <2>11
    <3>7. AtFrame(k)'
      BY <1>0, <2>4, <3>1, <3>3, <3>4, <3>5, <3>6 DEF AtFrame
    <3> QED
      BY <1>5, <1>7, <2>2, <2>11, <3>7
  <2>12. CASE n = msg.length
    <3>1. msg' = Emptied /\ ~UnderWay' /\ reader' = "idle"
      BY <1>0, <1>7, <1>8, <1>9, <2>12 DEF UnderWay
    <3>2. sock' \o wire = e
      BY <2>4, <2>9, <2>12
    <3>3. ReadOf(sent[k + 1 + 1])' \o (sock' \o wire) = Encode(SubSeq(sent, k + 1 + 1, Len(sent)))
      <4>1. <<>> \o (sock' \o wire) = sock' \o wire /\ k + 1 + 1 = k + 2
        BY <2>6, <3>2
      <4> QED
        BY <3>1, <3>2, <4>1 DEF ReadOf
    <3>4. SubSeq(b, 1, n) = b
      BY <2>4, <2>5, <2>12, SubSeqFull
    <3>5. Len(b) \in 1 .. message_max_length <=> ~msg.isDropMessage
      <4>1. msg.length \in Nat \ {0} /\ message_max_length \in Nat
        BY <1>1, <2>4 DEF FramesAssumption
      <4> QED
        <5>1. msg.isDropMessage <=> msg.length > message_max_length
          BY <2>4
        <5>2. Len(b) \in 1 .. message_max_length <=> ~(msg.length > message_max_length)
          BY <2>4, <4>1
        <5> QED
          BY <5>1, <5>2
    <3>6. Datas(delivered)' = Legal(SubSeq(sent, 1, k + 1))
      <4>1. Legal(SubSeq(sent, 1, k + 1)) = IF Len(b) \in 1 .. message_max_length
                                            THEN Append(Legal(SubSeq(sent, 1, k)), b)
                                            ELSE Legal(SubSeq(sent, 1, k))
        BY <2>4, <2>5, LegalNext
      <4>2. CASE msg.isDropMessage
        BY <1>7, <2>4, <2>12, <3>5, <4>1, <4>2
      <4>3. CASE ~msg.isDropMessage
        <5>1. delivered' = Append(delivered, m) /\ m.data = b
          BY <1>5, <1>7, <2>10, <2>12, <3>4, <4>3
        <5>2. Datas(Append(delivered, m)) = Append(Datas(delivered), m.data)
          BY <1>6, DatasAppend DEF TypeOK
        <5> QED
          BY <2>4, <3>5, <4>1, <4>3, <5>1, <5>2
      <4> QED
        BY <4>2, <4>3, <1>1
    <3>7. AtFrame(k + 1)' /\ k + 1 \in 0 .. Len(sent)
      <4>1. k + 1 \in 0 .. Len(sent)
        BY <2>4, <2>5
      <4>2. AtFrame(k + 1)'
        BY <1>0, <3>1, <3>3, <3>6 DEF AtFrame
      <4> QED
        BY <4>1, <4>2
    <3>8. \A i \in DOMAIN delivered' : delivered'[i].session = session
      <4>1. delivered' = delivered \/ delivered' = Append(delivered, m)
        BY <1>7, <2>12
      <4>2. delivered \in Seq(Messages) /\ m.session = session
        BY <1>5, <1>9 DEF TypeOK
      <4> QED
        BY <1>6, <2>2, <4>1, <4>2
    <3> QED
      BY <3>1, <3>7, <3>8, <1>8, <1>9
  <2> QED
    BY <2>11, <2>12
<1> QED
  BY <1>10, <1>11, <1>12

-----------------------------------------------------------------------------
(* The theorems.                                                           *)

LEMMA NextInv ==
    ASSUME FramesAssumption, Inv, FramesNext
    PROVE  Inv'
<1>1. ASSUME NEW b \in Bodies, Send(b) PROVE Inv'
  BY <1>1, SendInv
<1>2. ASSUME NEW k \in 1 .. Len(wire), Arrive(k) PROVE Inv'
  BY <1>2, ArriveInv
<1>3. CASE Finish \/ Reset
  BY <1>3, ClientEndsInv
<1>4. CASE SetSocketInfo
  BY <1>4, SetSocketInfoInv
<1>5. CASE RecvStart
  BY <1>5, RecvStartInv
<1>6. CASE Fails \/ NothingYet
  BY <1>6, NothingReadInv
<1>7. CASE RecvHeader
  BY <1>7, RecvHeaderInv
<1>8. CASE RecvBody
  BY <1>8, RecvBodyInv
<1>9. CASE Close
  BY <1>9, CloseInv
<1> QED
  BY <1>1, <1>2, <1>3, <1>4, <1>5, <1>6, <1>7, <1>8, <1>9 DEF FramesNext, Recv

LEMMA StutterInv ==
    ASSUME Inv, UNCHANGED frameVars
    PROVE  Inv'
<1> USE DEF Inv, frameVars, readVars, clientVars
<1>1. TypeOK'
  BY DEF TypeOK
<1>2. Slot'
  BY DEF Slot
<1>3. Framed'
  BY Unmoved
<1> QED
  BY <1>1, <1>2, <1>3

\* Whatever bodies of up to MaxInt bytes are sent, in whatever pieces they arrive and
\* however many sessions the slot has had: as long as headers come whole and no message is empty or skipped
\* past its end, the reader stands at a frame of this session's stream, and the
\* message under way is the beginning of that frame (fl_connection::Recv).
THEOREM FramingInvariant ==
    ASSUME FramesAssumption
    PROVE  FramesSpec => []Inv
<1>1. FramesInit => Inv
  BY InitInv
<1>2. Inv /\ [FramesNext]_frameVars => Inv'
  BY NextInv, StutterInv
<1> QED
  BY <1>1, <1>2, PTL DEF FramesSpec

\* While upset = {} (headers whole, no message empty or skipped past its end), what
\* the callback has been given is a prefix of what the client of this session
\* sent, less what is empty or too large, in that order and unchanged, under this
\* session's number.
THEOREM DeliveryIsPrefix ==
    ASSUME FramesAssumption
    PROVE  FramesSpec => []DeliveredAsSent
<1>1. ASSUME Inv PROVE DeliveredAsSent
  <2> SUFFICES ASSUME session # 0, upset = {}
               PROVE  /\ IsPrefix(Datas(delivered), Legal(sent))
                      /\ \A i \in DOMAIN delivered : delivered[i].session = session
    BY DEF DeliveredAsSent, Datas
  <2>1. PICK k \in 0 .. Len(sent) : AtFrame(k)
    BY <1>1 DEF Inv, Framed
  <2>2. Datas(delivered) = Legal(SubSeq(sent, 1, k))
    BY <2>1 DEF AtFrame
  <2>3. sent \in Seq(Bodies)
    BY <1>1 DEF Inv, TypeOK
  <2>4. IsPrefix(Legal(SubSeq(sent, 1, k)), Legal(sent))
    BY <2>3, LegalPrefix
  <2> QED
    BY <1>1, <2>2, <2>4 DEF Inv, Framed
<1> QED
  BY <1>1, FramingInvariant, PTL

LEMMA ReadOfType ==
    ASSUME FramesAssumption, TypeOK, NEW k \in 0 .. Len(sent), AtFrame(k)
    PROVE  ReadOf(sent[k + 1]) \in Seq(Bytes)
<1>1. CASE UnderWay
  <2> DEFINE b == sent[k + 1]
             h == Header(msg.length)
             u == SubSeq(b, 1, msg.readLength)
  <2>1. k < Len(sent) /\ msg.length = Len(b) /\ msg.readLength < msg.length
    BY <1>1 DEF AtFrame
  <2>2. b \in Bodies
    BY <2>1 DEF TypeOK
  <2>3. msg.readLength \in 0 .. Len(b)
    BY <2>1 DEF TypeOK, Messages
  <2>4. ReadOf(b) = h \o u
    BY <1>1 DEF ReadOf
  <2> HIDE DEF b
  <2>5. b \in Seq(Bytes) /\ h \in Seq(Bytes)
    BY <2>1, <2>2, FrameType
  <2>6. u \in Seq(Bytes)
    BY <2>3, <2>5, CutAnywhere
  <2> HIDE DEF h, u
  <2>7. h \o u \in Seq(Bytes)
    BY <2>5, <2>6
  <2> QED
    BY <2>4, <2>7 DEF b
<1>2. CASE ~UnderWay
  BY <1>2 DEF ReadOf
<1> QED
  BY <1>1, <1>2

\* While upset = {} and the client has not reset the connection, no byte of the
\* stream is lost or read twice: what has been dealt with, what has
\* been read of the message under way, what has arrived and what is under way are
\* what the client of this session sent.
THEOREM ReaderInStep ==
    ASSUME FramesAssumption
    PROVE  FramesSpec => []InStep
<1>1. ASSUME Inv PROVE InStep
  <2> SUFFICES ASSUME session # 0, upset = {}, peer # "reset"
               PROVE  \E k \in 0 .. Len(sent) :
                        LET rest == SubSeq(sent, k + 1, Len(sent)) IN
                        /\ Datas(delivered) = Legal(SubSeq(sent, 1, k))
                        /\ (IF rest = <<>> THEN <<>> ELSE Read(Head(rest))) \o sock \o wire = Encode(rest)
    BY DEF InStep, Datas
  <2>1. PICK k \in 0 .. Len(sent) : AtFrame(k)
    BY <1>1 DEF Inv, Framed
  <2> DEFINE rest == SubSeq(sent, k + 1, Len(sent))
             b == sent[k + 1]
             x == IF rest = <<>> THEN <<>> ELSE Read(Head(rest))
  <2>2. sent \in Seq(Bodies) /\ sock \in Seq(Bytes) /\ wire \in Seq(Bytes) /\ TypeOK
    BY <1>1 DEF Inv, TypeOK
  <2>3. k < Len(sent) => rest # <<>> /\ Head(rest) = b /\ b \in Bodies
    <3> SUFFICES ASSUME k < Len(sent) PROVE rest # <<>> /\ Head(rest) = b /\ b \in Bodies
      OBVIOUS
    <3>1. rest \in Seq(Bodies) /\ Len(rest) = Len(sent) - k /\ rest[1] = b /\ b \in Bodies
      BY <2>2
    <3>2. Len(rest) \in Nat \ {0}
      BY <2>2, <3>1
    <3> HIDE DEF rest
    <3> QED
      BY <3>1, <3>2
  <2>4. k = Len(sent) => rest = <<>>
    BY <2>2
  <2>5. x = ReadOf(b)
    <3>1. CASE UnderWay
      <4>1. k < Len(sent)
        BY <2>1, <3>1 DEF AtFrame
      <4> QED
        BY <2>3, <3>1, <4>1 DEF Read, ReadOf, UnderWay
    <3>2. CASE ~UnderWay
      <4>1. msg.session = session => msg.headerReadLength = 0
        BY <1>1, <3>2 DEF Inv, Framed, UnderWay
      <4>2. ASSUME NEW c \in Bodies PROVE Read(c) = <<>>
        <5>1. Frame(c) \in Seq(Bytes)
          BY FrameType
        <5>2. SubSeq(Frame(c), 1, 0) = <<>>
          BY <5>1
        <5> QED
          BY <4>1, <5>2 DEF Read
      <4>3. k < Len(sent) \/ k = Len(sent)
        BY <2>2
      <4> QED
        BY <2>3, <2>4, <3>2, <4>2, <4>3 DEF ReadOf
    <3> QED
      BY <3>1, <3>2
  <2>6. x \in Seq(Bytes) /\ x \o (sock \o wire) = Encode(rest)
    BY <2>1, <2>2, <2>5, ReadOfType DEF AtFrame
  <2> HIDE DEF x, rest
  <2>7. Joined(Joined(x, sock), wire) = Joined(x, Joined(sock, wire))
    BY <2>2, <2>6, JoinedAssociative
  <2>8. x \o sock \o wire = Encode(rest)
    BY <2>6, <2>7 DEF Joined
  <2> QED
    BY <2>1, <2>8 DEF AtFrame, x, rest
<1> QED
  BY <1>1, FramingInvariant, PTL
=============================================================================
