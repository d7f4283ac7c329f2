--------------------------- MODULE GateLoopProofs ---------------------------
(***************************************************************************)
(* That the gate's loop and its read threads lose no descriptor and close  *)
(* none twice, that a slot has one reader as long as no update of the bit  *)
(* record was lost, and that they implement the table of clients, for any  *)
(* number of slots, descriptors, read threads and clients.                 *)
(***************************************************************************)
EXTENDS GateLoop, FiniteSetTheorems, TLAPS

\* What the loop knows between two of its steps: the slot it has found free stays
\* free, because nobody else fills slots, and there is a ready descriptor left.
LoopKnows ==
    /\ mpc \in {"accept", "probe"} => mi = 0
    /\ mpc \in {"add", "look", "isset", "test", "queue"} => mi \in Slots
    /\ mpc = "set" => mi \in Slots /\ sockfd[mi] = NoFd
    /\ mpc \in {"probe", "set"} => clientfd \in Fds
    /\ mpc = "add" => mfd \in Fds
    /\ mpc \in {"accept", "probe", "set", "isset", "test", "queue"} => selectn >= 1
    /\ mpc = "queue" => mi \notin mbyte
    /\ backlog <= clients /\ (mpc = "accept" => backlog >= 1)

\* A read thread in Recv holds the lock, so its slot keeps its client.
ReaderKnows ==
    \A r \in ReadThreads : rpc[r] = "receive" =>
        sockfd[rconn[r]] # NoFd /\ Client(rconn[r]) = rclient[r]

Inv == /\ TypeOK
       /\ DescriptorsAccounted
       /\ SessionIffOpen
       /\ OneReaderPerSlot
       /\ CloseHitsFailedSession
       /\ LoopKnows
       /\ ReaderKnows

\* The descriptors and the numbers in use are what they look like.
LEMMA Numbers ==
    /\ 0 \in Slots /\ Slots \subseteq Nat
    /\ Listen \notin Fds /\ NoFd \notin Fds /\ Fds \subseteq Nat
    /\ NoFd # Listen
  BY ConstantsAssumption DEF Slots, Listen, NoFd, Fds

\* The count select returns.
LEMMA ReadyCount ==
    ASSUME TypeOK
    PROVE  Cardinality(Ready) \in 0 .. MaxFd + 1 /\ (Ready # {} => Cardinality(Ready) >= 1)
<1>1. Ready \subseteq 0 .. MaxFd
  <2>1. Ready \subseteq {Listen} \cup Fds
    BY DEF TypeOK, LoopTypeOK, Ready, Watched
  <2>2. {Listen} \cup Fds \subseteq 0 .. MaxFd
    BY ConstantsAssumption DEF Listen, Fds
  <2> QED
    BY <2>1, <2>2
<1>2. IsFiniteSet(0 .. MaxFd) /\ Cardinality(0 .. MaxFd) = MaxFd + 1
  BY ConstantsAssumption, FS_Interval
<1>3. IsFiniteSet(Ready) /\ Cardinality(Ready) <= MaxFd + 1 /\ Cardinality(Ready) \in Nat
  BY <1>1, <1>2, FS_Subset, FS_CardinalityType
<1>4. Ready # {} => Cardinality(Ready) # 0
  BY <1>3, FS_EmptySet
<1> QED
  BY <1>3, <1>4, ConstantsAssumption

\* The gate as it starts satisfies the invariant.
LEMMA InitInv == Init => Inv
<1> SUFFICES ASSUME Init PROVE Inv
  OBVIOUS
<1>1. TypeOK
  <2>1. LoopTypeOK
    BY Numbers, ConstantsAssumption DEF Init, LoopTypeOK
  <2>2. s_read_msg_queue \in Seq(Slots)
    BY DEF Init
  <2>3. /\ sockfd \in [Slots -> {NoFd} \cup Fds]
        /\ session \in [Slots -> 0 .. MaxSession]
        /\ lastSession \in 0 .. MaxSession
        /\ stalled \in [Slots -> 0 .. MaxSession]
        /\ rpc \in [ReadThreads -> {"pop", "recv", "receive", "close", "clear", "store"}]
        /\ rconn \in [ReadThreads -> Slots]
        /\ rbyte \in [ReadThreads -> SUBSET Slots]
        /\ rclient \in [ReadThreads -> ({NoFd} \cup Fds) \X (0 .. MaxSession)]
        /\ backlog \in 0 .. MaxClients /\ clients \in 0 .. MaxClients
    BY Numbers, ConstantsAssumption DEF Init
  <2> QED
    BY <2>1, <2>2, <2>3 DEF Init, TypeOK
<1>2. DescriptorsAccounted /\ SessionIffOpen /\ CloseHitsFailedSession /\ LoopKnows /\ ReaderKnows
  BY DEF Init, DescriptorsAccounted, InHand, SessionIffOpen, CloseHitsFailedSession, Client, LoopKnows,
         ReaderKnows, Client
<1>3. OneReaderPerSlot
  BY DEF Init, OneReaderPerSlot, Queued, Readers, Busy
<1> QED
  BY <1>1, <1>2, <1>3 DEF Inv

-----------------------------------------------------------------------------
(* The clients.                                                            *)

\* A client changes what the kernel has for the loop and nothing of the gate's.
LEMMA ClientInv ==
    ASSUME Inv, Connect \/ \E f \in Fds : Send(f) \/ HangUp(f)
    PROVE  Inv'
<1>1. /\ UNCHANGED <<slotVars, queueVars, loopVars, readVars, open>>
      /\ input' \subseteq open /\ hungup' \subseteq open
      /\ \/ UNCHANGED <<backlog, clients>>
         \/ clients < MaxClients /\ backlog' = backlog + 1 /\ clients' = clients + 1
  BY DEF Inv, TypeOK, Connect, Send, HangUp
<1>2. TypeOK'
  <2>1. LoopTypeOK'
    BY <1>1 DEF Inv, TypeOK, LoopTypeOK, loopVars
  <2>2. backlog' \in 0 .. MaxClients /\ clients' \in 0 .. MaxClients
    BY <1>1, ConstantsAssumption DEF Inv, TypeOK, LoopKnows
  <2> QED
    BY <1>1, <2>1, <2>2 DEF Inv, TypeOK, slotVars, queueVars, readVars
<1>3. /\ DescriptorsAccounted' /\ SessionIffOpen' /\ OneReaderPerSlot'
      /\ CloseHitsFailedSession' /\ ReaderKnows'
  BY <1>1 DEF Inv, slotVars, queueVars, loopVars, readVars, DescriptorsAccounted, InHand,
              SessionIffOpen, OneReaderPerSlot, Queued, Readers, Busy, CloseHitsFailedSession,
              ReaderKnows, Client
<1>4. LoopKnows'
  BY <1>1, ConstantsAssumption DEF Inv, TypeOK, LoopKnows, slotVars, loopVars
<1> QED
  BY <1>2, <1>3, <1>4 DEF Inv

-----------------------------------------------------------------------------
(* The main loop.                                                          *)

\* A step of the loop that only moves its locals, with no client in hand.
LEMMA LoopLocalInv ==
    ASSUME Inv, UNCHANGED <<slotVars, queueVars, readVars, kernelVars>>,
           mpc \notin {"probe", "set"}, mpc' \notin {"probe", "set"}, LoopTypeOK', LoopKnows'
    PROVE  Inv'
<1>1. TypeOK'
  BY DEF Inv, TypeOK, slotVars, queueVars, readVars, kernelVars
<1>2. /\ DescriptorsAccounted' /\ SessionIffOpen' /\ OneReaderPerSlot'
      /\ CloseHitsFailedSession' /\ ReaderKnows'
  BY DEF Inv, slotVars, queueVars, readVars, kernelVars, DescriptorsAccounted, InHand,
         SessionIffOpen, OneReaderPerSlot, Queued, Readers, Busy, CloseHitsFailedSession,
         ReaderKnows, Client
<1> QED
  BY <1>1, <1>2 DEF Inv

\* The top of the loop, and the next slot to look at.
LEMMA RestartKnows ==
    ASSUME Inv, Restart, UNCHANGED <<backlog, clients>>
    PROVE  LoopTypeOK' /\ LoopKnows' /\ mpc' = "build"
<1>1. /\ mpc' = "build" /\ mi' = 0 /\ maxfd' = Listen /\ readset' = {Listen}
      /\ badset' = FALSE /\ selectn' = 0 /\ clientfd' = NoFd /\ mfd' = NoFd /\ mbyte' = {}
  BY DEF Restart
<1>2. 0 \in 0 .. MAX_CLIENT_CONNECTIONS /\ 0 \in 0 .. MaxFd + 1
  BY ConstantsAssumption
<1>3. LoopTypeOK'
  BY <1>1, <1>2 DEF LoopTypeOK
<1> QED
  BY <1>1, <1>3 DEF Inv, LoopKnows

LEMMA NextSlotKnows ==
    ASSUME Inv, NEW n \in 0 .. MaxFd + 1, mi \in Slots, NextSlot(n), UNCHANGED <<backlog, clients>>
    PROVE  LoopTypeOK' /\ LoopKnows' /\ mpc' \in {"build", "look"}
<1>1. CASE Restart
  BY <1>1, RestartKnows
<1>2. CASE ~(n = 0 \/ mi + 1 = MAX_CLIENT_CONNECTIONS)
  <2>1. /\ selectn' = n /\ mi' = mi + 1 /\ mpc' = "look" /\ mfd' = NoFd /\ mbyte' = {}
        /\ UNCHANGED <<maxfd, readset, badset, clientfd>>
    BY <1>2 DEF NextSlot
  <2>2. mi + 1 \in Slots
    BY <1>2, ConstantsAssumption DEF Slots
  <2>3. LoopTypeOK'
    BY <2>1, <2>2, ConstantsAssumption DEF Inv, TypeOK, LoopTypeOK, Slots
  <2> QED
    BY <2>1, <2>2, <2>3 DEF Inv, LoopKnows
<1> QED
  BY <1>1, <1>2 DEF NextSlot

LEMMA BuildInv ==
    ASSUME Inv, BuildLook \/ BuildAdd
    PROVE  Inv'
<1>1. CASE BuildLook
  <2>1. mi \in Slots /\ mi + 1 \in 0 .. MAX_CLIENT_CONNECTIONS
    BY <1>1, ConstantsAssumption DEF BuildLook, Inv, TypeOK, LoopTypeOK, Slots
  <2>2. sockfd[mi] \in {NoFd} \cup Fds /\ (Watchable(sockfd[mi]) => sockfd[mi] \in Fds)
    BY <2>1 DEF Inv, TypeOK, LoopTypeOK, Watchable, NoFd, Listen, Fds
  <2>3. LoopTypeOK'
    BY <1>1, <2>1, <2>2 DEF BuildLook, Inv, TypeOK, LoopTypeOK
  <2>4. LoopKnows'
    BY <1>1, <2>1, <2>2 DEF BuildLook, Inv, LoopKnows, slotVars, kernelVars
  <2> QED
    BY <1>1, <2>3, <2>4, LoopLocalInv DEF BuildLook
<1>2. CASE BuildAdd
  <2>1. mi \in Slots /\ mfd \in Fds /\ mi + 1 \in 0 .. MAX_CLIENT_CONNECTIONS
    BY <1>2, ConstantsAssumption DEF BuildAdd, Inv, LoopKnows, Slots
  <2>2. LoopTypeOK'
    BY <1>2, <2>1 DEF BuildAdd, Inv, TypeOK, LoopTypeOK
  <2>3. LoopKnows'
    BY <1>2 DEF BuildAdd, Inv, LoopKnows, slotVars, kernelVars
  <2> QED
    BY <1>2, <2>2, <2>3, LoopLocalInv DEF BuildAdd
<1> QED
  BY <1>1, <1>2

LEMMA SelectInv ==
    ASSUME Inv, Select
    PROVE  Inv'
<1>1. UNCHANGED <<slotVars, queueVars, readVars, kernelVars, backlog, clients>> /\ mpc = "build"
  BY DEF Select, kernelVars
<1>2. CASE Restart
  BY <1>1, <1>2, RestartKnows, LoopLocalInv
<1>3. CASE ~Restart
  <2>1. /\ Ready # {} /\ readset' = Ready /\ selectn' = Cardinality(Ready)
        /\ mpc' = IF Listen \in Ready THEN "accept" ELSE "look"
        /\ mi' = 0 /\ maxfd' = Listen /\ UNCHANGED <<badset, clientfd, mfd, mbyte>>
    BY <1>3 DEF Select
  <2>2. Cardinality(Ready) \in 1 .. MaxFd + 1
    BY <2>1, ReadyCount, ConstantsAssumption DEF Inv
  <2>3. Ready \subseteq {Listen} \cup Fds
    BY DEF Inv, TypeOK, LoopTypeOK, Ready, Watched
  <2>4. LoopTypeOK'
    BY <2>1, <2>2, <2>3, Numbers, ConstantsAssumption DEF Inv, TypeOK, LoopTypeOK
  <2>5. Listen \in Ready => backlog >= 1
    <3>1. \A f \in Fds : f # Listen
      BY Numbers
    <3>2. input \cup hungup \subseteq Fds
      BY DEF Inv, TypeOK
    <3> QED
      BY <3>1, <3>2 DEF Inv, TypeOK, Ready
  <2>6. LoopKnows'
    BY <1>1, <2>1, <2>2, <2>5, Numbers DEF Inv, LoopKnows, slotVars, kernelVars
  <2> QED
    BY <1>1, <2>1, <2>4, <2>6, LoopLocalInv
<1> QED
  BY <1>2, <1>3

LEMMA LookInv ==
    ASSUME Inv, Look \/ IsReady
    PROVE  Inv'
<1>1. /\ UNCHANGED <<slotVars, queueVars, readVars, kernelVars, backlog, clients>>
      /\ mi \in Slots /\ mpc \in {"look", "isset"}
  BY DEF Look, IsReady, kernelVars, Inv, LoopKnows
<1>2. CASE Restart
  BY <1>1, <1>2, RestartKnows, LoopLocalInv
<1>3. CASE Look /\ ~Restart
  <2>1. mi + 1 \in Slots \/ mi + 1 = MAX_CLIENT_CONNECTIONS
    BY <1>1, ConstantsAssumption DEF Slots
  <2>2. mi + 1 \in 0 .. MAX_CLIENT_CONNECTIONS
    BY <1>1, ConstantsAssumption DEF Slots
  <2>3. LoopTypeOK'
    BY <1>1, <1>3, <2>1, <2>2 DEF Look, Inv, TypeOK, LoopTypeOK
  <2>4. selectn # 0 => selectn >= 1
    BY DEF Inv, TypeOK, LoopTypeOK
  <2>5. LoopKnows'
    BY <1>1, <1>3, <2>1, <2>4 DEF Look, Inv, LoopKnows
  <2> QED
    BY <1>1, <1>3, <2>3, <2>5, LoopLocalInv DEF Look
<1>4. CASE IsReady
  <2>1. CASE NextSlot(selectn)
    BY <1>1, <2>1, NextSlotKnows, LoopLocalInv DEF Inv, TypeOK, LoopTypeOK
  <2>2. CASE ~NextSlot(selectn)
    <3>1. mpc = "isset" /\ mpc' = "test"
          /\ UNCHANGED <<mi, selectn, mfd, mbyte, maxfd, readset, badset, clientfd>>
      BY <1>4, <2>2 DEF IsReady
    <3>2. LoopTypeOK'
      BY <1>1, <3>1 DEF Inv, TypeOK, LoopTypeOK
    <3>3. LoopKnows'
      BY <1>1, <3>1 DEF Inv, LoopKnows
    <3> QED
      BY <1>1, <3>1, <3>2, <3>3, LoopLocalInv
  <2> QED
    BY <2>1, <2>2
<1> QED
  BY <1>2, <1>3, <1>4

\* A client is accepted: its descriptor is new and in the loop's hand.
LEMMA AcceptInv ==
    ASSUME Inv, Accept
    PROVE  Inv'
<1>1. /\ UNCHANGED <<slotVars, queueVars, readVars, input, hungup, clients>>
      /\ UNCHANGED <<mi, maxfd, readset, badset, mfd, mbyte>>
      /\ mpc = "accept" /\ selectn >= 1 /\ mi = 0 /\ InHand = {}
  BY DEF Accept, Inv, LoopKnows, InHand
<1>2. \/ \E f \in Fds \ open : /\ clientfd' = f /\ open' = open \cup {f}
                               /\ backlog' = backlog - 1 /\ mpc' = "probe" /\ selectn' = selectn
      \/ selectn' = selectn - 1 /\ mpc' = "look" /\ UNCHANGED <<clientfd, open, backlog>>
  BY DEF Accept
<1>3. LoopTypeOK'
  BY <1>1, <1>2, Numbers, ConstantsAssumption DEF Inv, TypeOK, LoopTypeOK
<1>4. backlog' \in 0 .. MaxClients
  BY <1>1, <1>2, ConstantsAssumption DEF Inv, TypeOK, LoopKnows
<1>5. TypeOK'
  BY <1>1, <1>2, <1>3, <1>4 DEF Inv, TypeOK, slotVars, queueVars, readVars
<1>6. DescriptorsAccounted'
  <2>1. CASE UNCHANGED open /\ mpc' = "look"
    BY <1>1, <2>1 DEF Inv, DescriptorsAccounted, InHand, slotVars
  <2>2. CASE \E f \in Fds \ open : clientfd' = f /\ open' = open \cup {f} /\ mpc' = "probe"
    BY <1>1, <2>2 DEF Inv, DescriptorsAccounted, InHand, slotVars
  <2> QED
    BY <1>2, <2>1, <2>2
<1>7. SessionIffOpen' /\ OneReaderPerSlot' /\ CloseHitsFailedSession' /\ ReaderKnows'
  BY <1>1 DEF Inv, slotVars, queueVars, readVars, SessionIffOpen, OneReaderPerSlot, Queued,
              Readers, Busy, CloseHitsFailedSession, ReaderKnows, Client
<1>8. LoopKnows'
  BY <1>1, <1>2, Numbers DEF Inv, TypeOK, LoopKnows, slotVars
<1> QED
  BY <1>5, <1>6, <1>7, <1>8 DEF Inv

\* A free slot is found, or the client is refused.
LEMMA ProbeInv ==
    ASSUME Inv, Probe
    PROVE  Inv'
<1>1. /\ UNCHANGED <<slotVars, queueVars, readVars, backlog, clients>>
      /\ UNCHANGED <<maxfd, readset, badset, clientfd, mfd, mbyte>>
      /\ mpc = "probe" /\ selectn >= 1 /\ mi = 0 /\ InHand = {clientfd} /\ clientfd \in Fds
  BY DEF Probe, Inv, LoopKnows, InHand
<1>2. CASE mi' \in FreeSlots /\ mpc' = "set" /\ UNCHANGED <<open, input, hungup, selectn>>
  <2>1. LoopTypeOK'
    BY <1>1, <1>2, ConstantsAssumption DEF Inv, TypeOK, LoopTypeOK, FreeSlots, Slots
  <2>2. TypeOK'
    BY <1>1, <1>2, <2>1 DEF Inv, TypeOK, slotVars, queueVars, readVars
  <2>3. /\ DescriptorsAccounted' /\ SessionIffOpen' /\ OneReaderPerSlot'
        /\ CloseHitsFailedSession' /\ ReaderKnows'
    BY <1>1, <1>2 DEF Inv, slotVars, queueVars, readVars, SessionIffOpen, OneReaderPerSlot,
                  Queued, Readers, Busy, CloseHitsFailedSession, ReaderKnows, Client,
                  DescriptorsAccounted, InHand
  <2>4. LoopKnows'
    BY <1>1, <1>2 DEF Inv, LoopKnows, slotVars, FreeSlots
  <2> QED
    BY <2>2, <2>3, <2>4 DEF Inv
<1>3. CASE Refuse(clientfd) /\ selectn' = selectn - 1 /\ mpc' = "look" /\ UNCHANGED mi
  <2>1. LoopTypeOK'
    BY <1>1, <1>3, Numbers, ConstantsAssumption DEF Inv, TypeOK, LoopTypeOK
  <2>2. /\ open' = open \ {clientfd} /\ input' = input \ {clientfd}
        /\ hungup' = hungup \ {clientfd}
    BY <1>3 DEF Refuse, CloseFd
  <2>3. TypeOK'
    BY <1>1, <2>1, <2>2 DEF Inv, TypeOK, slotVars, queueVars, readVars
  <2>4. DescriptorsAccounted'
    BY <1>1, <1>3, <2>2 DEF Inv, DescriptorsAccounted, InHand, slotVars
  <2>5. SessionIffOpen' /\ OneReaderPerSlot' /\ CloseHitsFailedSession' /\ ReaderKnows'
    BY <1>1 DEF Inv, slotVars, queueVars, readVars, SessionIffOpen, OneReaderPerSlot, Queued,
                Readers, Busy, CloseHitsFailedSession, ReaderKnows, Client
  <2>6. LoopKnows'
    BY <1>1, <1>3, Numbers DEF Inv, LoopKnows, slotVars
  <2> QED
    BY <2>3, <2>4, <2>5, <2>6 DEF Inv
<1> QED
  BY <1>2, <1>3 DEF Probe

\* The client is put into the slot, which is still free; no read thread is in it.
LEMMA SetSocketInfoInv ==
    ASSUME Inv, SetSocketInfo
    PROVE  Inv'
<1> DEFINE s == NextSession(lastSession)
<1>1. /\ UNCHANGED <<queueVars, readVars, kernelVars, stalled>>
      /\ UNCHANGED <<maxfd, readset, badset, clientfd, mfd, mbyte>>
      /\ mpc = "set" /\ mpc' = "look" /\ mi' = 0 /\ selectn >= 1 /\ selectn' = selectn - 1
      /\ InHand = {clientfd} /\ InHand' = {} /\ clientfd \in Fds
      /\ mi \in Slots /\ sockfd[mi] = NoFd /\ ~Receiving(mi)
      /\ sockfd' = [sockfd EXCEPT ![mi] = clientfd]
      /\ session' = [session EXCEPT ![mi] = s] /\ lastSession' = s
  BY DEF SetSocketInfo, Inv, LoopKnows, InHand
<1>2. s \in 1 .. MaxSession
  BY ConstantsAssumption DEF NextSession, Inv, TypeOK
<1>3. s \in 0 .. MaxSession /\ s # 0
  BY <1>2, ConstantsAssumption
<1>4. LoopTypeOK'
  BY <1>1, Numbers, ConstantsAssumption DEF Inv, TypeOK, LoopTypeOK
<1>5. TypeOK'
  BY <1>1, <1>3, <1>4 DEF Inv, TypeOK, queueVars, readVars, kernelVars
<1>6. clientfd # NoFd
  BY <1>1, Numbers
<1>7. DescriptorsAccounted'
  <2>1. \A i \in Slots : sockfd'[i] = IF i = mi THEN clientfd ELSE sockfd[i]
    BY <1>1 DEF Inv, TypeOK
  <2>2. \A i \in Slots : sockfd[i] # NoFd => sockfd[i] # clientfd
    BY <1>1 DEF Inv, DescriptorsAccounted
  <2>3. open' = {sockfd[i] : i \in {j \in Slots : sockfd[j] # NoFd}} \cup {clientfd}
    BY <1>1 DEF Inv, DescriptorsAccounted, kernelVars
  <2>4. {sockfd'[i] : i \in {j \in Slots : sockfd'[j] # NoFd}}
          = {sockfd[i] : i \in {j \in Slots : sockfd[j] # NoFd}} \cup {clientfd}
    BY <1>1, <1>6, <2>1
  <2> QED
    BY <1>1, <1>6, <2>1, <2>2, <2>3, <2>4 DEF Inv, DescriptorsAccounted
<1>8. SessionIffOpen'
  BY <1>1, <1>3, <1>6 DEF Inv, TypeOK, SessionIffOpen
<1>9. OneReaderPerSlot'
  BY <1>1 DEF Inv, queueVars, readVars, OneReaderPerSlot, Queued, Readers, Busy
<1>10. CloseHitsFailedSession' /\ ReaderKnows'
  <2>1. session[mi] = 0
    BY <1>1 DEF Inv, SessionIffOpen
  <2> QED
    BY <1>1, <1>6, <2>1 DEF Inv, TypeOK, queueVars, readVars, CloseHitsFailedSession, ReaderKnows, Client, NoClient,
                            Receiving
<1>11. LoopKnows'
  BY <1>1, Numbers DEF Inv, LoopKnows, kernelVars
<1> QED
  BY <1>5, <1>7, <1>8, <1>9, <1>10, <1>11 DEF Inv

\* The slot of a set bit is passed; of another, its byte has been read.
LEMMA TestBitInv ==
    ASSUME Inv, TestBit
    PROVE  Inv'
<1>1. /\ UNCHANGED <<slotVars, queueVars, readVars, kernelVars, backlog, clients>>
      /\ mpc = "test" /\ mi \in Slots /\ selectn >= 1
      /\ selectn - 1 \in 0 .. MaxFd + 1
  BY ConstantsAssumption DEF TestBit, kernelVars, Inv, TypeOK, LoopTypeOK, LoopKnows
<1>2. CASE NextSlot(selectn - 1)
  BY <1>1, <1>2, NextSlotKnows, LoopLocalInv
<1>3. CASE ~NextSlot(selectn - 1)
  <2>1. /\ mi \notin s_read_bit_record
        /\ mbyte' = s_read_bit_record \cap Byte(mi) /\ mpc' = "queue"
        /\ UNCHANGED <<mi, maxfd, readset, badset, selectn, clientfd, mfd>>
    BY <1>3 DEF TestBit, IsSetBit
  <2>2. LoopTypeOK'
    BY <1>1, <2>1 DEF Inv, TypeOK, LoopTypeOK
  <2>3. LoopKnows'
    BY <1>1, <2>1 DEF Inv, LoopKnows
  <2> QED
    BY <1>1, <2>1, <2>2, <2>3, LoopLocalInv
<1> QED
  BY <1>2, <1>3

\* A slot's bit lies in its byte.
LEMMA OwnByte == \A i \in Slots : i \in Byte(i)
  BY DEF Byte

\* A queued slot gets one more entry, the others keep theirs.
LEMMA QueuedAfterAppend ==
    ASSUME NEW q \in Seq(Slots), NEW i \in Slots, NEW j \in Slots
    PROVE  {k \in 1 .. Len(Append(q, i)) : Append(q, i)[k] = j}
             = {k \in 1 .. Len(q) : q[k] = j} \cup (IF i = j THEN {Len(q) + 1} ELSE {})
<1>1. Len(Append(q, i)) = Len(q) + 1 /\ Append(q, i)[Len(q) + 1] = i
  OBVIOUS
<1>2. \A k \in 1 .. Len(q) : Append(q, i)[k] = q[k]
  OBVIOUS
<1>3. 1 .. Len(q) + 1 = (1 .. Len(q)) \cup {Len(q) + 1} /\ Len(q) + 1 \notin 1 .. Len(q)
  OBVIOUS
<1> QED
  BY <1>1, <1>2, <1>3

\* The bit is set and the slot queued.  Unless another thread has written the byte
\* meanwhile, the slot had no reader and was not queued.
LEMMA QueueInv ==
    ASSUME Inv, Queue
    PROVE  Inv'
<1>1. /\ UNCHANGED <<slotVars, readVars, kernelVars, backlog, clients>>
      /\ mpc = "queue" /\ mi \in Slots /\ selectn >= 1 /\ mi \notin mbyte /\ mbyte \subseteq Slots
      /\ selectn - 1 \in 0 .. MaxFd + 1
      /\ s_read_msg_queue \in Seq(Slots) /\ s_read_bit_record \subseteq Slots
  BY ConstantsAssumption DEF Queue, kernelVars, Inv, TypeOK, LoopTypeOK, LoopKnows
<1>2. /\ s_read_bit_record' = (s_read_bit_record \ Byte(mi)) \cup (mbyte \cup {mi})
      /\ torn' = (torn \/ s_read_bit_record \cap Byte(mi) # mbyte)
      /\ s_read_msg_queue' = Append(s_read_msg_queue, mi)
      /\ NextSlot(selectn - 1)
  BY DEF Queue, StoreByte
<1>3. LoopTypeOK' /\ LoopKnows' /\ mpc' \in {"build", "look"}
  BY <1>1, <1>2, NextSlotKnows
<1>4. TypeOK'
  <2>1. s_read_msg_queue' \in Seq(Slots) /\ s_read_bit_record' \subseteq Slots /\ torn' \in BOOLEAN
    BY <1>1, <1>2 DEF Inv, TypeOK
  <2> QED
    BY <1>1, <1>3, <2>1 DEF Inv, TypeOK, slotVars, readVars, kernelVars
<1>5. DescriptorsAccounted' /\ SessionIffOpen' /\ ReaderKnows'
  BY <1>1, <1>3 DEF Inv, slotVars, readVars, kernelVars, DescriptorsAccounted, InHand,
              SessionIffOpen, ReaderKnows, Client
<1>6. CloseHitsFailedSession'
  BY <1>1, <1>2 DEF Inv, slotVars, readVars, CloseHitsFailedSession, Client
<1>7. OneReaderPerSlot'
  <2> SUFFICES ASSUME ~torn', NEW i \in Slots
               PROVE  /\ i \in s_read_bit_record' <=> Queued(i)' \cup Readers(i)' # {}
                      /\ \A j, k \in Queued(i)' : j = k
                      /\ \A q, r \in Readers(i)' : q = r
                      /\ Queued(i)' = {} \/ Readers(i)' = {}
    BY DEF OneReaderPerSlot
  <2>1. ~torn /\ s_read_bit_record \cap Byte(mi) = mbyte
    BY <1>2
  <2>2. s_read_bit_record' = s_read_bit_record \cup {mi} /\ mi \notin s_read_bit_record
    BY <1>1, <1>2, <2>1, OwnByte
  <2>3. Readers(i)' = Readers(i)
    BY <1>1 DEF readVars, Readers, Busy
  <2>4. Queued(i)' = Queued(i) \cup (IF i = mi THEN {Len(s_read_msg_queue) + 1} ELSE {})
    BY <1>1, <1>2, QueuedAfterAppend DEF Queued
  <2>5. /\ i \in s_read_bit_record <=> Queued(i) \cup Readers(i) # {}
        /\ \A j, k \in Queued(i) : j = k
        /\ \A q, r \in Readers(i) : q = r
        /\ Queued(i) = {} \/ Readers(i) = {}
    BY <2>1 DEF Inv, OneReaderPerSlot
  <2> QED
    BY <2>2, <2>3, <2>4, <2>5
<1> QED
  BY <1>3, <1>4, <1>5, <1>6, <1>7 DEF Inv

LEMMA MainInv ==
    ASSUME Inv, Main
    PROVE  Inv'
  BY BuildInv, SelectInv, AcceptInv, ProbeInv, SetSocketInfoInv, LookInv, TestBitInv, QueueInv
     DEF Main

-----------------------------------------------------------------------------
(* The read threads.                                                       *)

\* The head of the queue goes, the other entries move up.
LEMMA QueuedAfterTail ==
    ASSUME NEW q \in Seq(Slots), q # <<>>, NEW j \in Slots
    PROVE  /\ {k \in 1 .. Len(q) : q[k] = j}
                = {k + 1 : k \in {m \in 1 .. Len(Tail(q)) : Tail(q)[m] = j}}
                    \cup (IF Head(q) = j THEN {1} ELSE {})
           /\ \A k \in {m \in 1 .. Len(Tail(q)) : Tail(q)[m] = j} : k \in Nat /\ k + 1 # 1
<1>1. Len(q) \in Nat /\ Len(q) >= 1 /\ Len(Tail(q)) = Len(q) - 1 /\ Head(q) = q[1]
  OBVIOUS
<1>2. \A k \in 1 .. Len(Tail(q)) : Tail(q)[k] = q[k + 1]
  OBVIOUS
<1>3. 1 .. Len(q) = {k + 1 : k \in 1 .. Len(Tail(q))} \cup {1}
  <2>1. ASSUME NEW k \in 1 .. Len(q), k # 1
        PROVE  k - 1 \in 1 .. Len(Tail(q)) /\ k = (k - 1) + 1
    BY <1>1, <2>1
  <2>2. \A k \in 1 .. Len(Tail(q)) : k + 1 \in 1 .. Len(q)
    BY <1>1
  <2>3. 1 \in 1 .. Len(q)
    BY <1>1
  <2> QED
    BY <2>1, <2>2, <2>3, Zenon
<1> QED
  BY <1>1, <1>2, <1>3

\* A queued slot becomes a read thread's.
LEMMA PopInv ==
    ASSUME Inv, NEW r \in ReadThreads, Pop(r)
    PROVE  Inv'
<1> DEFINE q == s_read_msg_queue
           h == Head(q)
<1>1. /\ UNCHANGED <<slotVars, loopVars, kernelVars, s_read_bit_record, torn, rbyte, rclient>>
      /\ rpc[r] = "pop" /\ q # <<>> /\ q \in Seq(Slots) /\ h \in Slots
      /\ s_read_msg_queue' = Tail(q) /\ Tail(q) \in Seq(Slots)
      /\ rconn' = [rconn EXCEPT ![r] = h] /\ rpc' = [rpc EXCEPT ![r] = "recv"]
  BY DEF Pop, Goto, Inv, TypeOK
<1>2. TypeOK'
  <2>1. LoopTypeOK'
    BY <1>1 DEF Inv, TypeOK, LoopTypeOK, loopVars
  <2> QED
    BY <1>1, <2>1 DEF Inv, TypeOK, slotVars, kernelVars
<1>3. DescriptorsAccounted' /\ SessionIffOpen'
  BY <1>1 DEF Inv, slotVars, loopVars, kernelVars, DescriptorsAccounted, InHand, SessionIffOpen
<1>4. CloseHitsFailedSession' /\ ReaderKnows'
  BY <1>1 DEF Inv, TypeOK, slotVars, CloseHitsFailedSession, ReaderKnows, Client
<1>5. LoopKnows'
  BY <1>1 DEF Inv, LoopKnows, slotVars, loopVars, kernelVars
<1>6. OneReaderPerSlot'
  <2> SUFFICES ASSUME ~torn', NEW i \in Slots
               PROVE  /\ i \in s_read_bit_record' <=> Queued(i)' \cup Readers(i)' # {}
                      /\ \A j, k \in Queued(i)' : j = k
                      /\ \A v, w \in Readers(i)' : v = w
                      /\ Queued(i)' = {} \/ Readers(i)' = {}
    BY DEF OneReaderPerSlot
  <2>1. /\ i \in s_read_bit_record <=> Queued(i) \cup Readers(i) # {}
        /\ \A j, k \in Queued(i) : j = k
        /\ \A v, w \in Readers(i) : v = w
        /\ Queued(i) = {} \/ Readers(i) = {}
    BY <1>1 DEF Inv, OneReaderPerSlot
  <2>2. Readers(i)' = Readers(i) \cup (IF h = i THEN {r} ELSE {})
    BY <1>1 DEF Inv, TypeOK, Readers, Busy
  <2>3. /\ Queued(i) = {k + 1 : k \in Queued(i)'} \cup (IF h = i THEN {1} ELSE {})
        /\ \A k \in Queued(i)' : k \in Nat /\ k + 1 # 1
    BY <1>1, QueuedAfterTail DEF Queued
  <2>4. \A j, k \in Queued(i)' : j = k
    <3>1. ASSUME NEW j \in Queued(i)', NEW k \in Queued(i)'
          PROVE  j = k
      <4>1. j + 1 \in Queued(i) /\ k + 1 \in Queued(i) /\ j \in Nat /\ k \in Nat
        BY <2>3
      <4> QED
        BY <2>1, <4>1
    <3> QED
      BY <3>1
  <2>5. CASE h = i
    <3>1. 1 \in Queued(i)
      BY <2>3, <2>5
    <3>2. Queued(i)' = {}
      BY <2>1, <2>3, <3>1
    <3> QED
      BY <1>1, <2>1, <2>2, <2>5, <3>1, <3>2
  <2>6. CASE h # i
    <3>1. Queued(i)' = {} <=> Queued(i) = {}
      BY <2>3, <2>6
    <3> QED
      BY <1>1, <2>1, <2>2, <2>4, <2>6, <3>1
  <2> QED
    BY <2>5, <2>6
<1> QED
  BY <1>2, <1>3, <1>4, <1>5, <1>6 DEF Inv

\* Recv begins: it remembers the session, and fails at once on a closed slot.
LEMMA RecvStartInv ==
    ASSUME Inv, NEW r \in ReadThreads, RecvStart(r)
    PROVE  Inv'
<1> DEFINE i == rconn[r]
<1>1. /\ UNCHANGED <<sockfd, session, lastSession, queueVars, loopVars, kernelVars, rconn, rbyte>>
      /\ rpc[r] = "recv" /\ i \in Slots /\ Client(i) \in ({NoFd} \cup Fds) \X (0 .. MaxSession)
      /\ rclient' = [rclient EXCEPT ![r] = Client(i)]
      /\ \/ sockfd[i] = NoFd /\ rpc' = [rpc EXCEPT ![r] = "close"]
         \/ sockfd[i] # NoFd /\ rpc' = [rpc EXCEPT ![r] = "receive"]
  BY DEF RecvStart, Goto, Inv, TypeOK, Client
<1>2. stalled' \in [Slots -> 0 .. MaxSession]
  <2>1. 0 \in 0 .. MaxSession
    BY ConstantsAssumption
  <2>2. stalled \in [Slots -> 0 .. MaxSession] /\ stalled[i] \in 0 .. MaxSession
    BY <1>1 DEF Inv, TypeOK
  <2>3. stalled' = stalled \/ stalled' = [stalled EXCEPT ![i] = IF Stalled(i) THEN stalled[i] ELSE 0]
    BY DEF RecvStart
  <2> QED
    BY <2>1, <2>2, <2>3
<1>3. TypeOK'
  <2>1. LoopTypeOK'
    BY <1>1 DEF Inv, TypeOK, LoopTypeOK, loopVars
  <2> QED
    BY <1>1, <1>2, <2>1 DEF Inv, TypeOK, queueVars, kernelVars
<1>4. DescriptorsAccounted' /\ SessionIffOpen'
  BY <1>1 DEF Inv, loopVars, kernelVars, DescriptorsAccounted, InHand, SessionIffOpen
<1>5. CloseHitsFailedSession' /\ ReaderKnows'
  BY <1>1 DEF Inv, TypeOK, queueVars, CloseHitsFailedSession, ReaderKnows, Client
<1>6. LoopKnows'
  BY <1>1 DEF Inv, LoopKnows, loopVars, kernelVars
<1>7. \A j \in Slots : Readers(j)' = Readers(j) /\ Queued(j)' = Queued(j)
  BY <1>1 DEF Inv, TypeOK, Readers, Busy, Queued, queueVars
<1>8. OneReaderPerSlot'
  BY <1>1, <1>7 DEF Inv, OneReaderPerSlot, queueVars
<1> QED
  BY <1>3, <1>4, <1>5, <1>6, <1>8 DEF Inv

\* Recv ends, and fails only on the session it began with.
LEMMA RecvEndInv ==
    ASSUME Inv, NEW r \in ReadThreads, RecvEnd(r)
    PROVE  Inv'
<1> DEFINE i == rconn[r]
<1>1. /\ UNCHANGED <<sockfd, session, lastSession, queueVars, loopVars, rconn, rbyte, rclient,
                     open, hungup, backlog, clients>>
      /\ rpc[r] = "receive" /\ i \in Slots /\ input' \subseteq input
      /\ \/ rpc' = [rpc EXCEPT ![r] = "close"]
         \/ rpc' = [rpc EXCEPT ![r] = "clear"]
      /\ stalled' \in {stalled, [stalled EXCEPT ![i] = session[i]]}
  BY DEF RecvEnd, Goto, Inv, TypeOK
<1>2. stalled' \in [Slots -> 0 .. MaxSession]
  BY <1>1 DEF Inv, TypeOK
<1>3. TypeOK'
  <2>1. LoopTypeOK'
    BY <1>1 DEF Inv, TypeOK, LoopTypeOK, loopVars
  <2> QED
    BY <1>1, <1>2, <2>1 DEF Inv, TypeOK, queueVars
<1>4. DescriptorsAccounted' /\ SessionIffOpen'
  BY <1>1 DEF Inv, loopVars, DescriptorsAccounted, InHand, SessionIffOpen
<1>5. CloseHitsFailedSession' /\ ReaderKnows'
  BY <1>1 DEF Inv, TypeOK, queueVars, CloseHitsFailedSession, ReaderKnows, Client
<1>6. LoopKnows'
  BY <1>1 DEF Inv, LoopKnows, loopVars
<1>7. \A j \in Slots : Readers(j)' = Readers(j) /\ Queued(j)' = Queued(j)
  BY <1>1 DEF Inv, TypeOK, Readers, Busy, Queued, queueVars
<1>8. OneReaderPerSlot'
  BY <1>1, <1>7 DEF Inv, OneReaderPerSlot, queueVars
<1> QED
  BY <1>3, <1>4, <1>5, <1>6, <1>8 DEF Inv

\* The slot is closed, whatever it holds by then; no thread is inside Recv of it,
\* and no other one is about to close it unless the record is torn.
LEMMA CloseInv ==
    ASSUME Inv, NEW r \in ReadThreads, Close(r)
    PROVE  Inv'
<1> DEFINE c == rconn[r]
           f == sockfd[c]
<1>1. /\ UNCHANGED <<queueVars, loopVars, rconn, rbyte, rclient, lastSession, stalled>>
      /\ UNCHANGED <<backlog, clients>>
      /\ rpc[r] = "close" /\ c \in Slots /\ ~Receiving(c)
      /\ open' = open \ {f} /\ input' = input \ {f} /\ hungup' = hungup \ {f}
      /\ sockfd' = [sockfd EXCEPT ![c] = NoFd] /\ session' = [session EXCEPT ![c] = 0]
      /\ rpc' = [rpc EXCEPT ![r] = "clear"]
  BY DEF Close, CloseFd, Goto, Inv, TypeOK
<1>2. TypeOK'
  <2>1. 0 \in 0 .. MaxSession
    BY ConstantsAssumption
  <2> QED
    BY <1>1, <2>1 DEF Inv, TypeOK, LoopTypeOK, queueVars, loopVars
<1>3. DescriptorsAccounted'
  <2>1. \A i \in Slots : sockfd'[i] = IF i = c THEN NoFd ELSE sockfd[i]
    BY <1>1 DEF Inv, TypeOK
  <2>2. InHand' = InHand /\ (f # NoFd => f \notin InHand) /\ NoFd \notin InHand
    BY <1>1, Numbers DEF Inv, DescriptorsAccounted, InHand, loopVars, LoopKnows
  <2>3. \A i \in Slots : i # c /\ sockfd[i] # NoFd => sockfd[i] # f
    BY <1>1 DEF Inv, DescriptorsAccounted
  <2>4. open = {sockfd[i] : i \in {j \in Slots : sockfd[j] # NoFd}} \cup InHand
    BY DEF Inv, DescriptorsAccounted
  <2>5. {sockfd'[i] : i \in {j \in Slots : sockfd'[j] # NoFd}}
          = {sockfd[i] : i \in {j \in Slots : sockfd[j] # NoFd}} \ {f}
    BY <2>1, <2>3
  <2>6. open' = {sockfd'[i] : i \in {j \in Slots : sockfd'[j] # NoFd}} \cup InHand'
    BY <1>1, <2>2, <2>4, <2>5
  <2> QED
    BY <2>1, <2>2, <2>6 DEF Inv, DescriptorsAccounted
<1>4. SessionIffOpen'
  BY <1>1 DEF Inv, TypeOK, SessionIffOpen
<1>5. ReaderKnows'
  BY <1>1 DEF Inv, TypeOK, ReaderKnows, Client, Receiving
<1>6. CloseHitsFailedSession'
  <2> SUFFICES ASSUME ~torn', NEW q \in ReadThreads, rpc'[q] = "close", rclient'[q] # NoClient
               PROVE  Client(rconn[q])' = rclient'[q]
    BY DEF CloseHitsFailedSession, Client
  <2>1. ~torn /\ q # r /\ rpc[q] = "close" /\ rclient[q] # NoClient /\ rconn[q] \in Slots
    BY <1>1 DEF Inv, TypeOK, queueVars
  <2>2. rconn[q] # c
    BY <1>1, <2>1 DEF Inv, OneReaderPerSlot, Readers, Busy
  <2> QED
    BY <1>1, <2>1, <2>2 DEF Inv, TypeOK, CloseHitsFailedSession, Client
<1>7. LoopKnows'
  <2>1. mpc = "set" => sockfd'[mi] = NoFd
    BY <1>1 DEF Inv, TypeOK, LoopKnows
  <2> QED
    BY <1>1, <2>1 DEF Inv, LoopKnows, loopVars
<1>8. \A i \in Slots : Readers(i)' = Readers(i) /\ Queued(i)' = Queued(i)
  BY <1>1 DEF Inv, TypeOK, Readers, Busy, Queued, queueVars
<1>9. OneReaderPerSlot'
  BY <1>1, <1>8 DEF Inv, OneReaderPerSlot, queueVars
<1> QED
  BY <1>2, <1>3, <1>4, <1>5, <1>6, <1>7, <1>9 DEF Inv

\* The byte of the bit is read.
LEMMA ResetLoadInv ==
    ASSUME Inv, NEW r \in ReadThreads, ResetLoad(r)
    PROVE  Inv'
<1>1. /\ UNCHANGED <<slotVars, queueVars, loopVars, kernelVars, rconn, rclient>>
      /\ rpc[r] = "clear" /\ rpc' = [rpc EXCEPT ![r] = "store"]
      /\ rbyte' = [rbyte EXCEPT ![r] = s_read_bit_record \cap Byte(rconn[r])]
      /\ s_read_bit_record \cap Byte(rconn[r]) \subseteq Slots
  BY DEF ResetLoad, Goto, Inv, TypeOK
<1>2. TypeOK'
  <2>1. LoopTypeOK'
    BY <1>1 DEF Inv, TypeOK, LoopTypeOK, loopVars
  <2> QED
    BY <1>1, <2>1 DEF Inv, TypeOK, slotVars, queueVars, kernelVars
<1>3. DescriptorsAccounted' /\ SessionIffOpen'
  BY <1>1 DEF Inv, slotVars, loopVars, kernelVars, DescriptorsAccounted, InHand, SessionIffOpen
<1>4. CloseHitsFailedSession' /\ ReaderKnows'
  BY <1>1 DEF Inv, TypeOK, slotVars, queueVars, CloseHitsFailedSession, ReaderKnows, Client
<1>5. LoopKnows'
  BY <1>1 DEF Inv, LoopKnows, slotVars, loopVars, kernelVars
<1>6. \A i \in Slots : Readers(i)' = Readers(i) /\ Queued(i)' = Queued(i)
  BY <1>1 DEF Inv, TypeOK, Readers, Busy, Queued, queueVars
<1>7. OneReaderPerSlot'
  BY <1>1, <1>6 DEF Inv, OneReaderPerSlot, queueVars
<1> QED
  BY <1>2, <1>3, <1>4, <1>5, <1>7 DEF Inv

\* The bit is cleared and the thread lets go of the slot, whose only user it was.
LEMMA ResetStoreInv ==
    ASSUME Inv, NEW r \in ReadThreads, ResetStore(r)
    PROVE  Inv'
<1> DEFINE c == rconn[r]
<1>1. /\ UNCHANGED <<slotVars, loopVars, kernelVars, s_read_msg_queue>>
      /\ rpc[r] = "store" /\ c \in Slots /\ rbyte[r] \subseteq Slots
      /\ rpc' = [rpc EXCEPT ![r] = "pop"] /\ rconn' = [rconn EXCEPT ![r] = 0]
      /\ rbyte' = [rbyte EXCEPT ![r] = {}] /\ rclient' = [rclient EXCEPT ![r] = NoClient]
      /\ s_read_bit_record' = (s_read_bit_record \ Byte(c)) \cup (rbyte[r] \ {c})
      /\ torn' = (torn \/ s_read_bit_record \cap Byte(c) # rbyte[r])
  BY DEF ResetStore, StoreByte, Inv, TypeOK
<1>2. TypeOK'
  <2>1. 0 \in 0 .. MaxSession /\ 0 \in Slots
    BY Numbers, ConstantsAssumption
  <2> QED
    BY <1>1, <2>1 DEF Inv, TypeOK, NoClient, LoopTypeOK, slotVars, loopVars, kernelVars
<1>3. DescriptorsAccounted' /\ SessionIffOpen'
  BY <1>1 DEF Inv, slotVars, loopVars, kernelVars, DescriptorsAccounted, InHand, SessionIffOpen
<1>4. CloseHitsFailedSession' /\ ReaderKnows'
  BY <1>1 DEF Inv, TypeOK, slotVars, CloseHitsFailedSession, ReaderKnows, Client
<1>5. LoopKnows'
  BY <1>1 DEF Inv, LoopKnows, slotVars, loopVars, kernelVars
<1>6. OneReaderPerSlot'
  <2> SUFFICES ASSUME ~torn', NEW i \in Slots
               PROVE  /\ i \in s_read_bit_record' <=> Queued(i)' \cup Readers(i)' # {}
                      /\ \A j, k \in Queued(i)' : j = k
                      /\ \A v, w \in Readers(i)' : v = w
                      /\ Queued(i)' = {} \/ Readers(i)' = {}
    BY DEF OneReaderPerSlot
  <2>1. s_read_bit_record' = s_read_bit_record \ {c} /\ ~torn
    BY <1>1, OwnByte
  <2>2. /\ i \in s_read_bit_record <=> Queued(i) \cup Readers(i) # {}
        /\ \A j, k \in Queued(i) : j = k
        /\ \A v, w \in Readers(i) : v = w
        /\ Queued(i) = {} \/ Readers(i) = {}
    BY <2>1 DEF Inv, OneReaderPerSlot
  <2>3. Readers(i)' = Readers(i) \ {r} /\ Queued(i)' = Queued(i) /\ (i = c => r \in Readers(i))
        /\ (i # c => r \notin Readers(i))
    BY <1>1 DEF Inv, TypeOK, Readers, Busy, Queued
  <2> QED
    BY <2>1, <2>2, <2>3
<1> QED
  BY <1>2, <1>3, <1>4, <1>5, <1>6 DEF Inv

\* Every step of the gate and its clients keeps the invariant.
LEMMA NextInv == Inv /\ [Next]_vars => Inv'
<1> SUFFICES ASSUME Inv, [Next]_vars PROVE Inv'
  OBVIOUS
<1>1. CASE Connect \/ \E f \in Fds : Send(f) \/ HangUp(f)
  BY <1>1, ClientInv
<1>2. CASE Main
  BY <1>2, MainInv
<1>3. CASE \E r \in ReadThreads : Read(r)
  BY <1>3, PopInv, RecvStartInv, RecvEndInv, CloseInv, ResetLoadInv, ResetStoreInv DEF Read
<1>4. CASE UNCHANGED vars
  <2>1. TypeOK'
    BY <1>4 DEF Inv, TypeOK, LoopTypeOK, vars, slotVars, queueVars, loopVars, readVars, kernelVars
  <2>2. DescriptorsAccounted' /\ SessionIffOpen' /\ OneReaderPerSlot' /\ CloseHitsFailedSession'
    BY <1>4 DEF Inv, vars, slotVars, queueVars, loopVars, readVars, kernelVars,
                DescriptorsAccounted, InHand, SessionIffOpen, OneReaderPerSlot, Queued, Readers,
                Busy, CloseHitsFailedSession, Client
  <2>3. LoopKnows' /\ ReaderKnows'
    BY <1>4 DEF Inv, vars, slotVars, queueVars, loopVars, readVars, kernelVars, LoopKnows,
                ReaderKnows, Client
  <2> QED
    BY <2>1, <2>2, <2>3 DEF Inv
<1> QED
  BY <1>1, <1>2, <1>3, <1>4 DEF Next

-----------------------------------------------------------------------------
\* The invariant holds whatever clients, loop and read threads do.
THEOREM Invariance == Spec => []Inv
  BY InitInv, NextInv, PTL DEF Spec

\* No slot index runs off the table and no count of ready descriptors below zero.
THEOREM TypeCorrect == Spec => []TypeOK
<1>1. Inv => TypeOK
  BY DEF Inv
<1> QED
  BY Invariance, <1>1, PTL

\* No descriptor of a client leaks and none is closed twice.
THEOREM DescriptorsSafe == Spec => []DescriptorsAccounted
<1>1. Inv => DescriptorsAccounted
  BY DEF Inv
<1> QED
  BY Invariance, <1>1, PTL

\* A slot has a session exactly while it has a client, past any wrap of the counter.
THEOREM SessionsMatch == Spec => []SessionIffOpen
<1>1. Inv => SessionIffOpen
  BY DEF Inv
<1> QED
  BY Invariance, <1>1, PTL

\* A slot is queued or read by one thread at most, and exactly when its bit is set,
\* until an update of the bit record is lost.
THEOREM SlotsReadOnce == Spec => []OneReaderPerSlot
<1>1. Inv => OneReaderPerSlot
  BY DEF Inv
<1> QED
  BY Invariance, <1>1, PTL

\* Until an update of the bit record is lost, a read thread whose Recv failed on a live
\* connection closes that connection; of a Recv of a closed slot nothing is said.
THEOREM LiveFailureClosesItsOwn == Spec => []CloseHitsFailedSession
<1>1. Inv => CloseHitsFailedSession
  BY DEF Inv
<1> QED
  BY Invariance, <1>1, PTL

-----------------------------------------------------------------------------
(* The loop and the read threads implement the table of clients.           *)

\* A step that leaves slots, open descriptors and the loop's hand alone is a stutter.
LEMMA TableStutter ==
    ASSUME UNCHANGED <<sockfd, session, open>>, InHand' = InHand
    PROVE  UNCHANGED Table!vars
  BY DEF Table!vars

\* With no client in hand before and after, the loop's hand does not change.
LEMMA HandStaysEmpty ==
    ASSUME mpc \notin {"probe", "set"}, mpc' \notin {"probe", "set"}
    PROVE  InHand' = InHand
  BY DEF InHand

LEMMA LoopRefines ==
    ASSUME Inv, Main
    PROVE  [Table!Next]_(Table!vars)
<1>1. CASE BuildLook \/ BuildAdd \/ Select \/ Look \/ IsReady \/ TestBit \/ Queue
  <2>1. UNCHANGED <<sockfd, session, open>> /\ mpc \notin {"probe", "set"}
    BY <1>1 DEF BuildLook, BuildAdd, Select, Look, IsReady, TestBit, Queue, slotVars, kernelVars
  <2>2. Restart \/ NextSlot(selectn) \/ NextSlot(selectn - 1) => mpc' \notin {"probe", "set"}
    BY DEF Restart, NextSlot
  <2>3. mpc' \notin {"probe", "set"}
    BY <1>1, <2>2 DEF BuildLook, BuildAdd, Select, Look, IsReady, TestBit, Queue
  <2> QED
    BY <2>1, <2>3, HandStaysEmpty, TableStutter
<1>2. CASE Accept
  <2>1. mpc = "accept" /\ InHand = {} /\ UNCHANGED <<sockfd, session>>
    BY <1>2 DEF Accept, InHand, slotVars
  <2>2. CASE \E f \in Fds \ open : clientfd' = f /\ open' = open \cup {f} /\ mpc' = "probe"
    <3>1. PICK f \in Fds \ open : clientfd' = f /\ open' = open \cup {f} /\ mpc' = "probe"
      BY <2>2
    <3>2. Table!Admit(f)
      BY <2>1, <3>1 DEF Table!Admit, InHand
    <3> QED
      BY <3>1, <3>2 DEF Table!Next
  <2>3. CASE mpc' = "look" /\ UNCHANGED open
    BY <2>1, <2>3, TableStutter DEF InHand
  <2> QED
    BY <1>2, <2>2, <2>3 DEF Accept
<1>3. CASE Probe
  <2>1. /\ mpc = "probe" /\ InHand = {clientfd} /\ clientfd \in Fds
        /\ UNCHANGED <<sockfd, session, clientfd>>
    BY <1>3 DEF Probe, Inv, LoopKnows, InHand, slotVars
  <2>2. CASE mpc' = "set" /\ UNCHANGED open
    BY <2>1, <2>2, TableStutter DEF InHand
  <2>3. CASE mpc' = "look" /\ Refuse(clientfd)
    <3>1. Table!TurnAway(clientfd)
      BY <2>1, <2>3 DEF Table!TurnAway, InHand, Refuse, CloseFd
    <3> QED
      BY <2>1, <3>1 DEF Table!Next
  <2> QED
    BY <1>3, <2>2, <2>3 DEF Probe
<1>4. CASE SetSocketInfo
  <2>1. /\ mpc = "set" /\ mpc' = "look" /\ InHand = {clientfd} /\ InHand' = {}
        /\ clientfd \in Fds /\ mi \in Slots /\ sockfd[mi] = NoFd /\ open' = open
        /\ sockfd' = [sockfd EXCEPT ![mi] = clientfd]
        /\ session' = [session EXCEPT ![mi] = NextSession(lastSession)]
    BY <1>4 DEF SetSocketInfo, Inv, LoopKnows, InHand, kernelVars
  <2>2. NextSession(lastSession) \in 1 .. MaxSession /\ NextSession(lastSession) # 0
    BY ConstantsAssumption DEF NextSession, Inv, TypeOK
  <2>3. Table!Seat(clientfd, mi, NextSession(lastSession))
    BY <2>1, <2>2 DEF Table!Seat
  <2> QED
    BY <2>1, <2>2, <2>3 DEF Table!Next
<1> QED
  BY <1>1, <1>2, <1>3, <1>4 DEF Main

LEMMA StepRefines ==
    ASSUME Inv, [Next]_vars
    PROVE  [Table!Next]_(Table!vars)
<1>1. CASE Main
  BY <1>1, LoopRefines
<1>2. CASE Connect \/ \E f \in Fds : Send(f) \/ HangUp(f)
  <2>1. UNCHANGED <<sockfd, session, open>> /\ InHand' = InHand
    BY <1>2 DEF Connect, Send, HangUp, slotVars, loopVars, InHand
  <2> QED
    BY <2>1, TableStutter
<1>3. CASE \E r \in ReadThreads : Close(r)
  <2>1. PICK r \in ReadThreads : Close(r)
    BY <1>3
  <2> DEFINE c == rconn[r]
  <2>2. /\ c \in Slots /\ InHand' = InHand
        /\ open' = open \ {sockfd[c]}
        /\ sockfd' = [sockfd EXCEPT ![c] = NoFd] /\ session' = [session EXCEPT ![c] = 0]
    BY <2>1 DEF Close, CloseFd, Inv, TypeOK, loopVars, InHand
  <2>3. CASE sockfd[c] # NoFd
    <3>1. Table!Leave(c)
      BY <2>2, <2>3 DEF Table!Leave
    <3> QED
      BY <2>2, <3>1 DEF Table!Next
  <2>4. CASE sockfd[c] = NoFd
    <3>1. session[c] = 0 /\ NoFd \notin open
      BY <2>2, <2>4, Numbers DEF Inv, TypeOK, SessionIffOpen
    <3>2. UNCHANGED <<sockfd, session, open>>
      BY <2>2, <2>4, <3>1 DEF Inv, TypeOK
    <3> QED
      BY <2>2, <3>2, TableStutter
  <2> QED
    BY <2>3, <2>4
<1>4. CASE \E r \in ReadThreads : Pop(r) \/ RecvStart(r) \/ RecvEnd(r) \/ ResetLoad(r) \/ ResetStore(r)
  <2>1. UNCHANGED <<sockfd, session, open>> /\ InHand' = InHand
    BY <1>4 DEF Pop, RecvStart, RecvEnd, ResetLoad, ResetStore, slotVars, loopVars, kernelVars, InHand
  <2> QED
    BY <2>1, TableStutter
<1>5. CASE UNCHANGED vars
  <2>1. UNCHANGED <<sockfd, session, open>> /\ InHand' = InHand
    BY <1>5 DEF vars, slotVars, loopVars, kernelVars, InHand
  <2> QED
    BY <2>1, TableStutter
<1> QED
  BY <1>1, <1>2, <1>3, <1>4, <1>5 DEF Next, Read

\* The gate implements the table of clients, for any number of slots and threads.
THEOREM GateImplementsTable == Spec => ImplementsClientTable
<1>1. Init => Table!Init
  BY DEF Init, Table!Init, InHand
<1> QED
  BY <1>1, Invariance, StepRefines, PTL DEF Spec, ImplementsClientTable, Table!Spec
=============================================================================
