------------------------------ MODULE GateLoop ------------------------------
(***************************************************************************)
(* The gate's main loop and its read threads (gate.cpp), the bit record    *)
(* that keeps a connection from being queued twice (BitRecord.cpp) and the *)
(* connection slots they share (net.cpp).                                  *)
(*                                                                         *)
(* The loop collects the descriptors of the slots, selects, accepts at     *)
(* most one client, and queues the readable slots; a read thread pops a    *)
(* slot, receives, closes the slot when that fails, and clears its bit.    *)
(* GetSockfd takes no lock, so every look at a slot is a step of its own;  *)
(* Recv holds the slot's read lock from RecvStart to RecvEnd, and          *)
(* SetSocketInfo and Close wait for the write lock.  s_conn_bit_record is  *)
(* left out: the code writes it and never reads it.                        *)
(*                                                                         *)
(* The login server's main loop and read threads (login.cpp) have the same *)
(* code, and this is their model as well.                                  *)
(***************************************************************************)
EXTENDS Integers, Sequences, FiniteSets

CONSTANTS MAX_CLIENT_CONNECTIONS,  \* slots of s_connections
          BITS_PER_BYTE,           \* slots that share a byte of the bit record (8)
          MaxSession,              \* the largest session (0xFFFFFFFF)
          MaxFd,                   \* descriptors the process may have open
          ReadThreads,
          MaxClients,              \* bound: clients that ever connect
          MaxQueue                 \* bound: entries of s_read_msg_queue

ASSUME ConstantsAssumption ==
    /\ MAX_CLIENT_CONNECTIONS \in Nat \ {0}
    /\ BITS_PER_BYTE \in Nat \ {0}
    /\ MaxSession \in Nat \ {0}
    /\ MaxFd \in Nat \ {0}
    /\ MaxClients \in Nat
    /\ MaxQueue \in Nat

Slots == 0 .. MAX_CLIENT_CONNECTIONS - 1
Listen == 0                \* s_listen_fd, opened before any client's
Fds == 1 .. MaxFd
NoFd == -1

VARIABLES
    sockfd, session,       \* the connection slots
    lastSession,           \* the loop's session counter
    stalled,               \* by slot, the session in which its recv_message was left with
                           \* nothing to read, or 0
    s_read_bit_record,     \* the slots whose bit is set
    s_read_msg_queue,
    \* The main loop: what it does next and its locals.
    mpc, mi, maxfd, readset, badset, selectn, clientfd, mfd, mbyte,
    \* The read threads.
    rpc, rconn, rbyte,
    rclient,               \* the client Recv worked on, by descriptor and session (history)
    \* The kernel: open descriptors, those with input, those hung up, and the
    \* clients waiting to be accepted.
    open, input, hungup, backlog, clients,
    torn                   \* an update of the bit record was overwritten (history)

slotVars == <<sockfd, session, lastSession, stalled>>
queueVars == <<s_read_bit_record, s_read_msg_queue, torn>>
loopVars == <<mpc, mi, maxfd, readset, badset, selectn, clientfd, mfd, mbyte>>
readVars == <<rpc, rconn, rbyte, rclient>>
kernelVars == <<open, input, hungup, backlog, clients>>
vars == <<slotVars, queueVars, loopVars, readVars, kernelVars>>

\* Who sits in slot i.
Client(i) == <<sockfd[i], session[i]>>
NoClient == <<NoFd, 0>>

\* recv_message of slot i is of the client that sits there and has nothing to read.
Stalled(i) == session[i] # 0 /\ stalled[i] = session[i]

Init ==
    /\ sockfd = [i \in Slots |-> NoFd]
    /\ session = [i \in Slots |-> 0]
    /\ lastSession = 0
    /\ stalled = [i \in Slots |-> 0]
    /\ s_read_bit_record = {}
    /\ s_read_msg_queue = <<>>
    /\ mpc = "build" /\ mi = 0 /\ maxfd = Listen /\ readset = {Listen}
    /\ badset = FALSE /\ selectn = 0 /\ clientfd = NoFd /\ mfd = NoFd /\ mbyte = {}
    /\ rpc = [r \in ReadThreads |-> "pop"]
    /\ rconn = [r \in ReadThreads |-> 0]
    /\ rbyte = [r \in ReadThreads |-> {}]
    /\ rclient = [r \in ReadThreads |-> NoClient]
    /\ open = {} /\ input = {} /\ hungup = {}
    /\ backlog = 0 /\ clients = 0
    /\ torn = FALSE

-----------------------------------------------------------------------------
(* The clients.                                                            *)

Connect ==
    /\ clients < MaxClients
    /\ clients' = clients + 1
    /\ backlog' = backlog + 1
    /\ UNCHANGED <<slotVars, queueVars, loopVars, readVars, open, input, hungup>>

Send(f) ==
    /\ f \in open \ hungup
    /\ input' = input \cup {f}
    /\ UNCHANGED <<slotVars, queueVars, loopVars, readVars, open, hungup, backlog, clients>>

HangUp(f) ==
    /\ f \in open \ hungup
    /\ hungup' = hungup \cup {f}
    /\ UNCHANGED <<slotVars, queueVars, loopVars, readVars, open, input, backlog, clients>>

\* close(2)
CloseFd(f) ==
    /\ open' = open \ {f}
    /\ input' = input \ {f}
    /\ hungup' = hungup \ {f}

-----------------------------------------------------------------------------
(* The main loop.                                                          *)

\* The top of the loop.  The locals are dead there and take their initial values.
Restart ==
    /\ mpc' = "build" /\ mi' = 0 /\ maxfd' = Listen /\ readset' = {Listen}
    /\ badset' = FALSE /\ selectn' = 0 /\ clientfd' = NoFd /\ mfd' = NoFd /\ mbyte' = {}

\* A faulty variant of Watchable: the loop over the slots starts at 1.
WatchableFromOne(f) == f > maxfd /\ mi > 0

\* if (s_connections[i].GetSockfd() > maxfd): a descriptor is only looked at
\* when it is above every one found in the slots before.
Watchable(f) == f > maxfd

BuildLook ==
    /\ mpc = "build"
    /\ mi < MAX_CLIENT_CONNECTIONS
    /\ IF Watchable(sockfd[mi])
         THEN mpc' = "add" /\ mfd' = sockfd[mi] /\ UNCHANGED mi
         ELSE mi' = mi + 1 /\ UNCHANGED <<mpc, mfd>>
    /\ UNCHANGED <<slotVars, queueVars, readVars, kernelVars, maxfd, readset,
                   badset, selectn, clientfd, mbyte>>

\* maxfd = GetSockfd(); FD_SET(GetSockfd()).  A read thread may have closed the
\* slot before either call.  FD_SET(-1) is undefined: it sets no bit, one of a
\* descriptor that is not open, or (1UL << -1 being bit 63) one of any other.
BuildAdd ==
    /\ mpc = "add"
    /\ \/ /\ sockfd[mi] # NoFd
          /\ maxfd' = mfd
          /\ readset' = readset \cup {mfd}
          /\ UNCHANGED badset
       \/ /\ sockfd[mi] = NoFd
          /\ maxfd' \in {mfd, NoFd}
          /\ badset' \in {badset, TRUE}
          /\ readset' \in {readset} \cup {readset \cup {f} : f \in open}
    /\ mpc' = "build"
    /\ mi' = mi + 1
    /\ mfd' = NoFd
    /\ UNCHANGED <<slotVars, queueVars, readVars, kernelVars, selectn, clientfd, mbyte>>

Watched == {f \in readset : f <= maxfd}
Ready == {f \in Watched : \/ f = Listen /\ backlog > 0
                          \/ f \in input \cup hungup}

\* select: an error when the set names a descriptor that is not open, and
\* otherwise the ready ones, or none after a second.  maxfd is dead after it.
Select ==
    /\ mpc = "build"
    /\ mi = MAX_CLIENT_CONNECTIONS
    /\ IF badset \/ ~(Watched \subseteq open \cup {Listen}) \/ Ready = {}
         THEN Restart
         ELSE /\ readset' = Ready
              /\ selectn' = Cardinality(Ready)
              /\ mpc' = IF Listen \in Ready THEN "accept" ELSE "look"
              /\ mi' = 0
              /\ maxfd' = Listen
              /\ UNCHANGED <<badset, clientfd, mfd, mbyte>>
    /\ UNCHANGED <<slotVars, queueVars, readVars, kernelVars>>

\* Any unused descriptor: the process opens and closes others all the time.
Accept ==
    /\ mpc = "accept"
    /\ \/ \E f \in Fds \ open :
             /\ clientfd' = f
             /\ open' = open \cup {f}
             /\ backlog' = backlog - 1
             /\ mpc' = "probe"
             /\ UNCHANGED selectn
       \/ /\ Fds \subseteq open
          /\ selectn' = selectn - 1
          /\ mpc' = "look"
          /\ UNCHANGED <<clientfd, open, backlog>>
    /\ UNCHANGED <<slotVars, queueVars, readVars, mi, maxfd, readset, badset,
                   mfd, mbyte, input, hungup, clients>>

\* A faulty variant of FreeSlots that takes every slot for a free one.
AllSlots == Slots

\* The slots the probe from a random start may end on.
FreeSlots == {i \in Slots : sockfd[i] = NoFd}

\* A faulty variant of Refuse that forgets the descriptor.
RefuseAndForget(f) == UNCHANGED <<open, input, hungup>>

\* close(clientfd)
Refuse(f) == CloseFd(f)

Probe ==
    /\ mpc = "probe"
    /\ \/ /\ mi' \in FreeSlots
          /\ mpc' = "set"
          /\ UNCHANGED <<open, input, hungup, selectn>>
       \/ /\ FreeSlots = {}
          /\ Refuse(clientfd)
          /\ selectn' = selectn - 1
          /\ mpc' = "look"
          /\ UNCHANGED mi
    /\ UNCHANGED <<slotVars, queueVars, readVars, maxfd, readset, badset,
                   clientfd, mfd, mbyte, backlog, clients>>

Receiving(i) == \E r \in ReadThreads : rpc[r] = "receive" /\ rconn[r] = i

\* A faulty variant of NextSession that hands out 0 after a wrap.
NextSessionZero(s) == IF s >= MaxSession THEN 0 ELSE s + 1

\* ++session; the counter goes back to 0 when it reaches the largest session.
NextSession(s) == IF s >= MaxSession THEN 1 ELSE s + 1

\* SetSocketInfo, under the slot's write lock.
SetSocketInfo ==
    /\ mpc = "set"
    /\ ~Receiving(mi)
    /\ sockfd' = [sockfd EXCEPT ![mi] = clientfd]
    /\ session' = [session EXCEPT ![mi] = NextSession(lastSession)]
    /\ lastSession' = NextSession(lastSession)
    /\ selectn' = selectn - 1
    /\ mpc' = "look"
    /\ mi' = 0
    /\ UNCHANGED <<queueVars, readVars, kernelVars, stalled, maxfd, readset, badset,
                   clientfd, mfd, mbyte>>

\* A faulty variant of NextSlot that runs off the table.
NextSlotPastEnd(n) ==
    /\ selectn' = n /\ mi' = mi + 1 /\ mpc' = "look"
    /\ mfd' = NoFd /\ mbyte' = {}
    /\ UNCHANGED <<maxfd, readset, badset, clientfd>>

\* The slot mi has been dealt with and n ready descriptors remain.
NextSlot(n) ==
    IF n = 0 \/ mi + 1 = MAX_CLIENT_CONNECTIONS
      THEN Restart
      ELSE /\ selectn' = n /\ mi' = mi + 1 /\ mpc' = "look"
           /\ mfd' = NoFd /\ mbyte' = {}
           /\ UNCHANGED <<maxfd, readset, badset, clientfd>>

\* Slots that are closed and the client just accepted are skipped.
Look ==
    /\ mpc = "look"
    /\ IF selectn = 0
         THEN Restart
         ELSE IF sockfd[mi] \in {NoFd, clientfd}
                THEN IF mi + 1 = MAX_CLIENT_CONNECTIONS
                       THEN Restart
                       ELSE /\ mi' = mi + 1
                            /\ UNCHANGED <<mpc, selectn, mfd, mbyte, maxfd, readset,
                                           badset, clientfd>>
                ELSE /\ mpc' = "isset"
                     /\ UNCHANGED <<mi, selectn, mfd, mbyte, maxfd, readset,
                                    badset, clientfd>>
    /\ UNCHANGED <<slotVars, queueVars, readVars, kernelVars>>

\* FD_ISSET(GetSockfd(), &readset): of a slot closed meanwhile it may say anything.
IsReady ==
    /\ mpc = "isset"
    /\ \/ /\ sockfd[mi] \in readset \cup {NoFd}
          /\ mpc' = "test"
          /\ UNCHANGED <<mi, selectn, mfd, mbyte, maxfd, readset, badset, clientfd>>
       \/ /\ sockfd[mi] \notin readset
          /\ NextSlot(selectn)
    /\ UNCHANGED <<slotVars, queueVars, readVars, kernelVars>>

\* The slots whose bits lie in the byte of slot i.
Byte(i) == {j \in Slots : j \div BITS_PER_BYTE = i \div BITS_PER_BYTE}

\* A faulty variant of IsSetBit that never finds the bit.
NeverSetBit(i) == FALSE

IsSetBit(i) == i \in s_read_bit_record

\* bits[i / 8] is read, changed and written back without a lock: b is the byte
\* to write, and before what it held when it was read.
StoreByte(i, before, b) ==
    /\ s_read_bit_record' = (s_read_bit_record \ Byte(i)) \cup b
    /\ torn' = (torn \/ s_read_bit_record \cap Byte(i) # before)

\* IsSetBit, and the read half of SetBit.  The queue outgrows the slots only
\* once the record is torn.
TestBit ==
    /\ mpc = "test"
    /\ Len(s_read_msg_queue) < MaxQueue \/ IsSetBit(mi)
    /\ IF IsSetBit(mi)
         THEN NextSlot(selectn - 1)
         ELSE /\ mbyte' = s_read_bit_record \cap Byte(mi)
              /\ mpc' = "queue"
              /\ UNCHANGED <<mi, maxfd, readset, badset, selectn, clientfd, mfd>>
    /\ UNCHANGED <<slotVars, queueVars, readVars, kernelVars>>

\* The write half of SetBit, and push_message.
Queue ==
    /\ mpc = "queue"
    /\ StoreByte(mi, mbyte, mbyte \cup {mi})
    /\ s_read_msg_queue' = Append(s_read_msg_queue, mi)
    /\ NextSlot(selectn - 1)
    /\ UNCHANGED <<slotVars, readVars, kernelVars>>

Main == \/ BuildLook \/ BuildAdd \/ Select \/ Accept \/ Probe \/ SetSocketInfo
        \/ Look \/ IsReady \/ TestBit \/ Queue

-----------------------------------------------------------------------------
(* The read threads.                                                       *)

Goto(r, label) == rpc' = [rpc EXCEPT ![r] = label]

\* A faulty variant of Pop that clears the bit before Recv and not after.
PopAndClear(r) ==
    /\ rpc[r] = "pop"
    /\ s_read_msg_queue # <<>>
    /\ rconn' = [rconn EXCEPT ![r] = Head(s_read_msg_queue)]
    /\ s_read_msg_queue' = Tail(s_read_msg_queue)
    /\ s_read_bit_record' = s_read_bit_record \ {Head(s_read_msg_queue)}
    /\ Goto(r, "recv")
    /\ UNCHANGED <<slotVars, loopVars, kernelVars, torn, rbyte, rclient>>

Pop(r) ==
    /\ rpc[r] = "pop"
    /\ s_read_msg_queue # <<>>
    /\ rconn' = [rconn EXCEPT ![r] = Head(s_read_msg_queue)]
    /\ s_read_msg_queue' = Tail(s_read_msg_queue)
    /\ Goto(r, "recv")
    /\ UNCHANGED <<slotVars, loopVars, kernelVars, s_read_bit_record, torn,
                   rbyte, rclient>>

\* Recv takes the read lock; on a closed slot it fails at once.  The recv_message
\* of an earlier session of the slot is reset.
RecvStart(r) ==
    /\ rpc[r] = "recv"
    /\ LET i == rconn[r] IN
         /\ rclient' = [rclient EXCEPT ![r] = Client(i)]
         /\ \/ /\ sockfd[i] = NoFd
               /\ Goto(r, "close")
               /\ UNCHANGED stalled
            \/ /\ sockfd[i] # NoFd
               /\ Goto(r, "receive")
               /\ stalled' = [stalled EXCEPT ![i] = IF Stalled(i) THEN @ ELSE 0]
    /\ UNCHANGED <<sockfd, session, lastSession, queueVars, loopVars, kernelVars, rconn, rbyte>>

\* Recv reads some of what there is: it stops after one message, and leaves
\* recv_message stalled after an empty one, a negative length or a dropped one
\* that was overshot.  From then on it returns true and reads nothing.  Only the
\* end of the stream or an error is a failure.
RecvEnd(r) ==
    /\ rpc[r] = "receive"
    /\ LET i == rconn[r]
           f == sockfd[i] IN
         \/ /\ Stalled(i) \/ f \notin input \cup hungup
            /\ Goto(r, "clear")
            /\ UNCHANGED <<input, stalled>>
         \/ /\ ~Stalled(i) /\ f \in input
            /\ input' \in {input, input \ {f}}
            /\ stalled' \in {stalled, [stalled EXCEPT ![i] = session[i]]}
            /\ Goto(r, "clear")
         \/ /\ ~Stalled(i) /\ f \in hungup
            /\ input' = input \ {f}
            /\ Goto(r, "close")
            /\ UNCHANGED stalled
    /\ UNCHANGED <<sockfd, session, lastSession, queueVars, loopVars, rconn, rbyte, rclient,
                   open, hungup, backlog, clients>>

\* conn->Close(), under the write lock, of whatever the slot holds by then.
Close(r) ==
    /\ rpc[r] = "close"
    /\ ~Receiving(rconn[r])
    /\ CloseFd(sockfd[rconn[r]])
    /\ sockfd' = [sockfd EXCEPT ![rconn[r]] = NoFd]
    /\ session' = [session EXCEPT ![rconn[r]] = 0]
    /\ Goto(r, "clear")
    /\ UNCHANGED <<queueVars, loopVars, rconn, rbyte, rclient, lastSession, stalled,
                   backlog, clients>>

\* ResetBit of the slot's bit, read half and write half.
ResetLoad(r) ==
    /\ rpc[r] = "clear"
    /\ rbyte' = [rbyte EXCEPT ![r] = s_read_bit_record \cap Byte(rconn[r])]
    /\ Goto(r, "store")
    /\ UNCHANGED <<slotVars, queueVars, loopVars, kernelVars, rconn, rclient>>

ResetStore(r) ==
    /\ rpc[r] = "store"
    /\ StoreByte(rconn[r], rbyte[r], rbyte[r] \ {rconn[r]})
    /\ rpc' = [rpc EXCEPT ![r] = "pop"]
    /\ rconn' = [rconn EXCEPT ![r] = 0]
    /\ rbyte' = [rbyte EXCEPT ![r] = {}]
    /\ rclient' = [rclient EXCEPT ![r] = NoClient]
    /\ UNCHANGED <<slotVars, loopVars, kernelVars, s_read_msg_queue>>

Read(r) == \/ Pop(r) \/ RecvStart(r) \/ RecvEnd(r) \/ Close(r)
           \/ ResetLoad(r) \/ ResetStore(r)

Next ==
    \/ Connect
    \/ \E f \in Fds : Send(f) \/ HangUp(f)
    \/ Main
    \/ \E r \in ReadThreads : Read(r)

Spec == Init /\ [][Next]_vars

\* The threads run; the clients do as they please.
Fairness == WF_vars(Main) /\ \A r \in ReadThreads : WF_vars(Read(r))
FairSpec == Spec /\ Fairness

-----------------------------------------------------------------------------
(* Properties.                                                             *)

LoopTypeOK ==
    /\ mpc \in {"build", "add", "accept", "probe", "set", "look", "isset", "test", "queue"}
    /\ mi \in 0 .. MAX_CLIENT_CONNECTIONS
    /\ mpc \notin {"build", "accept"} => mi \in Slots \/ mpc = "probe"
    /\ maxfd \in {NoFd, Listen} \cup Fds
    /\ readset \subseteq {Listen} \cup Fds
    /\ badset \in BOOLEAN
    /\ selectn \in 0 .. MaxFd + 1
    /\ clientfd \in {NoFd} \cup Fds
    /\ mfd \in {NoFd} \cup Fds
    /\ mbyte \subseteq Slots

\* Every variable has its type: no slot index runs off the table, and the
\* count of ready descriptors never goes below zero.
TypeOK ==
    /\ sockfd \in [Slots -> {NoFd} \cup Fds]
    /\ session \in [Slots -> 0 .. MaxSession]
    /\ lastSession \in 0 .. MaxSession
    /\ stalled \in [Slots -> 0 .. MaxSession]
    /\ s_read_bit_record \subseteq Slots
    /\ s_read_msg_queue \in Seq(Slots)
    /\ LoopTypeOK
    /\ rpc \in [ReadThreads -> {"pop", "recv", "receive", "close", "clear", "store"}]
    /\ rconn \in [ReadThreads -> Slots]
    /\ rbyte \in [ReadThreads -> SUBSET Slots]
    /\ rclient \in [ReadThreads -> ({NoFd} \cup Fds) \X (0 .. MaxSession)]
    /\ open \subseteq Fds /\ input \subseteq open /\ hungup \subseteq open
    /\ backlog \in 0 .. MaxClients /\ clients \in 0 .. MaxClients
    /\ torn \in BOOLEAN

\* The descriptor the loop has accepted and not yet put into a slot.
InHand == IF mpc \in {"probe", "set"} THEN {clientfd} ELSE {}

\* Whatever the order in which slots are closed, filled and found full, every
\* open client descriptor is in one slot or in the loop's hand, and no slot
\* keeps a descriptor that has been closed: none leaks and none is closed twice.
DescriptorsAccounted ==
    /\ open = {sockfd[i] : i \in {j \in Slots : sockfd[j] # NoFd}} \cup InHand
    /\ \A i, j \in Slots : i # j /\ sockfd[i] # NoFd => sockfd[i] # sockfd[j]
    /\ \A i \in Slots : sockfd[i] # NoFd => sockfd[i] \notin InHand

\* A slot has a descriptor exactly when it has a session, also after the session
\* counter has wrapped: a message of a closed slot never matches a live session 0.
SessionIffOpen == \A i \in Slots : sockfd[i] # NoFd <=> session[i] # 0

Busy(r) == rpc[r] # "pop"
Queued(i) == {k \in 1 .. Len(s_read_msg_queue) : s_read_msg_queue[k] = i}
Readers(i) == {r \in ReadThreads : Busy(r) /\ rconn[r] = i}

\* As long as no update of the bit record was overwritten, a slot's bit is set
\* exactly when one queue entry or one read thread has the slot: no two threads
\* fill the same recv_message, and no slot stays marked with nobody to serve it.
OneReaderPerSlot ==
    ~torn => \A i \in Slots :
        /\ i \in s_read_bit_record <=> Queued(i) \cup Readers(i) # {}
        /\ \A j, k \in Queued(i) : j = k
        /\ \A q, r \in Readers(i) : q = r
        /\ Queued(i) = {} \/ Readers(i) = {}

\* As long as no update of the bit record was overwritten, a read thread whose
\* Recv failed on a live connection closes that connection and not a newcomer.
CloseHitsFailedSession ==
    ~torn => \A r \in ReadThreads :
        rpc[r] = "close" /\ rclient[r] # NoClient => Client(rconn[r]) = rclient[r]

Table == INSTANCE ClientTable WITH
    hand <- InHand, seat <- sockfd, Sessions <- 1 .. MaxSession

\* Slots looked at without a lock, closed by read threads at any moment, probed
\* from a random start, found full: whatever the loop and the read threads do is
\* the admitting, seating, turning away or leaving of a client, or none of these.
ImplementsClientTable == Table!Spec

\* Slot i holds the highest descriptor of the slots up to it.
Tops(i) == sockfd[i] # NoFd /\ \A j \in Slots : j < i => sockfd[j] < sockfd[i]

\* A client whose descriptor is above those of all lower slots is attended to:
\* while it has sent something or hung up, Recv is called on it again and again,
\* whoever else comes and goes and however often a read thread finds its bit set,
\* unless an update of the bit record gets lost.  What Recv then reads is another
\* matter: of a stalled session nothing, and a hang-up is not seen either.
TopClientServed ==
    \A i \in Slots :
        <>[](Tops(i) /\ ~torn) => []<>(sockfd[i] \notin input \cup hungup \/ Receiving(i))

\* Every client that was connected when the loop collected the descriptors, and
\* still is, is among those select waits for.
EveryClientWatched ==
    mpc = "build" /\ mi = MAX_CLIENT_CONNECTIONS =>
        \A i \in Slots : sockfd[i] # NoFd => sockfd[i] \in Watched
=============================================================================
