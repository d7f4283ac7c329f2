--------------------------- MODULE GameLogicProofs ---------------------------
(***************************************************************************)
(* Theorems about GameLogic for any number of work threads, read threads,  *)
(* connections and ring slots.                                             *)
(***************************************************************************)
EXTENDS GameLogic, TLAPS

-----------------------------------------------------------------------------
(* The queue is a segment of the ring.  For the induction the content of   *)
(* every slot must be known, the ones already popped included.             *)

RingContents ==
    \A d \in 1 .. MAX_CTX_LENGTH :
        /\ s_ctxs[Behind(d)].seq = IF d <= enqueued THEN enqueued - d + 1 ELSE 0
        /\ s_ctxs[Behind(d)].seq # 0 => s_ctxs[Behind(d)].conn \in Conns

\* What a worker that uses a slot knows of it.
SlotInUse ==
    \A w \in Workers : UsesSlot(w) =>
        /\ popped[w] > 0
        /\ \/ s_ctxs[wctx[w]].seq = popped[w]
           \/ s_ctxs[wctx[w]].seq >= popped[w] + MAX_CTX_LENGTH
        /\ wpc[w] # "conn" => wconn[w] \in Conns

Inv == TypeOK /\ QueueIsRingSegment /\ RingContents /\ SlotInUse

\* Every slot of the ring is Behind(d) for one d of 1 .. MAX_CTX_LENGTH.
LEMMA BehindOnto ==
  ASSUME s_ctx_pos \in Slots, NEW s \in Slots
  PROVE  \E d \in 1 .. MAX_CTX_LENGTH : s = Behind(d)
<1> DEFINE d == IF s < s_ctx_pos THEN s_ctx_pos - s ELSE s_ctx_pos - s + MAX_CTX_LENGTH
<1>1. d \in 1 .. MAX_CTX_LENGTH /\ s = Behind(d)
  BY ConstantsAssumption DEF Slots, Behind
<1> QED
  BY <1>1

LEMMA BehindInSlots ==
  ASSUME s_ctx_pos \in Slots, NEW d \in 1 .. MAX_CTX_LENGTH
  PROVE  Behind(d) \in Slots
  BY ConstantsAssumption DEF Slots, Behind

LEMMA BehindInjective ==
  ASSUME s_ctx_pos \in Slots, NEW d \in 1 .. MAX_CTX_LENGTH,
         NEW e \in 1 .. MAX_CTX_LENGTH, Behind(d) = Behind(e)
  PROVE  d = e
  BY ConstantsAssumption DEF Slots, Behind

\* A push moves every slot one further behind, and the written one to distance 1.
LEMMA BehindNext ==
  ASSUME s_ctx_pos \in Slots, s_ctx_pos' = NextPos(s_ctx_pos)
  PROVE  /\ s_ctx_pos' \in Slots
         /\ Behind(MAX_CTX_LENGTH) = s_ctx_pos
         /\ Behind(1)' = s_ctx_pos
         /\ \A d \in 1 .. MAX_CTX_LENGTH - 1 : Behind(d + 1)' = Behind(d)
  BY ConstantsAssumption DEF Slots, Behind, NextPos

LEMMA TypeInit == Init => TypeOK
<1> SUFFICES ASSUME Init PROVE TypeOK
  OBVIOUS
<1> USE ConstantsAssumption DEF Init
<1>1. NoMessage \in Message /\ NoLuaCtx \in LuaCtx
  BY DEF Message, NoMessage, LuaCtx, NoLuaCtx
<1>0. 0 \in Slots
  BY DEF Slots
<1>2. RingTypeOK
  <2>1. s_ctxs \in [Slots -> Message]
    BY <1>1
  <2>2. s_work_msg_queue \in Seq(Slots)
    OBVIOUS
  <2> QED
    BY <1>0, <2>1, <2>2 DEF RingTypeOK
<1>3. ConnTypeOK /\ ReloadTypeOK /\ FlagTypeOK /\ FreeTypeOK /\ ControlTypeOK
  BY DEF ConnTypeOK, ReloadTypeOK, FlagTypeOK, FreeTypeOK, ControlTypeOK
<1>4. DispatchTypeOK
  BY <1>1 DEF DispatchTypeOK
<1>5. LocalTypeOK
  BY <1>0, <1>1 DEF LocalTypeOK
<1> QED
  BY <1>2, <1>3, <1>4, <1>5 DEF TypeOK

\* A step that leaves a group of variables alone leaves its type alone.
LEMMA TypeUnchanged ==
  /\ RingTypeOK /\ UNCHANGED ringVars => RingTypeOK'
  /\ ConnTypeOK /\ UNCHANGED connVars => ConnTypeOK'
  /\ DispatchTypeOK /\ UNCHANGED dispatchVars => DispatchTypeOK'
  /\ ReloadTypeOK /\ UNCHANGED reloadVars => ReloadTypeOK'
  /\ FlagTypeOK /\ UNCHANGED flagVars => FlagTypeOK'
  /\ FreeTypeOK /\ UNCHANGED freeVars => FreeTypeOK'
  /\ LocalTypeOK /\ UNCHANGED localVars => LocalTypeOK'
  /\ ControlTypeOK /\ UNCHANGED <<wpc, s_work_thread_busy>> => ControlTypeOK'
<1>1. RingTypeOK /\ UNCHANGED ringVars => RingTypeOK'
  BY DEF RingTypeOK, ringVars
<1>2. ConnTypeOK /\ UNCHANGED connVars => ConnTypeOK'
  BY DEF ConnTypeOK, connVars
<1>3. DispatchTypeOK /\ UNCHANGED dispatchVars => DispatchTypeOK'
  BY DEF DispatchTypeOK, dispatchVars
<1>4. ReloadTypeOK /\ UNCHANGED reloadVars => ReloadTypeOK'
  BY DEF ReloadTypeOK, reloadVars
<1>5. FlagTypeOK /\ UNCHANGED flagVars => FlagTypeOK'
  BY DEF FlagTypeOK, flagVars
<1>6. FreeTypeOK /\ UNCHANGED freeVars => FreeTypeOK'
  BY DEF FreeTypeOK, freeVars
<1>7. LocalTypeOK /\ UNCHANGED localVars => LocalTypeOK'
  BY DEF LocalTypeOK, localVars
<1>8. ControlTypeOK /\ UNCHANGED <<wpc, s_work_thread_busy>> => ControlTypeOK'
  BY DEF ControlTypeOK
<1> QED
  BY <1>1, <1>2, <1>3, <1>4, <1>5, <1>6, <1>7, <1>8

LEMMA TypeConn ==
  ASSUME TypeOK, NEW r \in ReadThreads, NEW c \in Conns,
         CloseConn(r, c) \/ Receive(r, c)
  PROVE  TypeOK'
<1> USE TypeUnchanged DEF TypeOK
<1>2. CASE CloseConn(r, c)
  BY <1>2 DEF CloseConn, ConnTypeOK
<1>3. CASE Receive(r, c)
  <2>1. [seq |-> 0, conn |-> c, session |-> session[c]] \in Message
    BY DEF Message, ConnTypeOK
  <2>2. DispatchTypeOK'
    BY <1>3, <2>1 DEF Receive, DispatchTypeOK
  <2> QED
    BY <1>3, <2>2 DEF Receive
<1> QED
  BY <1>2, <1>3

LEMMA TypePush ==
  ASSUME RingTypeOK, NEW m \in Message, m.seq = enqueued + 1, Push(m)
  PROVE  RingTypeOK'
<1>1. s_ctx_pos' \in Slots
  BY BehindNext DEF RingTypeOK, Push
<1>2. s_work_msg_queue' \in Seq(Slots)
  BY DEF RingTypeOK, Push
<1> QED
  BY <1>1, <1>2 DEF RingTypeOK, Push

LEMMA TypeDispatch ==
  ASSUME TypeOK, NEW r \in ReadThreads, Dispatch(r)
  PROVE  TypeOK'
<1> USE ConstantsAssumption, TypeUnchanged DEF TypeOK
<1>1. NoMessage \in Message
  BY DEF Message, NoMessage
<1>2. CASE Enqueue(r)
  <2>1. DispatchTypeOK'
    BY <1>2 DEF Enqueue, DispatchTypeOK
  <2>2. RingTypeOK'
    <3> DEFINE m == [dmsg[r] EXCEPT !.seq = enqueued + 1]
    <3>1. m \in Message /\ m.seq = enqueued + 1
      <4>1. dmsg[r] \in Message /\ enqueued + 1 \in Nat
        BY DEF DispatchTypeOK, RingTypeOK
      <4> QED
        BY <4>1 DEF Message
    <3>2. Push(m) \/ UNCHANGED ringVars
      BY <1>2 DEF Enqueue
    <3> HIDE DEF m
    <3> QED
      BY <3>1, <3>2, TypePush
  <2> QED
    BY <1>2, <2>1, <2>2 DEF Enqueue
<1>3. CASE Scan(r)
  <2>1. DispatchTypeOK'
    BY <1>1, <1>3 DEF Scan, Returned, DispatchTypeOK, Workers
  <2> QED
    BY <1>3, <2>1 DEF Scan
<1>4. CASE Signal(r)
  <2>1. DispatchTypeOK'
    BY <1>1, <1>4 DEF Signal, Returned, DispatchTypeOK
  <2>2. ControlTypeOK'
    BY <1>4 DEF Signal, WakeUp, DispatchTypeOK, ControlTypeOK
  <2> QED
    BY <1>4, <2>1, <2>2 DEF Signal
<1> QED
  BY <1>2, <1>3, <1>4 DEF Dispatch

LEMMA TypeReload ==
  ASSUME TypeOK, ReloadCommand \/ Reload
  PROVE  TypeOK'
<1> USE ConstantsAssumption, TypeUnchanged DEF TypeOK
<1>1. CASE ReloadCommand
  <2>1. ReloadTypeOK'
    BY <1>1 DEF ReloadCommand, ReloadTypeOK, Workers
  <2> QED
    BY <1>1, <2>1 DEF ReloadCommand
<1>2. CASE ReloadFlag
  <2>1. ReloadTypeOK' /\ FlagTypeOK'
    BY <1>2 DEF ReloadFlag, ReloadTypeOK, FlagTypeOK
  <2> QED
    BY <1>2, <2>1 DEF ReloadFlag
<1>3. CASE ReloadSignal
  <2>1. ReloadTypeOK'
    BY <1>3 DEF ReloadSignal, ReloadTypeOK, Workers
  <2>2. ControlTypeOK'
    BY <1>3 DEF ReloadSignal, WakeUp, ControlTypeOK
  <2> QED
    BY <1>3, <2>1, <2>2 DEF ReloadSignal
<1> QED
  BY <1>1, <1>2, <1>3 DEF Reload

LEMMA TypeNextIteration ==
  ASSUME LocalTypeOK, ControlTypeOK, NEW w \in Workers, NextIteration(w),
         UNCHANGED s_work_thread_busy
  PROVE  LocalTypeOK' /\ ControlTypeOK'
<1>1. NoMessage \in Message /\ NoLuaCtx \in LuaCtx /\ 0 \in Slots
  BY ConstantsAssumption DEF Message, NoMessage, LuaCtx, NoLuaCtx, Slots
<1>2. LocalTypeOK'
  BY <1>1 DEF NextIteration, LocalTypeOK
<1>3. ControlTypeOK'
  BY DEF NextIteration, Goto, ControlTypeOK
<1> QED
  BY <1>2, <1>3

LEMMA TypeFree ==
  ASSUME FreeTypeOK, LocalTypeOK, NEW w \in Workers, Free(wmsg[w])
  PROVE  FreeTypeOK'
<1>1. wmsg[w].seq \in Nat
  BY DEF LocalTypeOK, Message
<1> QED
  BY <1>1 DEF Free, FreeTypeOK

LEMMA TypeWork ==
  ASSUME Inv, NEW w \in Workers, Work(w) \/ SpuriousWakeUp(w)
  PROVE  TypeOK'
<1> USE TypeUnchanged, TypeNextIteration DEF TypeOK, Inv
<1>1. CASE Top(w)
  <2>1. FlagTypeOK' /\ ControlTypeOK'
    BY <1>1 DEF Top, Goto, FlagTypeOK, ControlTypeOK
  <2> QED
    BY <1>1, <2>1 DEF Top
<1>2. CASE Load(w)
  <2>1. FlagTypeOK' /\ ControlTypeOK'
    BY <1>2 DEF Load, Goto, FlagTypeOK, ControlTypeOK, ReloadTypeOK
  <2> QED
    BY <1>2, <2>1 DEF Load
<1>3. CASE Pop(w)
  <2>1. ControlTypeOK'
    BY <1>3 DEF Pop, Goto, ControlTypeOK
  <2>2. CASE s_work_msg_queue = <<>>
    <3>1. RingTypeOK' /\ LocalTypeOK'
      BY <1>3, <2>2 DEF Pop, RingTypeOK, LocalTypeOK
    <3> QED
      BY <1>3, <2>1, <3>1 DEF Pop
  <2>3. CASE s_work_msg_queue # <<>>
    <3>1. Head(s_work_msg_queue) \in Slots /\ Tail(s_work_msg_queue) \in Seq(Slots)
      BY <2>3 DEF RingTypeOK
    <3>2. s_ctxs[Head(s_work_msg_queue)].seq \in Nat
      BY <3>1 DEF RingTypeOK, Message
    <3>3. RingTypeOK'
      BY <1>3, <2>3, <3>1 DEF Pop, RingTypeOK
    <3>4. wctx' \in [Workers -> Slots] /\ popped' \in [Workers -> Nat]
      BY <1>3, <2>3, <3>1, <3>2 DEF Pop, LocalTypeOK
    <3>5. stale' \in [Workers -> BOOLEAN]
      <4> DEFINE b == s_ctxs[Head(s_work_msg_queue)].session \in closed
      <4>1. b \in BOOLEAN
        OBVIOUS
      <4>2. stale' = [stale EXCEPT ![w] = b]
        BY <1>3, <2>3 DEF Pop
      <4> HIDE DEF b
      <4> QED
        BY <4>1, <4>2 DEF LocalTypeOK
    <3>6. LocalTypeOK'
      BY <1>3, <3>4, <3>5 DEF Pop, LocalTypeOK
    <3> QED
      BY <1>3, <2>1, <3>3, <3>6 DEF Pop
  <2> QED
    BY <2>2, <2>3
<1>4. CASE ReadConn(w)
  <2>1. s_ctxs[wctx[w]].conn \in Conns \cup {NoConn}
    BY DEF RingTypeOK, LocalTypeOK, Message
  <2>2. ControlTypeOK' /\ LocalTypeOK'
    BY <1>4, <2>1 DEF ReadConn, Goto, ControlTypeOK, LocalTypeOK
  <2> QED
    BY <1>4, <2>2 DEF ReadConn
<1>5. CASE ReadMessage(w)
  <2>1. s_ctxs[wctx[w]] \in Message
    BY DEF RingTypeOK, LocalTypeOK
  <2>2. ControlTypeOK' /\ LocalTypeOK'
    BY <1>5, <2>1 DEF ReadMessage, Goto, ControlTypeOK, LocalTypeOK
  <2> QED
    BY <1>5, <2>2 DEF ReadMessage
<1>6. CASE Check(w)
  <2>1. FreeTypeOK'
    BY <1>6, TypeFree DEF Check
  <2>2. LocalTypeOK' /\ ControlTypeOK'
    <3>1. CASE IsStale(w)
      BY <1>6, <3>1 DEF Check
    <3>2. CASE ~IsStale(w)
      BY <1>6, <3>2 DEF Check, Goto, ControlTypeOK
    <3> QED
      BY <3>1, <3>2
  <2> QED
    BY <1>6, <2>1, <2>2 DEF Check
<1>7. CASE Handle(w)
  <2>1. FreeTypeOK'
    BY <1>7, TypeFree DEF Handle
  <2>2. LocalTypeOK' /\ ControlTypeOK'
    <3>1. CASE NextIteration(w)
      BY <1>7, <3>1 DEF Handle
    <3>2. CASE Goto(w, "session") /\ UNCHANGED localVars
      BY <1>7, <3>2 DEF Handle, Goto, ControlTypeOK
    <3> QED
      BY <1>7, <3>1, <3>2 DEF Handle
  <2> QED
    BY <1>7, <2>1, <2>2 DEF Handle
<1>11. CASE ReadSession(w) \/ ReadClient(w)
  <2>1. luactx' \in [Workers -> LuaCtx]
    <3>1. CASE ReadSession(w)
      <4>1. session[wconn[w]] \in Nat
        BY <3>1 DEF ReadSession, SlotInUse, UsesSlot, ConnTypeOK
      <4> QED
        BY <3>1, <4>1 DEF ReadSession, LocalTypeOK, LuaCtx
    <3>2. CASE ReadClient(w)
      <4>1. s_ctxs[wctx[w]].conn \in Conns \cup {NoConn}
        BY DEF RingTypeOK, LocalTypeOK, Message
      <4> QED
        BY <3>2, <4>1 DEF ReadClient, LocalTypeOK, LuaCtx
    <3> QED
      BY <1>11, <3>1, <3>2
  <2>2. LocalTypeOK' /\ ControlTypeOK'
    BY <1>11, <2>1 DEF ReadSession, ReadClient, Goto, LocalTypeOK, ControlTypeOK
  <2> QED
    BY <1>11, <2>2 DEF ReadSession, ReadClient
<1>8. CASE Return(w)
  BY <1>8 DEF Return
<1>9. CASE Sleep(w)
  <2>1. ControlTypeOK'
    BY <1>9 DEF Sleep, Goto, ControlTypeOK
  <2> QED
    BY <1>9, <2>1 DEF Sleep
<1>10. CASE SpuriousWakeUp(w)
  <2>1. ControlTypeOK'
    BY <1>10 DEF SpuriousWakeUp, Goto, ControlTypeOK
  <2> QED
    BY <1>10, <2>1 DEF SpuriousWakeUp
<1> QED
  BY <1>1, <1>2, <1>3, <1>4, <1>5, <1>6, <1>7, <1>8, <1>9, <1>10, <1>11 DEF Work

LEMMA TypeNext == Inv /\ [Next]_vars => TypeOK'
<1> SUFFICES ASSUME Inv, [Next]_vars PROVE TypeOK'
  OBVIOUS
<1>1. CASE UNCHANGED vars
  BY <1>1, TypeUnchanged DEF Inv, TypeOK, vars
<1>2. ASSUME NEW c \in Conns, AcceptConn(c) PROVE TypeOK'
  BY <1>2, TypeUnchanged DEF Inv, TypeOK, AcceptConn, ConnTypeOK
<1>3. ASSUME NEW r \in ReadThreads, NEW c \in Conns, CloseConn(r, c) \/ Receive(r, c)
      PROVE  TypeOK'
  BY <1>3, TypeConn DEF Inv
<1>4. ASSUME NEW r \in ReadThreads, Dispatch(r) PROVE TypeOK'
  BY <1>4, TypeDispatch DEF Inv
<1>5. CASE ReloadCommand \/ Reload
  BY <1>5, TypeReload DEF Inv
<1>6. ASSUME NEW w \in Workers, Work(w) \/ SpuriousWakeUp(w) PROVE TypeOK'
  BY <1>6, TypeWork
<1> QED
  BY <1>1, <1>2, <1>3, <1>4, <1>5, <1>6 DEF Next

-----------------------------------------------------------------------------

LEMMA RingInit == Init => QueueIsRingSegment /\ RingContents /\ SlotInUse
<1> SUFFICES ASSUME Init PROVE QueueIsRingSegment /\ RingContents /\ SlotInUse
  OBVIOUS
<1>1. QueueIsRingSegment
  BY ConstantsAssumption DEF Init, QueueIsRingSegment
<1>2. RingContents
  <2>1. s_ctx_pos \in Slots
    BY ConstantsAssumption DEF Init, Slots
  <2>2. \A d \in 1 .. MAX_CTX_LENGTH : s_ctxs[Behind(d)] = NoMessage
    BY <2>1, BehindInSlots DEF Init
  <2> QED
    BY <2>2, ConstantsAssumption DEF Init, RingContents, NoMessage
<1>3. SlotInUse
  BY DEF Init, SlotInUse, UsesSlot
<1> QED
  BY <1>1, <1>2, <1>3

LEMMA RingPush ==
  ASSUME RingTypeOK, QueueIsRingSegment, RingContents,
         Len(s_work_msg_queue) < MAX_CTX_LENGTH,
         NEW m \in Message, m.seq = enqueued + 1, m.conn \in Conns, Push(m)
  PROVE  QueueIsRingSegment' /\ RingContents'
<1> USE ConstantsAssumption DEF RingTypeOK
<1>0. PICK n \in Nat : n = Len(s_work_msg_queue)
  OBVIOUS
<1>1. n < MAX_CTX_LENGTH /\ enqueued' = enqueued + 1
  BY <1>0 DEF Push
<1>2. /\ Behind(MAX_CTX_LENGTH) = s_ctx_pos
      /\ Behind(1)' = s_ctx_pos
      /\ \A d \in 1 .. MAX_CTX_LENGTH - 1 : Behind(d + 1)' = Behind(d)
  BY BehindNext DEF Push
<1>3. \A d \in 1 .. MAX_CTX_LENGTH - 1 : Behind(d) # s_ctx_pos /\ Behind(d) \in Slots
  BY <1>2, BehindInjective, BehindInSlots
<1>4. s_ctxs'[s_ctx_pos] = m
  BY DEF Push
<1>5. \A s \in Slots : s # s_ctx_pos => s_ctxs'[s] = s_ctxs[s]
  BY DEF Push
<1>6. RingContents'
  <2> SUFFICES ASSUME NEW d \in 1 .. MAX_CTX_LENGTH
               PROVE  /\ s_ctxs'[Behind(d)'].seq = IF d <= enqueued' THEN enqueued' - d + 1 ELSE 0
                      /\ s_ctxs'[Behind(d)'].seq # 0 => s_ctxs'[Behind(d)'].conn \in Conns
    BY DEF RingContents
  <2>1. CASE d = 1
    BY <1>1, <1>2, <1>4, <2>1
  <2>2. CASE d # 1
    <3>1. d - 1 \in 1 .. MAX_CTX_LENGTH - 1 /\ (d - 1) + 1 = d
      BY <2>2
    <3>2. Behind(d)' = Behind(d - 1) /\ s_ctxs'[Behind(d)'] = s_ctxs[Behind(d - 1)]
      BY <1>2, <1>3, <1>5, <3>1
    <3> QED
      BY <1>1, <3>1, <3>2 DEF RingContents
  <2> QED
    BY <2>1, <2>2
<1>7. QueueIsRingSegment'
  <2>1. /\ Len(s_work_msg_queue') = n + 1
        /\ \A k \in 1 .. n : s_work_msg_queue'[k] = s_work_msg_queue[k]
        /\ s_work_msg_queue'[n + 1] = s_ctx_pos
    BY <1>0 DEF Push
  <2>2. ASSUME NEW k \in 1 .. n + 1
        PROVE  /\ s_work_msg_queue'[k] = Behind((n + 1) - k + 1)'
               /\ s_ctxs'[s_work_msg_queue'[k]].seq = enqueued' - ((n + 1) - k)
    <3>1. CASE k = n + 1
      <4>1. (n + 1) - k + 1 = 1
        BY <1>1, <3>1
      <4> QED
        BY <1>1, <1>2, <1>4, <2>1, <3>1, <4>1
    <3>2. CASE k # n + 1
      <4>1. k \in 1 .. n /\ n - k + 1 \in 1 .. MAX_CTX_LENGTH - 1
        BY <1>1, <3>2
      <4>2. s_work_msg_queue[k] = Behind(n - k + 1) /\ s_ctxs[s_work_msg_queue[k]].seq = enqueued - (n - k)
        BY <1>0, <4>1 DEF QueueIsRingSegment
      <4>3. Behind((n - k + 1) + 1)' = Behind(n - k + 1) /\ (n - k + 1) + 1 = (n + 1) - k + 1
        BY <1>1, <1>2, <4>1
      <4>4. s_ctxs'[Behind(n - k + 1)] = s_ctxs[Behind(n - k + 1)]
        BY <1>3, <1>5, <4>1
      <4> QED
        BY <1>1, <2>1, <4>1, <4>2, <4>3, <4>4
    <3> QED
      BY <3>1, <3>2
  <2>3. n + 1 <= MAX_CTX_LENGTH /\ n + 1 <= enqueued'
    BY <1>0, <1>1 DEF QueueIsRingSegment
  <2> QED
    BY <2>1, <2>2, <2>3 DEF QueueIsRingSegment
<1> QED
  BY <1>6, <1>7

LEMMA RingPop ==
  ASSUME RingTypeOK, QueueIsRingSegment, RingContents, s_work_msg_queue # <<>>,
         s_work_msg_queue' = Tail(s_work_msg_queue),
         UNCHANGED <<s_ctxs, s_ctx_pos, enqueued>>
  PROVE  /\ QueueIsRingSegment' /\ RingContents'
         /\ Head(s_work_msg_queue) \in Slots
         /\ s_ctxs[Head(s_work_msg_queue)].seq = enqueued - Len(s_work_msg_queue) + 1
         /\ s_ctxs[Head(s_work_msg_queue)].seq > 0
<1> USE ConstantsAssumption DEF RingTypeOK
<1>0. PICK n \in Nat : n = Len(s_work_msg_queue)
  OBVIOUS
<1>1. n > 0 /\ Head(s_work_msg_queue) = s_work_msg_queue[1]
  BY <1>0
<1>2. RingContents'
  BY DEF RingContents, Behind
<1>3. Len(s_work_msg_queue') = n - 1 /\ \A k \in 1 .. n - 1 : s_work_msg_queue'[k] = s_work_msg_queue[k + 1]
  BY <1>0, <1>1
<1>4. QueueIsRingSegment'
  <2>1. ASSUME NEW k \in 1 .. n - 1
        PROVE  /\ s_work_msg_queue'[k] = Behind((n - 1) - k + 1)'
               /\ s_ctxs'[s_work_msg_queue'[k]].seq = enqueued' - ((n - 1) - k)
    <3>1. k + 1 \in 1 .. n /\ n - (k + 1) + 1 = (n - 1) - k + 1 /\ n - (k + 1) = (n - 1) - k
      BY <1>1
    <3>2. s_work_msg_queue[k + 1] = Behind((n - 1) - k + 1) /\ s_ctxs[s_work_msg_queue[k + 1]].seq = enqueued - ((n - 1) - k)
      BY <1>0, <3>1 DEF QueueIsRingSegment
    <3> QED
      BY <1>3, <3>2 DEF Behind
  <2>2. n - 1 <= MAX_CTX_LENGTH /\ n - 1 <= enqueued'
    BY <1>0, <1>1 DEF QueueIsRingSegment
  <2> QED
    BY <1>3, <2>1, <2>2 DEF QueueIsRingSegment
<1>5. 1 \in 1 .. n /\ s_ctxs[s_work_msg_queue[1]].seq = enqueued - (n - 1) /\ n <= enqueued
  BY <1>0, <1>1 DEF QueueIsRingSegment
<1>6. s_work_msg_queue[1] \in Slots
  BY <1>0, <1>1
<1> QED
  BY <1>0, <1>1, <1>2, <1>4, <1>5, <1>6

\* What is in the ring and in the hands of the workers when a step leaves the
\* ring and the workers' hands alone.
LEMMA RingUnchanged ==
  QueueIsRingSegment /\ RingContents /\ UNCHANGED ringVars
      => QueueIsRingSegment' /\ RingContents'
  BY DEF QueueIsRingSegment, RingContents, Behind, ringVars

\* A signal moves a worker from "wait" to "top", and in neither does it use a slot.
LEMMA WakeUpSlots ==
  ASSUME ControlTypeOK, SlotInUse, NEW v \in Workers, WakeUp(v),
         UNCHANGED <<s_ctxs, wctx, wconn, popped>>
  PROVE  SlotInUse'
<1>1. \A w \in Workers : wpc'[w] = wpc[w] \/ wpc'[w] = "top"
  BY DEF WakeUp, ControlTypeOK
<1> QED
  BY <1>1 DEF SlotInUse, UsesSlot

LEMMA NextIterationSlots ==
  ASSUME ControlTypeOK, LocalTypeOK, SlotInUse, NEW v \in Workers, NextIteration(v),
         UNCHANGED s_ctxs
  PROVE  SlotInUse'
<1> SUFFICES ASSUME NEW w \in Workers, UsesSlot(w)'
             PROVE  /\ popped'[w] > 0
                    /\ \/ s_ctxs'[wctx'[w]].seq = popped'[w]
                       \/ s_ctxs'[wctx'[w]].seq >= popped'[w] + MAX_CTX_LENGTH
                    /\ wpc'[w] # "conn" => wconn'[w] \in Conns
  BY DEF SlotInUse
<1>1. w # v
  BY DEF NextIteration, Goto, UsesSlot, ControlTypeOK
<1>2. /\ wpc'[w] = wpc[w] /\ wctx'[w] = wctx[w] /\ wconn'[w] = wconn[w]
      /\ popped'[w] = popped[w]
  BY <1>1 DEF NextIteration, Goto, ControlTypeOK, LocalTypeOK
<1> QED
  BY <1>2 DEF SlotInUse, UsesSlot

\* The worker v moves on without using a slot it did not use before.
LEMMA GotoSlots ==
  ASSUME ControlTypeOK, SlotInUse, NEW v \in Workers, NEW label, Goto(v, label),
         label \in {"top", "load", "pop", "sleep", "wait"} \/ (wpc[v] = "message" /\ label = "check")
            \/ (wpc[v] = "check" /\ label = "handle") \/ (wpc[v] = "handle" /\ label = "session")
            \/ (wpc[v] = "session" /\ label = "client") \/ label = "run",
         UNCHANGED <<s_ctxs, wctx, wconn, popped>>
  PROVE  SlotInUse'
  BY DEF Goto, SlotInUse, UsesSlot, ControlTypeOK

LEMMA SlotsPush ==
  ASSUME Inv, NEW m \in Message, m.seq = enqueued + 1, Push(m),
         UNCHANGED <<wpc, wctx, wconn, popped>>
  PROVE  SlotInUse'
<1> USE ConstantsAssumption
<1> SUFFICES ASSUME NEW w \in Workers, UsesSlot(w)
             PROVE  \/ s_ctxs'[wctx[w]].seq = popped[w]
                    \/ s_ctxs'[wctx[w]].seq >= popped[w] + MAX_CTX_LENGTH
  BY DEF Inv, SlotInUse, UsesSlot
<1>1. /\ popped[w] \in Nat /\ popped[w] > 0 /\ wctx[w] \in Slots
      /\ s_ctx_pos \in Slots /\ enqueued \in Nat
  BY DEF Inv, TypeOK, RingTypeOK, LocalTypeOK, SlotInUse
<1>2. CASE wctx[w] # s_ctx_pos
  <2>1. s_ctxs'[wctx[w]] = s_ctxs[wctx[w]]
    BY <1>1, <1>2 DEF Push, Inv, TypeOK, RingTypeOK
  <2> QED
    BY <2>1 DEF Inv, SlotInUse
<1>3. CASE wctx[w] = s_ctx_pos
  <2>1. s_ctxs'[wctx[w]].seq = enqueued + 1
    BY <1>1, <1>3 DEF Push, Inv, TypeOK, RingTypeOK
  <2>2. Behind(MAX_CTX_LENGTH) = s_ctx_pos
    BY <1>1 DEF Behind, Slots
  <2>3. s_ctxs[wctx[w]].seq = IF MAX_CTX_LENGTH <= enqueued
                              THEN enqueued - MAX_CTX_LENGTH + 1 ELSE 0
    BY <1>3, <2>2 DEF Inv, RingContents
  <2>4. s_ctxs[wctx[w]].seq = popped[w] \/ s_ctxs[wctx[w]].seq >= popped[w] + MAX_CTX_LENGTH
    BY DEF Inv, SlotInUse
  <2> QED
    BY <1>1, <2>1, <2>3, <2>4
<1> QED
  BY <1>2, <1>3

LEMMA RingDispatch ==
  ASSUME Inv, NEW r \in ReadThreads, Dispatch(r)
  PROVE  QueueIsRingSegment' /\ RingContents' /\ SlotInUse'
<1> USE RingUnchanged DEF Inv, TypeOK
<1>1. CASE Enqueue(r)
  <2>1. UNCHANGED <<wpc, wctx, wconn, popped>>
    BY <1>1 DEF Enqueue, localVars
  <2>2. CASE HasRoom
    <3> DEFINE m == [dmsg[r] EXCEPT !.seq = enqueued + 1]
    <3>1. m \in Message /\ m.seq = enqueued + 1 /\ m.conn \in Conns
      <4>1. dmsg[r] \in Message /\ dmsg[r].conn \in Conns /\ enqueued + 1 \in Nat
        BY <1>1 DEF Enqueue, DispatchTypeOK, RingTypeOK
      <4> QED
        BY <4>1 DEF Message
    <3>2. Push(m)
      BY <1>1, <2>2 DEF Enqueue
    <3> HIDE DEF m
    <3>3. QueueIsRingSegment' /\ RingContents'
      BY <2>2, <3>1, <3>2, RingPush DEF HasRoom
    <3>4. SlotInUse'
      BY <2>1, <3>1, <3>2, SlotsPush
    <3> QED
      BY <3>3, <3>4
  <2>3. CASE ~HasRoom
    <3>1. UNCHANGED ringVars
      BY <1>1, <2>3 DEF Enqueue
    <3>2. SlotInUse'
      BY <2>1, <3>1 DEF SlotInUse, UsesSlot, ringVars
    <3> QED
      BY <3>1, <3>2
  <2> QED
    BY <2>2, <2>3
<1>2. CASE Scan(r)
  BY <1>2 DEF Scan, SlotInUse, UsesSlot, ringVars, localVars
<1>3. CASE Signal(r)
  <2>1. SlotInUse'
    BY <1>3, WakeUpSlots DEF Signal, DispatchTypeOK, ringVars, localVars
  <2> QED
    BY <1>3, <2>1 DEF Signal
<1> QED
  BY <1>1, <1>2, <1>3 DEF Dispatch

LEMMA RingWork ==
  ASSUME Inv, NEW w \in Workers, Work(w) \/ SpuriousWakeUp(w)
  PROVE  QueueIsRingSegment' /\ RingContents' /\ SlotInUse'
<1> USE RingUnchanged DEF Inv, TypeOK
<1>1. CASE Top(w)
  BY <1>1, GotoSlots DEF Top, ringVars, localVars
<1>2. CASE Load(w)
  BY <1>2, GotoSlots DEF Load, ringVars, localVars
<1>3. CASE Pop(w)
  <2>1. CASE s_work_msg_queue = <<>>
    <3>1. UNCHANGED ringVars
      BY <1>3, <2>1 DEF Pop, ringVars
    <3>2. SlotInUse'
      BY <1>3, <2>1, GotoSlots DEF Pop
    <3> QED
      BY <3>1, <3>2
  <2>2. CASE s_work_msg_queue # <<>>
    <3> DEFINE slot == Head(s_work_msg_queue)
    <3>1. /\ QueueIsRingSegment' /\ RingContents'
          /\ slot \in Slots /\ s_ctxs[slot].seq > 0
      BY <1>3, <2>2, RingPop DEF Pop
    <3>2. /\ wpc' = [wpc EXCEPT ![w] = "conn"]
          /\ wctx' = [wctx EXCEPT ![w] = slot]
          /\ popped' = [popped EXCEPT ![w] = s_ctxs[slot].seq]
          /\ s_ctxs' = s_ctxs /\ wconn' = wconn
      BY <1>3, <2>2 DEF Pop, Goto
    <3> HIDE DEF slot
    <3>3. SlotInUse'
      BY <3>1, <3>2 DEF SlotInUse, UsesSlot, ControlTypeOK, LocalTypeOK
    <3> QED
      BY <3>1, <3>3
  <2> QED
    BY <2>1, <2>2
<1>4. CASE ReadConn(w)
  <2>1. popped[w] \in Nat /\ popped[w] > 0 /\ wctx[w] \in Slots /\ s_ctx_pos \in Slots
    BY <1>4 DEF ReadConn, SlotInUse, UsesSlot, LocalTypeOK, RingTypeOK
  <2>2. s_ctxs[wctx[w]].seq # 0
    BY <1>4, <2>1, ConstantsAssumption DEF ReadConn, SlotInUse, UsesSlot
  <2>3. s_ctxs[wctx[w]].conn \in Conns
    BY <2>1, <2>2, BehindOnto DEF RingContents
  <2>4. SlotInUse'
    BY <1>4, <2>3 DEF ReadConn, Goto, ringVars, SlotInUse, UsesSlot, ControlTypeOK, LocalTypeOK
  <2> QED
    BY <1>4, <2>4 DEF ReadConn
<1>5. CASE ReadMessage(w)
  BY <1>5, GotoSlots DEF ReadMessage, ringVars
<1>6. CASE Check(w)
  <2>1. UNCHANGED s_ctxs
    BY <1>6 DEF Check, ringVars
  <2>2. SlotInUse'
    <3>1. CASE IsStale(w)
      BY <1>6, <2>1, <3>1, NextIterationSlots DEF Check
    <3>2. CASE ~IsStale(w)
      BY <1>6, <2>1, <3>2, GotoSlots DEF Check, localVars
    <3> QED
      BY <3>1, <3>2
  <2> QED
    BY <1>6, <2>2 DEF Check
<1>7. CASE Handle(w)
  <2>1. UNCHANGED s_ctxs
    BY <1>7 DEF Handle, ringVars
  <2>2. SlotInUse'
    <3>1. CASE NextIteration(w)
      BY <2>1, <3>1, NextIterationSlots
    <3>2. CASE Goto(w, "session") /\ UNCHANGED <<wctx, wconn, popped>>
      BY <1>7, <2>1, <3>2, GotoSlots DEF Handle
    <3> QED
      BY <1>7, <3>1, <3>2 DEF Handle, localVars
  <2> QED
    BY <1>7, <2>2 DEF Handle
<1>11. CASE ReadSession(w) \/ ReadClient(w)
  BY <1>11, GotoSlots DEF ReadSession, ReadClient, ringVars
<1>8. CASE Return(w)
  BY <1>8, NextIterationSlots DEF Return, ringVars
<1>9. CASE Sleep(w)
  BY <1>9, GotoSlots DEF Sleep, ringVars, localVars
<1>10. CASE SpuriousWakeUp(w)
  BY <1>10, GotoSlots DEF SpuriousWakeUp, ringVars, localVars
<1> QED
  BY <1>1, <1>2, <1>3, <1>4, <1>5, <1>6, <1>7, <1>8, <1>9, <1>10, <1>11 DEF Work

LEMMA RingNext ==
  Inv /\ [Next]_vars => QueueIsRingSegment' /\ RingContents' /\ SlotInUse'
<1> SUFFICES ASSUME Inv, [Next]_vars
             PROVE  QueueIsRingSegment' /\ RingContents' /\ SlotInUse'
  OBVIOUS
<1>1. ASSUME UNCHANGED <<ringVars, localVars, wpc>>
      PROVE  QueueIsRingSegment' /\ RingContents' /\ SlotInUse'
  BY <1>1, RingUnchanged DEF Inv, SlotInUse, UsesSlot, ringVars, localVars
<1>2. CASE UNCHANGED vars
  BY <1>1, <1>2 DEF vars
<1>3. ASSUME NEW c \in Conns, AcceptConn(c) PROVE UNCHANGED <<ringVars, localVars, wpc>>
  BY <1>3 DEF AcceptConn
<1>4. ASSUME NEW r \in ReadThreads, NEW c \in Conns, CloseConn(r, c) \/ Receive(r, c)
      PROVE  UNCHANGED <<ringVars, localVars, wpc>>
  BY <1>4 DEF CloseConn, Receive
<1>5. ASSUME NEW r \in ReadThreads, Dispatch(r)
      PROVE  QueueIsRingSegment' /\ RingContents' /\ SlotInUse'
  BY <1>5, RingDispatch
<1>6. CASE ReloadCommand \/ ReloadFlag
  BY <1>1, <1>6 DEF ReloadCommand, ReloadFlag
<1>7. CASE ReloadSignal
  <2>1. ri \in Workers
    BY <1>7 DEF ReloadSignal, Inv, TypeOK, ReloadTypeOK
  <2>2. SlotInUse'
    BY <1>7, <2>1, WakeUpSlots DEF ReloadSignal, Inv, TypeOK, ringVars, localVars
  <2> QED
    BY <1>7, <2>2, RingUnchanged DEF ReloadSignal, Inv
<1>8. ASSUME NEW w \in Workers, Work(w) \/ SpuriousWakeUp(w)
      PROVE  QueueIsRingSegment' /\ RingContents' /\ SlotInUse'
  BY <1>8, RingWork
<1> QED
  BY <1>1, <1>2, <1>3, <1>4, <1>5, <1>6, <1>7, <1>8 DEF Next, Reload

-----------------------------------------------------------------------------
(* The theorems.                                                           *)

THEOREM Invariance == Spec => []Inv
<1>1. Init => Inv
  BY TypeInit, RingInit DEF Inv
<1>2. Inv /\ [Next]_vars => Inv'
  BY TypeNext, RingNext DEF Inv
<1> QED
  BY <1>1, <1>2, PTL DEF Spec

\* Every variable keeps its type, for every size of the ring and number of threads.
THEOREM TypeCorrect == Spec => []TypeOK
<1>1. Inv => TypeOK
  BY DEF Inv
<1> QED
  BY <1>1, Invariance, PTL

\* fl_dispatch_message never writes a slot whose message is still queued.
THEOREM QueueSegment == Spec => []QueueIsRingSegment
<1>1. Inv => QueueIsRingSegment
  BY DEF Inv
<1> QED
  BY <1>1, Invariance, PTL

\* A work thread's slot changes under it only after MAX_CTX_LENGTH more dispatches.
THEOREM LapBound == Spec => []ReusedOnlyAfterALap
<1>1. Inv => ReusedOnlyAfterALap
  BY DEF Inv, SlotInUse, ReusedOnlyAfterALap
<1> QED
  BY <1>1, Invariance, PTL

-----------------------------------------------------------------------------
(* Sleeping workers and reload requests.                                   *)

LEMMA SleepersNext ==
  ASSUME TypeOK, SleepersLookIdle, [Next]_vars
  PROVE  SleepersLookIdle'
<1> USE DEF TypeOK, ControlTypeOK, SleepersLookIdle
<1>1. ASSUME NEW v \in Workers, WakeUp(v) PROVE SleepersLookIdle'
  BY <1>1 DEF WakeUp
<1>2. ASSUME NEW v \in Workers, NextIteration(v), UNCHANGED s_work_thread_busy
      PROVE  SleepersLookIdle'
  BY <1>2 DEF NextIteration, Goto
<1>3. ASSUME UNCHANGED <<wpc, s_work_thread_busy>> PROVE SleepersLookIdle'
  BY <1>3
<1>4. ASSUME NEW r \in ReadThreads, Dispatch(r) PROVE SleepersLookIdle'
  BY <1>1, <1>3, <1>4 DEF Dispatch, Enqueue, Scan, Signal, DispatchTypeOK
<1>5. CASE ReloadCommand \/ Reload
  BY <1>1, <1>3, <1>5 DEF ReloadCommand, Reload, ReloadFlag, ReloadSignal, ReloadTypeOK
<1>6. ASSUME NEW w \in Workers, Work(w) \/ SpuriousWakeUp(w) PROVE SleepersLookIdle'
  <2>1. CASE Check(w) \/ Handle(w) \/ Return(w)
    BY <1>2, <2>1 DEF Check, Handle, Return, Goto
  <2>2. CASE Top(w) \/ Load(w) \/ Pop(w) \/ SpuriousWakeUp(w)
    BY <2>2 DEF Top, Load, Pop, SpuriousWakeUp, Goto
  <2>3. CASE ReadConn(w) \/ ReadMessage(w) \/ ReadSession(w) \/ ReadClient(w) \/ Sleep(w)
    BY <2>3 DEF ReadConn, ReadMessage, ReadSession, ReadClient, Sleep, Goto
  <2> QED
    BY <1>6, <2>1, <2>2, <2>3 DEF Work
<1>7. ASSUME NEW c \in Conns, AcceptConn(c) PROVE SleepersLookIdle'
  BY <1>3, <1>7 DEF AcceptConn
<1>8. ASSUME NEW r \in ReadThreads, NEW c \in Conns, CloseConn(r, c) \/ Receive(r, c)
      PROVE  SleepersLookIdle'
  BY <1>3, <1>8 DEF CloseConn, Receive
<1>9. CASE UNCHANGED vars
  BY <1>3, <1>9 DEF vars
<1> QED
  BY <1>4, <1>5, <1>6, <1>7, <1>8, <1>9 DEF Next

\* fl_dispatch_message never passes over a sleeping worker as busy.
THEOREM Sleepers == Spec => []SleepersLookIdle
<1>1. Init => SleepersLookIdle
  BY DEF Init, SleepersLookIdle
<1>2. TypeOK /\ SleepersLookIdle /\ [Next]_vars => SleepersLookIdle'
  BY SleepersNext
<1> QED
  BY <1>1, <1>2, TypeCorrect, PTL DEF Spec

\* The workers' part of a reload: the flag goes down on the way to the load.
LEMMA ReloadWork ==
  ASSUME TypeOK, ReloadNotForgotten, NEW v \in Workers, Work(v) \/ SpuriousWakeUp(v)
  PROVE  ReloadNotForgotten'
<1> USE DEF TypeOK, ControlTypeOK, FlagTypeOK, ReloadNotForgotten, reloadVars, flagVars
<1>1. CASE Top(v)
  BY <1>1 DEF Top, Goto
<1>2. CASE Load(v)
  BY <1>2 DEF Load, Goto
<1>3. ASSUME wpc[v] # "load", UNCHANGED <<flagVars, reloadVars>>,
             \A w \in Workers : w # v => wpc'[w] = wpc[w]
      PROVE  ReloadNotForgotten'
  BY <1>3
<1>4. CASE \/ Pop(v) \/ SpuriousWakeUp(v) \/ ReadConn(v) \/ ReadMessage(v)
            \/ ReadSession(v) \/ ReadClient(v) \/ Sleep(v)
  BY <1>3, <1>4 DEF Pop, SpuriousWakeUp, ReadConn, ReadMessage, ReadSession, ReadClient, Sleep, Goto
<1>5. CASE Check(v) \/ Handle(v) \/ Return(v)
  BY <1>3, <1>5 DEF Check, Handle, Return, Goto, NextIteration
<1> QED
  BY <1>1, <1>2, <1>4, <1>5 DEF Work

LEMMA ReloadNext ==
  ASSUME TypeOK, ReloadNotForgotten, [Next]_vars
  PROVE  ReloadNotForgotten'
<1> USE DEF TypeOK, ReloadNotForgotten
<1>1. ASSUME UNCHANGED <<flagVars, reloadVars, wpc>> PROVE ReloadNotForgotten'
  BY <1>1 DEF flagVars, reloadVars
<1>2. ASSUME NEW v \in Workers, WakeUp(v)
      PROVE  \A w \in Workers : wpc[w] = "load" => wpc'[w] = "load"
  BY <1>2 DEF WakeUp, ControlTypeOK
<1>3. ASSUME NEW r \in ReadThreads, Dispatch(r) PROVE ReloadNotForgotten'
  <2>1. CASE Signal(r)
    BY <1>2, <2>1 DEF Signal, DispatchTypeOK, flagVars, reloadVars
  <2> QED
    BY <1>1, <1>3, <2>1 DEF Dispatch, Enqueue, Scan
<1>4. CASE ReloadCommand
  BY <1>4, ConstantsAssumption DEF ReloadCommand, Workers
<1>5. CASE ReloadFlag
  BY <1>5, ConstantsAssumption DEF ReloadFlag, ReloadTypeOK, FlagTypeOK, Workers
<1>6. CASE ReloadSignal
  <2>1. \A w \in Workers : wpc[w] = "load" => wpc'[w] = "load"
    BY <1>2, <1>6 DEF ReloadSignal, ReloadTypeOK
  <2>2. ri' = ri + 1 /\ (ri + 1 = WORK_THREAD_NUM \/ rpc' = "flag") /\ ri \in Workers
    BY <1>6 DEF ReloadSignal, ReloadTypeOK
  <2>3. rpc = "signal" /\ UNCHANGED flagVars /\ script' = script
    BY <1>6 DEF ReloadSignal
  <2> QED
    BY <2>1, <2>2, <2>3, ConstantsAssumption DEF flagVars, Workers
<1>7. ASSUME NEW w \in Workers, Work(w) \/ SpuriousWakeUp(w) PROVE ReloadNotForgotten'
  BY <1>7, ReloadWork
<1>8. ASSUME NEW c \in Conns, AcceptConn(c) PROVE ReloadNotForgotten'
  BY <1>1, <1>8 DEF AcceptConn
<1>9. ASSUME NEW r \in ReadThreads, NEW c \in Conns, CloseConn(r, c) \/ Receive(r, c)
      PROVE  ReloadNotForgotten'
  BY <1>1, <1>9 DEF CloseConn, Receive
<1>10. CASE UNCHANGED vars
  BY <1>1, <1>10 DEF vars
<1> QED
  BY <1>3, <1>4, <1>5, <1>6, <1>7, <1>8, <1>9, <1>10 DEF Next, Reload

\* No interleaving of reload commands and script loading loses a command.
THEOREM ReloadKept == Spec => []ReloadNotForgotten
<1>1. Init => ReloadNotForgotten
  BY DEF Init, ReloadNotForgotten
<1>2. TypeOK /\ ReloadNotForgotten /\ [Next]_vars => ReloadNotForgotten'
  BY ReloadNext
<1> QED
  BY <1>1, <1>2, TypeCorrect, PTL DEF Spec

-----------------------------------------------------------------------------
(* Ownership of the messages: the inductive form of OneOwner.              *)

\* The number of the last message that has left the queue.
Left == enqueued - Len(s_work_msg_queue)

Ownership ==
    ~overrun =>
        /\ freedTwice = {}
        /\ freed \subseteq 1 .. Left
        /\ \A w \in Workers : HasMessage(w) =>
              /\ popped[w] \in 1 .. Left
              /\ popped[w] \notin freed
              /\ s_ctxs[wctx[w]].seq = popped[w]
              /\ wpc[w] \in {"check", "handle"} => wmsg[w].seq = popped[w]
        /\ \A v, w \in Workers : v # w /\ HasMessage(v) /\ HasMessage(w) => popped[v] # popped[w]
        /\ \A k \in 1 .. Left : k \in freed \/ \E w \in Workers : HasMessage(w) /\ popped[w] = k

LEMMA LeftType == Inv => Left \in Nat
  BY DEF Inv, TypeOK, RingTypeOK, QueueIsRingSegment, Left

LEMMA OwnershipGivesOneOwner == Inv /\ Ownership => OneOwner
<1> SUFFICES ASSUME Inv, Ownership, ~overrun PROVE OneOwner
  BY DEF OneOwner
<1> DEFINE held == {popped[w] : w \in {v \in Workers : HasMessage(v)}}
           queued == (enqueued - Len(s_work_msg_queue) + 1) .. enqueued
<1>1. Left \in Nat /\ enqueued \in Nat /\ Left <= enqueued
  BY LeftType DEF Inv, TypeOK, RingTypeOK, Left
<1>2. queued = Left + 1 .. enqueued
  BY <1>1 DEF Left
<1>3. \A k \in held : k \in 1 .. Left /\ k \notin freed
  BY DEF Ownership
<1>4. \A k \in 1 .. Left : k \in freed \/ k \in held
  BY DEF Ownership
<1>5. freed \subseteq 1 .. Left /\ freedTwice = {}
  BY DEF Ownership
<1>6. \A v, w \in Workers : v # w /\ HasMessage(v) /\ HasMessage(w) => popped[v] # popped[w]
  BY DEF Ownership
<1> HIDE DEF held
<1>7. held \cap freed = {} /\ freed \cap queued = {} /\ held \cap queued = {}
  BY <1>1, <1>2, <1>3, <1>5
<1>8. held \cup freed \cup queued = 1 .. enqueued
  <2>1. held \cup freed = 1 .. Left
    BY <1>3, <1>4, <1>5
  <2>2. (1 .. Left) \cup (Left + 1 .. enqueued) = 1 .. enqueued
    BY <1>1
  <2> QED
    BY <1>2, <2>1, <2>2
<1> HIDE DEF queued
<1> QED
  BY <1>5, <1>6, <1>7, <1>8 DEF OneOwner, held, queued

\* What a step must leave alone so that nobody's ownership changes.
LEMMA OwnershipKept ==
  ASSUME Ownership, UNCHANGED <<ringVars, freeVars, popped, wctx>>,
         \A w \in Workers : HasMessage(w)' <=> HasMessage(w),
         \A w \in Workers : wpc'[w] \in {"check", "handle"} =>
             \/ wpc[w] \in {"check", "handle"} /\ wmsg'[w] = wmsg[w]
             \/ wmsg'[w] = s_ctxs[wctx[w]]
  PROVE  Ownership'
  BY DEF Ownership, Left, HasMessage, ringVars, freeVars

\* A step of one worker that begins no use of a slot and ends none.
LEMMA OwnershipMove ==
  ASSUME Inv, Ownership, NEW v \in Workers, NEW label, Goto(v, label),
         UNCHANGED <<ringVars, freeVars, wctx, wmsg, popped>>,
         \/ ~HasMessage(v) /\ label \in {"top", "load", "pop", "sleep", "wait", "client", "run"}
         \/ wpc[v] = "check" /\ label = "handle"
  PROVE  Ownership'
<1>1. \A w \in Workers : w # v => wpc'[w] = wpc[w]
  BY DEF Goto, Inv, TypeOK, ControlTypeOK
<1>2. wpc'[v] = label
  BY DEF Goto, Inv, TypeOK, ControlTypeOK
<1> QED
  BY <1>1, <1>2, OwnershipKept DEF HasMessage

\* Freeing its message ends a worker's ownership, and nobody else's.
LEMMA OwnershipFree ==
  ASSUME Inv, Ownership, NEW v \in Workers, wpc[v] \in {"check", "handle"},
         Free(wmsg[v]), UNCHANGED ringVars, ~HasMessage(v)',
         \A w \in Workers : w # v => /\ wpc'[w] = wpc[w] /\ popped'[w] = popped[w]
                                    /\ wctx'[w] = wctx[w] /\ wmsg'[w] = wmsg[w]
  PROVE  Ownership'
<1> SUFFICES ASSUME ~overrun PROVE Ownership'
  BY DEF Ownership, ringVars
<1>1. HasMessage(v) /\ wmsg[v].seq = popped[v] /\ popped[v] \notin freed /\ popped[v] \in 1 .. Left
  BY DEF Ownership, HasMessage
<1>2. freed' = freed \cup {popped[v]} /\ freedTwice' = {}
  BY <1>1 DEF Free, Ownership
<1>3. Left' = Left
  BY DEF Left, ringVars
<1>4. \A w \in Workers : HasMessage(w)' => w # v /\ HasMessage(w)
  BY DEF HasMessage
<1>5. \A w \in Workers : HasMessage(w) /\ w # v => HasMessage(w)'
  BY DEF HasMessage
<1>6. \A w \in Workers : HasMessage(w)' =>
          /\ popped'[w] \in 1 .. Left'
          /\ popped'[w] \notin freed'
          /\ s_ctxs'[wctx'[w]].seq = popped'[w]
          /\ wpc'[w] \in {"check", "handle"} => wmsg'[w].seq = popped'[w]
  BY <1>1, <1>2, <1>3, <1>4 DEF Ownership, ringVars
<1>7. \A k \in 1 .. Left' : k \in freed' \/ \E w \in Workers : HasMessage(w)' /\ popped'[w] = k
  BY <1>1, <1>2, <1>3, <1>5 DEF Ownership
<1>8. \A u, w \in Workers : u # w /\ HasMessage(u)' /\ HasMessage(w)' => popped'[u] # popped'[w]
  BY <1>4 DEF Ownership
<1> QED
  BY <1>1, <1>2, <1>3, <1>6, <1>7, <1>8 DEF Ownership

LEMMA OwnershipPush ==
  ASSUME Inv, Ownership, NEW m, m.seq = enqueued + 1, Push(m),
         UNCHANGED <<freeVars, wpc, wctx, wmsg, popped>>
  PROVE  Ownership'
<1> SUFFICES ASSUME ~overrun' PROVE Ownership'
  BY DEF Ownership
<1>1. ~overrun /\ \A w \in Workers : HasMessage(w) => wctx[w] # s_ctx_pos
  BY DEF Push, HasMessage, UsesSlot
<1>2. Left' = Left
  BY DEF Push, Left, Inv, TypeOK, RingTypeOK
<1>3. \A w \in Workers : HasMessage(w) => s_ctxs'[wctx[w]] = s_ctxs[wctx[w]]
  BY <1>1 DEF Push, Inv, TypeOK, RingTypeOK, LocalTypeOK
<1>4. \A w \in Workers : HasMessage(w)' <=> HasMessage(w)
  BY DEF HasMessage
<1> QED
  BY <1>1, <1>2, <1>3, <1>4 DEF Ownership, freeVars

LEMMA OwnershipPop ==
  ASSUME Inv, Ownership, NEW v \in Workers, Pop(v), s_work_msg_queue # <<>>
  PROVE  Ownership'
<1> DEFINE slot == Head(s_work_msg_queue)
<1>1. /\ s_work_msg_queue' = Tail(s_work_msg_queue)
      /\ wctx' = [wctx EXCEPT ![v] = slot]
      /\ popped' = [popped EXCEPT ![v] = s_ctxs[slot].seq]
      /\ wpc' = [wpc EXCEPT ![v] = "conn"]
      /\ UNCHANGED <<s_ctxs, s_ctx_pos, enqueued, overrun, wmsg, freed, freedTwice>>
  BY DEF Pop, Goto, freeVars
<1>2. s_ctxs[slot].seq = Left + 1
  BY <1>1, RingPop, LeftType DEF Inv, TypeOK, RingTypeOK, Left
<1>3. Left' = Left + 1 /\ Left \in Nat
  BY <1>1, LeftType DEF Left, Inv, TypeOK, RingTypeOK
<1> HIDE DEF slot
<1>4. popped'[v] = Left + 1 /\ wctx'[v] = slot /\ wpc'[v] = "conn" /\ HasMessage(v)'
  BY <1>1, <1>2 DEF Inv, TypeOK, ControlTypeOK, LocalTypeOK, HasMessage
<1>5. \A w \in Workers : w # v => /\ popped'[w] = popped[w] /\ wctx'[w] = wctx[w]
                                 /\ wpc'[w] = wpc[w] /\ (HasMessage(w)' <=> HasMessage(w))
  BY <1>1 DEF Inv, TypeOK, ControlTypeOK, LocalTypeOK, HasMessage
<1>6. ~HasMessage(v)
  BY DEF Pop, HasMessage
<1> SUFFICES ASSUME ~overrun PROVE Ownership'
  BY <1>1 DEF Ownership
<1>7. \A w \in Workers : HasMessage(w)' =>
          /\ popped'[w] \in 1 .. Left'
          /\ popped'[w] \notin freed'
          /\ s_ctxs'[wctx'[w]].seq = popped'[w]
          /\ wpc'[w] \in {"check", "handle"} => wmsg'[w].seq = popped'[w]
  BY <1>1, <1>2, <1>3, <1>4, <1>5 DEF Ownership
<1>8. \A u, w \in Workers : u # w /\ HasMessage(u)' /\ HasMessage(w)' => popped'[u] # popped'[w]
  BY <1>3, <1>4, <1>5 DEF Ownership
<1>9. \A k \in 1 .. Left' : k \in freed' \/ \E w \in Workers : HasMessage(w)' /\ popped'[w] = k
  <2> SUFFICES ASSUME NEW k \in 1 .. Left', k \notin freed'
               PROVE  \E w \in Workers : HasMessage(w)' /\ popped'[w] = k
    OBVIOUS
  <2>1. CASE k = Left + 1
    BY <1>4, <2>1
  <2>2. CASE k # Left + 1
    <3>1. k \in 1 .. Left
      BY <1>3, <2>2
    <3>2. PICK w \in Workers : HasMessage(w) /\ popped[w] = k
      BY <1>1, <3>1 DEF Ownership
    <3> QED
      BY <1>5, <1>6, <3>2
  <2> QED
    BY <2>1, <2>2
<1>10. freedTwice' = {} /\ freed' \subseteq 1 .. Left'
  BY <1>1, <1>3 DEF Ownership
<1> QED
  BY <1>7, <1>8, <1>9, <1>10 DEF Ownership

LEMMA OwnershipNext ==
  ASSUME Inv, Ownership, [Next]_vars
  PROVE  Ownership'
<1>1. ASSUME UNCHANGED <<ringVars, freeVars, localVars, wpc>> PROVE Ownership'
  BY <1>1, OwnershipKept DEF HasMessage, localVars
<1>2. ASSUME NEW v \in Workers, WakeUp(v), UNCHANGED <<ringVars, freeVars, localVars>>
      PROVE  Ownership'
  <2>1. wpc' = wpc \/ (wpc[v] = "wait" /\ Goto(v, "top"))
    BY <1>2 DEF WakeUp, Goto
  <2> QED
      BY <1>1, <1>2, <2>1, OwnershipMove DEF HasMessage, localVars
<1>3. ASSUME NEW r \in ReadThreads, Dispatch(r) PROVE Ownership'
  <2>1. CASE Enqueue(r)
    <3>1. UNCHANGED <<freeVars, localVars, wpc>>
      BY <2>1 DEF Enqueue
    <3>2. CASE HasRoom
      <4> DEFINE m == [dmsg[r] EXCEPT !.seq = enqueued + 1]
      <4>1. m.seq = enqueued + 1
        <5>1. dmsg[r] \in Message
          BY DEF Inv, TypeOK, DispatchTypeOK
        <5> QED
          BY <5>1 DEF Message
      <4>2. Push(m)
        BY <2>1, <3>2 DEF Enqueue
      <4> HIDE DEF m
      <4> QED
        BY <3>1, <4>1, <4>2, OwnershipPush DEF localVars
    <3>3. CASE ~HasRoom
      BY <1>1, <2>1, <3>1, <3>3 DEF Enqueue
    <3> QED
      BY <3>2, <3>3
  <2>2. CASE Scan(r)
    BY <1>1, <2>2 DEF Scan
  <2>3. CASE Signal(r)
    BY <1>2, <2>3 DEF Signal, Inv, TypeOK, DispatchTypeOK
  <2> QED
    BY <1>3, <2>1, <2>2, <2>3 DEF Dispatch
<1>4. CASE ReloadCommand \/ ReloadFlag
  BY <1>1, <1>4 DEF ReloadCommand, ReloadFlag
<1>5. CASE ReloadSignal
  BY <1>2, <1>5 DEF ReloadSignal, Inv, TypeOK, ReloadTypeOK
<1>6. ASSUME NEW w \in Workers, Work(w) \/ SpuriousWakeUp(w) PROVE Ownership'
  <2> USE DEF HasMessage
  <2>1. CASE Top(w) \/ Load(w) \/ Sleep(w) \/ SpuriousWakeUp(w)
    BY <2>1, OwnershipMove DEF Top, Load, Sleep, SpuriousWakeUp, localVars
  <2>2. CASE Pop(w) /\ s_work_msg_queue = <<>>
    BY <2>2, OwnershipMove DEF Pop, ringVars, localVars
  <2>3. CASE Pop(w) /\ s_work_msg_queue # <<>>
    BY <2>3, OwnershipPop
  <2>4. CASE ReadConn(w)
    BY <2>4, OwnershipKept DEF ReadConn, Goto, Inv, TypeOK, ControlTypeOK
  <2>5. CASE ReadMessage(w)
    BY <2>5, OwnershipKept DEF ReadMessage, Goto, Inv, TypeOK, ControlTypeOK, LocalTypeOK
  <2>6. ASSUME NextIteration(w)
        PROVE  /\ ~HasMessage(w)'
               /\ \A v \in Workers : v # w =>
                     /\ wpc'[v] = wpc[v] /\ popped'[v] = popped[v]
                     /\ wctx'[v] = wctx[v] /\ wmsg'[v] = wmsg[v]
    BY <2>6 DEF NextIteration, Goto, Inv, TypeOK, ControlTypeOK, LocalTypeOK
  <2>7. CASE Check(w) /\ IsStale(w)
    BY <2>6, <2>7, OwnershipFree DEF Check
  <2>8. CASE Check(w) /\ ~IsStale(w)
    BY <2>8, OwnershipMove DEF Check, localVars
  <2>9. CASE Handle(w)
    <3>1. CASE NextIteration(w)
      BY <2>6, <2>9, <3>1, OwnershipFree DEF Handle
    <3>2. CASE Goto(w, "session") /\ UNCHANGED <<wctx, wmsg, popped>>
      BY <2>9, <3>2, OwnershipFree DEF Handle, Goto, Inv, TypeOK, ControlTypeOK
    <3> QED
      BY <2>9, <3>1, <3>2 DEF Handle, localVars
  <2>11. CASE ReadSession(w) \/ ReadClient(w)
    BY <2>11, OwnershipMove DEF ReadSession, ReadClient
  <2>10. CASE Return(w)
    <3>1. \A v \in Workers : HasMessage(v)' <=> HasMessage(v)
      BY <2>6, <2>10 DEF Return
    <3>2. \A v \in Workers : HasMessage(v) => v # w
      BY <2>10 DEF Return
    <3> QED
      BY <2>6, <2>10, <3>1, <3>2 DEF Return, Ownership, Left, ringVars, freeVars
  <2> QED
    BY <1>6, <2>1, <2>2, <2>3, <2>4, <2>5, <2>7, <2>8, <2>9, <2>10, <2>11 DEF Work, Check
<1>7. ASSUME NEW c \in Conns, AcceptConn(c) PROVE Ownership'
  BY <1>1, <1>7 DEF AcceptConn
<1>8. ASSUME NEW r \in ReadThreads, NEW c \in Conns, CloseConn(r, c) \/ Receive(r, c)
      PROVE  Ownership'
  BY <1>1, <1>8 DEF CloseConn, Receive
<1>9. CASE UNCHANGED vars
  BY <1>1, <1>9 DEF vars
<1> QED
  BY <1>3, <1>4, <1>5, <1>6, <1>7, <1>8, <1>9 DEF Next, Reload

\* No message is freed twice, leaked or handled by two workers, unless the
\* dispatchers went round the whole ring while a worker was using one slot.
THEOREM SingleOwner == Spec => []OneOwner
<1>1. Init => Ownership
  BY ConstantsAssumption DEF Init, Ownership, HasMessage, Left
<1>2. Inv /\ Ownership /\ [Next]_vars => Ownership'
  BY OwnershipNext
<1>3. Inv /\ Ownership => OneOwner
  BY OwnershipGivesOneOwner
<1> QED
  BY <1>1, <1>2, <1>3, Invariance, PTL DEF Spec

-----------------------------------------------------------------------------
(* The refinement.                                                         *)

\* A lap is never taken back.
LEMMA LapStays ==
  ASSUME [Next]_vars, overrun
  PROVE  overrun'
<1>1. ASSUME NEW r \in ReadThreads, Dispatch(r) PROVE overrun'
  <2>1. CASE Enqueue(r)
    BY <2>1 DEF Enqueue, Push, ringVars
  <2>2. CASE Scan(r) \/ Signal(r)
    BY <2>2 DEF Scan, Signal, ringVars
  <2> QED
    BY <1>1, <2>1, <2>2 DEF Dispatch
<1>2. CASE ReloadCommand \/ Reload
  BY <1>2 DEF ReloadCommand, Reload, ReloadFlag, ReloadSignal, ringVars
<1>3. ASSUME NEW w \in Workers, Work(w) \/ SpuriousWakeUp(w) PROVE overrun'
  BY <1>3 DEF Work, Top, Load, Pop, ReadConn, ReadMessage, Check, Handle, ReadSession, ReadClient, Return, Sleep,
              SpuriousWakeUp, ringVars
<1>4. ASSUME NEW c \in Conns, AcceptConn(c) PROVE overrun'
  BY <1>4 DEF AcceptConn, ringVars
<1>5. ASSUME NEW r \in ReadThreads, NEW c \in Conns, CloseConn(r, c) \/ Receive(r, c)
      PROVE  overrun'
  BY <1>5 DEF CloseConn, Receive, ringVars
<1>6. CASE UNCHANGED vars
  BY <1>6 DEF vars, ringVars
<1> QED
  BY <1>1, <1>2, <1>3, <1>4, <1>5, <1>6 DEF Next

\* What a step leaves alone when the queue of messages does not notice it.
LEMMA QueueStutters ==
  ASSUME UNCHANGED <<s_ctxs, s_work_msg_queue, enqueued, overrun, freed>>,
         \A w \in Workers : HasMessage(w)' <=> HasMessage(w),
         \A w \in Workers : HasMessage(w) => wctx'[w] = wctx[w]
  PROVE  UNCHANGED Queue!vars
<1>1. InUse' = InUse
  BY DEF InUse
<1> QED
  BY <1>1 DEF Queue!vars

\* A worker that goes from one place to another without beginning or ending
\* the use of a slot.
LEMMA MoveStutters ==
  ASSUME Inv, NEW w \in Workers, NEW label, Goto(w, label),
         UNCHANGED <<s_ctxs, s_work_msg_queue, enqueued, overrun, freed, wctx>>,
         HasMessage(w) <=> label \in {"conn", "message", "check", "handle"}
  PROVE  UNCHANGED Queue!vars
<1>1. \A v \in Workers : HasMessage(v)' <=> HasMessage(v)
  BY DEF Goto, HasMessage, Inv, TypeOK, ControlTypeOK
<1> QED
  BY <1>1, QueueStutters

LEMMA DispatchImplements ==
  ASSUME Inv, NEW r \in ReadThreads, Dispatch(r), ~overrun'
  PROVE  [Queue!Next]_Queue!vars
<1>1. CASE Enqueue(r)
  <2>1. UNCHANGED <<freed, wctx, wpc>>
    BY <1>1 DEF Enqueue, freeVars, localVars
  <2>2. CASE ~HasRoom
    BY <1>1, <2>1, <2>2, QueueStutters DEF Enqueue, ringVars, HasMessage
  <2>3. CASE HasRoom
    <3> DEFINE m == [dmsg[r] EXCEPT !.seq = enqueued + 1]
    <3>1. m.seq = enqueued + 1
      <4>1. dmsg[r] \in Message
        BY DEF Inv, TypeOK, DispatchTypeOK
      <4> QED
        BY <4>1 DEF Message
    <3>2. Push(m)
      BY <1>1, <2>3 DEF Enqueue
    <3> HIDE DEF m
    <3>3. enqueued' = enqueued + 1 /\ Len(s_work_msg_queue') = Len(s_work_msg_queue) + 1
      BY <3>1, <3>2 DEF Push, Inv, TypeOK, RingTypeOK
    <3>4. enqueued' - Len(s_work_msg_queue') = enqueued - Len(s_work_msg_queue)
      BY <3>3 DEF Inv, TypeOK, RingTypeOK
    <3>5. \A w \in Workers : HasMessage(w) => s_ctxs'[wctx[w]] = s_ctxs[wctx[w]]
      BY <3>2 DEF Push, HasMessage, UsesSlot, Inv, TypeOK, RingTypeOK, LocalTypeOK
    <3>6. InUse' = InUse
      BY <2>1, <3>5 DEF InUse, HasMessage
    <3> QED
      BY <2>1, <3>3, <3>4, <3>6 DEF Queue!Next, Queue!Accept
  <2> QED
    BY <2>2, <2>3
<1>2. CASE Scan(r)
  BY <1>2, QueueStutters DEF Scan, ringVars, freeVars, localVars, HasMessage
<1>3. CASE Signal(r)
  <2>1. di[r] \in Workers /\ WakeUp(di[r])
    BY <1>3 DEF Signal, Inv, TypeOK, DispatchTypeOK
  <2>2. \A w \in Workers : HasMessage(w)' <=> HasMessage(w)
    BY <2>1 DEF WakeUp, HasMessage, Inv, TypeOK, ControlTypeOK
  <2> QED
    BY <1>3, <2>2, QueueStutters DEF Signal, ringVars, freeVars, localVars
<1> QED
  BY <1>1, <1>2, <1>3 DEF Dispatch

\* The head of the queue is the next message in the order of dispatch.
LEMMA PopTakes ==
  ASSUME Inv, NEW w \in Workers, Pop(w), s_work_msg_queue # <<>>, ~overrun'
  PROVE  Queue!Next
<1> DEFINE slot == Head(s_work_msg_queue)
<1>1. /\ s_work_msg_queue' = Tail(s_work_msg_queue)
      /\ wctx' = [wctx EXCEPT ![w] = slot]
      /\ wpc' = [wpc EXCEPT ![w] = "conn"]
      /\ UNCHANGED <<s_ctxs, s_ctx_pos, enqueued, overrun, freed>>
  BY DEF Pop, Goto, freeVars
<1>2. s_ctxs[slot].seq = Left + 1
  BY <1>1, RingPop, LeftType DEF Inv, TypeOK, RingTypeOK, Left
<1>3. Left' = Left + 1 /\ Left \in Nat /\ Left < enqueued
  BY <1>1, LeftType DEF Left, Inv, TypeOK, RingTypeOK
<1> HIDE DEF slot
<1>4. wctx'[w] = slot /\ HasMessage(w)' /\ ~HasMessage(w)
  BY <1>1 DEF Pop, Inv, TypeOK, ControlTypeOK, LocalTypeOK, HasMessage
<1>5. \A v \in Workers : v # w => wctx'[v] = wctx[v] /\ (HasMessage(v)' <=> HasMessage(v))
  BY <1>1 DEF Inv, TypeOK, ControlTypeOK, LocalTypeOK, HasMessage
<1>6. InUse' = [InUse EXCEPT ![w] = Left + 1]
  <2>1. s_ctxs'[wctx'[w]].seq = Left + 1
    BY <1>1, <1>2, <1>4
  <2>2. \A v \in Workers : v # w => s_ctxs'[wctx'[v]] = s_ctxs[wctx[v]]
    BY <1>1, <1>5
  <2> QED
    BY <1>4, <1>5, <2>1, <2>2, Zenon DEF InUse
<1>7. InUse[w] = 0
  BY <1>4 DEF InUse
<1> QED
  BY <1>1, <1>3, <1>6, <1>7 DEF Queue!Next, Queue!Take, Left

\* Freeing its message is what ends a worker's use of it.
LEMMA FreeFinishes ==
  ASSUME Inv, Ownership, ~overrun, NEW w \in Workers, wpc[w] \in {"check", "handle"},
         Free(wmsg[w]), UNCHANGED ringVars, ~HasMessage(w)',
         \A v \in Workers : v # w => wpc'[v] = wpc[v] /\ wctx'[v] = wctx[v]
  PROVE  Queue!Next
<1>1. /\ HasMessage(w) /\ wmsg[w].seq = popped[w] /\ s_ctxs[wctx[w]].seq = popped[w]
      /\ popped[w] \notin freed /\ popped[w] \in 1 .. Left
  BY DEF Ownership, HasMessage
<1>2. InUse[w] = popped[w] /\ popped[w] # 0
  BY <1>1, LeftType DEF InUse
<1>3. freed' = freed \cup {popped[w]}
  BY <1>1 DEF Free
<1>4. InUse' = [InUse EXCEPT ![w] = 0]
  BY DEF InUse, HasMessage, ringVars
<1> QED
  BY <1>1, <1>2, <1>3, <1>4 DEF Queue!Next, Queue!Finish, ringVars

LEMMA WorkImplements ==
  ASSUME Inv, Ownership, NEW w \in Workers, Work(w) \/ SpuriousWakeUp(w), ~overrun, ~overrun'
  PROVE  [Queue!Next]_Queue!vars
<1> USE DEF HasMessage, ringVars, freeVars, localVars
<1>1. CASE Top(w) \/ Load(w) \/ Sleep(w) \/ SpuriousWakeUp(w)
  BY <1>1, MoveStutters DEF Top, Load, Sleep, SpuriousWakeUp
<1>2. CASE Pop(w) /\ s_work_msg_queue = <<>>
  BY <1>2, MoveStutters DEF Pop
<1>3. CASE Pop(w) /\ s_work_msg_queue # <<>>
  BY <1>3, PopTakes
<1>4. CASE ReadConn(w) \/ ReadMessage(w) \/ ReadSession(w) \/ ReadClient(w)
  BY <1>4, MoveStutters DEF ReadConn, ReadMessage, ReadSession, ReadClient
<1>5. ASSUME NextIteration(w)
      PROVE  ~HasMessage(w)' /\ \A v \in Workers : v # w => wpc'[v] = wpc[v] /\ wctx'[v] = wctx[v]
  BY <1>5 DEF NextIteration, Goto, Inv, TypeOK, ControlTypeOK, LocalTypeOK
<1>6. CASE Check(w) /\ IsStale(w)
  BY <1>5, <1>6, FreeFinishes DEF Check
<1>7. CASE Check(w) /\ ~IsStale(w)
  BY <1>7, MoveStutters DEF Check
<1>8. CASE Handle(w)
  <2>1. CASE NextIteration(w)
    BY <1>5, <1>8, <2>1, FreeFinishes DEF Handle
  <2>2. CASE Goto(w, "session") /\ UNCHANGED wctx
    BY <1>8, <2>2, FreeFinishes DEF Handle, Goto, Inv, TypeOK, ControlTypeOK
  <2> QED
    BY <1>8, <2>1, <2>2 DEF Handle
<1>9. CASE Return(w)
  <2>1. \A v \in Workers : (HasMessage(v)' <=> HasMessage(v)) /\ (HasMessage(v) => v # w)
    BY <1>5, <1>9 DEF Return
  <2> QED
    BY <1>5, <1>9, <2>1, QueueStutters DEF Return
<1> QED
  BY <1>1, <1>2, <1>3, <1>4, <1>6, <1>7, <1>8, <1>9 DEF Work, Check

LEMMA StepImplements ==
  ASSUME Inv, Ownership, [Next]_vars
  PROVE  [Queue!Next]_Queue!vars
<1>1. CASE overrun'
  BY <1>1 DEF Queue!Next
<1> SUFFICES ASSUME ~overrun' PROVE [Queue!Next]_Queue!vars
  BY <1>1
<1>2. ~overrun
  BY LapStays
<1>3. ASSUME NEW r \in ReadThreads, Dispatch(r) PROVE [Queue!Next]_Queue!vars
  BY <1>3, DispatchImplements
<1>4. CASE ReloadCommand \/ ReloadFlag
  BY <1>4, QueueStutters DEF ReloadCommand, ReloadFlag, HasMessage, ringVars, freeVars, localVars
<1>5. CASE ReloadSignal
  <2>1. ri \in Workers /\ WakeUp(ri)
    BY <1>5 DEF ReloadSignal, Inv, TypeOK, ReloadTypeOK
  <2>2. \A w \in Workers : HasMessage(w)' <=> HasMessage(w)
    BY <2>1 DEF WakeUp, HasMessage, Inv, TypeOK, ControlTypeOK
  <2> QED
    BY <1>5, <2>2, QueueStutters DEF ReloadSignal, ringVars, freeVars, localVars
<1>6. ASSUME NEW w \in Workers, Work(w) \/ SpuriousWakeUp(w) PROVE [Queue!Next]_Queue!vars
  BY <1>2, <1>6, WorkImplements
<1>7. ASSUME NEW c \in Conns, AcceptConn(c) PROVE [Queue!Next]_Queue!vars
  BY <1>7, QueueStutters DEF AcceptConn, HasMessage, ringVars, freeVars, localVars
<1>8. ASSUME NEW r \in ReadThreads, NEW c \in Conns, CloseConn(r, c) \/ Receive(r, c)
      PROVE  [Queue!Next]_Queue!vars
  BY <1>8, QueueStutters DEF CloseConn, Receive, HasMessage, ringVars, freeVars, localVars
<1>9. CASE UNCHANGED vars
  BY <1>9, QueueStutters DEF vars, HasMessage, ringVars, freeVars, localVars
<1> QED
  BY <1>3, <1>4, <1>5, <1>6, <1>7, <1>8, <1>9 DEF Next, Reload

\* Messages are handed out in the order of dispatch, each to one worker, and
\* freed once, by the worker that has them, until the ring laps a worker.
THEOREM RingImplementsQueue == Spec => ImplementsWorkQueue
<1>1. Init => Queue!Init
  <2> SUFFICES ASSUME Init PROVE Queue!Init
    OBVIOUS
  <2>1. enqueued - Len(s_work_msg_queue) = 0
    <3>1. enqueued = 0 /\ s_work_msg_queue = <<>>
      BY DEF Init
    <3>2. Len(<<>>) = 0 /\ 0 - 0 = 0
      OBVIOUS
    <3> QED
      BY <3>1, <3>2, Zenon
  <2>2. \A w \in Workers : ~HasMessage(w)
    BY DEF Init, HasMessage
  <2>3. InUse = [w \in Workers |-> 0]
    BY <2>2 DEF InUse
  <2> QED
    BY <2>1, <2>3 DEF Init, Queue!Init
<1>2. Init => Ownership
  BY ConstantsAssumption DEF Init, Ownership, HasMessage, Left
<1>3. Inv /\ Ownership /\ [Next]_vars => Ownership' /\ [Queue!Next]_Queue!vars
  BY OwnershipNext, StepImplements
<1> QED
  BY <1>1, <1>2, <1>3, Invariance, PTL DEF Spec, ImplementsWorkQueue, Queue!Spec

-----------------------------------------------------------------------------
(* The context of the Lua handler.  A message's session is its             *)
(* connection's own or over, from the moment Recv builds the message.      *)

Live(m) == /\ m.conn \in Conns /\ m.session # 0
           /\ m.session = session[m.conn] \/ m.session \in closed

\* A session is given to one connection once.
SessionsFresh ==
    /\ closed \subseteq 1 .. lastSession
    /\ \A c \in Conns : session[c] <= lastSession /\ session[c] \notin closed
    /\ \A c, d \in Conns : c # d /\ session[c] # 0 => session[c] # session[d]

MessagesLive ==
    /\ \A r \in ReadThreads : dpc[r] = "enqueue" => Live(dmsg[r])
    /\ \A s \in Slots : s_ctxs[s].seq # 0 => Live(s_ctxs[s])

\* What a worker has read of a slot that no dispatch has written since.
WorkerKnows ==
    ~overrun => \A w \in Workers :
        /\ UsesSlot(w) /\ stale[w] => s_ctxs[wctx[w]].session \in closed
        /\ UsesSlot(w) /\ wpc[w] # "conn" => wconn[w] = s_ctxs[wctx[w]].conn
        /\ UsesSlot(w) /\ wpc[w] \notin {"conn", "message"} => wmsg[w] = s_ctxs[wctx[w]]
        /\ wpc[w] \in {"handle", "session", "client"} => ~stale[w]
        /\ wpc[w] = "client" => \/ luactx[w].session = wmsg[w].session
                               \/ wmsg[w].session \in closed

Context == SessionsFresh /\ MessagesLive /\ WorkerKnows /\ HandlerContext

\* Sessions and messages do not change.
LEMMA LiveKept ==
  ASSUME Context, UNCHANGED <<session, lastSession, closed, s_ctxs>>,
         \A r \in ReadThreads : dpc'[r] = "enqueue" => dpc[r] = "enqueue" /\ dmsg'[r] = dmsg[r]
  PROVE  SessionsFresh' /\ MessagesLive'
  BY DEF Context, SessionsFresh, MessagesLive, Live

\* What the workers know does not change.
LEMMA KnowledgeKept ==
  ASSUME Context, UNCHANGED <<s_ctxs, overrun, localVars>>, closed \subseteq closed',
         \A w \in Workers : wpc'[w] # wpc[w] => wpc'[w] \in {"top", "load", "pop", "sleep", "wait"}
  PROVE  WorkerKnows' /\ HandlerContext'
  BY DEF Context, WorkerKnows, HandlerContext, UsesSlot, localVars

\* One worker moves on, and the others know what they knew.
LEMMA OthersKnow ==
  ASSUME Context, NEW w \in Workers, UNCHANGED <<s_ctxs, overrun, closed>>,
         \A v \in Workers : v # w =>
            /\ wpc'[v] = wpc[v] /\ wctx'[v] = wctx[v] /\ wconn'[v] = wconn[v]
            /\ wmsg'[v] = wmsg[v] /\ luactx'[v] = luactx[v] /\ stale'[v] = stale[v],
         ~overrun =>
            /\ UsesSlot(w)' /\ stale'[w] => s_ctxs[wctx'[w]].session \in closed
            /\ UsesSlot(w)' /\ wpc'[w] # "conn" => wconn'[w] = s_ctxs[wctx'[w]].conn
            /\ UsesSlot(w)' /\ wpc'[w] \notin {"conn", "message"} => wmsg'[w] = s_ctxs[wctx'[w]]
            /\ wpc'[w] \in {"handle", "session", "client", "run"} => ~stale'[w]
            /\ wpc'[w] \in {"client", "run"} => \/ luactx'[w].session = wmsg'[w].session
                                               \/ wmsg'[w].session \in closed
            /\ wpc'[w] = "run" => luactx'[w].conn = wmsg'[w].conn
  PROVE  WorkerKnows' /\ HandlerContext'
<1>1. WorkerKnows'
  BY DEF Context, WorkerKnows, UsesSlot
<1>2. HandlerContext'
  BY DEF Context, HandlerContext
<1> QED
  BY <1>1, <1>2

LEMMA ContextConn ==
  ASSUME Inv, Context, NEW c \in Conns,
         AcceptConn(c) \/ \E r \in ReadThreads : CloseConn(r, c)
  PROVE  Context'
<1>1. UNCHANGED <<s_ctxs, overrun, localVars, wpc, dpc, dmsg>>
  BY DEF AcceptConn, CloseConn, ringVars, dispatchVars
<1>2. CASE AcceptConn(c)
  <2>1. /\ session[c] = 0 /\ closed' = closed /\ lastSession' = lastSession + 1
        /\ session' = [session EXCEPT ![c] = lastSession + 1]
        /\ lastSession \in Nat /\ session \in [Conns -> Nat]
    BY <1>2 DEF AcceptConn, Inv, TypeOK, ConnTypeOK
  <2>2. SessionsFresh'
    BY <2>1 DEF Context, SessionsFresh
  <2>3. \A m : Live(m) => Live(m)'
    BY <2>1 DEF Live
  <2>4. MessagesLive'
    BY <1>1, <2>3 DEF Context, MessagesLive
  <2> QED
    BY <1>1, <2>1, <2>2, <2>4, KnowledgeKept DEF Context
<1>3. ASSUME NEW r \in ReadThreads, CloseConn(r, c) PROVE Context'
  <2>1. /\ session[c] # 0 /\ closed' = closed \cup {session[c]} /\ lastSession' = lastSession
        /\ session' = [session EXCEPT ![c] = 0]
        /\ lastSession \in Nat /\ session \in [Conns -> Nat]
    BY <1>3 DEF CloseConn, Inv, TypeOK, ConnTypeOK
  <2>2. SessionsFresh'
    <3>1. session[c] \in 1 .. lastSession
      BY <2>1 DEF Context, SessionsFresh
    <3>2. \A d \in Conns : session'[d] = IF d = c THEN 0 ELSE session[d]
      BY <2>1
    <3>3. \A d \in Conns : session'[d] <= lastSession' /\ session'[d] \notin closed'
      BY <2>1, <3>1, <3>2 DEF Context, SessionsFresh
    <3> QED
      BY <2>1, <3>1, <3>2, <3>3 DEF Context, SessionsFresh
  <2>3. \A m : Live(m) => Live(m)'
    BY <2>1 DEF Live
  <2>4. MessagesLive'
    BY <1>1, <2>3 DEF Context, MessagesLive
  <2> QED
    BY <1>1, <2>1, <2>2, <2>4, KnowledgeKept DEF Context
<1> QED
  BY <1>2, <1>3

LEMMA ContextDispatch ==
  ASSUME Inv, Context, NEW r \in ReadThreads,
         Dispatch(r) \/ \E c \in Conns : Receive(r, c)
  PROVE  Context'
<1>1. ASSUME NEW c \in Conns, Receive(r, c) PROVE Context'
  <2>1. /\ session[c] # 0
        /\ dmsg' = [dmsg EXCEPT ![r] = [seq |-> 0, conn |-> c, session |-> session[c]]]
        /\ dpc' = [dpc EXCEPT ![r] = "enqueue"]
        /\ UNCHANGED <<session, lastSession, closed, s_ctxs, overrun, localVars, wpc>>
    BY <1>1 DEF Receive, ringVars, connVars
  <2>2. \A q \in ReadThreads : dpc'[q] = "enqueue" => Live(dmsg'[q])
    BY <2>1 DEF Inv, TypeOK, DispatchTypeOK, Live, Context, MessagesLive
  <2>3. SessionsFresh' /\ MessagesLive'
    BY <2>1, <2>2 DEF Context, SessionsFresh, MessagesLive, Live
  <2> QED
    BY <2>1, <2>3, KnowledgeKept DEF Context
<1>2. CASE Enqueue(r) /\ HasRoom
  <2> DEFINE m == [dmsg[r] EXCEPT !.seq = enqueued + 1]
  <2>1. /\ UNCHANGED <<session, lastSession, closed, dmsg, localVars, wpc>>
        /\ dpc' = [dpc EXCEPT ![r] = "scan"] /\ dpc[r] = "enqueue" /\ Push(m)
    BY <1>2 DEF Enqueue, connVars
  <2>2. Live(m)
    <3>1. Live(dmsg[r]) /\ dmsg[r] \in Message
      BY <2>1 DEF Context, MessagesLive, Inv, TypeOK, DispatchTypeOK
    <3> QED
      BY <3>1 DEF Live, Message
  <2> HIDE DEF m
  <2>3. /\ s_ctxs' = [s_ctxs EXCEPT ![s_ctx_pos] = m]
        /\ overrun' = (overrun \/ \E w \in Workers : UsesSlot(w) /\ wctx[w] = s_ctx_pos)
    BY <2>1 DEF Push
  <2>4. SessionsFresh' /\ MessagesLive'
    BY <2>1, <2>2, <2>3 DEF Context, SessionsFresh, MessagesLive, Live, Inv, TypeOK, RingTypeOK,
                             DispatchTypeOK
  <2>5. ~overrun' => ~overrun /\ \A w \in Workers : UsesSlot(w) => s_ctxs'[wctx[w]] = s_ctxs[wctx[w]]
    BY <2>3 DEF Inv, TypeOK, RingTypeOK, LocalTypeOK
  <2>6. WorkerKnows' /\ HandlerContext'
    BY <2>1, <2>5 DEF Context, WorkerKnows, HandlerContext, UsesSlot, localVars
  <2> QED
    BY <2>4, <2>6 DEF Context
<1>3. CASE (Enqueue(r) /\ ~HasRoom) \/ Scan(r)
  <2>1. /\ UNCHANGED <<session, lastSession, closed, s_ctxs, overrun, localVars, wpc>>
        /\ \A q \in ReadThreads : dpc'[q] = "enqueue" => dpc[q] = "enqueue" /\ dmsg'[q] = dmsg[q]
    BY <1>3 DEF Enqueue, Scan, Returned, ringVars, connVars, Inv, TypeOK, DispatchTypeOK
  <2> QED
    BY <2>1, LiveKept, KnowledgeKept DEF Context
<1>4. CASE Signal(r)
  <2>1. /\ UNCHANGED <<session, lastSession, closed, s_ctxs, overrun, localVars>>
        /\ \A q \in ReadThreads : dpc'[q] = "enqueue" => dpc[q] = "enqueue" /\ dmsg'[q] = dmsg[q]
    BY <1>4 DEF Signal, Returned, ringVars, connVars, Inv, TypeOK, DispatchTypeOK
  <2>2. \A w \in Workers : wpc'[w] # wpc[w] => wpc'[w] = "top"
    BY <1>4 DEF Signal, WakeUp, Inv, TypeOK, ControlTypeOK
  <2> QED
    BY <2>1, <2>2, LiveKept, KnowledgeKept DEF Context
<1> QED
  BY <1>1, <1>2, <1>3, <1>4 DEF Dispatch

LEMMA ContextWork ==
  ASSUME Inv, Ownership, Context, NEW w \in Workers, Work(w) \/ SpuriousWakeUp(w)
  PROVE  Context'
<1> USE DEF Inv, TypeOK, ControlTypeOK, LocalTypeOK
<1>1. UNCHANGED <<s_ctxs, overrun, session, lastSession, closed, dpc, dmsg>>
  BY DEF Work, Top, Load, Pop, ReadConn, ReadMessage, Check, Handle, ReadSession, ReadClient,
         Return, Sleep, SpuriousWakeUp, ringVars, connVars, dispatchVars
<1>2. SessionsFresh' /\ MessagesLive'
  BY <1>1, LiveKept
<1>3. ASSUME NextIteration(w) PROVE WorkerKnows' /\ HandlerContext'
  <2>1. /\ wpc'[w] = "top"
        /\ \A v \in Workers : v # w =>
              /\ wpc'[v] = wpc[v] /\ wctx'[v] = wctx[v] /\ wconn'[v] = wconn[v]
              /\ wmsg'[v] = wmsg[v] /\ luactx'[v] = luactx[v] /\ stale'[v] = stale[v]
    BY <1>3 DEF NextIteration, Goto
  <2> QED
    BY <1>1, <2>1, OthersKnow DEF UsesSlot
<1>4. CASE Top(w) \/ Load(w) \/ Sleep(w) \/ SpuriousWakeUp(w)
  <2>1. UNCHANGED localVars /\ wpc'[w] \in {"top", "load", "pop", "wait"}
        /\ \A v \in Workers : v # w => wpc'[v] = wpc[v]
    BY <1>4 DEF Top, Load, Sleep, SpuriousWakeUp, Goto
  <2> QED
    BY <1>1, <1>2, <2>1, KnowledgeKept DEF Context
<1>5. CASE Pop(w)
  <2>1. /\ \A v \in Workers : v # w =>
              /\ wpc'[v] = wpc[v] /\ wctx'[v] = wctx[v] /\ wconn'[v] = wconn[v]
              /\ wmsg'[v] = wmsg[v] /\ luactx'[v] = luactx[v] /\ stale'[v] = stale[v]
    BY <1>5 DEF Pop, Goto
  <2>2. CASE s_work_msg_queue = <<>>
    <3>1. wpc'[w] = "sleep"
      BY <1>5, <2>2 DEF Pop, Goto
    <3> QED
      BY <1>1, <1>2, <2>1, <3>1, OthersKnow DEF UsesSlot, Context
  <2>3. CASE s_work_msg_queue # <<>>
    <3>1. /\ wpc'[w] = "conn" /\ wctx'[w] = Head(s_work_msg_queue)
          /\ stale'[w] = (s_ctxs[wctx'[w]].session \in closed)
      BY <1>5, <2>3 DEF Pop, Goto, RingTypeOK
    <3> QED
      BY <1>1, <1>2, <2>1, <3>1, OthersKnow DEF Context
  <2> QED
    BY <2>2, <2>3
<1>6. CASE ReadConn(w) \/ ReadMessage(w)
  <2>1. /\ \A v \in Workers : v # w =>
              /\ wpc'[v] = wpc[v] /\ wctx'[v] = wctx[v] /\ wconn'[v] = wconn[v]
              /\ wmsg'[v] = wmsg[v] /\ luactx'[v] = luactx[v] /\ stale'[v] = stale[v]
    BY <1>6 DEF ReadConn, ReadMessage, Goto
  <2>2. wctx'[w] = wctx[w] /\ stale'[w] = stale[w] /\ UsesSlot(w)
    BY <1>6 DEF ReadConn, ReadMessage, UsesSlot
  <2>3. \/ wpc'[w] = "message" /\ wconn'[w] = s_ctxs[wctx[w]].conn
        \/ wpc'[w] = "check" /\ wpc[w] = "message" /\ wconn' = wconn /\ wmsg'[w] = s_ctxs[wctx[w]]
    BY <1>6 DEF ReadConn, ReadMessage, Goto
  <2> QED
    BY <1>1, <1>2, <2>1, <2>2, <2>3, OthersKnow DEF Context, WorkerKnows
<1>7. CASE Check(w) /\ IsStale(w)
  BY <1>2, <1>3, <1>7 DEF Check, Context
<1>8. CASE Check(w) /\ ~IsStale(w)
  <2>1. /\ wpc[w] = "check" /\ wpc'[w] = "handle" /\ UNCHANGED localVars
        /\ \A v \in Workers : v # w => wpc'[v] = wpc[v]
        /\ session[wconn[w]] = wmsg[w].session
    BY <1>8 DEF Check, Goto, IsStale
  <2>2. ~overrun => ~stale[w]
    <3>1. wconn[w] \in Conns
      BY <2>1 DEF SlotInUse, UsesSlot
    <3>2. session[wconn[w]] \notin closed
      BY <3>1 DEF Context, SessionsFresh
    <3> QED
      BY <2>1, <3>2 DEF Context, WorkerKnows, UsesSlot
  <2>3. ~overrun => /\ stale[w] => s_ctxs[wctx[w]].session \in closed
                    /\ wconn[w] = s_ctxs[wctx[w]].conn /\ wmsg[w] = s_ctxs[wctx[w]]
    BY <2>1 DEF Context, WorkerKnows, UsesSlot
  <2> QED
    BY <1>1, <1>2, <2>1, <2>2, <2>3, OthersKnow DEF Context, localVars
<1>9. CASE Handle(w)
  <2>1. CASE NextIteration(w)
    BY <1>2, <1>3, <2>1 DEF Context
  <2>2. CASE Goto(w, "session") /\ UNCHANGED localVars
    <3>1. /\ wpc[w] = "handle" /\ wpc'[w] = "session"
          /\ \A v \in Workers : v # w => wpc'[v] = wpc[v]
      BY <1>9, <2>2 DEF Handle, Goto
    <3> QED
      BY <1>1, <1>2, <2>2, <3>1, OthersKnow DEF Context, WorkerKnows, UsesSlot, localVars
  <2> QED
    BY <1>9, <2>1, <2>2 DEF Handle
<1>11. ASSUME NEW label, Goto(w, label), UNCHANGED <<wctx, wconn, wmsg, popped, stale>>,
              \A v \in Workers : v # w => luactx'[v] = luactx[v]
       PROVE  /\ wpc'[w] = label
              /\ \A v \in Workers : v # w =>
                    /\ wpc'[v] = wpc[v] /\ wctx'[v] = wctx[v] /\ wconn'[v] = wconn[v]
                    /\ wmsg'[v] = wmsg[v] /\ luactx'[v] = luactx[v] /\ stale'[v] = stale[v]
  BY <1>11 DEF Goto
<1>12. CASE ReadSession(w)
  <2>1. /\ wpc[w] = "session" /\ Goto(w, "client") /\ UNCHANGED <<wctx, wconn, wmsg, popped, stale>>
        /\ luactx'[w].session = session[wconn[w]]
        /\ \A v \in Workers : v # w => luactx'[v] = luactx[v]
    BY <1>12 DEF ReadSession, LuaCtx
  <2>2. ASSUME ~overrun
        PROVE  /\ ~stale[w] /\ wmsg[w] = s_ctxs[wctx[w]] /\ wconn[w] = s_ctxs[wctx[w]].conn
               /\ Live(s_ctxs[wctx[w]])
    <3>1. popped[w] \in Nat /\ popped[w] > 0 /\ wctx[w] \in Slots /\ s_ctxs[wctx[w]].seq # 0
      BY <2>1, ConstantsAssumption DEF SlotInUse, UsesSlot
    <3> QED
      BY <2>1, <2>2, <3>1 DEF Context, WorkerKnows, MessagesLive, UsesSlot
  <2>3. ~overrun => \/ luactx'[w].session = wmsg'[w].session \/ wmsg'[w].session \in closed
    BY <2>1, <2>2 DEF Live
  <2> QED
    BY <1>1, <1>2, <1>11, <2>1, <2>2, <2>3, OthersKnow DEF Context, UsesSlot
<1>13. CASE ReadClient(w)
  <2>1. /\ wpc[w] = "client" /\ Goto(w, "run") /\ UNCHANGED <<wctx, wconn, wmsg, popped, stale>>
        /\ luactx'[w].session = luactx[w].session /\ luactx'[w].conn = s_ctxs[wctx[w]].conn
        /\ \A v \in Workers : v # w => luactx'[v] = luactx[v]
    BY <1>13 DEF ReadClient, LuaCtx
  <2>2. ~overrun => /\ ~stale[w] /\ wmsg[w] = s_ctxs[wctx[w]]
                    /\ \/ luactx[w].session = wmsg[w].session
                       \/ wmsg[w].session \in closed
    BY <2>1 DEF Context, WorkerKnows, UsesSlot
  <2> QED
    BY <1>1, <1>2, <1>11, <2>1, <2>2, OthersKnow DEF Context, UsesSlot
<1>10. CASE Return(w)
  BY <1>2, <1>3, <1>10 DEF Return, Context
<1> QED
  BY <1>4, <1>5, <1>6, <1>7, <1>8, <1>9, <1>10, <1>12, <1>13 DEF Work, Check

LEMMA ContextNext ==
  ASSUME Inv, Ownership, Context, [Next]_vars
  PROVE  Context'
<1>1. CASE ReloadCommand \/ Reload
  <2>1. UNCHANGED <<session, lastSession, closed, s_ctxs, overrun, localVars, dpc, dmsg>>
    BY <1>1 DEF ReloadCommand, Reload, ReloadFlag, ReloadSignal, ringVars, connVars, dispatchVars
  <2>2. \A w \in Workers : wpc'[w] # wpc[w] => wpc'[w] = "top"
    BY <1>1 DEF ReloadCommand, Reload, ReloadFlag, ReloadSignal, WakeUp, Inv, TypeOK,
                ControlTypeOK, ReloadTypeOK
  <2> QED
    BY <2>1, <2>2, LiveKept, KnowledgeKept DEF Context
<1>2. CASE UNCHANGED vars
  BY <1>2, LiveKept, KnowledgeKept DEF Context, vars, ringVars, connVars, dispatchVars
<1> QED
  BY <1>1, <1>2, ContextConn, ContextDispatch, ContextWork DEF Next

\* As long as the ring has lapped no worker, the Lua handler never runs for a message
\* whose client had gone when it was popped, and it is given the connection of the
\* message; the session it is given is the message's one unless that session ended
\* while the worker handled the message.
THEOREM ContextOfPoppedMessage == Spec => []HandlerContext
<1>1. Init => Context
  <2> SUFFICES ASSUME Init PROVE Context
    OBVIOUS
  <2> USE ConstantsAssumption DEF Init
  <2>1. SessionsFresh
    BY DEF SessionsFresh
  <2>2. MessagesLive
    BY DEF MessagesLive, NoMessage
  <2>3. WorkerKnows /\ HandlerContext
    BY DEF WorkerKnows, HandlerContext, UsesSlot
  <2> QED
    BY <2>1, <2>2, <2>3 DEF Context
<1>2. Init => Ownership
  BY ConstantsAssumption DEF Init, Ownership, HasMessage, Left
<1>3. Inv /\ Ownership /\ Context /\ [Next]_vars => Ownership' /\ Context'
  BY OwnershipNext, ContextNext
<1>4. Context => HandlerContext
  BY DEF Context
<1> QED
  BY <1>1, <1>2, <1>3, <1>4, Invariance, PTL DEF Spec
=============================================================================
