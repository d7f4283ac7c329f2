----------------------------- MODULE GameLogic -----------------------------
(***************************************************************************)
(* The work threads of the gate process (gamelogic.cpp).  A read thread    *)
(* that has received a whole message calls fl_dispatch_message, which      *)
(* stores it in the next slot of the ring s_ctxs, queues the slot, and     *)
(* wakes a work thread that looks idle.  A work thread pops slots, drops   *)
(* the messages of connections that are gone, hands the others to Lua, and *)
(* sleeps on its condition variable when it finds the queue empty.  The    *)
(* watchdog thread may ask every work thread to reload its Lua script.     *)
(*                                                                         *)
(* What runs under s_dispatch_message_lock, under one thread's             *)
(* s_work_thread_lock or under the queue's mutex is one step; every        *)
(* access made outside those locks to something another thread writes is   *)
(* a step of its own.                                                      *)
(***************************************************************************)
EXTENDS Integers, Sequences

LOCAL INSTANCE TLC

CONSTANTS WORK_THREAD_NUM,  \* number of work threads (4 in the code)
          MAX_CTX_LENGTH,   \* slots of the ring s_ctxs (102400 in the code)
          ReadThreads,      \* the threads that call fl_dispatch_message
          Conns,            \* the client connections, elements of s_connections
          NoConn,           \* what a slot never written holds
          MaxMsgs,          \* bound: no message is received after this many were queued
          MaxSessions,      \* bound: sessions handed out
          MaxReloads        \* bound: reload commands

ASSUME ConstantsAssumption ==
    /\ WORK_THREAD_NUM \in Nat \ {0}
    /\ MAX_CTX_LENGTH \in Nat \ {0}
    /\ MaxMsgs \in Nat /\ MaxSessions \in Nat /\ MaxReloads \in Nat
    /\ NoConn \notin Conns

Workers == 0 .. WORK_THREAD_NUM - 1
Slots == 0 .. MAX_CTX_LENGTH - 1

\* A message as a work thread sees it: the connection it indexes, the session
\* it was received in, and its number in the order of dispatch (history only).
Message == [seq: Nat, conn: Conns \cup {NoConn}, session: Nat]
NoMessage == [seq |-> 0, conn |-> NoConn, session |-> 0]

\* What fl_run_lua_handle is told of the client: whom to answer, and in which session.
LuaCtx == [conn: Conns \cup {NoConn}, session: Nat]
NoLuaCtx == [conn |-> NoConn, session |-> 0]

VARIABLES
    s_ctxs,                     \* the ring: the message each slot points to
    s_ctx_pos,                  \* the slot the next dispatch writes
    s_work_msg_queue,           \* the queued slots
    s_work_thread_busy,         \* what the dispatcher believes of each worker
    s_work_script_reload_flag,
    session,                    \* session of each connection, 0 when closed
    lastSession,                \* the main loop's session counter
    dpc, dmsg, di,              \* read threads inside fl_dispatch_message
    rpc, ri,                    \* the watchdog thread inside fl_reload_lua_script
    wpc, wctx, wconn, wmsg,     \* work threads and their locals
    luactx,                     \* the context given to fl_run_lua_handle
    script,                     \* reload commands so far: the script on disk
    tried,                      \* script of each worker's last luaL_dofile
    \* History, for the properties only:
    enqueued,                   \* messages queued so far
    popped,                     \* number of the message each worker popped last
    freed, freedTwice,          \* messages freed, messages freed again
    closed,                     \* sessions that are over
    stale,                      \* popped a message whose session was over
    overrun                     \* a slot was rewritten while a worker used it

ringVars == <<s_ctxs, s_ctx_pos, s_work_msg_queue, enqueued, overrun>>
connVars == <<session, lastSession, closed>>
dispatchVars == <<dpc, dmsg, di>>
reloadVars == <<rpc, ri, script>>
flagVars == <<s_work_script_reload_flag, tried>>
freeVars == <<freed, freedTwice>>
localVars == <<wctx, wconn, wmsg, luactx, popped, stale>>

vars == <<ringVars, connVars, dispatchVars, reloadVars, flagVars, freeVars,
          localVars, wpc, s_work_thread_busy>>

Init ==
    /\ s_ctxs = [s \in Slots |-> NoMessage]
    /\ s_ctx_pos = 0
    /\ s_work_msg_queue = <<>>
    /\ s_work_thread_busy = [w \in Workers |-> FALSE]
    /\ s_work_script_reload_flag = [w \in Workers |-> FALSE]
    /\ session = [c \in Conns |-> 0]
    /\ lastSession = 0
    /\ dpc = [r \in ReadThreads |-> "idle"]
    /\ dmsg = [r \in ReadThreads |-> NoMessage]
    /\ di = [r \in ReadThreads |-> 0]
    /\ rpc = "idle"
    /\ ri = 0
    /\ wpc = [w \in Workers |-> "top"]
    /\ wctx = [w \in Workers |-> 0]
    /\ wconn = [w \in Workers |-> NoConn]
    /\ wmsg = [w \in Workers |-> NoMessage]
    /\ luactx = [w \in Workers |-> NoLuaCtx]
    /\ script = 0
    /\ tried = [w \in Workers |-> 0]
    /\ enqueued = 0
    /\ popped = [w \in Workers |-> 0]
    /\ freed = {} /\ freedTwice = {}
    /\ closed = {}
    /\ stale = [w \in Workers |-> FALSE]
    /\ overrun = FALSE

-----------------------------------------------------------------------------
(* Connections, as far as the work threads see them.                       *)

\* The main loop accepts a client into a closed slot (SetSocketInfo).
AcceptConn(c) ==
    /\ session[c] = 0
    /\ lastSession < MaxSessions
    /\ \A r \in ReadThreads : dpc[r] # "idle" => dmsg[r].conn # c
    /\ lastSession' = lastSession + 1
    /\ session' = [session EXCEPT ![c] = lastSession + 1]
    /\ UNCHANGED <<ringVars, dispatchVars, reloadVars, flagVars, freeVars,
                   localVars, wpc, s_work_thread_busy, closed>>

\* A read thread's Recv failed and it closes the connection.  Close takes the
\* write lock, so no other read thread is inside Recv of c, callback included.
CloseConn(r, c) ==
    /\ dpc[r] = "idle"
    /\ session[c] # 0
    /\ \A q \in ReadThreads : dpc[q] # "idle" => dmsg[q].conn # c
    /\ session' = [session EXCEPT ![c] = 0]
    /\ closed' = closed \cup {session[c]}
    /\ UNCHANGED <<ringVars, dispatchVars, reloadVars, flagVars, freeVars,
                   localVars, wpc, s_work_thread_busy, lastSession>>

\* Recv completes a message and calls back into fl_dispatch_message.
Receive(r, c) ==
    /\ dpc[r] = "idle"
    /\ session[c] # 0
    /\ enqueued < MaxMsgs
    /\ dmsg' = [dmsg EXCEPT ![r] =
                    [seq |-> 0, conn |-> c, session |-> session[c]]]
    /\ dpc' = [dpc EXCEPT ![r] = "enqueue"]
    /\ UNCHANGED <<ringVars, connVars, reloadVars, flagVars, freeVars,
                   localVars, wpc, s_work_thread_busy, di>>

-----------------------------------------------------------------------------
(* fl_dispatch_message.                                                    *)

\* A worker between its pop and its last use of the slot it popped: ctx->conn
\* is read once more just before the Lua handler runs.
UsesSlot(w) == wpc[w] \in {"conn", "message", "check", "handle", "session", "client"}

\* A worker between its pop and the free of the message.
HasMessage(w) == wpc[w] \in {"conn", "message", "check", "handle"}

\* Faulty variants of NextPos: the wrap one slot late, and one slot early.
NextPosLate(p) == IF p + 1 > MAX_CTX_LENGTH THEN 0 ELSE p + 1
NextPosEarly(p) == IF p + 2 >= MAX_CTX_LENGTH THEN 0 ELSE p + 1

NextPos(p) == IF p + 1 >= MAX_CTX_LENGTH THEN 0 ELSE p + 1

\* A faulty variant of HasRoom, one too many.
HasRoomForOneMore == Len(s_work_msg_queue) <= MAX_CTX_LENGTH

HasRoom == Len(s_work_msg_queue) < MAX_CTX_LENGTH

Push(m) ==
    /\ s_ctxs' = [s_ctxs EXCEPT ![s_ctx_pos] = m]
    /\ s_ctx_pos' = NextPos(s_ctx_pos)
    /\ s_work_msg_queue' = Append(s_work_msg_queue, s_ctx_pos)
    /\ enqueued' = m.seq
    /\ overrun' = (overrun \/ \E w \in Workers : UsesSlot(w) /\ wctx[w] = s_ctx_pos)

\* The section under s_dispatch_message_lock.  A message that finds the queue
\* full is freed, and the scan for an idle worker runs all the same.
Enqueue(r) ==
    /\ dpc[r] = "enqueue"
    /\ IF HasRoom
         THEN Push([dmsg[r] EXCEPT !.seq = enqueued + 1])
         ELSE UNCHANGED ringVars
    /\ dpc' = [dpc EXCEPT ![r] = "scan"]
    /\ di' = [di EXCEPT ![r] = 0]
    /\ UNCHANGED <<connVars, reloadVars, flagVars, freeVars, localVars, wpc,
                   s_work_thread_busy, dmsg>>

\* fl_dispatch_message returns, and Recv lets go of the connection's lock.
Returned(r) ==
    /\ dpc' = [dpc EXCEPT ![r] = "idle"]
    /\ dmsg' = [dmsg EXCEPT ![r] = NoMessage]
    /\ di' = [di EXCEPT ![r] = 0]

\* One iteration of the scan: an unlocked read of s_work_thread_busy[i].
Scan(r) ==
    /\ dpc[r] = "scan"
    /\ \/ /\ di[r] = WORK_THREAD_NUM
          /\ Returned(r)
       \/ /\ di[r] < WORK_THREAD_NUM
          /\ s_work_thread_busy[di[r]]
          /\ di' = [di EXCEPT ![r] = di[r] + 1]
          /\ UNCHANGED <<dpc, dmsg>>
       \/ /\ di[r] < WORK_THREAD_NUM
          /\ ~s_work_thread_busy[di[r]]
          /\ dpc' = [dpc EXCEPT ![r] = "signal"]
          /\ UNCHANGED <<dmsg, di>>
    /\ UNCHANGED <<ringVars, connVars, reloadVars, flagVars, freeVars, localVars,
                   wpc, s_work_thread_busy>>

\* A faulty variant of WakeUp that marks the worker busy and signals nobody.
WakeUpUnsignalled(w) ==
    /\ s_work_thread_busy' = [s_work_thread_busy EXCEPT ![w] = TRUE]
    /\ UNCHANGED wpc

\* busy = true and pthread_cond_signal, under the worker's lock.  A signal
\* that finds nobody waiting is lost.
WakeUp(w) ==
    /\ s_work_thread_busy' = [s_work_thread_busy EXCEPT ![w] = TRUE]
    /\ wpc' = IF wpc[w] = "wait" THEN [wpc EXCEPT ![w] = "top"] ELSE wpc

Signal(r) ==
    /\ dpc[r] = "signal"
    /\ WakeUp(di[r])
    /\ Returned(r)
    /\ UNCHANGED <<ringVars, connVars, reloadVars, flagVars, freeVars, localVars>>

-----------------------------------------------------------------------------
(* fl_reload_lua_script, called by the watchdog thread.                    *)

\* The operator has put a new script on disk and sends the command.
ReloadCommand ==
    /\ rpc = "idle"
    /\ script < MaxReloads
    /\ script' = script + 1
    /\ rpc' = "flag"
    /\ ri' = 0
    /\ UNCHANGED <<ringVars, connVars, dispatchVars, flagVars, freeVars,
                   localVars, wpc, s_work_thread_busy>>

\* A faulty variant of ReloadFlag that tells only the workers that look idle.
ReloadFlagIdle ==
    /\ rpc = "flag"
    /\ s_work_script_reload_flag' = [s_work_script_reload_flag EXCEPT ![ri] = ~s_work_thread_busy[ri]]
    /\ rpc' = "signal"
    /\ UNCHANGED <<ringVars, connVars, dispatchVars, freeVars, localVars, wpc,
                   s_work_thread_busy, ri, script, tried>>

\* The flag is set before the worker's lock is taken.
ReloadFlag ==
    /\ rpc = "flag"
    /\ s_work_script_reload_flag' = [s_work_script_reload_flag EXCEPT ![ri] = TRUE]
    /\ rpc' = "signal"
    /\ UNCHANGED <<ringVars, connVars, dispatchVars, freeVars, localVars, wpc,
                   s_work_thread_busy, ri, script, tried>>

ReloadSignal ==
    /\ rpc = "signal"
    /\ WakeUp(ri)
    /\ ri' = ri + 1
    /\ rpc' = IF ri + 1 = WORK_THREAD_NUM THEN "idle" ELSE "flag"
    /\ UNCHANGED <<ringVars, connVars, dispatchVars, flagVars, freeVars,
                   localVars, script>>

-----------------------------------------------------------------------------
(* s_work_thread.                                                          *)

Goto(w, label) == wpc' = [wpc EXCEPT ![w] = label]

\* Back to the top of the loop.  The locals are dead there, so they take their
\* initial values: states that differ only in them are the same state.
NextIteration(w) ==
    /\ Goto(w, "top")
    /\ wctx' = [wctx EXCEPT ![w] = 0]
    /\ wconn' = [wconn EXCEPT ![w] = NoConn]
    /\ wmsg' = [wmsg EXCEPT ![w] = NoMessage]
    /\ luactx' = [luactx EXCEPT ![w] = NoLuaCtx]
    /\ popped' = [popped EXCEPT ![w] = 0]
    /\ stale' = [stale EXCEPT ![w] = FALSE]

Free(m) ==
    /\ freed' = freed \cup {m.seq}
    /\ freedTwice' = IF m.seq \in freed THEN freedTwice \cup {m.seq} ELSE freedTwice

\* The reload flag is cleared before the script is read.
Top(w) ==
    /\ wpc[w] = "top"
    /\ IF s_work_script_reload_flag[w]
         THEN /\ s_work_script_reload_flag' = [s_work_script_reload_flag EXCEPT ![w] = FALSE]
              /\ Goto(w, "load")
         ELSE /\ UNCHANGED s_work_script_reload_flag
              /\ Goto(w, "pop")
    /\ UNCHANGED <<ringVars, connVars, dispatchVars, reloadVars, freeVars,
                   localVars, s_work_thread_busy, tried>>

\* luaL_dofile on a fresh state: success replaces the worker's Lua state and
\* failure keeps it, which no other thread can see.
Load(w) ==
    /\ wpc[w] = "load"
    /\ tried' = [tried EXCEPT ![w] = script]
    /\ Goto(w, "pop")
    /\ UNCHANGED <<ringVars, connVars, dispatchVars, reloadVars, freeVars,
                   localVars, s_work_thread_busy, s_work_script_reload_flag>>

Pop(w) ==
    /\ wpc[w] = "pop"
    /\ IF s_work_msg_queue = <<>>
         THEN /\ Goto(w, "sleep")
              /\ UNCHANGED <<s_work_msg_queue, wctx, popped, stale>>
         ELSE LET slot == Head(s_work_msg_queue) IN
              /\ s_work_msg_queue' = Tail(s_work_msg_queue)
              /\ wctx' = [wctx EXCEPT ![w] = slot]
              /\ popped' = [popped EXCEPT ![w] = s_ctxs[slot].seq]
              /\ stale' = [stale EXCEPT ![w] = s_ctxs[slot].session \in closed]
              /\ Goto(w, "conn")
    /\ UNCHANGED <<connVars, dispatchVars, reloadVars, flagVars, freeVars,
                   s_work_thread_busy, s_ctxs, s_ctx_pos, enqueued, overrun,
                   wconn, wmsg, luactx>>

\* busy = true, then conn = ctx->conn, a pointer that ctx->message determines.
ReadConn(w) ==
    /\ wpc[w] = "conn"
    /\ s_work_thread_busy' = [s_work_thread_busy EXCEPT ![w] = TRUE]
    /\ wconn' = [wconn EXCEPT ![w] = s_ctxs[wctx[w]].conn]
    /\ Goto(w, "message")
    /\ UNCHANGED <<ringVars, connVars, dispatchVars, reloadVars, flagVars,
                   freeVars, wctx, wmsg, luactx, popped, stale>>

ReadMessage(w) ==
    /\ wpc[w] = "message"
    /\ wmsg' = [wmsg EXCEPT ![w] = s_ctxs[wctx[w]]]
    /\ Goto(w, "check")
    /\ UNCHANGED <<ringVars, connVars, dispatchVars, reloadVars, flagVars,
                   freeVars, s_work_thread_busy, wctx, wconn, luactx, popped, stale>>

\* A faulty variant of IsStale that lets every message through.
NeverStale(w) == FALSE

\* conn->GetSession() # message->session
IsStale(w) == session[wconn[w]] # wmsg[w].session

\* A faulty variant of Check without the continue after the free.
CheckWithoutContinue(w) ==
    /\ wpc[w] = "check"
    /\ IF IsStale(w) THEN Free(wmsg[w]) ELSE UNCHANGED freeVars
    /\ Goto(w, "handle")
    /\ UNCHANGED <<ringVars, connVars, dispatchVars, reloadVars, flagVars,
                   localVars, s_work_thread_busy>>

\* The client that sent the message is gone: free it and go on.
Check(w) ==
    /\ wpc[w] = "check"
    /\ IF IsStale(w)
         THEN Free(wmsg[w]) /\ NextIteration(w)
         ELSE Goto(w, "handle") /\ UNCHANGED <<freeVars, localVars>>
    /\ UNCHANGED <<ringVars, connVars, dispatchVars, reloadVars, flagVars,
                   s_work_thread_busy>>

\* The content is copied and the message freed.  A message of protocol 0 goes
\* no further.
Handle(w) ==
    /\ wpc[w] = "handle"
    /\ Free(wmsg[w])
    /\ \/ NextIteration(w)
       \/ Goto(w, "session") /\ UNCHANGED localVars
    /\ UNCHANGED <<ringVars, connVars, dispatchVars, reloadVars, flagVars,
                   s_work_thread_busy>>

\* luactx.session = conn->GetSession(), which may have changed since the check.
ReadSession(w) ==
    /\ wpc[w] = "session"
    /\ luactx' = [luactx EXCEPT ![w].session = session[wconn[w]]]
    /\ Goto(w, "client")
    /\ UNCHANGED <<ringVars, connVars, dispatchVars, reloadVars, flagVars, freeVars,
                   s_work_thread_busy, wctx, wconn, wmsg, popped, stale>>

\* luactx.conn = ctx->conn: the slot is read again.
ReadClient(w) ==
    /\ wpc[w] = "client"
    /\ luactx' = [luactx EXCEPT ![w].conn = s_ctxs[wctx[w]].conn]
    /\ Goto(w, "run")
    /\ UNCHANGED <<ringVars, connVars, dispatchVars, reloadVars, flagVars, freeVars,
                   s_work_thread_busy, wctx, wconn, wmsg, popped, stale>>

\* fl_run_lua_handle returns.
Return(w) ==
    /\ wpc[w] = "run"
    /\ NextIteration(w)
    /\ UNCHANGED <<ringVars, connVars, dispatchVars, reloadVars, flagVars,
                   freeVars, s_work_thread_busy>>

\* A faulty variant of Sleep that forgets to say so.
SleepUnnoticed(w) ==
    /\ wpc[w] = "sleep"
    /\ Goto(w, "wait")
    /\ UNCHANGED <<ringVars, connVars, dispatchVars, reloadVars, flagVars,
                   freeVars, localVars, s_work_thread_busy>>

\* busy = false and pthread_cond_wait, under the worker's own lock.  Nothing
\* looks at the queue or at the reload flag again before waiting.
Sleep(w) ==
    /\ wpc[w] = "sleep"
    /\ s_work_thread_busy' = [s_work_thread_busy EXCEPT ![w] = FALSE]
    /\ Goto(w, "wait")
    /\ UNCHANGED <<ringVars, connVars, dispatchVars, reloadVars, flagVars,
                   freeVars, localVars>>

\* pthread_cond_wait may return without a signal.
SpuriousWakeUp(w) ==
    /\ wpc[w] = "wait"
    /\ Goto(w, "top")
    /\ UNCHANGED <<ringVars, connVars, dispatchVars, reloadVars, flagVars,
                   freeVars, localVars, s_work_thread_busy>>

Work(w) == \/ Top(w) \/ Load(w) \/ Pop(w) \/ ReadConn(w) \/ ReadMessage(w)
           \/ Check(w) \/ Handle(w) \/ ReadSession(w) \/ ReadClient(w)
           \/ Return(w) \/ Sleep(w)

Dispatch(r) == Enqueue(r) \/ Scan(r) \/ Signal(r)

Reload == ReloadFlag \/ ReloadSignal

Next ==
    \/ \E c \in Conns : AcceptConn(c)
    \/ \E r \in ReadThreads, c \in Conns : CloseConn(r, c) \/ Receive(r, c)
    \/ \E r \in ReadThreads : Dispatch(r)
    \/ ReloadCommand \/ Reload
    \/ \E w \in Workers : Work(w) \/ SpuriousWakeUp(w)

Spec == Init /\ [][Next]_vars

\* A thread that can take a step of its own eventually takes it; clients,
\* operators and spurious wake-ups are not owed to anybody.
Fairness ==
    /\ \A r \in ReadThreads : WF_vars(Dispatch(r))
    /\ \A w \in Workers : WF_vars(Work(w))
    /\ WF_vars(Reload)

FairSpec == Spec /\ Fairness

-----------------------------------------------------------------------------
(* Properties.                                                             *)

RingTypeOK ==
    /\ s_ctxs \in [Slots -> Message]
    /\ s_ctx_pos \in Slots
    /\ s_work_msg_queue \in Seq(Slots)
    /\ enqueued \in Nat
    /\ overrun \in BOOLEAN

ConnTypeOK ==
    /\ session \in [Conns -> Nat]
    /\ lastSession \in Nat
    /\ closed \subseteq Nat

DispatchTypeOK ==
    /\ dpc \in [ReadThreads -> {"idle", "enqueue", "scan", "signal"}]
    /\ dmsg \in [ReadThreads -> Message]
    /\ di \in [ReadThreads -> 0 .. WORK_THREAD_NUM]
    /\ \A r \in ReadThreads : dpc[r] = "signal" => di[r] \in Workers
    /\ \A r \in ReadThreads : dpc[r] = "enqueue" => dmsg[r].conn \in Conns

ReloadTypeOK ==
    /\ rpc \in {"idle", "flag", "signal"}
    /\ ri \in 0 .. WORK_THREAD_NUM
    /\ rpc # "idle" => ri \in Workers
    /\ script \in Nat

FlagTypeOK ==
    /\ s_work_script_reload_flag \in [Workers -> BOOLEAN]
    /\ tried \in [Workers -> Nat]

FreeTypeOK == freed \subseteq Nat /\ freedTwice \subseteq Nat

LocalTypeOK ==
    /\ wctx \in [Workers -> Slots]
    /\ wconn \in [Workers -> Conns \cup {NoConn}]
    /\ wmsg \in [Workers -> Message]
    /\ luactx \in [Workers -> LuaCtx]
    /\ popped \in [Workers -> Nat]
    /\ stale \in [Workers -> BOOLEAN]

ControlTypeOK ==
    /\ s_work_thread_busy \in [Workers -> BOOLEAN]
    /\ wpc \in [Workers -> {"top", "load", "pop", "conn", "message", "check",
                            "handle", "session", "client", "run", "sleep", "wait"}]

\* Every variable has its type: no index leaves the ring, no scan looks past
\* the last worker, and what the scan signals is a worker.
TypeOK ==
    /\ RingTypeOK /\ ConnTypeOK /\ DispatchTypeOK /\ ReloadTypeOK
    /\ FlagTypeOK /\ FreeTypeOK /\ LocalTypeOK /\ ControlTypeOK

\* The slot written d dispatches ago.
Behind(d) == IF d <= s_ctx_pos THEN s_ctx_pos - d
                               ELSE s_ctx_pos - d + MAX_CTX_LENGTH

\* The queue is a contiguous segment of the ring that ends just before
\* s_ctx_pos, in the order of dispatch: a dispatch that finds room never writes
\* a slot whose message still waits in the queue.
QueueIsRingSegment ==
    LET n == Len(s_work_msg_queue) IN
    /\ n <= MAX_CTX_LENGTH
    /\ n <= enqueued
    /\ \A k \in 1 .. n :
          /\ s_work_msg_queue[k] = Behind(n - k + 1)
          /\ s_ctxs[s_work_msg_queue[k]].seq = enqueued - (n - k)

\* A slot a worker has popped but not finished reading is not protected by
\* anything, yet what it holds is the popped message until the dispatchers have
\* gone all the way round the ring behind the worker's back.
ReusedOnlyAfterALap ==
    \A w \in Workers : UsesSlot(w) =>
        LET now == s_ctxs[wctx[w]].seq IN
        now = popped[w] \/ now >= popped[w] + MAX_CTX_LENGTH

\* A worker asleep on its condition variable is never taken for a busy one by
\* fl_dispatch_message, which would not signal it.
SleepersLookIdle ==
    \A w \in Workers : wpc[w] = "wait" => ~s_work_thread_busy[w]

\* As long as no worker is overtaken by a lap, every message queued has exactly
\* one owner: the queue, one worker, or nobody once it is freed.  None is freed
\* twice and none is lost.
OneOwner ==
    ~overrun =>
        /\ freedTwice = {}
        /\ \A v, w \in Workers : v # w /\ HasMessage(v) /\ HasMessage(w) => popped[v] # popped[w]
        /\ LET held == {popped[w] : w \in {v \in Workers : HasMessage(v)}}
               queued == (enqueued - Len(s_work_msg_queue) + 1) .. enqueued
           IN /\ held \cap freed = {}
              /\ freed \cap queued = {}
              /\ held \cap queued = {}
              /\ held \cup freed \cup queued = 1 .. enqueued

\* The Lua handler never runs for a message whose client had gone when the message
\* was popped, and is told to answer to the message's own connection.  The session
\* it is told is the message's own as long as that one lasts: read again after the
\* check (gamelogic.cpp:207), it is another one, or 0, when the client goes between.
\* Nothing is promised of a worker that the ring has lapped.
HandlerContext ==
    \A w \in Workers : wpc[w] = "run" /\ ~overrun =>
        /\ ~stale[w]
        /\ luactx[w].conn = wmsg[w].conn
        /\ \/ luactx[w].session = wmsg[w].session
           \/ wmsg[w].session \in closed

\* A reload command is never forgotten by a worker, however the flag, the
\* loading of the script and further commands interleave: the worker has tried
\* the newest script, or is about to, or its flag is up, or will be.
ReloadNotForgotten ==
    \A w \in Workers :
        \/ tried[w] = script
        \/ s_work_script_reload_flag[w]
        \/ wpc[w] = "load"
        \/ rpc = "flag" /\ ri <= w
        \/ rpc = "signal" /\ ri < w

\* The message a worker that has one would find in the slot it uses.
InUse == [w \in Workers |-> IF HasMessage(w) THEN s_ctxs[wctx[w]].seq ELSE 0]

Queue == INSTANCE WorkQueue
    WITH accepted <- enqueued, handedOut <- enqueued - Len(s_work_msg_queue),
         held <- InUse, done <- freed, lapped <- overrun

\* Ring, queue and work threads implement WorkQueue: as long as no worker is
\* lapped, messages reach the workers in the order of dispatch, each reaches
\* one worker and is freed once, by the worker that has it.
ImplementsWorkQueue == Queue!Spec

AllAsleep == \A w \in Workers : wpc[w] = "wait"

\* A dispatch that begins its scan while every worker is asleep gets the whole
\* queue handled, its own message and any that was stuck before.
DispatchDrains ==
    (AllAsleep /\ \E r \in ReadThreads : dpc[r] = "scan" /\ di[r] = 0)
        ~> (s_work_msg_queue = <<>>)

\* "wake up work thread" (gamelogic.cpp): when a dispatch is over, a message is
\* not left in the queue with every worker asleep.
DispatchWakesWorker ==
    s_work_msg_queue # <<>> /\ AllAsleep =>
        \E r \in ReadThreads : dpc[r] # "idle"

-----------------------------------------------------------------------------
\* Read threads are alike, for TLC.
Symmetry == Permutations(ReadThreads)
=============================================================================
