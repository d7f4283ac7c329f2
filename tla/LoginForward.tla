---------------------------- MODULE LoginForward ----------------------------
(***************************************************************************)
(* The login server's work threads (login.cpp) and how they send to the    *)
(* gate (net.cpp): a thread takes a login request from the queue, drops it *)
(* when its client has gone, and sends a message for it over gate_conn,    *)
(* which all threads share.  Send holds the lock of the connection as a    *)
(* reader, and a message goes out in several calls of send(2).             *)
(***************************************************************************)
EXTENDS Naturals, Sequences

CONSTANTS WorkThreads,   \* two in the code
          Conns,         \* the clients' slots
          NoMsg,
          Pieces,        \* calls of send(2) for a message, the first for its header
          MaxSession,    \* bound: sessions of a slot
          MaxRequests    \* bound: login requests

VARIABLES
    session,    \* of every slot, 0 when closed
    opened,     \* of every slot: its sessions so far
    s_work_msg_queue,
    requests,   \* number of requests so far, which names them
    message,    \* what each work thread has taken
    pc, sent,   \* where it is, and the pieces it has sent
    gate_conn,  \* open or not
    stream      \* what the gate gets on it: <<request, number of the piece>>

vars == <<session, opened, s_work_msg_queue, requests, message, pc, sent, gate_conn, stream>>

Init ==
    /\ session = [c \in Conns |-> 0] /\ opened = [c \in Conns |-> 0]
    /\ s_work_msg_queue = <<>> /\ requests = 0
    /\ message = [w \in WorkThreads |-> NoMsg]
    /\ pc = [w \in WorkThreads |-> "pop"] /\ sent = [w \in WorkThreads |-> 0]
    /\ gate_conn = "open"
    /\ stream = <<>>

workVars == <<message, pc, sent, gate_conn, stream>>

-----------------------------------------------------------------------------
(* The select loop and the read threads, as in GateLoop and FrameReader.   *)

Accept(c) ==
    /\ session[c] = 0 /\ opened[c] < MaxSession
    /\ session' = [session EXCEPT ![c] = opened[c] + 1]
    /\ opened' = [opened EXCEPT ![c] = @ + 1]
    /\ UNCHANGED <<s_work_msg_queue, requests, workVars>>

Close(c) ==
    /\ session[c] # 0
    /\ session' = [session EXCEPT ![c] = 0]
    /\ UNCHANGED <<opened, s_work_msg_queue, requests, workVars>>

\* s_recv_data_callback
Receive(c) ==
    /\ session[c] # 0 /\ requests < MaxRequests
    /\ requests' = requests + 1
    /\ s_work_msg_queue' =
           Append(s_work_msg_queue, [id |-> requests + 1, index |-> c, session |-> session[c]])
    /\ UNCHANGED <<session, opened, workVars>>

-----------------------------------------------------------------------------
(* A work thread.                                                          *)

Done(w) ==
    /\ message' = [message EXCEPT ![w] = NoMsg]
    /\ pc' = [pc EXCEPT ![w] = "pop"]
    /\ sent' = [sent EXCEPT ![w] = 0]

Pop(w) ==
    /\ pc[w] = "pop" /\ s_work_msg_queue # <<>>
    /\ message' = [message EXCEPT ![w] = Head(s_work_msg_queue)]
    /\ s_work_msg_queue' = Tail(s_work_msg_queue)
    /\ pc' = [pc EXCEPT ![w] = "check"]
    /\ UNCHANGED <<session, opened, requests, sent, gate_conn, stream>>

\* The session is compared without a lock.
Check(w) ==
    /\ pc[w] = "check"
    /\ IF session[message[w].index] = message[w].session
         THEN pc' = [pc EXCEPT ![w] = "enter"] /\ UNCHANGED <<message, sent>>
         ELSE Done(w)
    /\ UNCHANGED <<session, opened, s_work_msg_queue, requests, gate_conn, stream>>

\* Send takes the lock as a reader; its result is not looked at.
Enter(w) ==
    /\ pc[w] = "enter"
    /\ IF gate_conn = "open"
         THEN pc' = [pc EXCEPT ![w] = "send"] /\ UNCHANGED <<message, sent>>
         ELSE Done(w)
    /\ UNCHANGED <<session, opened, s_work_msg_queue, requests, gate_conn, stream>>

\* EAGAIN and EINTR only have send(2) called again.
Send(w) ==
    /\ pc[w] = "send"
    /\ stream' = Append(stream, <<message[w].id, sent[w] + 1>>)
    /\ IF sent[w] + 1 < Pieces
         THEN sent' = [sent EXCEPT ![w] = @ + 1] /\ UNCHANGED <<message, pc>>
         ELSE Done(w)
    /\ UNCHANGED <<session, opened, s_work_msg_queue, requests, gate_conn>>

\* send(2) gives 0 or an error: what has gone out of the message stays on the stream,
\* and s_login_send_message_to_gate tells nobody.
SendFails(w) ==
    /\ pc[w] = "send"
    /\ Done(w)
    /\ UNCHANGED <<session, opened, s_work_msg_queue, requests, gate_conn, stream>>

\* fl_stop_login_server closes gate_conn, under its write lock.
CloseGateConn ==
    /\ gate_conn = "open"
    /\ \A w \in WorkThreads : pc[w] # "send"
    /\ gate_conn' = "closed"
    /\ UNCHANGED <<session, opened, s_work_msg_queue, requests, message, pc, sent, stream>>

Next ==
    \/ \E c \in Conns : Accept(c) \/ Close(c) \/ Receive(c)
    \/ \E w \in WorkThreads : Pop(w) \/ Check(w) \/ Enter(w) \/ Send(w) \/ SendFails(w)
    \/ CloseGateConn

Spec == Init /\ [][Next]_vars

-----------------------------------------------------------------------------
\* The gate gets messages: every piece behind the header of a message comes right
\* after the piece before it.
GateStreamIsFrames ==
    \A k \in 1 .. Len(stream) :
        stream[k][2] # 1 => /\ k > 1
                            /\ stream[k - 1] = <<stream[k][1], stream[k][2] - 1>>
=============================================================================
