------------------------------ MODULE Watchdog ------------------------------
(***************************************************************************)
(* How the gate is controlled and stopped: the watchdog thread with its    *)
(* control connections and commands (gate_watchdog.cpp), the main loop of  *)
(* the gate leaving (gate.cpp), and the main process on Ctrl-C (exit.cpp,  *)
(* server.cpp).                                                            *)
(*                                                                         *)
(* A command is handled inside Recv, that is under the read lock of the    *)
(* connection it came in on; Close takes the write lock.  fl_stop_net_gate_*)
(* server runs in the thread that handles "shutdown" and then in the main  *)
(* loop's thread as well.                                                  *)
(*                                                                         *)
(* The login server's watchdog (login_watchdog.cpp) and its stop have the  *)
(* same code, but for what they close beside: this is their model too.     *)
(*                                                                         *)
(* A peer connects once, and stands for the descriptor of its connection.  *)
(* A Recv delivers a whole message (FrameReader has the pieces).           *)
(***************************************************************************)
EXTENDS Integers

CONSTANTS N,         \* control connections (32)
          Peers,     \* processes that connect to the control port
          Main,      \* the main process, one of them
          NoPeer

ASSUME ConstantsAssumption ==
    /\ N \in Nat \ {0}
    /\ Main \in Peers
    /\ NoPeer \notin Peers

Slots == 0 .. N - 1
Threads == {"loop", "dog"}

VARIABLES
    main,      \* the main process: "start", "loop", "clear", "wait", "exited"
    gate,      \* the gate process: "up", "killed" by a signal, "exited" by itself
    run,       \* gate.cpp's s_run_state
    watch,     \* gate_watchdog.cpp's s_run_state; its socket listens
    at,        \* where each thread of the gate is
    sockfd,    \* of every control connection: the peer, or NoPeer
    ready,     \* the slots select found readable and not yet served
    slot,      \* the slot the watchdog thread serves
    closing,   \* of each thread in fl_stop_net_gate_watchdog_server: its i
    conn,      \* of every peer: "none", "backlog", "open", "lost", "closed"
    inbox,     \* the command it has sent and nobody has read
    gone       \* it has closed its end

gateVars == <<run, watch, at, sockfd, ready, slot, closing>>
peerVars == <<conn, inbox, gone>>
vars == <<main, gate, gateVars, peerVars>>

Init ==
    /\ main = "start" /\ gate = "up"
    /\ run = TRUE /\ watch = TRUE
    /\ at = [t \in Threads |-> IF t = "dog" THEN "select" ELSE "run"]
    /\ sockfd = [s \in Slots |-> NoPeer]
    /\ ready = {} /\ slot = 0
    /\ closing = [t \in Threads |-> 0]
    /\ conn = [p \in Peers |-> "none"]
    /\ inbox = [p \in Peers |-> "none"]
    /\ gone = [p \in Peers |-> FALSE]

Goto(t, label) == at' = [at EXCEPT ![t] = label]

-----------------------------------------------------------------------------
(* The peers.  The main process connects once both servers are started.    *)

Connect(p) ==
    /\ gate = "up" /\ watch
    /\ conn[p] = "none"
    /\ conn' = [conn EXCEPT ![p] = "backlog"]
    /\ IF p = Main THEN main = "start" /\ main' = "loop" ELSE UNCHANGED main
    /\ UNCHANGED <<gate, gateVars, inbox, gone>>

Send(p, command) ==
    IF conn[p] \in {"backlog", "open", "lost"} /\ ~gone[p]
      THEN inbox' = [inbox EXCEPT ![p] = command]
      ELSE UNCHANGED inbox

\* Another process than the main one: "reload_lua_script", "client" and unknown
\* commands are "other", they change nothing here.
Command(p) ==
    /\ p # Main /\ inbox[p] = "none" /\ conn[p] \in {"backlog", "open", "lost"}
    /\ \E c \in {"shutdown", "other"} : Send(p, c)
    /\ UNCHANGED <<main, gate, gateVars, conn, gone>>

HangUp(p) ==
    /\ p # Main /\ conn[p] \in {"backlog", "open", "lost"} /\ ~gone[p]
    /\ gone' = [gone EXCEPT ![p] = TRUE]
    /\ UNCHANGED <<main, gate, gateVars, conn, inbox>>

-----------------------------------------------------------------------------
(* The main process.                                                       *)

\* The gate refuses the connection: fl_main_exit, with no handler of the server.
ConnectFails ==
    /\ main = "start" /\ (gate # "up" \/ ~watch)
    /\ main' = "wait"
    /\ UNCHANGED <<gate, gateVars, peerVars>>

\* Ctrl-C: s_signal_handler calls fl_main_exit.
Interrupt ==
    \/ main = "start" /\ main' = "wait" /\ UNCHANGED <<gate, gateVars, peerVars>>
    \/ main = "loop" /\ main' = "clear" /\ UNCHANGED <<gate, gateVars, peerVars>>

\* s_clear_server
Clear ==
    /\ main = "clear"
    /\ Send(Main, "shutdown")
    /\ main' = "wait"
    /\ UNCHANGED <<gate, gateVars, conn, gone>>

\* A faulty variant of Kill: no signal is sent to the group.
KillNobody == UNCHANGED gate

\* kill(0, SIGTERM), which the gate has not set a handler for.
Kill == gate' = IF gate = "up" THEN "killed" ELSE gate

\* After ten seconds.  Its end of the connection closes, the gate's with the gate.
Exit ==
    /\ main = "wait"
    /\ Kill
    /\ main' = "exited"
    /\ gone' = [gone EXCEPT ![Main] = TRUE]
    /\ conn' = IF gate' = "up" THEN conn ELSE [p \in Peers |-> "closed"]
    /\ UNCHANGED <<gateVars, inbox>>

MainProcess == ConnectFails \/ Clear \/ Exit

-----------------------------------------------------------------------------
(* The watchdog thread.                                                    *)

\* A faulty variant of Watched that begins with the second slot.
WatchedFromOne == {s \in Slots \ {0} : sockfd[s] # NoPeer}

\* The slots whose descriptors are in the set given to select.
Watched == {s \in Slots : sockfd[s] # NoPeer}

Readable(s) == inbox[sockfd[s]] # "none" \/ gone[sockfd[s]]
Backlog == {p \in Peers : conn[p] = "backlog"}

\* select returns; a timeout changes nothing.
Select ==
    /\ at["dog"] = "select" /\ watch
    /\ ready' = {s \in Watched : Readable(s)}
    /\ \/ Backlog # {} /\ Goto("dog", "accept")
       \/ Backlog = {} /\ ready' # {} /\ Goto("dog", "serve")
    /\ UNCHANGED <<main, gate, run, watch, sockfd, slot, closing, peerVars>>

\* Where the search for a free slot ends: at the first one, or behind the last.
SearchEnds(i) ==
    /\ \A s \in Slots : s < i => sockfd[s] # NoPeer
    /\ i \in Slots => sockfd[i] = NoPeer

\* A faulty variant of Found that goes one slot too far.
FoundPastEnd(i) == i <= N

Found(i) == i < N

\* A faulty variant of Place that goes on after the first free slot.
PlaceAgain(i, p) == sockfd' = [s \in Slots |-> IF sockfd[s] = NoPeer THEN p ELSE sockfd[s]]

\* SetSocketInfo
Place(i, p) == sockfd' = [s \in Slots \cup {i} |-> IF s = i THEN p ELSE sockfd[s]]

\* Without a free slot the descriptor is neither kept nor closed.
Accept ==
    /\ at["dog"] = "accept"
    /\ \E p \in Backlog, i \in 0 .. N :
          /\ SearchEnds(i)
          /\ IF Found(i)
               THEN conn' = [conn EXCEPT ![p] = "open"] /\ Place(i, p)
               ELSE conn' = [conn EXCEPT ![p] = "lost"] /\ UNCHANGED sockfd
    /\ Goto("dog", IF ready = {} THEN "select" ELSE "serve")
    /\ UNCHANGED <<main, gate, run, watch, ready, slot, closing, inbox, gone>>

\* The slot is done; selectn counts the ready ones down.
Served(s) ==
    /\ ready' = ready \ {s}
    /\ Goto("dog", IF ready \ {s} = {} THEN "select" ELSE "serve")

\* A command is handled under the read lock.  Recv has returned when it is done,
\* which it never is for a shutdown.
Handle(s) ==
    /\ inbox' = [inbox EXCEPT ![sockfd[s]] = "none"]
    /\ \/ inbox[sockfd[s]] = "other" /\ Served(s) /\ UNCHANGED slot
       \/ /\ inbox[sockfd[s]] = "shutdown"
          /\ slot' = s
          /\ Goto("dog", "stop")
          /\ UNCHANGED ready

\* Recv on the next ready slot: a command, or the peer has gone.
Recv ==
    /\ at["dog"] = "serve"
    /\ \E s \in ready :
          /\ \A u \in ready : s <= u
          /\ \/ Handle(s)
             \/ /\ inbox[sockfd[s]] = "none"
                /\ slot' = s
                /\ Goto("dog", "close")
                /\ UNCHANGED <<ready, inbox>>
    /\ UNCHANGED <<main, gate, run, watch, sockfd, closing, conn, gone>>

\* The watchdog thread is in fl_stop_net_gate_server, inside its Recv.
InHandler == at["dog"] \in {"stop", "stopWatchdog", "closing"}

\* The write lock of a slot is to be had: no thread is inside its Recv.
Lockable(s) == ~(s = slot /\ InHandler)

\* A faulty variant of Close that takes no lock.
CloseUnlocked(s) ==
    /\ sockfd' = [sockfd EXCEPT ![s] = NoPeer]
    /\ conn' = [p \in Peers |-> IF p = sockfd[s] THEN "closed" ELSE conn[p]]

\* fl_connection::Close
Close(s) ==
    /\ Lockable(s)
    /\ sockfd' = [sockfd EXCEPT ![s] = NoPeer]
    /\ conn' = [p \in Peers |-> IF p = sockfd[s] THEN "closed" ELSE conn[p]]

\* Recv has returned false.
CloseGone ==
    /\ at["dog"] = "close"
    /\ Close(slot)
    /\ Served(slot)
    /\ UNCHANGED <<main, gate, run, watch, slot, closing, inbox, gone>>

WatchdogThread == Select \/ Accept \/ Recv \/ CloseGone

-----------------------------------------------------------------------------
(* Stopping, in the watchdog thread and in the main loop's.                *)

\* s_gate_server_loop ends when it finds s_run_state 0.
LeaveLoop ==
    /\ at["loop"] = "run" /\ ~run
    /\ Goto("loop", "stop")
    /\ UNCHANGED <<main, gate, run, watch, sockfd, ready, slot, closing, peerVars>>

\* fl_stop_net_gate_server: close(s_listen_fd), s_run_state = 0.
Stop(t) ==
    /\ at[t] = "stop"
    /\ run' = FALSE
    /\ Goto(t, "stopWatchdog")
    /\ UNCHANGED <<main, gate, watch, sockfd, ready, slot, closing, peerVars>>

\* fl_stop_net_gate_watchdog_server: who waits to be accepted is reset.
StopWatchdog(t) ==
    /\ at[t] = "stopWatchdog"
    /\ watch' = FALSE
    /\ conn' = [p \in Peers |-> IF conn[p] = "backlog" THEN "closed" ELSE conn[p]]
    /\ Goto(t, "closing")
    /\ UNCHANGED <<main, gate, run, sockfd, ready, slot, closing, inbox, gone>>

\* After the last one they are deleted, the game logic is stopped, the clients'
\* connections are closed: _exit.
CloseNext(t) ==
    /\ at[t] = "closing"
    /\ IF closing[t] < N
         THEN /\ Close(closing[t])
              /\ closing' = [closing EXCEPT ![t] = @ + 1]
              /\ UNCHANGED gate
         ELSE /\ gate' = "exited"
              /\ conn' = [p \in Peers |-> "closed"]
              /\ UNCHANGED <<sockfd, closing>>
    /\ UNCHANGED <<main, run, watch, at, ready, slot, inbox, gone>>

StopThread(t) == Stop(t) \/ StopWatchdog(t) \/ CloseNext(t)

Gate == gate = "up" /\ (WatchdogThread \/ LeaveLoop \/ \E t \in Threads : StopThread(t))

Next ==
    \/ \E p \in Peers : Connect(p) \/ Command(p) \/ HangUp(p)
    \/ Interrupt \/ MainProcess
    \/ Gate

Spec == Init /\ [][Next]_vars

\* The threads and the main process are scheduled; peers and the user are free.
FairSpec ==
    /\ Spec
    /\ WF_vars(MainProcess)
    /\ WF_vars(gate = "up" /\ WatchdogThread)
    /\ WF_vars(gate = "up" /\ LeaveLoop)
    /\ \A t \in Threads : WF_vars(gate = "up" /\ StopThread(t))

-----------------------------------------------------------------------------
(* Properties.                                                             *)

\* Every variable has its type.
TypeOK ==
    /\ main \in {"start", "loop", "clear", "wait", "exited"}
    /\ gate \in {"up", "killed", "exited"}
    /\ run \in BOOLEAN /\ watch \in BOOLEAN
    /\ at \in [Threads -> {"select", "accept", "serve", "close", "run",
                           "stop", "stopWatchdog", "closing"}]
    /\ at["dog"] # "run" /\ at["loop"] \notin {"select", "accept", "serve", "close"}
    /\ sockfd \in [Slots -> Peers \cup {NoPeer}]
    /\ ready \subseteq Slots
    /\ slot \in Slots
    /\ closing \in [Threads -> 0 .. N]
    /\ conn \in [Peers -> {"none", "backlog", "open", "lost", "closed"}]
    /\ inbox \in [Peers -> {"none", "shutdown", "other"}]
    /\ gone \in [Peers -> BOOLEAN]

\* While the gate is up, an accepted peer that was not lost has one slot, and a slot
\* has an open descriptor: none is closed twice, forgotten or in two slots.
ControlDescriptorsAccounted ==
    gate = "up" =>
        /\ \A p \in Peers : conn[p] = "open" <=> \E s \in Slots : sockfd[s] = p
        /\ \A s, u \in Slots : s # u /\ sockfd[s] # NoPeer => sockfd[s] # sockfd[u]

\* The connection a shutdown command came in on is not closed under its handler,
\* neither by the handler itself nor by the main loop: both wait before it, and the
\* gate never ends by itself.
StopWaitsForItself ==
    /\ gate = "up" /\ InHandler => sockfd[slot] # NoPeer
    /\ \A t \in Threads : at[t] = "closing" => InHandler /\ closing[t] <= slot
    /\ gate # "exited"

\* A command on a control connection is read, unless the gate is being stopped.
CommandsRead ==
    \A p \in Peers :
        conn[p] = "open" /\ inbox[p] # "none" ~> inbox[p] = "none" \/ InHandler \/ gate # "up"

\* Ctrl-C at the main process ends it and the gate, whatever state the gate is in.
SystemStops == main \in {"clear", "wait"} ~> main = "exited" /\ gate # "up"

\* The notification "shutdown" shuts the gate down.
ShutdownStopsGate == InHandler ~> gate # "up"
=============================================================================
