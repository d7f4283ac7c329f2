--------------------------- MODULE WatchdogProofs ---------------------------
(***************************************************************************)
(* That no control descriptor is lost from its slot or closed twice, and   *)
(* that a stop never gets past the connection it came in on, for any       *)
(* number of control connections and peers.                                *)
(***************************************************************************)
EXTENDS Watchdog, TLAPS

\* What select found readable is still there when it is served.
ReadyWatched == at["dog"] \in {"accept", "serve", "close"} => \A s \in ready : sockfd[s] # NoPeer

\* The gate is stopped by the handler first, and by the main loop after it.
StopOrder ==
    /\ ~run => InHandler
    /\ at["loop"] # "run" => ~run
    /\ \A t \in Threads : at[t] # "closing" => closing[t] = 0

Inv == /\ TypeOK
       /\ ControlDescriptorsAccounted
       /\ StopWaitsForItself
       /\ ReadyWatched
       /\ StopOrder

\* The gate as it is started satisfies the invariant.
LEMMA InitInv == Init => Inv
<1> SUFFICES ASSUME Init PROVE Inv
  OBVIOUS
<1>1. TypeOK
  BY ConstantsAssumption DEF Init, TypeOK, Threads, Slots
<1>2. ControlDescriptorsAccounted
  BY ConstantsAssumption DEF Init, ControlDescriptorsAccounted
<1>3. StopWaitsForItself /\ ReadyWatched /\ StopOrder
  BY DEF Init, StopWaitsForItself, ReadyWatched, StopOrder, InHandler, Threads
<1> QED
  BY <1>1, <1>2, <1>3 DEF Inv

-----------------------------------------------------------------------------
(* The peers and the main process.                                         *)

\* A peer's step changes the peer's side of a connection only.
LEMMA PeerInv ==
    ASSUME Inv, NEW p \in Peers, Connect(p) \/ Command(p) \/ HangUp(p)
    PROVE  Inv'
<1>1. /\ TypeOK /\ UNCHANGED <<gate, gateVars>>
      /\ main' \in {"start", "loop", "clear", "wait", "exited"}
      /\ inbox' \in [Peers -> {"none", "shutdown", "other"}]
      /\ gone' \in [Peers -> BOOLEAN]
  BY DEF Inv, TypeOK, Connect, Command, HangUp, Send
<1>2. \/ UNCHANGED conn
      \/ conn[p] = "none" /\ conn' = [conn EXCEPT ![p] = "backlog"]
  BY DEF Connect, Command, HangUp
<1>3. TypeOK'
  BY <1>1, <1>2 DEF TypeOK, gateVars
<1>4. ControlDescriptorsAccounted'
  BY <1>1, <1>2 DEF Inv, TypeOK, ControlDescriptorsAccounted, gateVars
<1>5. (StopWaitsForItself /\ ReadyWatched /\ StopOrder)'
  BY <1>1 DEF Inv, StopWaitsForItself, ReadyWatched, StopOrder, InHandler, gateVars
<1> QED
  BY <1>3, <1>4, <1>5 DEF Inv

\* The main process ends the gate from outside only.
LEMMA MainInv ==
    ASSUME Inv, Interrupt \/ MainProcess
    PROVE  Inv'
<1>1. /\ TypeOK /\ UNCHANGED gateVars
      /\ main' \in {"start", "loop", "clear", "wait", "exited"}
      /\ inbox' \in [Peers -> {"none", "shutdown", "other"}]
      /\ gone' \in [Peers -> BOOLEAN]
  BY ConstantsAssumption DEF Inv, TypeOK, Interrupt, MainProcess, ConnectFails, Clear, Exit, Send, peerVars
<1>2. \/ gate' = gate /\ conn' = conn
      \/ gate' = "killed" /\ conn' = [q \in Peers |-> "closed"]
      \/ gate' = gate /\ gate # "up" /\ conn' = [q \in Peers |-> "closed"]
  BY <1>1 DEF TypeOK, Interrupt, MainProcess, ConnectFails, Clear, Exit, Kill, peerVars
<1>3. TypeOK'
  BY <1>1, <1>2 DEF TypeOK, gateVars
<1>4. ControlDescriptorsAccounted'
  BY <1>1, <1>2 DEF Inv, ControlDescriptorsAccounted, gateVars
<1>5. (StopWaitsForItself /\ ReadyWatched /\ StopOrder)'
  BY <1>1, <1>2 DEF Inv, StopWaitsForItself, ReadyWatched, StopOrder, InHandler, gateVars
<1> QED
  BY <1>3, <1>4, <1>5 DEF Inv

-----------------------------------------------------------------------------
(* The watchdog thread.                                                    *)

\* While the watchdog thread is not in a handler nobody stops the gate.
LEMMA NotStopping ==
    ASSUME Inv, ~InHandler
    PROVE  at["loop"] = "run" /\ run /\ \A t \in Threads : at[t] # "closing" /\ closing[t] = 0
  BY DEF Inv, TypeOK, StopWaitsForItself, StopOrder, Threads

LEMMA SelectInv ==
    ASSUME Inv, Select
    PROVE  Inv'
<1>1. /\ TypeOK /\ at["dog"] = "select"
      /\ ready' = {s \in Watched : Readable(s)}
      /\ at' = [at EXCEPT !["dog"] = "accept"] \/ at' = [at EXCEPT !["dog"] = "serve"]
      /\ UNCHANGED <<main, gate, run, watch, sockfd, slot, closing, conn, inbox, gone>>
  BY DEF Inv, Select, Goto, peerVars
<1>2. ~InHandler /\ ~InHandler'
  BY <1>1 DEF InHandler, TypeOK, Threads
<1>3. ready' \subseteq Slots /\ \A s \in ready' : sockfd[s] # NoPeer
  BY <1>1 DEF Watched
<1>4. TypeOK'
  BY <1>1, <1>3 DEF TypeOK, Threads
<1>5. ControlDescriptorsAccounted'
  BY <1>1 DEF Inv, ControlDescriptorsAccounted
<1>6. ReadyWatched'
  BY <1>1, <1>3 DEF ReadyWatched
<1>7. StopWaitsForItself' /\ StopOrder'
  BY <1>1, <1>2, NotStopping DEF Inv, TypeOK, StopWaitsForItself, StopOrder, Threads
<1> QED
  BY <1>4, <1>5, <1>6, <1>7 DEF Inv

LEMMA AcceptInv ==
    ASSUME Inv, Accept
    PROVE  Inv'
<1>1. /\ TypeOK /\ at["dog"] = "accept"
      /\ at' = [at EXCEPT !["dog"] = "select"] \/ at' = [at EXCEPT !["dog"] = "serve"]
      /\ UNCHANGED <<main, gate, run, watch, ready, slot, closing, inbox, gone>>
  BY DEF Inv, Accept, Goto
<1>2. PICK p \in Peers, i \in 0 .. N :
          /\ conn[p] = "backlog"
          /\ SearchEnds(i)
          /\ IF Found(i)
               THEN conn' = [conn EXCEPT ![p] = "open"] /\ Place(i, p)
               ELSE conn' = [conn EXCEPT ![p] = "lost"] /\ UNCHANGED sockfd
  BY DEF Accept, Backlog
<1>3. N \in Nat /\ p # NoPeer
  BY ConstantsAssumption
<1>4. \/ /\ conn' = [conn EXCEPT ![p] = "lost"] /\ UNCHANGED sockfd
      \/ /\ i \in Slots /\ sockfd[i] = NoPeer
         /\ conn' = [conn EXCEPT ![p] = "open"]
         /\ sockfd' = [sockfd EXCEPT ![i] = p]
  <2>1. CASE Found(i)
    <3>1. i \in Slots
      BY <1>3, <2>1 DEF Found, Slots
    <3>2. Slots \cup {i} = Slots
      BY <3>1
    <3>3. sockfd' = [sockfd EXCEPT ![i] = p]
      BY <1>1, <1>2, <2>1, <3>1, <3>2 DEF TypeOK, Place
    <3> QED
      BY <1>2, <2>1, <3>1, <3>3 DEF SearchEnds
  <2>2. CASE ~Found(i)
    BY <1>2, <2>2
  <2> QED
    BY <2>1, <2>2
<1>5. ~InHandler /\ ~InHandler'
  BY <1>1 DEF InHandler, TypeOK, Threads
<1>6. TypeOK'
  BY <1>1, <1>4 DEF TypeOK, Threads
<1>7. ControlDescriptorsAccounted'
  <2>0. SUFFICES ASSUME gate = "up" PROVE ControlDescriptorsAccounted'
    BY <1>1 DEF ControlDescriptorsAccounted
  <2>1. ControlDescriptorsAccounted /\ \A s \in Slots : sockfd[s] # p
    BY <1>2, <2>0 DEF Inv, ControlDescriptorsAccounted
  <2>2. CASE conn' = [conn EXCEPT ![p] = "lost"] /\ UNCHANGED sockfd
    BY <1>1, <2>0, <2>1, <2>2 DEF TypeOK, ControlDescriptorsAccounted
  <2>3. CASE /\ i \in Slots /\ sockfd[i] = NoPeer
             /\ conn' = [conn EXCEPT ![p] = "open"]
             /\ sockfd' = [sockfd EXCEPT ![i] = p]
    <3>1. sockfd'[i] = p /\ \A s \in Slots : s # i => sockfd'[s] = sockfd[s]
      BY <1>1, <2>3 DEF TypeOK
    <3>2. conn'[p] = "open" /\ \A q \in Peers : q # p => conn'[q] = conn[q]
      BY <1>1, <2>3 DEF TypeOK
    <3>3. \A q \in Peers : conn'[q] = "open" <=> \E s \in Slots : sockfd'[s] = q
      <4>1. SUFFICES ASSUME NEW q \in Peers, q # p
                     PROVE  conn[q] = "open" <=> \E s \in Slots : sockfd'[s] = q
        BY <2>3, <3>1, <3>2
      <4>2. (\E s \in Slots : sockfd'[s] = q) <=> (\E s \in Slots : sockfd[s] = q)
        BY <2>3, <3>1, <4>1, ConstantsAssumption
      <4> QED
        BY <2>0, <2>1, <4>2 DEF ControlDescriptorsAccounted
    <3>4. \A s, u \in Slots : s # u /\ sockfd'[s] # NoPeer => sockfd'[s] # sockfd'[u]
      BY <1>3, <2>0, <2>1, <2>3, <3>1 DEF ControlDescriptorsAccounted
    <3> QED
      BY <3>3, <3>4 DEF ControlDescriptorsAccounted
  <2> QED
    BY <1>4, <2>2, <2>3
<1>8. ReadyWatched'
  BY <1>1, <1>3, <1>4 DEF Inv, TypeOK, ReadyWatched
<1>9. StopWaitsForItself' /\ StopOrder'
  BY <1>1, <1>5, NotStopping DEF Inv, TypeOK, StopWaitsForItself, StopOrder, Threads
<1> QED
  BY <1>6, <1>7, <1>8, <1>9 DEF Inv

LEMMA RecvInv ==
    ASSUME Inv, Recv
    PROVE  Inv'
<1>1. /\ TypeOK /\ at["dog"] = "serve"
      /\ UNCHANGED <<main, gate, run, watch, sockfd, closing, conn, gone>>
  BY DEF Inv, Recv
<1>2. PICK s \in ready :
          \/ Handle(s)
          \/ /\ inbox[sockfd[s]] = "none"
             /\ slot' = s
             /\ Goto("dog", "close")
             /\ UNCHANGED <<ready, inbox>>
  BY DEF Recv
<1>3. s \in Slots /\ sockfd[s] # NoPeer
  BY <1>1 DEF Inv, TypeOK, ReadyWatched
<1>4. /\ ready' \subseteq ready /\ slot' \in Slots
      /\ inbox' \in [Peers -> {"none", "shutdown", "other"}]
      /\ \E label \in {"select", "serve", "close", "stop"} : at' = [at EXCEPT !["dog"] = label]
      /\ at'["dog"] = "stop" => slot' = s
  BY <1>1, <1>2, <1>3 DEF TypeOK, Handle, Served, Goto, Threads
<1>5. /\ at["loop"] = "run" /\ run /\ at'["loop"] = "run"
      /\ \A t \in Threads : at'[t] # "closing" /\ closing[t] = 0
  BY <1>1, <1>4, NotStopping DEF InHandler, TypeOK, Threads
<1>6. TypeOK'
  BY <1>1, <1>4 DEF TypeOK, Threads
<1>7. ControlDescriptorsAccounted'
  BY <1>1 DEF Inv, ControlDescriptorsAccounted
<1>8. ReadyWatched'
  BY <1>1, <1>4 DEF Inv, ReadyWatched
<1>9. StopWaitsForItself'
  BY <1>1, <1>3, <1>4, <1>5 DEF Inv, TypeOK, StopWaitsForItself, InHandler, Threads
<1>10. StopOrder'
  BY <1>1, <1>5 DEF StopOrder, InHandler
<1> QED
  BY <1>6, <1>7, <1>8, <1>9, <1>10 DEF Inv

\* Closing a slot takes its peer with it.
LEMMA CloseAccounted ==
    ASSUME Inv, NEW s \in Slots, Close(s), UNCHANGED gate
    PROVE  /\ ControlDescriptorsAccounted'
           /\ sockfd' \in [Slots -> Peers \cup {NoPeer}]
           /\ conn' \in [Peers -> {"none", "backlog", "open", "lost", "closed"}]
  BY ConstantsAssumption DEF Inv, TypeOK, Close, ControlDescriptorsAccounted

LEMMA CloseGoneInv ==
    ASSUME Inv, CloseGone
    PROVE  Inv'
<1>1. /\ TypeOK /\ at["dog"] = "close" /\ Close(slot)
      /\ ready' = ready \ {slot}
      /\ at' = [at EXCEPT !["dog"] = "select"] \/ at' = [at EXCEPT !["dog"] = "serve"]
      /\ UNCHANGED <<main, gate, run, watch, slot, closing, inbox, gone>>
  BY DEF Inv, CloseGone, Served, Goto
<1>2. slot \in Slots
  BY <1>1 DEF TypeOK
<1>3. ControlDescriptorsAccounted' /\ sockfd' \in [Slots -> Peers \cup {NoPeer}]
      /\ conn' \in [Peers -> {"none", "backlog", "open", "lost", "closed"}]
  BY <1>1, <1>2, CloseAccounted
<1>4. ~InHandler /\ ~InHandler'
  BY <1>1 DEF InHandler, TypeOK, Threads
<1>5. TypeOK'
  BY <1>1, <1>3 DEF TypeOK, Threads
<1>6. ReadyWatched'
  BY <1>1, <1>2 DEF Inv, TypeOK, ReadyWatched, Close
<1>7. StopWaitsForItself' /\ StopOrder'
  BY <1>1, <1>4, NotStopping DEF Inv, TypeOK, StopWaitsForItself, StopOrder, Threads
<1> QED
  BY <1>3, <1>5, <1>6, <1>7 DEF Inv

-----------------------------------------------------------------------------
(* Stopping.                                                               *)

\* A thread that stops the gate does it while the watchdog thread is in its handler.
LEMMA Stopping ==
    ASSUME Inv, NEW t \in Threads, at[t] \in {"stop", "stopWatchdog", "closing"}
    PROVE  InHandler
  BY DEF Inv, TypeOK, StopOrder, InHandler, Threads

LEMMA LeaveLoopInv ==
    ASSUME Inv, LeaveLoop
    PROVE  Inv'
<1>1. /\ TypeOK /\ ~run /\ at["loop"] = "run" /\ at' = [at EXCEPT !["loop"] = "stop"]
      /\ UNCHANGED <<main, gate, run, watch, sockfd, ready, slot, closing, conn, inbox, gone>>
  BY DEF Inv, LeaveLoop, Goto, peerVars
<1>2. at'["dog"] = at["dog"]
  BY <1>1 DEF TypeOK, Threads
<1>3. TypeOK'
  BY <1>1 DEF TypeOK, Threads
<1>4. ControlDescriptorsAccounted' /\ ReadyWatched'
  BY <1>1, <1>2 DEF Inv, ControlDescriptorsAccounted, ReadyWatched
<1>5. StopWaitsForItself' /\ StopOrder'
  BY <1>1, <1>2 DEF Inv, TypeOK, StopWaitsForItself, StopOrder, InHandler, Threads
<1> QED
  BY <1>3, <1>4, <1>5 DEF Inv

LEMMA StopInv ==
    ASSUME Inv, NEW t \in Threads, Stop(t)
    PROVE  Inv'
<1>1. /\ TypeOK /\ at[t] = "stop" /\ at' = [at EXCEPT ![t] = "stopWatchdog"] /\ run' = FALSE
      /\ UNCHANGED <<main, gate, watch, sockfd, ready, slot, closing, conn, inbox, gone>>
  BY DEF Inv, Stop, Goto, peerVars
<1>2. InHandler /\ InHandler'
  BY <1>1, Stopping DEF TypeOK, InHandler, Threads
<1>3. TypeOK'
  BY <1>1 DEF TypeOK, Threads
<1>4. ControlDescriptorsAccounted' /\ ReadyWatched'
  BY <1>1, <1>2 DEF Inv, ControlDescriptorsAccounted, ReadyWatched, InHandler
<1>5. StopWaitsForItself' /\ StopOrder'
  BY <1>1, <1>2 DEF Inv, TypeOK, StopWaitsForItself, StopOrder
<1> QED
  BY <1>3, <1>4, <1>5 DEF Inv

LEMMA StopWatchdogInv ==
    ASSUME Inv, NEW t \in Threads, StopWatchdog(t)
    PROVE  Inv'
<1>1. /\ TypeOK /\ at[t] = "stopWatchdog" /\ at' = [at EXCEPT ![t] = "closing"] /\ watch' = FALSE
      /\ conn' = [p \in Peers |-> IF conn[p] = "backlog" THEN "closed" ELSE conn[p]]
      /\ UNCHANGED <<main, gate, run, sockfd, ready, slot, closing, inbox, gone>>
  BY DEF Inv, StopWatchdog, Goto
<1>2. InHandler /\ InHandler'
  BY <1>1, Stopping DEF TypeOK, InHandler, Threads
<1>3. closing[t] = 0 /\ 0 <= slot
  BY <1>1, ConstantsAssumption DEF Inv, TypeOK, StopOrder, Slots
<1>4. TypeOK'
  BY <1>1 DEF TypeOK, Threads
<1>5. ControlDescriptorsAccounted' /\ ReadyWatched'
  BY <1>1, <1>2 DEF Inv, TypeOK, ControlDescriptorsAccounted, ReadyWatched, InHandler
<1>6. StopWaitsForItself' /\ StopOrder'
  BY <1>1, <1>2, <1>3 DEF Inv, TypeOK, StopWaitsForItself, StopOrder, Threads
<1> QED
  BY <1>4, <1>5, <1>6 DEF Inv

\* The heart: a thread comes as far as the slot of the handler, and waits there.
LEMMA CloseNextInv ==
    ASSUME Inv, NEW t \in Threads, CloseNext(t)
    PROVE  Inv'
<1>1. /\ TypeOK /\ at[t] = "closing" /\ InHandler /\ closing[t] <= slot
      /\ UNCHANGED <<main, run, watch, at, ready, slot, inbox, gone>>
  BY DEF Inv, CloseNext, StopWaitsForItself
<1>2. N \in Nat /\ slot \in 0 .. N - 1 /\ closing[t] \in 0 .. N
  BY <1>1, ConstantsAssumption DEF TypeOK, Slots
<1>3. closing[t] < N /\ closing[t] \in Slots
  BY <1>1, <1>2 DEF Slots
<1>4. Close(closing[t]) /\ closing' = [closing EXCEPT ![t] = @ + 1] /\ UNCHANGED gate
  BY <1>3 DEF CloseNext
<1>5. closing[t] # slot
  BY <1>1, <1>4 DEF Close, Lockable
<1>6. closing[t] + 1 <= slot /\ closing[t] + 1 \in 0 .. N
  BY <1>1, <1>2, <1>5
<1>7. ControlDescriptorsAccounted' /\ sockfd' \in [Slots -> Peers \cup {NoPeer}]
      /\ conn' \in [Peers -> {"none", "backlog", "open", "lost", "closed"}]
  BY <1>3, <1>4, CloseAccounted
<1>8. TypeOK'
  BY <1>1, <1>4, <1>6, <1>7 DEF TypeOK
<1>9. StopWaitsForItself'
  <2>1. sockfd'[slot] = sockfd[slot]
    BY <1>1, <1>4, <1>5 DEF TypeOK, Close
  <2> QED
    BY <1>1, <1>4, <1>6, <2>1 DEF Inv, TypeOK, StopWaitsForItself, InHandler
<1>10. ReadyWatched' /\ StopOrder'
  BY <1>1, <1>4 DEF Inv, TypeOK, ReadyWatched, StopOrder, InHandler
<1> QED
  BY <1>7, <1>8, <1>9, <1>10 DEF Inv

\* The invariant is inductive.
LEMMA NextInv == Inv /\ [Next]_vars => Inv'
<1> SUFFICES ASSUME Inv, [Next]_vars PROVE Inv'
  OBVIOUS
<1>1. CASE \E p \in Peers : Connect(p) \/ Command(p) \/ HangUp(p)
  BY <1>1, PeerInv
<1>2. CASE Interrupt \/ MainProcess
  BY <1>2, MainInv
<1>3. CASE Gate
  <2>1. CASE WatchdogThread
    BY <2>1, SelectInv, AcceptInv, RecvInv, CloseGoneInv DEF WatchdogThread
  <2>2. CASE LeaveLoop
    BY <2>2, LeaveLoopInv
  <2>3. CASE \E t \in Threads : StopThread(t)
    BY <2>3, StopInv, StopWatchdogInv, CloseNextInv DEF StopThread
  <2> QED
    BY <1>3, <2>1, <2>2, <2>3 DEF Gate
<1>4. CASE UNCHANGED vars
  BY <1>4 DEF vars, gateVars, peerVars, Inv, TypeOK, ControlDescriptorsAccounted,
              StopWaitsForItself, ReadyWatched, StopOrder, InHandler
<1> QED
  BY <1>1, <1>2, <1>3, <1>4 DEF Next

-----------------------------------------------------------------------------
\* The invariant holds in every state of every behaviour.
THEOREM Invariance == Spec => []Inv
  BY InitInv, NextInv, PTL DEF Spec

\* Every variable of the watchdog has its type.
THEOREM TypeCorrect == Spec => []TypeOK
<1>1. Inv => TypeOK
  BY DEF Inv
<1> QED
  BY Invariance, <1>1, PTL

\* Accepted control descriptors are in exactly one slot until they are closed,
\* except those that found no free slot.
THEOREM DescriptorsAccounted == Spec => []ControlDescriptorsAccounted
<1>1. Inv => ControlDescriptorsAccounted
  BY DEF Inv
<1> QED
  BY Invariance, <1>1, PTL

\* fl_stop_net_gate_server never comes to its end: whoever runs it waits for the
\* connection the shutdown command came in on.
THEOREM GateNeverEndsItself == Spec => []StopWaitsForItself
<1>1. Inv => StopWaitsForItself
  BY DEF Inv
<1> QED
  BY Invariance, <1>1, PTL
=============================================================================
