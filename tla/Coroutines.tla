------------------------------ MODULE Coroutines ------------------------------
(***************************************************************************)
(* What coroutines and protected calls promise a Lua program, without the  *)
(* C stack: every coroutine is a stack of calls of its own, an error goes  *)
(* to the nearest protected call of the coroutine that raised it, or ends  *)
(* the coroutine and is reported to who resumed it, and a coroutine can    *)
(* yield from inside everything but a C function that cannot be resumed    *)
(* (a comparison called by table.sort).                                    *)
(***************************************************************************)
EXTENDS Integers, Sequences, SequencesExt, FiniteSetsExt

CONSTANTS Threads, main,
          LUAI_MAXCCALLS,       \* calls of C functions one inside another
          MaxInfos              \* bounds the stacks of all coroutines together

VARIABLES stack,                \* of every coroutine: its calls
          status,               \* what coroutine.status says of it
          active,               \* the coroutines that resumed one another
          told                  \* what the running function saw last
vars == <<stack, status, active, told>>

\* handled: a message handler has seen the error.
Told(w) == [what |-> w, handled |-> FALSE]
Catchers == {"pcall", "xpcall"}
CFunctions == Catchers \cup {"sort", "resume", "wrap"}
Others == Threads \ {main}

Init ==
    /\ stack = [t \in Threads |-> <<>>]
    /\ status = [t \in Others |-> "suspended"]
    /\ active = <<>>
    /\ told = Told("ended")

T == Last(active)
Running == active # <<>> /\ told.what # "error"
Push(f) == stack' = [stack EXCEPT ![T] = @ \o f]
Room == MapThenSumSet(LAMBDA t : Len(stack[t]), Threads) < MaxInfos

\* The nearest protected call in a stack, or 0.
Nearest(s) == Max({i \in DOMAIN s : s[i] \in Catchers} \cup {0})
Raised(s) == [what |-> "error", handled |-> Nearest(s) # 0 /\ s[Nearest(s)] = "xpcall"]

Nested == FoldLeft(LAMBDA n, t : n + Quantify(DOMAIN stack[t], LAMBDA i : stack[t][i] \in CFunctions), 1, active)
TooDeep == Nested + 2 >= LUAI_MAXCCALLS

\* The host calls a function in the main thread.
Begin ==
    /\ active = <<>>
    /\ active' = <<main>>
    /\ stack' = [stack EXCEPT ![main] = <<"lua">>]
    /\ told' = Told("started")
    /\ UNCHANGED status

Call == Running /\ Room /\ Push(<<"lua">>) /\ told' = Told("started") /\ UNCHANGED <<status, active>>

CallFromC(f) ==
    /\ Running /\ Room
    /\ \/ Push(<<f, "lua">>) /\ told' = Told("started")
       \/ TooDeep /\ Push(<<f>>) /\ told' = Raised(Append(stack[T], f))
    /\ UNCHANGED <<status, active>>

Raise == Running /\ told' = Raised(stack[T]) /\ UNCHANGED <<stack, status, active>>

\* Control goes back to who resumed the running coroutine, which is told w, or fails in wrap.
Leave(s, st, w) ==
    LET r == active[Len(active) - 1]
        fails == w = "failed" /\ Last(stack[r]) = "wrap"
    IN  /\ stack' = [stack EXCEPT ![T] = s, ![r] = IF fails THEN @ ELSE Front(@)]
        /\ status' = IF r = main THEN [status EXCEPT ![T] = st]
                     ELSE [status EXCEPT ![T] = st, ![r] = "running"]
        /\ active' = Front(active)
        /\ told' = IF fails THEN Raised(stack[r]) ELSE Told(w)

Yield ==
    /\ Running
    /\ IF T = main \/ Contains(stack[T], "sort")
       THEN told' = Raised(stack[T]) /\ UNCHANGED <<stack, status, active>>
       ELSE Leave(stack[T], "suspended", "yielded")

Return ==
    LET s == Front(stack[T]) IN
    /\ Running
    /\ IF s = <<>> /\ T # main THEN Leave(s, "dead", "finished")
       ELSE /\ stack' = [stack EXCEPT ![T] = IF s # <<>> /\ Last(s) \in CFunctions THEN Front(s) ELSE s]
            /\ active' = IF s = <<>> THEN <<>> ELSE active
            /\ told' = Told(IF s = <<>> THEN "ended" ELSE IF Last(s) \in Catchers THEN "true" ELSE "returned")
            /\ UNCHANGED status

\* An error looks for its protected call.
Unwind ==
    LET n == Nearest(stack[T]) IN
    /\ active # <<>> /\ told.what = "error"
    /\ IF n = 0 /\ T # main THEN Leave(<<>>, "dead", "failed")
       ELSE /\ stack' = [stack EXCEPT ![T] = SubSeq(@, 1, n - 1)]
            /\ active' = IF n = 0 THEN <<>> ELSE active
            /\ told' = [told EXCEPT !.what = IF n = 0 THEN "ended" ELSE "false"]
            /\ UNCHANGED status

Resume(how, co) ==
    /\ Running /\ Room /\ co # T
    /\ IF status[co] = "suspended"
       THEN \/ /\ stack' = [stack EXCEPT ![T] = Append(@, how), ![co] = IF @ = <<>> THEN <<"lua">> ELSE @]
               /\ status' = IF T = main THEN [status EXCEPT ![co] = "running"]
                            ELSE [status EXCEPT ![T] = "normal", ![co] = "running"]
               /\ active' = Append(active, co)
               /\ told' = Told(IF stack[co] = <<>> THEN "started" ELSE "resumed")
            \/ /\ TooDeep
               /\ IF how = "wrap" THEN Push(<<how>>) /\ told' = Raised(stack[T])
                  ELSE UNCHANGED stack /\ told' = Told("failed")
               /\ UNCHANGED <<status, active>>
       ELSE /\ IF how = "wrap" THEN Push(<<how>>) /\ told' = Raised(stack[T])
               ELSE UNCHANGED stack /\ told' = Told("failed")
            /\ UNCHANGED <<status, active>>

\* A new coroutine takes the place of a dead one.
Create(co) ==
    /\ Running /\ status[co] = "dead"
    /\ status' = [status EXCEPT ![co] = "suspended"]
    /\ told' = Told("created")
    /\ UNCHANGED <<stack, active>>

Next ==
    \/ Begin \/ Call \/ Raise \/ Yield \/ Return \/ Unwind
    \/ \E f \in Catchers \cup {"sort"} : CallFromC(f)
    \/ \E co \in Others : Create(co) \/ \E how \in {"resume", "wrap"} : Resume(how, co)

Spec == Init /\ [][Next]_vars
=============================================================================
