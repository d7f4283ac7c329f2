----------------------------- MODULE LuaCoroutine -----------------------------
(***************************************************************************)
(* Coroutines, protected calls and errors of the interpreter (ldo.c,       *)
(* lcorolib.c).  All coroutines share the C stack: a call of the           *)
(* interpreter by itself and a resume are C functions under way, an error  *)
(* or a yield is a longjmp that drops the C functions above the setjmp it  *)
(* goes to, and what a coroutine still has to do is found again in its     *)
(* CallInfo list.  A protected call sets a setjmp of its own only if its   *)
(* coroutine cannot yield; otherwise it relies on the one of lua_resume.   *)
(***************************************************************************)
EXTENDS Integers, Sequences, SequencesExt, FiniteSetsExt

CONSTANTS Threads, main,
          LUAI_MAXCCALLS,
          MaxInfos,             \* bounds the CallInfos of all threads together
          ResumesNormal         \* FALSE: a program resumes no coroutine that waits for another

VARIABLES th,                   \* the threads (lua_State)
          cstk,                 \* C functions under way, of all threads
          told                  \* what the running Lua function saw last
vars == <<th, cstk, told>>

Told(w) == [what |-> w, handled |-> FALSE]
Others == Threads \ {main}

\* preinit_thread; body: the function to run is on the stack.  ci has no base_ci.
preinit_thread(body) ==
    [status |-> "OK", body |-> body, ci |-> <<>>, nny |-> 1, nCcalls |-> 0, errfunc |-> FALSE]
Init ==
    /\ th = [t \in Threads |-> preinit_thread(t # main)]
    /\ cstk = <<>>
    /\ told = Told("ended")

\* A CallInfo: its function, whether luaV_execute returns with it (CIST_FRESH), whether an
\* error may be recovered here (CIST_YPCALL), and the handler to restore then.
CallInfo(f) == [f |-> f, fresh |-> FALSE, ypcall |-> FALSE, old_errfunc |-> FALSE]

-----------------------------------------------------------------------------
(* The steps below work on s: the three variables in a record.             *)

State == [th |-> th, c |-> cstk, told |-> told]
Become(s) == th' = s.th /\ cstk' = s.c /\ told' = s.told
Say(s, w) == [s EXCEPT !.told = Told(w)]
Top(s, L) == Last(s.th[L].ci)
PushCI(s, L, f) == [s EXCEPT !.th[L].ci = Append(@, CallInfo(f))]
luaD_poscall(s, L) == [s EXCEPT !.th[L].ci = Front(@)]
EnterC(s, r) == [s EXCEPT !.c = Append(@, r)]
LeaveC(s) == [s EXCEPT !.c = Front(@)]

\* luaV_execute on the function at the top.
Execute(s, L) ==
    EnterC([s EXCEPT !.th[L].ci[Len(s.th[L].ci)].fresh = TRUE], [t |-> "execute", L |-> L])

\* The error waits for luaD_throw; a handler sees it first.
luaG_errormsg(s, L) == [s EXCEPT !.told = [what |-> "error", handled |-> s.th[L].errfunc]]

\* luaD_call and luaD_callnoyield of a Lua function.
luaD_call(s, L, noyield) ==
    LET n == s.th[L].nCcalls + 1
        counted == [s EXCEPT !.th[L].nCcalls = n, !.th[L].nny = IF noyield THEN @ + 1 ELSE @]
        called == EnterC(counted, [t |-> "call", L |-> L, noyield |-> noyield])
    IN  IF n >= LUAI_MAXCCALLS THEN luaG_errormsg(counted, L)
        ELSE Say(Execute(PushCI(called, L, "lua"), L), "started")

\* luaD_pcall: what is restored after an error.
Jump(s, L) == [t |-> "pcall", L |-> L, ci |-> Len(s.th[L].ci), nny |-> s.th[L].nny,
               nCcalls |-> s.th[L].nCcalls, errfunc |-> s.th[L].errfunc]
luaD_pcall(s, L, handler) ==
    luaD_call([EnterC(s, Jump(s, L)) EXCEPT !.th[L].errfunc = handler], L, TRUE)
lua_pcallk(s, L, handler) ==
    LET x == Len(s.th[L].ci) IN
    IF s.th[L].nny > 0 THEN luaD_pcall(s, L, handler)
    ELSE luaD_call([s EXCEPT !.th[L].ci[x].ypcall = TRUE,
                             !.th[L].ci[x].old_errfunc = s.th[L].errfunc,
                             !.th[L].errfunc = handler], L, FALSE)

\* The C function at the top goes on after a call of luaD_call that returned.
AfterCall(s, L) ==
    LET r == Last(s.c)
        back == LeaveC([s EXCEPT !.th[L].nCcalls = @ - 1,
                                 !.th[L].nny = IF r.noyield THEN @ - 1 ELSE @])
        j == Last(back.c)
        x == Len(s.th[L].ci)
    IN  IF x = 0 \/ (Top(s, L).f # "sort" /\ ~Top(s, L).ypcall)
        THEN LET p == LeaveC([back EXCEPT !.th[L].nCcalls = j.nCcalls, !.th[L].errfunc = j.errfunc])
             IN  IF x = 0 THEN Say(p, "ended") ELSE Say(luaD_poscall(p, L), "true")
        ELSE IF Top(s, L).f = "sort" THEN Say(luaD_poscall(back, L), "returned")
        ELSE Say(luaD_poscall([back EXCEPT !.th[L].errfunc = Top(s, L).old_errfunc], L), "true")

\* lua_resume returns to auxresume, which ran in another thread.
ResumeEnds(s, co, status) ==
    LET r == Last(s.c)
        back == LeaveC([s EXCEPT !.th[co].nny = r.nny, !.th[co].nCcalls = @ - 1,
                                 !.th[co].status = IF status = "OK" THEN @ ELSE status])
    IN  CASE status = "OK" -> Say(luaD_poscall(back, r.from), "finished")
          [] status = "YIELD" -> Say(luaD_poscall(back, r.from), "yielded")
          [] OTHER -> IF Top(back, r.from).f = "wrap" THEN luaG_errormsg(back, r.from)
                      ELSE Say(luaD_poscall(back, r.from), "failed")

\* A protected call that was interrupted ends: finishpcall gives the rest.
finishCcall(s, L) ==
    luaD_poscall([s EXCEPT !.th[L].errfunc = IF Top(s, L).ypcall THEN Top(s, L).old_errfunc ELSE @], L)

\* What unroll does next; a C function was called by a Lua function.
Unroll(s, L) ==
    IF s.th[L].ci = <<>> THEN ResumeEnds(LeaveC(s), L, "OK")
    ELSE IF Top(s, L).f = "lua" THEN Execute(s, L)
    ELSE Execute(Say(finishCcall(s, L), "true"), L)

\* A faulty variant of recover that keeps the count of calls that cannot yield.
RecoverUnyieldable(s, L, p) ==
    LET cut == [s EXCEPT !.th[L].ci = SubSeq(@, 1, p),
                         !.th[L].errfunc = s.th[L].ci[p].old_errfunc]
    IN  Unroll(finishCcall(EnterC(cut, [t |-> "unroll", L |-> L]), L), L)

\* recover: the thread goes on behind its innermost interrupted protected call, at p.
recover(s, L, p) ==
    LET cut == [s EXCEPT !.th[L].ci = SubSeq(@, 1, p), !.th[L].nny = 0,
                         !.th[L].errfunc = s.th[L].ci[p].old_errfunc]
    IN  Unroll(finishCcall(EnterC(cut, [t |-> "unroll", L |-> L]), L), L)

\* luaD_throw: to the innermost setjmp of L, which is luaD_pcall or lua_resume.
luaD_throw(s, L, status) ==
    LET r == Max({i \in DOMAIN s.c : s.c[i].t \in {"pcall", "resume"} /\ s.c[i].L = L})
        j == s.c[r]
        cut == [s EXCEPT !.c = SubSeq(@, 1, r), !.th[L].nCcalls = j.nCcalls]
        p == Max({i \in DOMAIN s.th[L].ci : s.th[L].ci[i].ypcall} \cup {0})
        popped == LeaveC([cut EXCEPT !.th[L].ci = SubSeq(@, 1, j.ci), !.th[L].nny = j.nny,
                                     !.th[L].errfunc = j.errfunc])
        Fails(z) == [z EXCEPT !.told = [s.told EXCEPT !.what = "false"]]
    IN  IF j.t = "pcall"
        THEN IF j.ci = 0 THEN [popped EXCEPT !.told = [s.told EXCEPT !.what = "ended"]]
             ELSE Fails(luaD_poscall(popped, L))
        ELSE IF status = "YIELD" THEN ResumeEnds(cut, L, "YIELD")
        ELSE IF p = 0 THEN ResumeEnds(cut, L, "ERRRUN")
        ELSE Fails(recover(cut, L, p))

-----------------------------------------------------------------------------
L0 == Last(cstk).L              \* the thread that runs
Running == cstk # <<>> /\ told.what # "error"
Room == MapThenSumSet(LAMBDA t : Len(th[t].ci), Threads) < MaxInfos

\* The host calls lua_pcall in the main thread.
Begin == cstk = <<>> /\ Become(luaD_pcall(State, main, FALSE))

\* OP_CALL of a Lua function stays in the same luaV_execute.
Call == Running /\ Room /\ Become(Say(PushCI(State, L0, "lua"), "started"))

\* luaB_pcall, luaB_xpcall.
ProtectedCall(f) ==
    Running /\ Room /\ Become(lua_pcallk(PushCI(State, L0, f), L0, f = "xpcall"))

\* table.sort calls its comparison.
Sort == Running /\ Room /\ Become(luaD_call(PushCI(State, L0, "sort"), L0, TRUE))

Return ==
    LET s == luaD_poscall(State, L0) IN
    /\ Running
    /\ Become(IF ~Top(State, L0).fresh THEN Say(s, "returned")
              ELSE LET e == LeaveC(s) IN
                   CASE Last(e.c).t = "call" -> AfterCall(e, L0)
                     [] Last(e.c).t = "unroll" -> Unroll(Say(e, "returned"), L0)
                     [] Last(e.c).t = "resume" -> ResumeEnds(e, L0, "OK"))

Raise == Running /\ Become(luaG_errormsg(State, L0))
Throw == told.what = "error" /\ Become(luaD_throw(State, L0, "ERRRUN"))

\* lua_yieldk without a continuation.
Yield ==
    LET s == PushCI(State, L0, "yield") IN
    /\ Running
    /\ Become(IF th[L0].nny > 0 THEN luaG_errormsg(s, L0) ELSE luaD_throw(s, L0, "YIELD"))

\* auxresume and lua_resume.  resume_error leaves the coroutine as it is.
gettop0(co) == IF th[co].ci = <<>> THEN ~th[co].body ELSE Last(th[co].ci).f = "wrap"
lua_resume(s, co, from) ==
    LET n == s.th[from].nCcalls + 1
        j == [t |-> "resume", L |-> co, from |-> from, nny |-> s.th[co].nny, nCcalls |-> n]
        in == EnterC([s EXCEPT !.th[co].nCcalls = n, !.th[co].nny = 0], j)
        start == Execute(PushCI([in EXCEPT !.th[co].body = FALSE], co, "lua"), co)
        again == EnterC(luaD_poscall([in EXCEPT !.th[co].status = "OK"], co), [t |-> "unroll", L |-> co])
        refused == [s EXCEPT !.th[co].nCcalls = n - 1]
    IN  IF n >= LUAI_MAXCCALLS \/ s.th[co].status = "ERRRUN" \/ (s.th[co].status = "OK" /\ s.th[co].ci # <<>>)
        THEN IF Top(s, from).f = "wrap" THEN luaG_errormsg(refused, from)
             ELSE Say(luaD_poscall(refused, from), "failed")
        ELSE IF s.th[co].status = "OK" THEN Say(start, "started")
        ELSE Say(Unroll(again, co), "resumed")
Resume(how, co) ==
    LET s == PushCI(State, L0, how) IN
    /\ Running /\ Room /\ co # L0
    /\ ~ResumesNormal => th[co].status # "OK" \/ th[co].ci = <<>>
    /\ Become(IF th[co].status # "OK" \/ ~gettop0(co) THEN lua_resume(s, co, L0)
              ELSE IF how = "wrap" THEN luaG_errormsg(s, L0)
              ELSE Say(luaD_poscall(s, L0), "failed"))

luaB_costatus(co) ==
    CASE cstk # <<>> /\ L0 = co -> "running"
      [] th[co].status = "YIELD" -> "suspended"
      [] th[co].status = "OK" -> IF th[co].ci # <<>> THEN "normal"
                                 ELSE IF ~th[co].body THEN "dead" ELSE "suspended"
      [] OTHER -> "dead"

\* luaB_cocreate: a new thread in the place of a dead one.
Create(co) ==
    /\ Running /\ co # L0 /\ luaB_costatus(co) = "dead"
    /\ Become(Say([State EXCEPT !.th[co] = preinit_thread(TRUE)], "created"))

Next ==
    \/ Begin \/ Call \/ Sort \/ Return \/ Raise \/ Throw \/ Yield
    \/ \E f \in {"pcall", "xpcall"} : ProtectedCall(f)
    \/ \E co \in Others : Create(co) \/ \E how \in {"resume", "wrap"} : Resume(how, co)

Spec == Init /\ [][Next]_vars

-----------------------------------------------------------------------------
CallsOf(t) ==
    IF th[t].status = "ERRRUN" THEN <<>>
    ELSE SelectSeq([i \in DOMAIN th[t].ci |-> th[t].ci[i].f], LAMBDA f : f # "yield")
Entered == SelectSeq(cstk, LAMBDA r : r.t = "resume")
Active == IF cstk = <<>> THEN <<>> ELSE <<main>> \o [i \in DOMAIN Entered |-> Entered[i].L]

\* What the running thread counts: the C calls under way (lua_assert, ldo.c:679), with
\* those of the threads that wait for it, and those that cannot be left by a yield.
CallsCounted ==
    /\ th[L0].nCcalls = Quantify(DOMAIN cstk, LAMBDA k : cstk[k].t \in {"call", "resume"})
    /\ th[L0].nny = (IF L0 = main THEN 1 ELSE 0) + Quantify(DOMAIN cstk,
           LAMBDA k : cstk[k].L = L0 /\ cstk[k].t = "call" /\ cstk[k].noyield)

\* Whatever the order of resumes, yields, protected calls, errors and calls from C, the
\* jumps and the CallInfo lists do what the program was promised, and the counts that
\* limit the depth of the C stack and forbid a yield come out right after each of them.
Meant == INSTANCE Coroutines
    WITH stack <- [t \in Threads |-> CallsOf(t)],
         status <- [t \in Others |-> luaB_costatus(t)],
         active <- Active
ImplementsCoroutines == Meant!Spec /\ [](Running => CallsCounted)
=============================================================================
