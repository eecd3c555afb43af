--------------------------------- MODULE LDo ---------------------------------
(***************************************************************************)
(* Calls, errors and coroutines of the reference Lua 5.1: ldo.c, with      *)
(* luaG_errormsg (ldebug.c) and the functions of lbaselib.c that enter it. *)
(*                                                                         *)
(* A Lua program runs on two stacks.  Every thread has a list of CallInfos *)
(* (th[L].ci, the functions that are active in it); and all of them share  *)
(* the native stack of the process (cs), whose frames are activations of   *)
(* the interpreter's own C functions:                                      *)
(*    execute    luaV_execute: runs the last n Lua functions of L          *)
(*    cfunction  the C function on top of L's CallInfos                    *)
(*    call       luaD_call, which counts L->nCcalls up and down            *)
(*    pcall      luaD_pcall: an error of L lands here                      *)
(*    resume     lua_resume of L: so does one that nothing else catches    *)
(*    parser     luaY_parser, at some depth of nested syntax               *)
(*    handler    luaG_errormsg, waiting for the message handler            *)
(* An error and a yield cut frames off the native stack; what each thread  *)
(* remembers of it (nCcalls, baseCcalls, errfunc, the CallInfos) must      *)
(* still agree with it.                                                    *)
(*                                                                         *)
(* The program is arbitrary: a running function calls any other, returns   *)
(* or raises an error.  Arguments and results are left out, but for what   *)
(* lies on the stack of a coroutine that is not running.                   *)
(***************************************************************************)
EXTENDS Integers, Sequences, FiniteSets, FiniteSetsExt, SequencesExt

CONSTANTS
    Main, Coroutines,
    Programs,           \* classes of programs: the functions each may call
                        \* and the coroutines it may have
    LUAI_MAXCCALLS,     \* nested C calls
    ErrorCcalls,        \* LUAI_MAXCCALLS >> 3: more of them, for error handling
    LUAI_MAXCALLS,      \* CallInfos of a thread
    BASIC_CI_SIZE,
    ManyResults         \* coroutines may return more than their resumer takes

ASSUME LimitsAssumption ==
    /\ LUAI_MAXCCALLS \in Nat \ {0} /\ ErrorCcalls \in Nat \ {0}
    /\ LUAI_MAXCALLS \in Nat /\ BASIC_CI_SIZE \in 1 .. LUAI_MAXCALLS
    /\ Main \notin Coroutines
    /\ \A p \in Programs :
          /\ p.calls \subseteq {"lua", "fn", "pcall", "xpcall", "load",
                                "create", "resume", "wrap", "yield"}
          /\ p.coroutines \subseteq Coroutines

Threads == {Main} \cup Coroutines

VARIABLES
    th,         \* what each thread remembers
    cs,         \* the native stack
    mode,       \* what the top frame of the native stack is about to do
    over,       \* the coroutines whose body has returned or failed
    program     \* the class of the program

vars == <<th, cs, mode, over, program>>

(* preinit_state and stack_init, and the body that coroutine.create pushes *)
NewThread == [ci |-> <<"base">>, size_ci |-> BASIC_CI_SIZE, status |-> "ok",
              nCcalls |-> 0, baseCcalls |-> 0, errfunc |-> FALSE,
              left |-> "body"]
Unborn == [NewThread EXCEPT !.left = "nothing"]

-----------------------------------------------------------------------------
(* The native stack                                                        *)

Frame(fn, L) == [fn |-> fn, L |-> L]
Execute(L, n) == [fn |-> "execute", L |-> L, n |-> n]
CFunction(L, f, at) == [fn |-> "cfunction", L |-> L, f |-> f, at |-> at]
Parser(L, level) == [fn |-> "parser", L |-> L, level |-> level]
Pcall(L) == [fn |-> "pcall", L |-> L, ci |-> Len(th[L].ci),
             nCcalls |-> th[L].nCcalls, errfunc |-> th[L].errfunc]

Below == Front(cs)
Top == Last(cs)
Running == Top.L
On(fn) == cs # <<>> /\ Top.fn = fn

(* A step of the interpreter: the thread it runs in, the frames, the mode. *)
Step(L, thread, frames, m) ==
    /\ th' = [th EXCEPT ![L] = thread]
    /\ cs' = frames
    /\ mode' = m

-----------------------------------------------------------------------------
(* luaD_precall.  `x' is the thread that calls, `frames' the native stack  *)
(* it calls from; the CallInfo that is pushed may be one too many.         *)
IncCi(x) ==
    CASE Len(x.ci) < x.size_ci -> [size |-> x.size_ci, m |-> "run"]
      [] x.size_ci > LUAI_MAXCALLS -> [size |-> x.size_ci, m |-> "errerr"]
      [] 2 * x.size_ci > LUAI_MAXCALLS -> [size |-> 2 * x.size_ci, m |-> "error"]
      [] OTHER -> [size |-> 2 * x.size_ci, m |-> "run"]

Entered(L, f, frames) ==
    IF f # "lua" THEN Append(frames, CFunction(L, f, "start"))
    ELSE IF Last(frames).fn = "execute"
    THEN Append(Front(frames), Execute(L, Last(frames).n + 1))
    ELSE Append(frames, Execute(L, 1))

luaD_precall(L, x, f, frames) ==
    LET g == IncCi(x)
    IN  IF g.m = "run"
        THEN Step(L, [x EXCEPT !.ci = Append(@, f), !.size_ci = g.size],
                  Entered(L, f, frames), "run")
        ELSE Step(L, [x EXCEPT !.size_ci = g.size], frames, g.m)

(* luaD_poscall                                                            *)
luaD_poscall(x) == [x EXCEPT !.ci = Front(@)]

luaD_call(L, x, f, frames) ==
    LET n == x.nCcalls + 1
        y == [x EXCEPT !.nCcalls = n]
        called == Append(frames, Frame("call", L))
    IN  IF n = LUAI_MAXCCALLS THEN Step(L, y, called, "error")
        ELSE IF n >= LUAI_MAXCCALLS + ErrorCcalls THEN Step(L, y, called, "errerr")
        ELSE luaD_precall(L, y, f, called)

-----------------------------------------------------------------------------
(* The Lua function on top                                                 *)

Runs(fn) == mode = "run" /\ On(fn)

OP_CALL(f) ==
    /\ Runs("execute")
    /\ luaD_precall(Running, th[Running], f, cs)
    /\ UNCHANGED <<over, program>>

(* callTM: a metamethod is called by luaD_call                             *)
CallTM(f) ==
    /\ Runs("execute")
    /\ luaD_call(Running, th[Running], f, cs)
    /\ UNCHANGED <<over, program>>

OP_RETURN ==
    /\ Runs("execute")
    /\ LET x == luaD_poscall(th[Running])
       IN  IF Top.n > 1
           THEN Step(Running, x, Append(Below, Execute(Running, Top.n - 1)), "run")
           ELSE Step(Running, x, Below, "return")
    /\ UNCHANGED <<over, program>>

(* luaG_runerror, lua_error                                                *)
Raise ==
    /\ Runs("execute") \/ (Runs("cfunction") /\ Top.f = "fn")
    /\ Step(Running, th[Running], cs, "error")
    /\ UNCHANGED <<over, program>>

-----------------------------------------------------------------------------
(* The C function on top                                                   *)

InC(f, at) == Runs("cfunction") /\ Top.f = f /\ Top.at = at

ReturnC(L) == Step(L, luaD_poscall(th[L]), Below, "return")

(* Any other C function: lua_call, or the end                              *)
lua_call(f) ==
    /\ Runs("cfunction") /\ Top.f = "fn"
    /\ luaD_call(Running, th[Running], f, cs)
    /\ UNCHANGED <<over, program>>

CReturn ==
    /\ Runs("cfunction")
    /\ \/ Top.f = "fn"
       \/ Top.f \in {"pcall", "xpcall", "resume", "load"} /\ Top.at # "start"
       \/ Top.f = "wrap" /\ Top.at = "after"
    /\ ReturnC(Running)
    /\ UNCHANGED <<over, program>>

(* luaB_pcall and luaB_xpcall: lua_pcall, without and with a handler       *)
luaB_pcall(f) ==
    /\ InC("pcall", "start") \/ InC("xpcall", "start")
    /\ luaD_call(Running, [th[Running] EXCEPT !.errfunc = (Top.f = "xpcall")],
                 f, Append(cs, Pcall(Running)))
    /\ UNCHANGED <<over, program>>

(* luaB_load: luaD_protectedparser keeps the handler                       *)
luaB_load ==
    /\ InC("load", "start")
    /\ Step(Running, th[Running],
            cs \o <<Pcall(Running), Parser(Running, 0)>>, "run")
    /\ UNCHANGED <<over, program>>

(* enterlevel; luaX_lexerror throws past the handler                       *)
enterlevel ==
    LET n == th[Running].nCcalls + 1
    IN  /\ Runs("parser")
        /\ Step(Running, [th[Running] EXCEPT !.nCcalls = n],
                Append(Below, Parser(Running, Top.level + 1)),
                IF n > LUAI_MAXCCALLS THEN "errrun" ELSE "run")
        /\ UNCHANGED <<over, program>>

leavelevel ==
    /\ Runs("parser") /\ Top.level > 0
    /\ Step(Running, [th[Running] EXCEPT !.nCcalls = @ - 1],
            Append(Below, Parser(Running, Top.level - 1)), "run")
    /\ UNCHANGED <<over, program>>

(* the source comes from a function of the program                         *)
generic_reader ==
    /\ Runs("parser")
    /\ luaD_call(Running, th[Running], "lua", cs)
    /\ UNCHANGED <<over, program>>

luaX_syntaxerror ==
    /\ Runs("parser")
    /\ Step(Running, th[Running], cs, "errrun")
    /\ UNCHANGED <<over, program>>

Parsed ==
    /\ Runs("parser") /\ Top.level = 0
    /\ Step(Running, th[Running], Below, "return")
    /\ UNCHANGED <<over, program>>

-----------------------------------------------------------------------------
(* Mistake: a coroutine without a status is taken to be the initial one.   *)
costatusNoFrames(L, co) ==
    CASE L = co -> "running"
      [] L # co /\ th[co].status = "yield" -> "suspended"
      [] L # co /\ th[co].status = "ok" ->
            IF th[co].left = "nothing" THEN "dead" ELSE "suspended"
      [] OTHER -> "dead"

(* Coroutines                                                              *)
costatus(L, co) ==
    CASE L = co -> "running"
      [] L # co /\ th[co].status = "yield" -> "suspended"
      [] L # co /\ th[co].status = "ok" ->
            IF Len(th[co].ci) > 1 THEN "normal"
            ELSE IF th[co].left = "nothing" THEN "dead" ELSE "suspended"
      [] OTHER -> "dead"

(* luaB_cocreate; a coroutine that is dead may have been collected and its *)
(* place be taken by a new one                                             *)
luaB_cocreate(co) ==
    /\ InC("create", "start")
    /\ costatus(Running, co) = "dead"
    /\ th' = [th EXCEPT ![co] = NewThread, ![Running] = luaD_poscall(@)]
    /\ cs' = Below
    /\ mode' = "return"
    /\ over' = over \ {co}
    /\ UNCHANGED program

(* auxresume gives up: coroutine.resume returns false and the message,     *)
(* wrap raises it                                                          *)
Refused(f) == Append(Below, CFunction(Running, f, IF f = "wrap" THEN "failed" ELSE "after"))

ResumeRefused(co) ==
    /\ InC("resume", "start") \/ InC("wrap", "start")
    /\ costatus(Running, co) # "suspended"
    /\ Step(Running, th[Running], Refused(Top.f), "run")
    /\ UNCHANGED <<over, program>>

(* resume_error: the stack of the coroutine is cut back to its CallInfo's  *)
(* base, the body of one that has not started with it                      *)
ResumeOverflow(co) ==
    LET first == Len(th[co].ci) = 1
    IN  /\ InC("resume", "start") \/ InC("wrap", "start")
        /\ costatus(Running, co) = "suspended"
        /\ th[Running].nCcalls >= LUAI_MAXCCALLS
        /\ Step(co, [th[co] EXCEPT !.nCcalls = th[Running].nCcalls,
                                   !.left = IF first THEN "nothing" ELSE @],
                Refused(Top.f), "run")
        /\ over' = IF first THEN over \cup {co} ELSE over
        /\ UNCHANGED program

(* Mistake: the coroutine does not take over the level of its resumer.     *)
ResumeNoLevel(co) ==
    LET n == th[co].nCcalls + 1
        x == [th[co] EXCEPT !.nCcalls = n, !.baseCcalls = n, !.left = "nothing"]
        y == luaD_poscall([x EXCEPT !.status = "ok"])
        frames == Append(cs, Frame("resume", co))
    IN  /\ InC("resume", "start") \/ InC("wrap", "start")
        /\ costatus(Running, co) = "suspended"
        /\ th[co].nCcalls < LUAI_MAXCCALLS
        /\ IF th[co].status = "ok" THEN luaD_precall(co, x, "lua", frames)
           ELSE Step(co, y, Append(frames, Execute(co, Len(y.ci) - 1)), "run")
        /\ UNCHANGED <<over, program>>

(* lua_setlevel, lua_resume and resume: the coroutine starts, or goes on   *)
(* after the call of yield                                                 *)
Resume(co) ==
    LET n == th[Running].nCcalls + 1
        x == [th[co] EXCEPT !.nCcalls = n, !.baseCcalls = n, !.left = "nothing"]
        y == luaD_poscall([x EXCEPT !.status = "ok"])
        frames == Append(cs, Frame("resume", co))
    IN  /\ InC("resume", "start") \/ InC("wrap", "start")
        /\ costatus(Running, co) = "suspended"
        /\ th[Running].nCcalls < LUAI_MAXCCALLS
        /\ IF th[co].status = "ok" THEN luaD_precall(co, x, "lua", frames)
           ELSE Step(co, y, Append(frames, Execute(co, Len(y.ci) - 1)), "run")
        /\ UNCHANGED <<over, program>>

(* Mistake: one C call may be pending.                                     *)
CanYieldInCall(L) == th[L].nCcalls <= th[L].baseCcalls + 1

(* lua_yield: luaD_precall returns PCRYIELD, and luaV_execute returns      *)
CanYield(L) == th[L].nCcalls <= th[L].baseCcalls

lua_yield ==
    /\ InC("yield", "start")
    /\ IF CanYield(Running)
       THEN Step(Running, [th[Running] EXCEPT !.status = "yield"],
                 IF Last(Below).fn = "execute" THEN Front(Below) ELSE Below,
                 "return")
       ELSE Step(Running, th[Running], cs, "error")
    /\ UNCHANGED <<over, program>>

(* luaB_auxwrap propagates the error of its coroutine                      *)
WrapFails ==
    /\ InC("wrap", "failed")
    /\ Step(Running, th[Running], cs, "error")
    /\ UNCHANGED <<over, program>>

-----------------------------------------------------------------------------
(* What was called has returned                                            *)

Returns(fn) == mode = "return" /\ On(fn)

ToExecute ==
    /\ Returns("execute") \/ Returns("parser")
    /\ Step(Running, th[Running], cs, "run")
    /\ UNCHANGED <<over, program>>

ToCFunction ==
    /\ Returns("cfunction")
    /\ Step(Running, th[Running],
            Append(Below, CFunction(Running, Top.f, "after")), "run")
    /\ UNCHANGED <<over, program>>

FromCall ==
    /\ Returns("call")
    /\ Step(Running, [th[Running] EXCEPT !.nCcalls = @ - 1], Below, "return")
    /\ UNCHANGED <<over, program>>

(* Mistake: the handler of the call that returns stays.                    *)
FromPcallHandled ==
    /\ Returns("pcall")
    /\ Step(Running, th[Running], Below, "return")
    /\ UNCHANGED <<over, program>>

FromPcall ==
    /\ Returns("pcall")
    /\ Step(Running, [th[Running] EXCEPT !.errfunc = Top.errfunc], Below, "return")
    /\ UNCHANGED <<over, program>>

(* lua_resume returns to auxresume, which moves the results of a coroutine *)
(* to its resumer; when they are too many it raises an error instead, and  *)
(* they stay where they are                                                *)
FromResume(fits) ==
    LET ended == th[Running].status = "ok"
    IN  /\ Returns("resume")
        /\ fits \/ (ManyResults /\ ended)
        /\ Step(Running, [th[Running] EXCEPT !.nCcalls = @ - 1,
                             !.left = IF fits THEN @ ELSE "results"],
                Below, IF fits THEN "return" ELSE "error")
        /\ over' = IF ended THEN over \cup {Running} ELSE over
        /\ UNCHANGED program

-----------------------------------------------------------------------------
(* Errors                                                                  *)

(* luaG_errormsg: the handler runs on top of the function that failed      *)
luaG_errormsg(f) ==
    /\ mode = "error"
    /\ IF th[Running].errfunc
       THEN luaD_call(Running, th[Running], f, Append(cs, Frame("handler", Running)))
       ELSE Step(Running, th[Running], cs, "errrun")
    /\ UNCHANGED <<over, program>>

HandlerReturns ==
    /\ Returns("handler")
    /\ Step(Running, th[Running], cs, "errrun")
    /\ UNCHANGED <<over, program>>

(* The chain of lua_longjmp buffers: those of the running thread           *)
Catchers(L) == {i \in DOMAIN cs : cs[i].fn \in {"pcall", "resume"} /\ cs[i].L = L}
errorJmp == Max(Catchers(Running))

restore_stack_limit(x) ==
    IF x.size_ci > LUAI_MAXCALLS /\ Len(x.ci) < LUAI_MAXCALLS
    THEN [x EXCEPT !.size_ci = LUAI_MAXCALLS] ELSE x

(* Mistake: the levels that the error has cut off stay counted.            *)
PcallCatchesLeaky(f) ==
    LET x == th[Running]
    IN  restore_stack_limit([x EXCEPT !.ci = SubSeq(@, 1, f.ci),
                                      !.errfunc = f.errfunc])

(* luaD_throw to luaD_pcall: the thread is as it was before the call       *)
PcallCatches(f) ==
    LET x == th[Running]
    IN  restore_stack_limit([x EXCEPT !.ci = SubSeq(@, 1, f.ci),
                                      !.nCcalls = f.nCcalls,
                                      !.errfunc = f.errfunc])

(* luaD_throw to lua_resume: the coroutine is dead                         *)
ResumeCatches == [th[Running] EXCEPT !.status = "err", !.nCcalls = @ - 1]

luaD_throw ==
    LET f == cs[errorJmp]
        rest == SubSeq(cs, 1, errorJmp - 1)
    IN  /\ mode \in {"errrun", "errerr"}
        /\ IF f.fn = "pcall" THEN Step(Running, PcallCatches(f), rest, "return")
           ELSE Step(Running, ResumeCatches,
                     Append(Front(rest),
                            CFunction(Last(rest).L, Last(rest).f,
                                IF Last(rest).f = "wrap" THEN "failed" ELSE "after")),
                     "run")
        /\ over' = IF f.fn = "pcall" THEN over ELSE over \cup {Running}
        /\ UNCHANGED program

-----------------------------------------------------------------------------
(* The collector shrinks the list of CallInfos (checkstacksizes)           *)
ShrinkCi(L) ==
    LET x == th[L]
    IN  /\ x.size_ci <= LUAI_MAXCALLS
        /\ 4 * (Len(x.ci) - 1) < x.size_ci /\ 2 * BASIC_CI_SIZE < x.size_ci
        /\ th' = [th EXCEPT ![L].size_ci = @ \div 2]
        /\ UNCHANGED <<cs, mode, over, program>>

(* The host program calls a C function in protected mode (lua_cpcall)      *)
lua_cpcall ==
    /\ cs = <<>>
    /\ luaD_call(Main, [th[Main] EXCEPT !.errfunc = FALSE], "fn", <<Pcall(Main)>>)
    /\ UNCHANGED <<over, program>>

(* The number of coroutines is bounded: another is created only when one   *)
(* of them is dead                                                         *)
Callable ==
    {f \in program.calls : f = "create" =>
        cs # <<>> /\ \E co \in program.coroutines : costatus(Running, co) = "dead"}

Init ==
    /\ th = [L \in Threads |-> IF L = Main THEN NewThread ELSE Unborn]
    /\ cs = <<>>
    /\ mode = "return"
    /\ over = Coroutines
    /\ program \in Programs

Next ==
    \/ lua_cpcall
    \/ \E f \in Callable :
          \/ OP_CALL(f) \/ CallTM(f) \/ lua_call(f) \/ luaB_pcall(f)
          \/ luaG_errormsg(f)
    \/ OP_RETURN \/ Raise \/ CReturn
    \/ luaB_load \/ enterlevel \/ leavelevel \/ generic_reader
    \/ luaX_syntaxerror \/ Parsed
    \/ \E co \in program.coroutines :
          \/ luaB_cocreate(co) \/ ResumeRefused(co)
          \/ ResumeOverflow(co) \/ Resume(co)
    \/ lua_yield \/ WrapFails
    \/ ToExecute \/ ToCFunction \/ FromCall \/ FromPcall
    \/ \E fits \in BOOLEAN : FromResume(fits)
    \/ HandlerReturns \/ luaD_throw
    \/ \E L \in Threads : ShrinkCi(L)

Spec == Init /\ [][Next]_vars

-----------------------------------------------------------------------------
(* Properties                                                              *)

(* w[1] + ... + w[n] *)
Total(w, n) == Cardinality(UNION {{i} \X (1 .. w[i]) : i \in 1 .. n})

(* What the first n frames have added to nCcalls                           *)
Levels(f) ==
    CASE f.fn \in {"call", "resume"} -> 1
      [] f.fn = "parser" -> f.level
      [] OTHER -> 0
Counted(frames, n) == Total([i \in 1 .. n |-> Levels(frames[i])], n)

FramesOf(L) == {i \in DOMAIN cs : cs[i].L = L}

(* The assertions of lua_resume and resume hold; no CallInfo is pushed     *)
(* past the end of the list, whatever the collector shrinks; and an error  *)
(* always lands on the innermost protected call of the process, though     *)
(* every thread chains its own: no frame of another thread is cut off      *)
(* unseen.                                                                 *)
AssertionsHold ==
    /\ \A L \in Threads : Len(th[L].ci) <= th[L].size_ci
    /\ mode \in {"errrun", "errerr"} =>
          /\ Catchers(Running) # {}
          /\ \A i \in errorJmp + 1 .. Len(cs) : cs[i].fn \notin {"pcall", "resume"}
    /\ Returns("resume") => th[Running].nCcalls = th[Running].baseCcalls
    /\ \A co \in Coroutines : co \notin over /\ FramesOf(co) = {} => ~th[co].errfunc

(* Whatever errors and yields have cut off, every thread that is active    *)
(* counts exactly the C calls that are nested below its last frame, those  *)
(* of its resumers included: the limit on the native stack holds for all   *)
(* the threads together.                                                   *)
LevelsExact ==
    \A L \in Threads : FramesOf(L) # {} =>
        /\ th[L].nCcalls = Counted(cs, Max(FramesOf(L)))
        /\ th[L].nCcalls <= LUAI_MAXCCALLS + ErrorCcalls
        /\ L # Main =>
              th[L].baseCcalls = Counted(cs, Min(FramesOf(L)))

(* The message handler that luaG_errormsg would call is that of the        *)
(* innermost pcall or xpcall the thread is in, however the inner ones were *)
(* left, by a return, an error or a failure of their own handler; load     *)
(* leaves it as it is.                                                     *)
HandlerCurrent ==
    LET Installs(i) == /\ cs[i].fn = "pcall"
                       /\ i > 1 => cs[i - 1].f # "load"
    IN  \A L \in Threads : FramesOf(L) # {} =>
            LET inside == {i \in FramesOf(L) : Installs(i)}
            IN  th[L].errfunc = (inside # {} /\ Max(inside) > 1 /\ cs[Max(inside) - 1].f = "xpcall")

(* A yield cuts off no C function that would have had to go on: all that a *)
(* suspended coroutine has active are Lua functions, the innermost calling *)
(* yield, and nothing of it is left on the native stack.                   *)
YieldLosesNothing ==
    \A L \in Threads : th[L].status = "yield" =>
        /\ \A i \in FramesOf(L) : i = Len(cs) /\ Returns("resume")
        /\ \A i \in 2 .. Len(th[L].ci) - 1 : th[L].ci[i] = "lua"
        /\ Last(th[L].ci) = "yield"

(* What coroutine.status and auxresume conclude from the state of a        *)
(* coroutine is what it is doing: it runs, it waits for one it resumed, it *)
(* can be resumed, or its body is over for good.                           *)
StatusTrue ==
    Runs("cfunction") \/ Runs("execute") =>
        \A co \in Coroutines :
            costatus(Running, co) =
                CASE co = Running -> "running"
                  [] co # Running /\ FramesOf(co) # {} -> "normal"
                  [] FramesOf(co) = {} /\ co \in over -> "dead"
                  [] OTHER -> "suspended"
=============================================================================
