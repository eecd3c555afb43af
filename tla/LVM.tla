--------------------------------- MODULE LVM --------------------------------
(***************************************************************************)
(* The virtual machine of Lua 5.1: luaV_execute of lvm.c, one action per   *)
(* opcode, with calls, protected calls and errors (ldo.c), the upvalues of *)
(* closures (lfunc.c), tag methods (ltm.c), and some of the C functions of *)
(* lbaselib.c.                                                             *)
(*                                                                         *)
(* The thread and the heap are one record L.  A function of the code that  *)
(* calls nothing is an operator on L.  A call, a return and an error are   *)
(* steps of their own, Precall, Resume and Throw, which come before any    *)
(* other (L.todo, L.st = "raise").  Where C code calls Lua and goes on     *)
(* after it, the new frame holds in `k' what is left to do; k is "call"    *)
(* for a call that luaV_execute itself made (its nexeccalls counts those). *)
(*                                                                         *)
(* Left out: hooks, environments other than the globals, userdata, the     *)
(* collector (LGC), coroutines (LDo), locales, NaN.                        *)
(***************************************************************************)
EXTENDS LParser

CONSTANTS
  StackSize,       (* the slots a chunk may need: the code has no limit    *)
  LUAI_MAXCALLS,   (* luaconf.h: 20000                                     *)
  BASIC_CI_SIZE,   (* lstate.h: 8                                          *)
  MAXTAGLOOP       (* lvm.c: 100                                           *)

VARIABLES
  main,   (* the prototype of the chunk *)
  L       (* the thread and the heap    *)

NoUp == -1
Fn(i) == <<"function", i>>
Tbl(i) == <<"table", i>>
ttype(v) == v[1]
l_isfalse(v) == v \in {Nil, Bool(FALSE)}
Message(why) == Str(<<why>>)
Raise(s, v) == [s EXCEPT !.st = IF @ = "ok" THEN "raise" ELSE @, !.out = v]
Error(s, why) == Raise(s, Message(why))

-----------------------------------------------------------------------------
(* Strings and numbers.                                                    *)

Digits == <<"0", "1", "2", "3", "4", "5", "6", "7", "8", "9">>
Alphabet == <<"#", "-">> \o Digits \o <<"a", "b", "c", "k", "n", "s", "x">>
Letter(c) == SelectInSeq(Alphabet, LAMBDA d : d = c)

RECURSIVE DecimalOf(_)
DecimalOf(n) == IF n < 10 THEN <<Digits[n + 1]>> ELSE Append(DecimalOf(n \div 10), Digits[(n % 10) + 1])
lua_number2str(x) ==
  IF x[1] # "lit" THEN <<x>> ELSE IF x[2] < 0 THEN <<"-">> \o DecimalOf(-x[2]) ELSE DecimalOf(x[2])

DigitValue(c) == SelectInSeq(Digits, LAMBDA d : d = c) - 1
IsDecimal(s) == Len(s) > 0 /\ \A i \in DOMAIN s : s[i] \in Range(Digits)
ValueOf(s) == FoldLeft(LAMBDA n, c : 10 * n + DigitValue(c), 0, s)
luaO_str2d(s) ==
  IF IsDecimal(s) THEN Num(Lit(ValueOf(s)))
  ELSE IF Len(s) > 1 /\ Head(s) = "-" /\ IsDecimal(Tail(s)) THEN Num(Lit(-ValueOf(Tail(s)))) ELSE Nil

luaV_tonumber(v) ==
  CASE ttype(v) = "number" -> v [] ttype(v) = "string" -> luaO_str2d(v[2]) [] OTHER -> Nil
IsStringlike(v) == ttype(v) \in {"string", "number"}
luaV_tostring(v) == IF ttype(v) = "number" THEN Str(lua_number2str(v[2])) ELSE v

luai_numlt(x, y) == x[2] < y[2]
RECURSIVE l_strcmp(_, _)
l_strcmp(l, r) ==
  CASE l = <<>> -> IF r = <<>> THEN 0 ELSE -1
    [] l # <<>> /\ r = <<>> -> 1
    [] OTHER -> IF Head(l) = Head(r) THEN l_strcmp(Tail(l), Tail(r)) ELSE Letter(Head(l)) - Letter(Head(r))

-----------------------------------------------------------------------------
(* Tables: a map without nils, a metatable (0: none), and the events that  *)
(* are known to be absent from it as a metatable (flags).                  *)

NoMap == [k \in {} |-> Nil]
NewTab(map) == [h |-> map, mt |-> 0, flags |-> {}]
luaH_get(tabs, t, key) == IF key \in DOMAIN tabs[t].h THEN tabs[t].h[key] ELSE Nil
MapWith(h, key, v) ==
  IF v = Nil THEN [j \in DOMAIN h \ {key} |-> h[j]]
  ELSE [j \in DOMAIN h \cup {key} |-> IF j = key THEN v ELSE h[j]]
SetRaw(tabs, t, key, v) == [tabs EXCEPT ![t].h = MapWith(@, key, v)]
(* A border: unique in the tables of the chunks. *)
luaH_getn(tabs, t) == Max({0} \cup {i \in 1 .. Cardinality(DOMAIN tabs[t].h) :
                                      \A j \in 1 .. i : luaH_get(tabs, t, Num(Lit(j))) # Nil})

TMNames == [index |-> "__index", newindex |-> "__newindex", eq |-> "__eq", add |-> "__add", sub |-> "__sub",
            mul |-> "__mul", div |-> "__div", mod |-> "__mod", pow |-> "__pow", unm |-> "__unm", len |-> "__len",
            lt |-> "__lt", le |-> "__le", concat |-> "__concat", call |-> "__call", metatable |-> "__metatable"]
EventName(e) == Str(<<TMNames[e]>>)
luaT_gettmbyobj(tabs, o, e) ==
  IF ttype(o) = "table" /\ tabs[o[2]].mt # 0 THEN luaH_get(tabs, tabs[o[2]].mt, EventName(e)) ELSE Nil

(* The cache: what fasttm answers, and the flags it leaves. *)
fasttm(tabs, mt, e) ==
  IF mt = 0 \/ (mt # 0 /\ e \in tabs[mt].flags) THEN Nil ELSE luaH_get(tabs, mt, EventName(e))
CacheTM(tabs, mt, e) ==
  IF mt = 0 \/ (mt # 0 /\ luaH_get(tabs, mt, EventName(e)) # Nil) THEN tabs
  ELSE [tabs EXCEPT ![mt].flags = @ \cup {e}]

(* lbaselib.c: the results of a C function and the tables it leaves, or    *)
(* the message of the error it raises.                                     *)
CResult(tabs, vs) == [tabs |-> tabs, vs |-> vs, err |-> Nil]
CError(tabs, v) == [tabs |-> tabs, vs |-> <<>>, err |-> v]
Arg(args, i) == IF i <= Len(args) THEN args[i] ELSE Nil

luaB_setmetatable(tabs, args) ==
  IF ttype(Arg(args, 1)) # "table" \/ Len(args) < 2 \/ ttype(Arg(args, 2)) \notin {"nil", "table"}
    THEN CError(tabs, Message("bad argument"))
  ELSE IF luaT_gettmbyobj(tabs, args[1], "metatable") # Nil THEN CError(tabs, Message("protected"))
  ELSE CResult([tabs EXCEPT ![args[1][2]].mt = IF args[2] = Nil THEN 0 ELSE args[2][2]], <<args[1]>>)

luaB_rawset(tabs, args) ==
  IF ttype(Arg(args, 1)) # "table" \/ Len(args) < 3 THEN CError(tabs, Message("bad argument"))
  ELSE IF args[2] = Nil THEN CError(tabs, Message("table index is nil"))
  ELSE CResult([SetRaw(tabs, args[1][2], args[2], args[3]) EXCEPT ![args[1][2]].flags = {}], <<args[1]>>)

(* The generator ipairs returns is itself the third C function. *)
CNames == <<"setmetatable", "rawset", "ipairsaux", "ipairs", "select", "unpack", "error", "pcall">>
ipairsaux(tabs, args) ==
  LET i == Num(Lit(args[2][2][2] + 1))
      v == luaH_get(tabs, args[1][2], i)
  IN  CResult(tabs, IF v = Nil THEN <<>> ELSE <<i, v>>)
luaB_ipairs(tabs, args) ==
  IF ttype(Arg(args, 1)) # "table" THEN CError(tabs, Message("bad argument"))
  ELSE CResult(tabs, <<Fn(3), args[1], Num(Lit(0))>>)

luaB_select(tabs, args) ==
  LET n == Len(args)
      i == luaV_tonumber(args[1])[2][2]
      from == IF i < 0 THEN n + i ELSE IF i > n THEN n ELSE i
  IN  IF args[1] = Str(<<"#">>) THEN CResult(tabs, <<Num(Lit(n - 1))>>)
      ELSE IF from < 1 THEN CError(tabs, Message("bad argument"))
      ELSE CResult(tabs, SubSeq(args, from + 1, n))

luaB_unpack(tabs, args) ==
  IF ttype(Arg(args, 1)) # "table" THEN CError(tabs, Message("bad argument"))
  ELSE CResult(tabs, [i \in 1 .. luaH_getn(tabs, args[1][2]) |-> luaH_get(tabs, args[1][2], Num(Lit(i)))])

CFunction(tabs, name, args) ==
  CASE name = "setmetatable" -> luaB_setmetatable(tabs, args)
    [] name = "rawset"    -> luaB_rawset(tabs, args)
    [] name = "ipairsaux" -> ipairsaux(tabs, args)
    [] name = "ipairs"    -> luaB_ipairs(tabs, args)
    [] name = "select"    -> luaB_select(tabs, args)
    [] name = "unpack"    -> luaB_unpack(tabs, args)
    [] name = "error"     -> CError(tabs, Arg(args, 1))

-----------------------------------------------------------------------------
(* The stack, its frames, and the upvalues that point into it.             *)

S(s, i) == s.stack[i]
Put(s, i, v) == [s EXCEPT !.stack[i] = v]
CI(s) == Last(s.ci)
SetTop(s, top) == [s EXCEPT !.top = top]
SetPC(s, pc) == [s EXCEPT !.ci[Len(s.ci)].pc = pc]
Skip1(s) == SetPC(s, CI(s).pc + 1)
Between(s, from, to) == [i \in 1 .. to - from |-> S(s, from + i - 1)]     (* slots from .. to - 1 *)
luaD_checkstack(s, n) == Check(s, s.top + n < StackSize, "bound")
PutAll(s, from, vs) ==
  [s EXCEPT !.stack = [i \in DOMAIN @ |-> IF from <= i /\ i < from + Len(vs) THEN vs[i - from + 1] ELSE @[i]]]
Push(s, vs) == Then(luaD_checkstack(s, Len(vs)), LAMBDA t : SetTop(PutAll(t, t.top, vs), t.top + Len(vs)))

Level(s, u) == s.upv[u].v
(* The open upvalue of the slot, made if there is none; its index is left  *)
(* in r.  The list is kept in descending order of the slots.               *)
luaF_findupvalNew(s, level) ==
  LET higher == SelectSeq(s.open, LAMBDA u : Level(s, u) > level)
      new == Len(s.upv) + 1
  IN  Ret([s EXCEPT !.upv = Append(@, [v |-> level, value |-> Nil]),
                    !.open = InsertAt(@, Len(higher) + 1, new)], new)
luaF_findupval(s, level) ==
  LET higher == SelectSeq(s.open, LAMBDA u : Level(s, u) > level)
      here == SelectSeq(s.open, LAMBDA u : Level(s, u) = level)
      new == Len(s.upv) + 1
  IN  IF here # <<>> THEN Ret(s, here[1])
      ELSE Ret([s EXCEPT !.upv = Append(@, [v |-> level, value |-> Nil]),
                         !.open = InsertAt(@, Len(higher) + 1, new)], new)

luaF_closeAbove(s, level) ==
  LET closes == {u \in Range(s.open) : Level(s, u) > level}
  IN  [s EXCEPT !.open = SelectSeq(@, LAMBDA u : u \notin closes),
                !.upv = [u \in DOMAIN @ |-> IF u \in closes THEN [v |-> NoUp, value |-> S(s, @[u].v)] ELSE @[u]]]
luaF_close(s, level) ==
  LET closes == {u \in Range(s.open) : Level(s, u) >= level}
  IN  [s EXCEPT !.open = SelectSeq(@, LAMBDA u : u \notin closes),
                !.upv = [u \in DOMAIN @ |-> IF u \in closes THEN [v |-> NoUp, value |-> S(s, @[u].v)] ELSE @[u]]]

UpValue(s, u) == IF Level(s, u) = NoUp THEN s.upv[u].value ELSE S(s, Level(s, u))
SetUpValue(s, u, v) == IF Level(s, u) = NoUp THEN [s EXCEPT !.upv[u].value = v] ELSE Put(s, Level(s, u), v)

(* A closure is a C function, or a prototype and its upvalues; the         *)
(* prototype is named by the way to it from the main function.             *)
RECURSIVE ProtoAt(_, _)
ProtoAt(p, path) == IF path = <<>> THEN p ELSE ProtoAt(p.p[Head(path)], Tail(path))
ClosureOf(s, f) == s.cls[S(s, f)[2]]

-----------------------------------------------------------------------------
(* ldo.c: calls and returns.                                               *)

(* The frame that is entered, if there is a CallInfo for it. *)
inc_ci(s, frame) ==
  LET grown == [s EXCEPT !.size_ci = 2 * @]
  IN  IF Len(s.ci) < s.size_ci THEN [s EXCEPT !.ci = Append(@, frame)]
      ELSE IF s.size_ci > LUAI_MAXCALLS THEN Error(s, "error in error handling")
      ELSE IF grown.size_ci > LUAI_MAXCALLS THEN Error(grown, "stack overflow")
      ELSE [grown EXCEPT !.ci = Append(@, frame)]

(* The fixed parameters are moved above the extra arguments; the base is   *)
(* left in r.                                                              *)
adjust_varargs(s0, p, actual0) ==
  LET actual == IF actual0 < p.numparams THEN p.numparams ELSE actual0
      nvar == actual - p.numparams
      needsarg == "NEEDSARG" \in p.is_vararg
      fixed(s) == s.top - actual
      extra(s) == Between(s, s.top - nvar, s.top)
      argtab(s) == [k \in {Num(Lit(i)) : i \in {j \in 1 .. nvar : extra(s)[j] # Nil}} \cup {Str(<<"n">>)} |->
                      IF k[1] = "string" THEN Num(Lit(nvar)) ELSE extra(s)[k[2][2]]]
  IN  Then(Push(s0, [i \in 1 .. actual - actual0 |-> Nil]), LAMBDA s1 :
      Then(IF needsarg THEN [s1 EXCEPT !.tabs = Append(@, NewTab(argtab(s1)))] ELSE s1, LAMBDA s2 :
      Then(Push(s2, Between(s2, fixed(s2), fixed(s2) + p.numparams)), LAMBDA s3 :
        LET s4 == PutAll(s3, fixed(s2), [i \in 1 .. p.numparams |-> Nil])
        IN  Ret(IF needsarg THEN Push(s4, <<Tbl(Len(s4.tabs))>>) ELSE s4, s2.top))))

(* Open a hole at the function for the tag method. *)
tryfuncTM(s, func) ==
  LET tm == luaT_gettmbyobj(s.tabs, S(s, func), "call")
  IN  IF ttype(tm) # "function" THEN Error(s, "call")
      ELSE Then(luaD_checkstack(s, 1), LAMBDA t :
             SetTop(PutAll(t, func, <<tm>> \o Between(t, func, t.top)), t.top + 1))

PrecallLua(s0, func, nresults, k) ==
  LET p == ProtoAt(main, ClosureOf(s0, func).p)
      Enter(s) == Then(inc_ci(s, [func |-> func, base |-> s.r, top |-> s.r + p.max, pc |-> 0,
                                  nresults |-> nresults, k |-> k, old |-> <<>>]), LAMBDA t :
                    SetTop(PutAll(t, t.top, [i \in 1 .. s.r + p.max - t.top |-> Nil]), s.r + p.max))
  IN  Then(luaD_checkstack(s0, p.max), LAMBDA s :
      Then(IF p.is_vararg = {}
             THEN Ret(SetTop(s, IF s.top > func + 1 + p.numparams THEN func + 1 + p.numparams ELSE s.top), func + 1)
             ELSE adjust_varargs(s, p, s.top - func - 1), Enter))

(* The frame goes; its results, as many as are wanted, are where its       *)
(* function was.                                                           *)
luaD_poscall(s, results) ==
  LET wanted == CI(s).nresults
      n == IF wanted = -1 THEN Len(results) ELSE wanted
      res == CI(s).func
  IN  [SetTop(PutAll(s, res, [i \in 1 .. n |-> Arg(results, i)]), res + n) EXCEPT !.ci = Front(@)]

(* To be called, resp. to go on after a return: k is what the caller does  *)
(* next.                                                                   *)
ToCall(s, func, nresults, k) == [s EXCEPT !.todo = <<"call", k, nresults, func>>]
ToResume(s, k, nresults) == [s EXCEPT !.todo = <<"resume", k, nresults>>]
luaD_call(s, func, nresults, k) ==
  LET t == [s EXCEPT !.nCcalls = @ + 1]
  IN  IF t.nCcalls = LUAI_MAXCCALLS THEN Error(t, "C stack overflow")
      ELSE IF t.nCcalls >= LUAI_MAXCCALLS + (LUAI_MAXCCALLS \div 8) THEN Error(t, "error in error handling")
      ELSE ToCall(t, func, nresults, k)

(* pcall calls its argument and remembers how to go back; the others are   *)
(* run, and return, at once.                                               *)
PrecallC(s0, func, nresults, k) ==
  LET name == ClosureOf(s0, func).c
      args == Between(s0, func + 1, s0.top)
      frame == [func |-> func, base |-> func + 1, top |-> s0.top, pc |-> 0, nresults |-> nresults,
                k |-> k, old |-> IF name = "pcall" THEN <<func + 1, s0.nCcalls>> ELSE <<>>]
      Run1(s, c) == IF c.err # Nil \/ name = "error" THEN Raise(s, c.err)
                    ELSE ToResume(luaD_poscall([s EXCEPT !.tabs = c.tabs], c.vs), k, nresults)
  IN  Then(inc_ci(s0, frame), LAMBDA s :
        IF name # "pcall" THEN Run1(s, CFunction(s.tabs, name, args))
        ELSE IF args = <<>> THEN Error([s EXCEPT !.ci[Len(s.ci)].old = <<>>], "bad argument")
        ELSE luaD_call(s, func + 1, -1, <<"pcall">>))

(* The new frame takes the place of the one that made a tail call. *)
MoveFrameDown(s) ==
  LET new == CI(s)
      old == s.ci[Len(s.ci) - 1]
      closed == luaF_close(s, old.base)
      n == s.top - new.func
      moved == SetTop(PutAll(closed, old.func, Between(closed, new.func, s.top)), old.func + n)
      base == old.func + (new.base - new.func)
      p == ProtoAt(main, ClosureOf(s, new.func).p)
  IN  Check([moved EXCEPT !.ci = Append(SubSeq(@, 1, Len(@) - 2),
                 [old EXCEPT !.base = base, !.top = old.func + n, !.pc = new.pc])],
            old.func + n = base + p.max, "assert")

luaD_precall(s0, func, nresults, k) ==
  Then(IF ttype(S(s0, func)) = "function" THEN s0 ELSE tryfuncTM(s0, func), LAMBDA s :
    IF ClosureOf(s, func).c # "" THEN PrecallC(s, func, nresults, k)
    ELSE IF k = <<"tailcall">> THEN Then(PrecallLua(s, func, nresults, <<"call">>), MoveFrameDown)
    ELSE PrecallLua(s, func, nresults, k))

(* luaD_throw ends in luaD_pcall of the innermost protected call: what the *)
(* error left behind is undone, and pcall returns false and the message.   *)
(* Without one the error is the host's.                                    *)
restore_stack_limit(s) ==
  [s EXCEPT !.size_ci = IF @ > LUAI_MAXCALLS /\ Len(s.ci) < LUAI_MAXCALLS THEN LUAI_MAXCALLS ELSE @]
Handlers(s) == {i \in DOMAIN s.ci : s.ci[i].old # <<>>}
Unwound(s, f) ==
  ToResume(luaD_poscall(restore_stack_limit([s EXCEPT !.st = "ok", !.ci = SubSeq(@, 1, Max(Handlers(s))), !.nCcalls = f.old[2]]),
                        <<Bool(FALSE), s.out>>), f.k, f.nresults)
luaD_throwOpen(s) ==
  IF Handlers(s) = {} THEN [s EXCEPT !.st = "error"] ELSE Unwound(s, s.ci[Max(Handlers(s))])
luaD_throw(s) ==
  IF Handlers(s) = {} THEN [s EXCEPT !.st = "error"]
  ELSE LET f == s.ci[Max(Handlers(s))] IN Unwound(luaF_close(s, f.old[1]), f)

(* callTMres and callTM. *)
callTMres(s, k, f, p1, p2) == Then(Push(s, <<f, p1, p2>>), LAMBDA t : luaD_call(t, t.top - 3, 1, k))
callTM(s, f, p1, p2, p3) ==
  Then(Push(s, <<f, p1, p2, p3>>), LAMBDA t : luaD_call(t, t.top - 4, 0, <<"drop">>))

-----------------------------------------------------------------------------
(* lvm.c: operations that may call tag methods.                            *)

RECURSIVE luaV_gettable(_, _, _, _, _)
luaV_gettable(s, t, key, val, loop) ==
  LET istable == ttype(t) = "table"
      mt == s.tabs[t[2]].mt
      res == luaH_get(s.tabs, t[2], key)
      tm == IF istable THEN fasttm(s.tabs, mt, "index") ELSE luaT_gettmbyobj(s.tabs, t, "index")
      cached == IF istable THEN [s EXCEPT !.tabs = CacheTM(@, mt, "index")] ELSE s
  IN  IF loop = MAXTAGLOOP THEN Error(s, "loop")
      ELSE IF istable /\ res # Nil THEN Put(s, val, res)
      ELSE IF tm = Nil THEN IF istable THEN Put(cached, val, Nil) ELSE Error(s, "index")
      ELSE IF ttype(tm) = "function" THEN callTMres(cached, <<"res", val>>, tm, t, key)
      ELSE luaV_gettable(cached, tm, key, val, loop + 1)

(* luaH_set clears the flags; so does the assignment, after fasttm may     *)
(* have set one.                                                           *)
RECURSIVE luaV_settableStale(_, _, _, _, _)
luaV_settableStale(s, t, key, val, loop) ==
  LET istable == ttype(t) = "table"
      mt == s.tabs[t[2]].mt
      set == [s EXCEPT !.tabs[t[2]].flags = {}]
      tm == IF istable THEN fasttm(set.tabs, mt, "newindex") ELSE luaT_gettmbyobj(s.tabs, t, "newindex")
      cached == IF istable THEN [set EXCEPT !.tabs = CacheTM(@, mt, "newindex")] ELSE s
  IN  IF loop = MAXTAGLOOP THEN Error(s, "loop")
      ELSE IF istable /\ key = Nil THEN Error(set, "table index is nil")
      ELSE IF istable /\ (luaH_get(s.tabs, t[2], key) # Nil \/ tm = Nil)
        THEN [IF luaH_get(s.tabs, t[2], key) # Nil THEN set ELSE cached EXCEPT
                !.tabs = SetRaw(@, t[2], key, val)]
      ELSE IF tm = Nil THEN Error(s, "index")
      ELSE IF ttype(tm) = "function" THEN callTM(cached, tm, t, key, val)
      ELSE luaV_settableStale(cached, tm, key, val, loop + 1)

RECURSIVE luaV_settable(_, _, _, _, _)
luaV_settable(s, t, key, val, loop) ==
  LET istable == ttype(t) = "table"
      mt == s.tabs[t[2]].mt
      set == [s EXCEPT !.tabs[t[2]].flags = {}]
      tm == IF istable THEN fasttm(set.tabs, mt, "newindex") ELSE luaT_gettmbyobj(s.tabs, t, "newindex")
      cached == IF istable THEN [set EXCEPT !.tabs = CacheTM(@, mt, "newindex")] ELSE s
  IN  IF loop = MAXTAGLOOP THEN Error(s, "loop")
      ELSE IF istable /\ key = Nil THEN Error(set, "table index is nil")
      ELSE IF istable /\ (luaH_get(s.tabs, t[2], key) # Nil \/ tm = Nil)
        THEN [IF luaH_get(s.tabs, t[2], key) # Nil THEN set ELSE cached EXCEPT
                !.tabs = [SetRaw(@, t[2], key, val) EXCEPT ![t[2]].flags = {}]]
      ELSE IF tm = Nil THEN Error(s, "index")
      ELSE IF ttype(tm) = "function" THEN callTM(cached, tm, t, key, val)
      ELSE luaV_settable(cached, tm, key, val, loop + 1)

(* The tag method of a binary event, or the error that there is none. *)
call_binTM(s, p1, p2, k, event, error) ==
  LET tm1 == luaT_gettmbyobj(s.tabs, p1, event)
      tm == IF tm1 = Nil THEN luaT_gettmbyobj(s.tabs, p2, event) ELSE tm1
  IN  IF tm = Nil THEN Error(s, error) ELSE callTMres(s, k, tm, p1, p2)

Arith(s, ra, rb, rc, op) ==
  LET b == luaV_tonumber(rb)
      c == luaV_tonumber(rc)
  IN  IF b # Nil /\ c # Nil THEN Put(s, ra, Num(NumArith(op, b[2], c[2])))
      ELSE call_binTM(s, rb, rc, <<"res", ra>>, op, "arithmetic")

(* Comparisons leave their answer to a conditional jump: the instruction   *)
(* after the one at hand.                                                  *)
Instr(s, pc) == ProtoAt(main, ClosureOf(s, CI(s).func).p).code[pc + 1]
CondJump(s, res) ==
  LET pc == CI(s).pc
  IN  SetPC(s, pc + 1 + (IF res = (Instr(s, pc - 1).a = 1) THEN Instr(s, pc).b ELSE 0))

(* The metamethod that both have, or nil. *)
get_compTM(tabs, mt1, mt2, event) ==
  LET tm1 == fasttm(tabs, mt1, event)
  IN  IF tm1 = Nil \/ mt1 = mt2 THEN tm1
      ELSE IF fasttm(tabs, mt2, event) = tm1 THEN tm1 ELSE Nil
luaV_equal(s, t1, t2) ==
  LET mt1 == s.tabs[t1[2]].mt
      mt2 == s.tabs[t2[2]].mt
      tm == get_compTM(s.tabs, mt1, mt2, "eq")
      one == CacheTM(s.tabs, mt1, "eq")
      cached == [s EXCEPT !.tabs = IF fasttm(s.tabs, mt1, "eq") = Nil THEN one ELSE CacheTM(one, mt2, "eq")]
  IN  IF ttype(t1) # ttype(t2) THEN CondJump(s, FALSE)
      ELSE IF t1 = t2 \/ ttype(t1) # "table" THEN CondJump(s, t1 = t2)
      ELSE IF tm = Nil THEN CondJump(cached, FALSE) ELSE callTMres(cached, <<"cond", TRUE>>, tm, t1, t2)

HasOrderTM(s, p1, p2, event) ==
  LET tm == luaT_gettmbyobj(s.tabs, p1, event)
  IN  tm # Nil /\ tm = luaT_gettmbyobj(s.tabs, p2, event)
call_orderTM(s, p1, p2, event, positive) ==
  callTMres(s, <<"cond", positive>>, luaT_gettmbyobj(s.tabs, p1, event), p1, p2)
luaV_lessthan(s, l, r) ==
  IF ttype(l) # ttype(r) THEN Error(s, "compare")
  ELSE IF ttype(l) = "number" THEN CondJump(s, luai_numlt(l[2], r[2]))
  ELSE IF ttype(l) = "string" THEN CondJump(s, l_strcmp(l[2], r[2]) < 0)
  ELSE IF HasOrderTM(s, l, r, "lt") THEN call_orderTM(s, l, r, "lt", TRUE) ELSE Error(s, "compare")
lessequal(s, l, r) ==
  IF ttype(l) # ttype(r) THEN Error(s, "compare")
  ELSE IF ttype(l) = "number" THEN CondJump(s, ~luai_numlt(r[2], l[2]))
  ELSE IF ttype(l) = "string" THEN CondJump(s, l_strcmp(l[2], r[2]) <= 0)
  ELSE IF HasOrderTM(s, l, r, "le") THEN call_orderTM(s, l, r, "le", TRUE)
  ELSE IF HasOrderTM(s, r, l, "lt") THEN call_orderTM(s, r, l, "lt", FALSE) ELSE Error(s, "compare")

(* Concatenation of the registers up to `last', `total' of them, from the  *)
(* right, as many strings at a time as there are; then OP_CONCAT's end.    *)
RECURSIVE luaV_concat(_, _, _)
luaV_concat(s, total, last) ==
  LET top == CI(s).base + last + 1
      i == Instr(s, CI(s).pc - 1)
      at(n) == S(s, top - n)
      text(n) == luaV_tostring(at(n))[2]
      n == Min({m \in 2 .. total : m = total \/ ~IsStringlike(at(m + 1))})
      joined == Str(FlattenSeq([j \in 1 .. n |-> text(n + 1 - j)]))
  IN  IF total = 1 THEN Put(s, CI(s).base + i.a, S(s, CI(s).base + i.b))
      ELSE IF IsStringlike(at(2)) /\ IsStringlike(at(1))
        THEN IF text(1) = <<>> THEN luaV_concat(Put(s, top - 2, luaV_tostring(at(2))), total - 1, last - 1)
             ELSE luaV_concat(Put(s, top - n, joined), total - (n - 1), last - (n - 1))
        ELSE call_binTM(s, at(2), at(1), <<"concat", total, last>>, "concat", "concatenate")

(* The loop of the generic for goes on unless the first result is nil. *)
EndTForLoop(s) ==
  LET pc == CI(s).pc
      cb == CI(s).base + Instr(s, pc - 1).a + 3
  IN  IF S(s, cb) = Nil THEN SetPC(s, pc + 1) ELSE SetPC(Put(s, cb - 1, S(s, cb)), pc + 1 + Instr(s, pc).b)

(* What the caller of a function that has returned does with the results. *)
Pop(s) == SetTop(s, s.top - 1)
Resumed(s0, k, wanted) ==
  LET s == IF k[1] \in {"call", "tailcall"} THEN s0 ELSE [s0 EXCEPT !.nCcalls = @ - 1]
      v == S(s, s.top - 1)
      frame == CI(s)
  IN  CASE k[1] \in {"call", "tailcall"} -> IF wanted >= 0 THEN SetTop(s, frame.top) ELSE s
        [] k[1] = "res"  -> Put(Pop(s), k[2], v)
        [] k[1] = "drop" -> s
        [] k[1] = "cond" -> CondJump(Pop(s), l_isfalse(v) # k[2])
        [] k[1] = "concat" -> luaV_concat(Put(Pop(s), frame.base + k[3] - 1, v), k[2] - 1, k[3] - 1)
        [] k[1] = "tfor" -> EndTForLoop(SetTop(s, frame.top))
        [] k[1] = "pcall" -> ToResume(luaD_poscall(s, <<Bool(TRUE)>> \o Between(s, frame.func + 1, s.top)), frame.k, frame.nresults)
        [] k[1] = "host" -> [s EXCEPT !.st = "done", !.out = Between(s, 1, s.top)]

-----------------------------------------------------------------------------
(* luaV_execute.                                                           *)

Cur == CI(L)
I == Instr(L, Cur.pc)
N == Skip1(L)                       (* with the pc past the instruction *)
P == ProtoAt(main, ClosureOf(L, Cur.func).p)
RA == Cur.base + I.a
R(i) == S(L, Cur.base + i)
KBx == P.k[I.b + 1]
RK(x) == IF ISK(x) THEN P.k[INDEXK(x) + 1] ELSE R(x)
Globals == Tbl(1)

(* The assertions at the head of the loop. *)
HeadAsserts ==
  /\ Cur.base <= L.top
  /\ L.top = Cur.top \/ luaG_checkopenop(I)

Ready == L.st = "ok" /\ L.todo = <<>>
Executes(ops) == Ready /\ I.op \in ops
Becomes(s) == L' = s /\ UNCHANGED main

Done == [L EXCEPT !.todo = <<>>]
Precall ==
  /\ L.st = "ok" /\ L.todo # <<>> /\ L.todo[1] = "call"
  /\ Becomes(luaD_precall(Done, L.todo[4], L.todo[3], L.todo[2]))
Resume ==
  /\ L.st = "ok" /\ L.todo # <<>> /\ L.todo[1] = "resume"
  /\ Becomes(Resumed(Done, L.todo[2], L.todo[3]))
Throw == L.st = "raise" /\ Becomes(luaD_throw(L))

OP_MOVE == Executes({"move"}) /\ Becomes(Put(N, RA, R(I.b)))
OP_LOADK == Executes({"loadk"}) /\ Becomes(Put(N, RA, KBx))
OP_LOADBOOL ==
  Executes({"loadbool"}) /\ Becomes(Put(IF I.c = 0 THEN N ELSE Skip1(N), RA, Bool(I.b # 0)))
OP_LOADNIL ==
  Executes({"loadnil"}) /\ Becomes(PutAll(N, RA, [i \in 1 .. I.b - I.a + 1 |-> Nil]))

Upvals == ClosureOf(L, Cur.func).up
OP_GETUPVAL == Executes({"getupval"}) /\ Becomes(Put(N, RA, UpValue(L, Upvals[I.b + 1])))
OP_SETUPVAL == Executes({"setupval"}) /\ Becomes(SetUpValue(N, Upvals[I.b + 1], R(I.a)))

OP_GETGLOBAL == Executes({"getglobal"}) /\ Becomes(luaV_gettable(N, Globals, KBx, RA, 0))
OP_GETTABLE == Executes({"gettable"}) /\ Becomes(luaV_gettable(N, R(I.b), RK(I.c), RA, 0))
OP_SETGLOBAL == Executes({"setglobal"}) /\ Becomes(luaV_settable(N, Globals, KBx, R(I.a), 0))
OP_SETTABLE == Executes({"settable"}) /\ Becomes(luaV_settable(N, R(I.a), RK(I.b), RK(I.c), 0))
OP_SELF ==
  Executes({"self"}) /\ Becomes(luaV_gettable(Put(N, RA + 1, R(I.b)), R(I.b), RK(I.c), RA, 0))
OP_NEWTABLE ==
  /\ Executes({"newtable"})
  /\ Becomes(Put([N EXCEPT !.tabs = Append(@, NewTab(NoMap))], RA, Tbl(Len(L.tabs) + 1)))

OP_ARITH == Executes(ArithOps) /\ Becomes(Arith(N, RA, RK(I.b), RK(I.c), I.op))
OP_UNM == Executes({"unm"}) /\ Becomes(Arith(N, RA, R(I.b), R(I.b), "unm"))
OP_NOT == Executes({"not"}) /\ Becomes(Put(N, RA, Bool(l_isfalse(R(I.b)))))
OP_LEN ==
  /\ Executes({"len"})
  /\ LET rb == R(I.b)
     IN  Becomes(CASE ttype(rb) = "table"  -> Put(N, RA, Num(Lit(luaH_getn(L.tabs, rb[2]))))
                   [] ttype(rb) = "string" -> Put(N, RA, Num(Lit(Len(rb[2]))))
                   [] OTHER -> call_binTM(N, rb, Nil, <<"res", RA>>, "len", "get length of"))
OP_CONCAT == Executes({"concat"}) /\ Becomes(luaV_concat(N, I.c - I.b + 1, I.c))

OP_JMP == Executes({"jmp"}) /\ Becomes(SetPC(N, CI(N).pc + I.b))
OP_EQ == Executes({"eq"}) /\ Becomes(luaV_equal(N, RK(I.b), RK(I.c)))
OP_LT == Executes({"lt"}) /\ Becomes(luaV_lessthan(N, RK(I.b), RK(I.c)))
OP_LE == Executes({"le"}) /\ Becomes(lessequal(N, RK(I.b), RK(I.c)))

(* The jump that follows is taken, or skipped. *)
JumpIf(s, yes) ==
  SetPC(s, CI(s).pc + 1 + (IF yes THEN Instr(s, CI(s).pc).b ELSE 0))
OP_TEST == Executes({"test"}) /\ Becomes(JumpIf(N, l_isfalse(R(I.a)) # (I.c = 1)))
OP_TESTSET ==
  /\ Executes({"testset"})
  /\ LET yes == l_isfalse(R(I.b)) # (I.c = 1)
     IN  Becomes(JumpIf(IF yes THEN Put(N, RA, R(I.b)) ELSE N, yes))

Called == IF I.b # 0 THEN SetTop(N, RA + I.b) ELSE N
OP_CALL == Executes({"call"}) /\ Becomes(ToCall(Called, RA, I.c - 1, <<"call">>))

OP_TAILCALL ==
  Executes({"tailcall"}) /\ Becomes(ToCall(Check(Called, I.c = 0, "assert"), RA, -1, <<"tailcall">>))

OP_RETURN ==
  /\ Executes({"return"})
  /\ LET s == luaF_close(IF I.b # 0 THEN SetTop(N, RA + I.b - 1) ELSE N, Cur.base)
         t == luaD_poscall(s, Between(s, RA, s.top))
     IN  Becomes(ToResume(Check(t, Cur.k = <<"call">> => Instr(t, CI(t).pc - 1).op = "call", "assert"),
                          Cur.k, Cur.nresults))

OP_FORPREP ==
  /\ Executes({"forprep"})
  /\ LET init == luaV_tonumber(R(I.a))
         limit == luaV_tonumber(R(I.a + 1))
         step == luaV_tonumber(R(I.a + 2))
     IN  Becomes(IF Nil \in {init, limit, step} THEN Error(N, "for")
                 ELSE SetPC(PutAll(N, RA, <<Num(NumArith("sub", init[2], step[2])), limit, step>>), CI(N).pc + I.b))
OP_FORLOOP ==
  /\ Executes({"forloop"})
  /\ LET step == R(I.a + 2)[2]
         idx == NumArith("add", R(I.a)[2], step)
         limit == R(I.a + 1)[2]
         on == IF luai_numlt(Lit(0), step) THEN ~luai_numlt(limit, idx) ELSE ~luai_numlt(idx, limit)
     IN  Becomes(IF on THEN SetPC(Put(Put(N, RA, Num(idx)), RA + 3, Num(idx)), CI(N).pc + I.b) ELSE N)
OP_TFORLOOP ==
  /\ Executes({"tforloop"})
  /\ LET cb == RA + 3
         s == SetTop(PutAll(N, cb, <<R(I.a), R(I.a + 1), R(I.a + 2)>>), cb + 3)
     IN  Becomes(luaD_call(s, cb, I.c, <<"tfor">>))

(* With C = 0 the next word is the batch number, and no instruction. *)
OP_SETLIST ==
  /\ Executes({"setlist"})
  /\ LET n == IF I.b = 0 THEN L.top - RA - 1 ELSE I.b
         c == IF I.c = 0 THEN Encode(Instr(L, Cur.pc + 1)) ELSE I.c
         t == R(I.a)[2]
         s == SetTop(IF I.c = 0 THEN Skip1(N) ELSE N, IF I.b = 0 THEN Cur.top ELSE L.top)
     IN  Becomes([s EXCEPT !.tabs = FoldLeft(LAMBDA tabs, i :
            SetRaw(tabs, t, Num(Lit((c - 1) * LFIELDS_PER_FLUSH + i)), R(I.a + i)), @, [i \in 1 .. n |-> i])])

OP_CLOSE == Executes({"close"}) /\ Becomes(luaF_close(N, RA))

(* One instruction per upvalue says where it is. *)
OP_CLOSURE ==
  /\ Executes({"closure"})
  /\ LET path == Append(ClosureOf(L, Cur.func).p, I.b + 1)
         nup == P.p[I.b + 1].nups
         Capture(s, j) ==
           LET i == Instr(L, Cur.pc + j)
               found == IF i.op = "getupval" THEN Ret(s, Upvals[i.b + 1])
                        ELSE luaF_findupval(Check(s, i.op = "move", "assert"), Cur.base + i.b)
           IN  [found EXCEPT !.cls[Len(L.cls) + 1].up = Append(@, found.r)]
         new == [N EXCEPT !.cls = Append(@, [c |-> "", p |-> path, up |-> <<>>])]
         s == FoldLeft(Capture, new, [j \in 1 .. nup |-> j])
     IN  Becomes(SetPC(Put(s, RA, Fn(Len(L.cls) + 1)), CI(N).pc + nup))

OP_VARARG ==
  /\ Executes({"vararg"})
  /\ LET n == Cur.base - Cur.func - P.numparams - 1
         extra == Between(L, Cur.base - n, Cur.base)
         b == IF I.b = 0 THEN n ELSE I.b - 1
         s == IF I.b = 0 THEN SetTop(luaD_checkstack(N, n), RA + n) ELSE N
     IN  Becomes(Then(s, LAMBDA t : PutAll(t, RA, [i \in 1 .. b |-> Arg(extra, i)])))

Execute ==
  \/ Precall \/ Resume \/ Throw
  \/ OP_MOVE \/ OP_LOADK \/ OP_LOADBOOL \/ OP_LOADNIL \/ OP_GETUPVAL \/ OP_SETUPVAL
  \/ OP_GETGLOBAL \/ OP_GETTABLE \/ OP_SETGLOBAL \/ OP_SETTABLE \/ OP_SELF \/ OP_NEWTABLE
  \/ OP_ARITH \/ OP_UNM \/ OP_NOT \/ OP_LEN \/ OP_CONCAT \/ OP_JMP \/ OP_EQ \/ OP_LT \/ OP_LE
  \/ OP_TEST \/ OP_TESTSET \/ OP_CALL \/ OP_TAILCALL \/ OP_RETURN \/ OP_FORPREP \/ OP_FORLOOP
  \/ OP_TFORLOOP \/ OP_SETLIST \/ OP_CLOSE \/ OP_CLOSURE \/ OP_VARARG

(* A fresh thread: the globals and the C functions, the chunk's closure    *)
(* and its arguments on the stack, called for all its results.             *)
Builtins ==
  [k \in {Str(<<CNames[i]>>) : i \in DOMAIN CNames} |-> Fn(SelectInSeq(CNames, LAMBDA c : c = k[2][1]))]
NewState ==
  [stack |-> [i \in 0 .. StackSize - 1 |-> Nil], top |-> 1,
   ci |-> <<[func |-> 0, base |-> 1, top |-> 1, pc |-> 0, nresults |-> 0, k |-> <<"none">>, old |-> <<>>]>>,
   size_ci |-> BASIC_CI_SIZE, nCcalls |-> 0, open |-> <<>>, upv |-> <<>>,
   tabs |-> <<NewTab(Builtins)>>,
   cls |-> Append([i \in DOMAIN CNames |-> [c |-> CNames[i], p |-> <<>>, up |-> <<>>]],
                  [c |-> "", p |-> <<>>, up |-> <<>>]),
   st |-> "ok", todo |-> <<>>, r |-> 0, out |-> <<>>]
Start(args) == luaD_call(Push(NewState, <<Fn(Len(CNames) + 1)>> \o args), 1, -1, <<"host">>)
=============================================================================
