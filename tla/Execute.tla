------------------------------- MODULE Execute ------------------------------
(***************************************************************************)
(* A chunk from its syntax tree to its results: LuaState.load compiles it  *)
(* (CodeGen), run or call enters it, and executeLua of vm.zig interprets   *)
(* its bytecode, one action per opcode, with calls of other chunks and of  *)
(* C functions.                                                            *)
(*                                                                         *)
(* The interpreter calls itself for every Lua call: `frames' are the       *)
(* activations of executeLua, each with its base, its pc and what the      *)
(* surrounding callLua will put back into `ci' (the one CallInfo of the    *)
(* state) when it returns.  Stack slots are numbered from 0.               *)
(*                                                                         *)
(* Not here: the opcodes that no compiled chunk holds (eq, lt, le,         *)
(* testset, tforloop, getupval, setupval: CodeGen fails before it is done  *)
(* with the constructs that need them, or never emits them), the contents  *)
(* of tables beyond key and value (ObjectTable), the heap (VMHeap, GC).    *)
(***************************************************************************)
EXTENDS CheckCode

CONSTANTS
  Cases,      (* what is loaded and how: see CaseAssumption                *)
  StackLen,   (* LuaState.stack.len: 1024                                  *)
  MaxDepth    (* the activations of executeLua the native stack can hold   *)

(* A case: a chunk, the value of the global "f" when it is entered, the    *)
(* number of values on the stack before it is loaded, and the way it is    *)
(* entered: results = -2 stands for run(), else it is call's num_results.  *)
Fn(name) == <<"function", name>>
TheTable == <<"table", 1>>
ASSUME CaseAssumption ==
  \A c \in Cases : /\ c.f \in {Nil, Fn("main"), Fn("lib"), Fn("c0"), Fn("c1")}
                   /\ c.host \in Nat /\ c.results \in -2 .. 2

VARIABLES
  case, status,   (* "load", "enter", "run", then "done" or what stopped it *)
  fns,            (* the compiled chunks: main, and lib, loaded before      *)
  stack, top, ci, frames, returning,
  globals, heap,
  returned        (* the values that the last return of the chunk names     *)

machine == <<stack, top, ci, frames, returning>>
vars == <<case, status, fns, machine, globals, heap, returned>>

Names == {"f", "t", "x", "y", "z"}
LibChunk == <<<<"return", <<<<"literal", "number", 7>>>>>>>>

Compiled(body) ==
  Then(GenChunk(body), LAMBDA f : [code |-> f.code, consts |-> f.consts, max |-> f.max, st |-> f.st])

(* The global t is a table with a field k. *)
InitialGlobals(c) ==
  [n \in Names |-> CASE n = "f" -> c.f [] n = "t" -> TheTable
                     [] n = "x" -> Num(Lit(2)) [] OTHER -> Nil]
InitialHeap == << [k \in {Str(<<"k">>)} |-> Num(Lit(1))] >>

Init ==
  /\ case \in Cases /\ status = "load"
  /\ fns = [main |-> Compiled(case.prog), lib |-> Compiled(LibChunk)]
  /\ stack = [i \in 0 .. StackLen - 1 |-> Nil] /\ top = case.host
  /\ ci = [base |-> 0, results |-> 0]
  /\ frames = <<>> /\ returning = FALSE
  /\ globals = InitialGlobals(case) /\ heap = InitialHeap
  /\ returned = <<>>

-----------------------------------------------------------------------------
(* load, run, call.                                                        *)

Stop(why) == /\ status' = why /\ frames' = <<>> /\ returning' = FALSE

(* The compiler depends on nothing but the chunk; a chunk that cannot be   *)
(* compiled, or for which there is no slot, is not pushed.                 *)
Load ==
  /\ status = "load"
  /\ LET main == fns["main"]
     IN  IF main.st # "ok"
              THEN status' = main.st /\ UNCHANGED <<stack, top>>
         ELSE IF top >= StackLen
              THEN status' = "StackOverflow" /\ UNCHANGED <<stack, top>>
         ELSE /\ status' = "enter" /\ top' = top + 1
              /\ stack' = [stack EXCEPT ![top] = Fn("main")]
  /\ UNCHANGED <<case, fns, ci, frames, returning, globals, heap, returned>>

(* callLua: the frame begins at the slot num_args + 1 below the top, and   *)
(* is filled with nil up to its size.  `old' is what ci holds, `slots' the *)
(* stack, when it is called.                                               *)
Enter(fn, base, results, old, by, slots) ==
  LET end == base + fns[fn].max
  IN  /\ ci' = [base |-> base, results |-> results]
      /\ frames' = Append(frames, [fn |-> fn, base |-> base, pc |-> 0, by |-> by, old |-> old,
                                   wanted |-> results])
      /\ stack' = [i \in DOMAIN stack |-> IF top <= i /\ i < end THEN Nil ELSE slots[i]]
      /\ top' = IF end > top THEN end ELSE top
      /\ status' = (IF end <= StackLen THEN "run" ELSE "out of bounds") /\ UNCHANGED returning

CallLuaUnchecked(fn, num_args, results, old, by, slots) ==
  LET base == top - num_args - 1
  IN  IF base < 0 THEN Stop("overflow") /\ UNCHANGED <<stack, top, ci>>
      ELSE IF Len(frames) >= MaxDepth
        THEN Stop("native stack") /\ UNCHANGED <<stack, top, ci>>
      ELSE Enter(fn, base, results, old, by, slots)
CallLua(fn, num_args, results, old, by, slots) ==
  LET base == top - num_args - 1
  IN  IF base < 0 THEN Stop("overflow") /\ UNCHANGED <<stack, top, ci>>
      ELSE IF top + fns[fn].max >= StackLen
        THEN Stop("StackOverflow") /\ ci' = old /\ stack' = slots /\ UNCHANGED top
      ELSE IF Len(frames) >= MaxDepth
        THEN Stop("native stack") /\ UNCHANGED <<stack, top, ci>>
      ELSE Enter(fn, base, results, old, by, slots)

(* run() enters the chunk where it lies, with the registers as they are. *)
Run ==
  /\ status = "enter" /\ case.results = -2
  /\ ci' = [base |-> top - 1, results |-> 0]
  /\ frames' = <<[fn |-> "main", base |-> top - 1, pc |-> 0, by |-> "run", old |-> ci, wanted |-> 0]>>
  /\ status' = "run"
  /\ UNCHANGED <<case, fns, stack, top, returning, globals, heap, returned>>

Call ==
  /\ status = "enter" /\ case.results # -2
  /\ CallLua("main", 0, case.results, ci, "host", stack)
  /\ UNCHANGED <<case, fns, globals, heap, returned>>

-----------------------------------------------------------------------------
(* executeLua: fetching, registers, and where to go on.                    *)

Cur == Last(frames)
Base == Cur.base
Fetch == fns[Cur.fn].code[Cur.pc + 1]
Executes(op) ==
  /\ status = "run" /\ ~returning
  /\ Cur.pc < Len(fns[Cur.fn].code) /\ Fetch.op = op

R(i) == IF Base + i \in DOMAIN stack THEN stack[Base + i] ELSE Nil
ConstantToValue(i) == fns[Cur.fn].consts[i + 1]
GetValueRK(rk) == IF RKIsConstant(rk) THEN ConstantToValue(RKConstant(rk)) ELSE R(rk)

(* The registers that an instruction touches, and whether they exist. *)
Touches(i) ==
  {i.a} \cup (IF i.op \in RegisterB \/ (i.op \in OperandB /\ ~RKIsConstant(i.b)) THEN {i.b} ELSE {})
        \cup (IF i.op \in RegisterC \/ (i.op \in OperandC /\ ~RKIsConstant(i.c)) THEN {i.c} ELSE {})
        \cup CASE i.op = "self"    -> {i.a + 1}
               [] i.op = "setlist" -> {i.a + i.b}
               [] i.op = "forloop" -> {i.a + 3}
               [] i.op \in {"call", "return"} -> {i.a + i.b - 1}
               [] OTHER            -> {}
InBounds == \A r \in Touches(Fetch) : Base + r < StackLen

GoTo(pc) ==
  /\ frames' = [frames EXCEPT ![Len(frames)].pc = pc]
  /\ status' = IF InBounds THEN status ELSE "out of bounds"
  /\ UNCHANGED returning
Continue == GoTo(Cur.pc + 1)

(* An instruction that assigns registers: `new' has their new values. *)
Write(new) ==
  stack' = [i \in DOMAIN stack |-> IF i - Base \in DOMAIN new THEN new[i - Base] ELSE stack[i]]
Set(v) == Write([i \in {Fetch.a} |-> v]) /\ Continue

Raise(error) == Stop(error) /\ UNCHANGED stack

Quiet == UNCHANGED <<case, fns, top, ci, returned>>
NoTables == UNCHANGED <<globals, heap>> /\ Quiet

-----------------------------------------------------------------------------
(* executeLua: the opcodes.                                                *)

Move == Executes("move") /\ Set(R(Fetch.b)) /\ NoTables
LoadK == Executes("loadk") /\ Set(ConstantToValue(Fetch.b)) /\ NoTables
LoadBool == Executes("loadbool") /\ Set(Bool(Fetch.b # 0)) /\ NoTables
LoadNil ==
  /\ Executes("loadnil")
  /\ Write([i \in Fetch.a .. Fetch.b |-> Nil]) /\ Continue
  /\ NoTables

Name(i) == ConstantToValue(i)[2][1]
GetGlobal == Executes("getglobal") /\ Set(globals[Name(Fetch.b)]) /\ NoTables
SetGlobal ==
  /\ Executes("setglobal")
  /\ globals' = [globals EXCEPT ![Name(Fetch.b)] = R(Fetch.a)]
  /\ Continue
  /\ UNCHANGED <<stack, heap>> /\ Quiet

IsTable(v) == v[1] = "table"
TableGet(h, t, k) == IF k \in DOMAIN h[t[2]] THEN h[t[2]][k] ELSE Nil
TableSet(h, t, k, v) ==
  [h EXCEPT ![t[2]] = IF v = Nil THEN [j \in DOMAIN @ \ {k} |-> @[j]]
                      ELSE [j \in DOMAIN @ \cup {k} |-> IF j = k THEN v ELSE @[j]]]
(* The last of the small integer keys, which are in the array. *)
TableLength(h, t) == Max({0} \cup {i \in 1 .. 50 : Num(Lit(i)) \in DOMAIN h[t[2]]})

GetTable ==
  /\ Executes("gettable")
  /\ IF IsTable(R(Fetch.b)) THEN Set(TableGet(heap, R(Fetch.b), GetValueRK(Fetch.c)))
     ELSE Raise("ExpectedTable")
  /\ NoTables

SetTable ==
  /\ Executes("settable")
  /\ LET t == R(Fetch.a)
         k == GetValueRK(Fetch.b)
     IN  IF ~IsTable(t) THEN Raise("ExpectedTable") /\ UNCHANGED heap
         ELSE IF k = Nil THEN Raise("TableIndexIsNil") /\ UNCHANGED heap
         ELSE /\ heap' = TableSet(heap, t, k, GetValueRK(Fetch.c))
              /\ Continue /\ UNCHANGED stack
  /\ UNCHANGED globals /\ Quiet

NewTable ==
  /\ Executes("newtable")
  /\ heap' = Append(heap, [k \in {} |-> Nil])
  /\ Set(<<"table", Len(heap) + 1>>)
  /\ UNCHANGED globals /\ Quiet

Self ==
  /\ Executes("self")
  /\ LET t == R(Fetch.b)
     IN  IF ~IsTable(t) THEN Raise("ExpectedTable")
         ELSE /\ Write([i \in {Fetch.a, Fetch.a + 1} |->
                          IF i = Fetch.a THEN TableGet(heap, t, GetValueRK(Fetch.c)) ELSE t])
              /\ Continue
  /\ NoTables

IsNumber(v) == v[1] = "number"
BinaryOp ==
  /\ \E op \in BinaryMath : Executes(op)
  /\ LET lhs == GetValueRK(Fetch.b)
         rhs == GetValueRK(Fetch.c)
     IN  IF IsNumber(lhs) /\ IsNumber(rhs) THEN Set(Num(Arith(Fetch.op, lhs[2], rhs[2])))
         ELSE Raise("AttemptToPerformArithmetic")
  /\ NoTables

Unm ==
  /\ Executes("unm")
  /\ IF IsNumber(R(Fetch.b)) THEN Set(Num(Negate(R(Fetch.b)[2])))
     ELSE Raise("AttemptToPerformArithmetic")
  /\ NoTables

IsFalsy(v) == v \in {Nil, Bool(FALSE)}
Not == Executes("not") /\ Set(Bool(IsFalsy(R(Fetch.b)))) /\ NoTables

LenOp ==
  /\ Executes("len")
  /\ LET v == R(Fetch.b)
     IN  CASE v[1] = "string" -> Set(Num(Lit(Len(v[2]))))
           [] v[1] = "table"  -> Set(Num(Lit(TableLength(heap, v))))
           [] OTHER           -> Raise("AttemptToGetLength")
  /\ NoTables

Concat ==
  /\ Executes("concat")
  /\ LET parts == [i \in 1 .. Fetch.c - Fetch.b + 1 |-> R(Fetch.b + i - 1)]
     IN  IF \A i \in DOMAIN parts : parts[i][1] = "string"
           THEN Set(Str(FlattenSeq([i \in DOMAIN parts |-> parts[i][2]])))
           ELSE Raise("AttemptToConcatenate")
  /\ NoTables

Jmp == Executes("jmp") /\ GoTo(Cur.pc + Fetch.b + 1) /\ UNCHANGED stack /\ NoTables

(* The next instruction, a jump, is skipped when the branch is to be taken.*)
Test ==
  /\ Executes("test")
  /\ GoTo(Cur.pc + (IF ~IsFalsy(R(Fetch.a)) = (Fetch.c = 0) THEN 2 ELSE 1))
  /\ UNCHANGED stack /\ NoTables

(* Both go one instruction further than the offset says. *)
ForPrep ==
  /\ Executes("forprep")
  /\ LET idx == R(Fetch.a)
         step == R(Fetch.a + 2)
     IN  IF IsNumber(idx) /\ IsNumber(step)
           THEN Write([i \in {Fetch.a} |-> Num(Arith("sub", idx[2], step[2]))])
           ELSE UNCHANGED stack
  /\ GoTo(Cur.pc + Fetch.b + 2)
  /\ NoTables

(* The order of numbers that are terms is not known. *)
InRange(x, limit, step) ==
  IF x[1] = "lit" /\ limit[1] = "lit" /\ step[1] = "lit"
    THEN {IF step[2] > 0 THEN x[2] <= limit[2] ELSE x[2] >= limit[2]} ELSE BOOLEAN

ForLoop ==
  /\ Executes("forloop")
  /\ LET idx == R(Fetch.a)
         limit == R(Fetch.a + 1)
         step == R(Fetch.a + 2)
         new == Arith("add", idx[2], step[2])
     IN  IF IsNumber(idx) /\ IsNumber(limit) /\ IsNumber(step)
           THEN /\ Write([i \in {Fetch.a, Fetch.a + 3} |-> Num(new)])
                /\ \E in_range \in InRange(new, limit[2], step[2]) :
                     GoTo(Cur.pc + (IF in_range THEN Fetch.b + 2 ELSE 1))
           ELSE Continue /\ UNCHANGED stack
  /\ NoTables

(* compile() gives a function no protos. *)
Closure == Executes("closure") /\ Set(Nil) /\ NoTables

SetListOp ==
  /\ Executes("setlist")
  /\ LET t == R(Fetch.a)
         extra == fns[Cur.fn].code[Cur.pc + 2].b
         offset == IF Fetch.c = 0 THEN extra ELSE Fetch.c - 1
     IN  IF ~IsTable(t) THEN Raise("ExpectedTable") /\ UNCHANGED heap
         ELSE /\ heap' = FoldLeft(LAMBDA h, i : TableSet(h, t, Num(Lit(offset * FieldsPerFlush + i)),
                                                         R(Fetch.a + i)),
                                  heap, [i \in 1 .. Fetch.b |-> i])
              /\ GoTo(Cur.pc + (IF Fetch.c = 0 THEN 2 ELSE 1)) /\ UNCHANGED stack
  /\ UNCHANGED globals /\ Quiet

(* The chunk has no arguments: as many nils as are wanted. *)
VarArg ==
  /\ Executes("vararg")
  /\ Write([i \in Fetch.a .. Fetch.a + Fetch.b - 2 |-> Nil]) /\ Continue
  /\ NoTables

-----------------------------------------------------------------------------
(* Calls and returns.                                                      *)

(* callC: the arguments are copied to the bottom of the stack, and the     *)
(* values below the top when the function is done, as many as it says, are *)
(* its results.  The function c0 returns nothing; c1 pushes a value.       *)
CFunctions == {"c0", "c1"}
CallC(name, num_args, func_idx, slots) ==
  LET copied == [i \in DOMAIN stack |-> IF i < num_args THEN slots[func_idx + 1 + i] ELSE slots[i]]
  IN  IF name = "c0" THEN stack' = copied /\ top' = 0
      ELSE stack' = [copied EXCEPT ![num_args] = Bool(TRUE)] /\ top' = 1

(* The generator never leaves the number of arguments open (B = 0). *)
CallOp ==
  /\ Executes("call")
  /\ LET func == R(Fetch.a)
         at == [ci EXCEPT !.base = Base + Fetch.a]
     IN  IF func[1] # "function"
           THEN Raise("AttemptToCallNonFunction") /\ ci' = at /\ UNCHANGED top
         ELSE IF func[2] \in CFunctions
           THEN /\ CallC(func[2], Fetch.b - 1, Base + Fetch.a, stack)
                /\ Continue /\ UNCHANGED ci
         ELSE CallLua(func[2], Fetch.b - 1, Fetch.c - 1, at, "call", stack)
  /\ UNCHANGED <<case, fns, globals, heap, returned>>

TailCall ==
  /\ Executes("tailcall")
  /\ LET func == R(Fetch.a)
         moved == [i \in DOMAIN stack |-> IF Base <= i /\ i - Base <= Fetch.b - 1
                                            THEN R(i - Base + Fetch.a) ELSE stack[i]]
     IN  IF func[1] # "function"
           THEN Stop("AttemptToCallNonFunction") /\ stack' = moved /\ UNCHANGED <<ci, top>>
         ELSE IF func[2] \in CFunctions
           THEN /\ CallC(func[2], Fetch.b - 1, ci.base, moved)
                /\ returning' = TRUE /\ UNCHANGED <<ci, frames, status>>
         ELSE CallLua(func[2], Fetch.b - 1, ci.results, ci, "tail", moved)
  /\ UNCHANGED <<case, fns, globals, heap, returned>>

(* return: to the slot before the frame.  More results than are wanted:    *)
(* the range of those to fill with nil is negative.                        *)
ReturnAt(return_base, n, wanted) ==
  /\ stack' = [i \in DOMAIN stack |->
                 IF i < return_base \/ i >= return_base + wanted THEN stack[i]
                 ELSE IF i - return_base < n THEN R(Fetch.a + i - return_base) ELSE Nil]
  /\ top' = return_base + wanted

ReturnOp ==
  /\ Executes("return")
  /\ LET n == Fetch.b - 1        (* -1: all up to the top *)
         return_base == IF Base > 0 THEN Base - 1 ELSE 0
     IN  /\ IF ci.results < 0
              THEN /\ top' = IF n < 0 THEN top ELSE Base + Fetch.a + n
                   /\ returning' = TRUE /\ UNCHANGED <<stack, status, frames>>
            ELSE IF n > ci.results
              THEN Stop("overflow") /\ UNCHANGED <<stack, top>>
            ELSE /\ ReturnAt(return_base, n, ci.results)
                 /\ returning' = TRUE /\ UNCHANGED <<status, frames>>
         /\ returned' = IF Len(frames) = 1 THEN [i \in 1 .. n |-> R(Fetch.a + i - 1)] ELSE returned
  /\ UNCHANGED <<case, fns, ci, globals, heap>>

(* The end of the code is an end of the function, too. *)
RunOff ==
  /\ status = "run" /\ ~returning /\ Cur.pc >= Len(fns[Cur.fn].code)
  /\ returning' = TRUE
  /\ UNCHANGED <<case, status, fns, stack, top, ci, frames, globals, heap, returned>>

(* executeLua is done: callLua puts ci back; the call instruction puts its *)
(* base back and goes on; a tail call leaves its own function as well.     *)
Restored(callee) ==
  CASE callee.by = "run"  -> ci
    [] callee.by = "call" -> [callee.old EXCEPT !.base = frames[Len(frames) - 1].base]
    [] OTHER              -> callee.old

Leave ==
  /\ status = "run" /\ returning
  /\ ci' = Restored(Cur)
  /\ frames' = IF Cur.by = "call" THEN [Front(frames) EXCEPT ![Len(frames) - 1].pc = @ + 1]
               ELSE Front(frames)
  /\ returning' = (Cur.by = "tail")
  /\ status' = IF Cur.by \in {"run", "host"} THEN "done" ELSE "run"
  /\ UNCHANGED <<case, fns, stack, top, globals, heap, returned>>

Step ==
  \/ Move \/ LoadK \/ LoadBool \/ LoadNil \/ GetGlobal \/ SetGlobal
  \/ GetTable \/ SetTable \/ NewTable \/ Self \/ BinaryOp \/ Unm \/ Not \/ LenOp
  \/ Concat \/ Jmp \/ Test \/ ForPrep \/ ForLoop \/ Closure \/ SetListOp \/ VarArg
  \/ CallOp \/ TailCall \/ ReturnOp \/ RunOff \/ Leave

Next == Load \/ Run \/ Call \/ Step

(* The interpreter runs on: nothing else is going on in its thread. *)
Spec == Init /\ [][Next]_vars /\ WF_vars(Next)

-----------------------------------------------------------------------------
(***************************************************************************)
(* What the source means in Lua 5.1, for the constructs without calls: the *)
(* reference that compiled code is held to.  An environment has the local  *)
(* variables, the globals, the tables, the values of the expressions just  *)
(* evaluated, how deep in blocks it is, how things stand ("on",            *)
(* "returned", an "error" raised, or "unknown", a construct whose meaning  *)
(* is not given here), and `odd': which of the constructs that zua is      *)
(* known to get wrong have been met.  They are                             *)
(*   nil         a nil that the first instruction should load              *)
(*   pair        two variables assigned two values                         *)
(*   condition   a condition that is not in register 0                     *)
(*   scope       a local variable of an inner block                        *)
(*   conversion  a number used as a string or a string as a number         *)
(*   batch       a constructor of more batches than an operand can name    *)
(***************************************************************************)
Halt(env, how) == [env EXCEPT !.how = IF @ = "on" THEN how ELSE @, !.v = Nil]
Value(env, v) == [env EXCEPT !.v = v]
Meets(env, what) == [env EXCEPT !.odd = @ \cup {what}]

Lookup(env, name) ==
  LET at == {i \in DOMAIN env.locals : env.locals[i][1] = name}
  IN  IF at = {} THEN env.globals[name] ELSE env.locals[Max(at)][2]

(* Conversions.  Numbers of one digit have a text; strings of one digit    *)
(* are the numerals.                                                       *)
Digits == {ToString(i) : i \in 0 .. 9}
IsString(v) == v[1] = "string"
IsDigit(v) == IsNumber(v) /\ v[2][1] = "lit" /\ v[2][2] \in 0 .. 9
IsNumeral(v) == IsString(v) /\ v[2] # <<>> /\ \A i \in DOMAIN v[2] : v[2][i] \in Digits
TextOf(v) == IF IsString(v) THEN v[2] ELSE <<ToString(v[2][2])>>
NumberOf(v) == IF IsNumber(v) THEN v[2] ELSE Lit(CHOOSE i \in 0 .. 9 : <<ToString(i)>> = v[2])
Coerces(env, vs) == IF \A v \in vs : IsNumber(v) THEN env ELSE Meets(env, "conversion")

ArithValue(env, vs, result) ==
  CASE \E v \in vs : ~IsNumber(v) /\ ~IsNumeral(v) -> Halt(env, "error")
    [] \E v \in vs : IsNumeral(v) /\ Len(v[2]) > 1 -> Halt(Meets(env, "conversion"), "unknown")
    [] OTHER -> Value(Coerces(env, vs), result)

ConcatValue(env, l, r) ==
  CASE IsString(l) /\ IsString(r) -> Value(env, Str(l[2] \o r[2]))
    [] \E v \in {l, r} : ~IsString(v) /\ ~IsNumber(v) -> Halt(env, "error")
    [] \E v \in {l, r} : IsNumber(v) /\ ~IsDigit(v) -> Halt(Meets(env, "conversion"), "unknown")
    [] OTHER -> Value(Meets(env, "conversion"), Str(TextOf(l) \o TextOf(r)))

UnaryValue(env, op, v) ==
  CASE op = "not" -> Value(env, Bool(IsFalsy(v)))
    [] op = "-"   -> ArithValue(env, {v}, Num(Negate(NumberOf(v))))
    [] op = "#" /\ IsString(v) -> Value(env, Num(Lit(Len(v[2]))))
    [] op = "#" /\ IsTable(v) -> Value(env, Num(Lit(TableLength(env.heap, v))))
    [] OTHER -> Halt(env, "error")

BinaryValue(env, op, l, r) ==
  CASE op \in DOMAIN OpCodeOf ->
         ArithValue(env, {l, r}, Num(Arith(OpCodeOf[op], NumberOf(l), NumberOf(r))))
    [] op = ".." -> ConcatValue(env, l, r)
    [] OTHER -> Halt(env, "unknown")

IndexValue(env, t, k) ==
  IF IsTable(t) THEN Value(env, TableGet(env.heap, t, k)) ELSE Halt(env, "error")

RECURSIVE Eval(_, _)

(* The i-th of the fields without a key has the key i. *)
EvalField(env, t, field, i) ==
  LET k == IF field[1] = None THEN Value(env, Num(Lit(i))) ELSE Eval(env, field[1])
      v == Eval(k, field[2])
  IN  IF v.how # "on" THEN v
      ELSE IF k.v = Nil THEN Halt(v, "error")
      ELSE [v EXCEPT !.heap = TableSet(v.heap, t, k.v, v.v)]

EvalTable(env, fields) ==
  LET t == <<"table", Len(env.heap) + 1>>
      Place(i) == Len(SelectSeq(SubSeq(fields, 1, i), LAMBDA f : f[1] = None))
      long == Place(Len(fields)) > MaxC * FieldsPerFlush
      new == [IF long THEN Meets(env, "batch") ELSE env EXCEPT !.heap = Append(@, [k \in {} |-> Nil])]
  IN  Value(FoldLeftDomain(LAMBDA e, i : EvalField(e, t, fields[i], Place(i)), new, fields), t)

Eval(env, n) ==
  CASE n[1] = "literal" ->
         Value(env, CASE n[2] \in {"nil", "ellipsis"} -> Nil
                      [] n[2] \in {"true", "false"} -> Bool(n[2] = "true")
                      [] n[2] = "number" -> Num(Lit(n[3]))
                      [] OTHER -> Str(<<n[3]>>))
    [] n[1] = "identifier" -> Value(env, Lookup(env, n[2]))
    [] n[1] = "unary"  -> LET e == Eval(env, n[3]) IN UnaryValue(e, n[2], e.v)
    [] n[1] = "binary" -> LET l == Eval(env, n[3])
                              r == Eval(l, n[4])
                          IN  IF r.how = "on" THEN BinaryValue(r, n[2], l.v, r.v) ELSE r
    [] n[1] = "group"  -> Eval(env, n[2])
    [] n[1] = "table"  -> EvalTable(env, n[2])
    [] n[1] = "field" /\ n[3] = "." ->
         LET t == Eval(env, n[2]) IN IndexValue(t, t.v, Str(<<n[4]>>))
    [] n[1] = "index"  -> LET t == Eval(env, n[2])
                              k == Eval(t, n[3])
                          IN  IndexValue(k, t.v, k.v)
    [] OTHER -> Halt(env, "unknown")

EvalList(env, nodes) ==
  FoldLeft(LAMBDA e, n : LET f == Eval(e, n) IN [f EXCEPT !.vs = Append(@, f.v)],
           [env EXCEPT !.vs = <<>>], nodes)

AssignName(env, name, v) ==
  LET at == {i \in DOMAIN env.locals : env.locals[i][1] = name}
  IN  IF at = {} THEN [env EXCEPT !.globals[name] = v]
      ELSE [env EXCEPT !.locals[Max(at)] = <<name, v>>]

ExecAssign(env, n) ==
  LET e == EvalList(env, n[3])
      Given(i) == IF i <= Len(e.vs) THEN e.vs[i] ELSE Nil
  IN  CASE e.how # "on" -> e
        [] e.how = "on" /\ n[4] ->
             [IF e.depth = 0 THEN e ELSE Meets(e, "scope")
                EXCEPT !.locals = @ \o [i \in DOMAIN n[2] |-> <<n[2][i][2], Given(i)>>]]
        [] e.how = "on" /\ ~n[4] /\ (\A i \in DOMAIN n[2] : n[2][i][1] = "identifier") ->
             FoldLeftDomain(LAMBDA f, i : AssignName(f, n[2][i][2], Given(i)),
                            IF Len(n[2]) = 2 /\ Len(n[3]) = 2 THEN Meets(e, "pair") ELSE e, n[2])
        [] OTHER -> Halt(e, "unknown")

RECURSIVE Exec(_, _)
ExecAll(env, body) == FoldLeft(Exec, env, body)
ExecBlock(env, body) ==
  LET e == ExecAll([env EXCEPT !.depth = @ + 1], body)
  IN  [e EXCEPT !.depth = env.depth, !.locals = SubSeq(@, 1, Len(env.locals))]

RECURSIVE ExecIf(_, _, _)
ExecIf(env, clauses, i) ==
  IF i > Len(clauses) THEN env
  ELSE IF clauses[i][1] = None THEN ExecBlock(env, clauses[i][2])
  ELSE LET first == i = 1 /\ env.depth = 0 /\ env.locals = <<>>
           c == Eval(IF first THEN env ELSE Meets(env, "condition"), clauses[i][1])
       IN  IF c.how # "on" THEN c
           ELSE IF IsFalsy(c.v) THEN ExecIf(c, clauses, i + 1)
           ELSE ExecBlock(c, clauses[i][2])

Exec(env, n) ==
  CASE env.how # "on" -> env
    [] env.how = "on" /\ n[1] = "assign" -> ExecAssign(env, n)
    [] env.how = "on" /\ n[1] = "return" -> Halt(EvalList(env, n[2]), "returned")
    [] env.how = "on" /\ n[1] = "if" -> ExecIf(env, n[2], 1)
    [] env.how = "on" /\ n[1] = "do" -> ExecBlock(env, n[2])
    [] OTHER -> Halt(env, "unknown")

(* The expression that a statement evaluates first begins with a nil, or a *)
(* local variable is declared without a value.                             *)
RECURSIVE StartsWithNil(_)
StartsWithNil(n) ==
  CASE n[1] = "literal" -> n[2] = "nil"
    [] n[1] \in {"unary", "binary"} -> StartsWithNil(n[3])
    [] n[1] \in {"group", "field", "index"} -> StartsWithNil(n[2])
    [] n[1] = "assign" -> IF n[3] = <<>> THEN n[4] ELSE StartsWithNil(n[3][1])
    [] n[1] = "return" -> n[2] # <<>> /\ StartsWithNil(n[2][1])
    [] n[1] = "if" -> StartsWithNil(n[2][1][1])
    [] n[1] = "do" -> n[2] # <<>> /\ StartsWithNil(n[2][1])
    [] OTHER -> FALSE

Reference ==
  ExecAll([locals |-> <<>>, globals |-> InitialGlobals(case), heap |-> InitialHeap,
           v |-> Nil, vs |-> <<>>, how |-> "on", depth |-> 0,
           odd |-> IF StartsWithNil(case.prog[1]) THEN {"nil"} ELSE {}], case.prog)

-----------------------------------------------------------------------------
(* The syntax of a chunk: the statement lists inside a node, its other     *)
(* parts, and all the nodes below it.                                      *)

Bodies(n) ==
  CASE n[1] = "if" -> {n[2][i][2] : i \in DOMAIN n[2]}
    [] n[1] \in {"do", "repeat"} -> {n[2]}
    [] n[1] = "while" -> {n[3]}
    [] n[1] \in {"forin", "function"} -> {n[4]}
    [] n[1] = "for" -> {n[6]}
    [] OTHER -> {}

Parts(n) ==
  CASE n[1] = "if" -> {n[2][i][1] : i \in DOMAIN n[2]} \ {None}
    [] n[1] \in {"unary", "repeat"} -> {n[3]}
    [] n[1] = "binary" -> {n[3], n[4]}
    [] n[1] \in {"group", "field", "while"} -> {n[2]}
    [] n[1] = "table" -> UNION {{n[2][i][1], n[2][i][2]} : i \in DOMAIN n[2]} \ {None}
    [] n[1] = "index" -> {n[2], n[3]}
    [] n[1] = "call" -> {n[2]} \cup ToSet(n[3])
    [] n[1] = "function" -> {n[2]} \ {None}
    [] n[1] = "assign" -> ToSet(n[2]) \cup ToSet(n[3])
    [] n[1] = "return" -> ToSet(n[2])
    [] n[1] = "for" -> {n[3], n[4], n[5]} \ {None}
    [] n[1] = "forin" -> ToSet(n[3])
    [] OTHER -> {}

RECURSIVE NodesOf(_)
NodesOf(n) == {n} \cup UNION {NodesOf(m) : m \in Parts(n) \cup UNION {ToSet(b) : b \in Bodies(n)}}
NodesIn(body) == UNION {NodesOf(body[i]) : i \in DOMAIN body}

(* A block that ends with a tail call or the return of several values. *)
ReturnsInBlock ==
  \E n \in NodesIn(case.prog) : \E b \in Bodies(n) :
    /\ b # <<>> /\ Last(b)[1] = "return"
    /\ \/ Len(Last(b)[2]) > 1
       \/ Len(Last(b)[2]) = 1 /\ Last(b)[2][1][1] = "call"

(* A numeric loop with a name in its body, or with a function that breaks. *)
LoopWith(Has(_)) ==
  \E n \in NodesIn(case.prog) : n[1] = "for" /\ \E m \in NodesIn(n[6]) : Has(m)
NameInLoop == LoopWith(LAMBDA m : m[1] = "identifier")
BreakingFunctionInLoop ==
  LoopWith(LAMBDA m : m[1] = "function" /\ \E k \in NodesIn(m[4]) : k[1] = "break")

-----------------------------------------------------------------------------
(* Properties.                                                             *)

Main == fns["main"]
RuntimeErrors == {"ExpectedTable", "TableIndexIsNil", "AttemptToPerformArithmetic",
                  "AttemptToGetLength", "AttemptToConcatenate", "AttemptToCallNonFunction",
                  "StackOverflow"}

(* The code generator trips over its own assertions (that registers are    *)
(* freed in the order opposite to their reservation, that a return's or a  *)
(* tail call's values are where it says, that a concat's operands are      *)
(* adjacent, compiler.zig:186, 605, 1012, 1022, 786), enters a branch it   *)
(* takes to be unreachable or indexes past one of its lists for three      *)
(* kinds of chunk and no other: a block that is not the chunk's and ends   *)
(* with a tail call or several values (1012, 1022), a numeric loop with a  *)
(* name in its body (1353), and one with a function that breaks (1176).    *)
(* Arithmetic that underflows is not among them.                           *)
AssertionsHold ==
  /\ status # "unreachable"
  /\ status = "assert return" => ReturnsInBlock
  /\ status = "assert" => NameInLoop
  /\ status = "bounds" => NameInLoop \/ BreakingFunctionInLoop
  /\ status = "corrupt" => BreakingFunctionInLoop

(* The assertions of genReturnStatement as they stand, for every chunk:    *)
(* `std.debug.assert(instruction.getResultRegStart() ==                    *)
(* self.func.num_active_local_vars)' (compiler.zig:1012) and the one for   *)
(* several values (1022).  The code breaks them.                           *)
ReturnsWhereItSays == status # "assert return"

(* Compiled code passes the checker of debug.zig that the compiler's tests *)
(* run on it: every register an instruction names is within the frame the  *)
(* function declares, every constant exists, and an open result is         *)
(* consumed by the next instruction.  The checker knows neither jumps (a   *)
(* TODO) nor closures (it takes their index for a constant's).             *)
CodeChecks ==
  Main.st = "ok" /\ status # "load"
    => \/ \E i \in DOMAIN Main.code : Main.code[i].op \in {"jmp", "closure"}
       \/ CheckCode(Main)

(* The chunk has ended, the reference gives it a meaning, and the host has *)
(* room for it and for the values it returns.                              *)
Comparable(ref) ==
  /\ Main.st = "ok" /\ status \notin {"load", "enter", "run"}
  /\ case.host + 1 + Main.max < StackLen
  /\ ref.how # "unknown"
  /\ ref.how = "returned" => case.results = -1 \/ Len(ref.vs) <= case.results

Agrees(ref) ==
  IF ref.how = "error" THEN status \in RuntimeErrors /\ globals = ref.globals
  ELSE /\ status = "done" /\ globals = ref.globals /\ heap = ref.heap
       /\ returned = IF ref.how = "returned" THEN ref.vs ELSE <<>>

(* A compiled chunk without calls and loops does what its source says: it  *)
(* ends with the globals, the tables and the returned values of the        *)
(* reference, or raises an error where the reference does; unless, on its  *)
(* way, it meets one of the six constructs (see the reference) that        *)
(* compiler.zig:274, 979 and 1192, its missing block scopes (1266) and     *)
(* vm.zig:697-838 and 1156 get wrong.                                      *)
ComputesSource ==
  LET ref == Reference IN Comparable(ref) /\ ref.odd = {} => Agrees(ref)

(* The same without the exception, which is what the comments and tests of *)
(* the compiler and the banner of zua.zig:76, "Lua 5.1 compatible", say.   *)
(* The code breaks it.                                                     *)
ComputesLua == LET ref == Reference IN Comparable(ref) => Agrees(ref)

(* The size check of callLua (vm.zig:509) is enough: no instruction of a   *)
(* compiled chunk touches a slot past the end of the stack, however deep   *)
(* its calls and however full the stack when it is entered.  run() checks  *)
(* nothing (vm.zig:1208-1222): a chunk that it enters with less room than  *)
(* its frame needs does go past the end.                                   *)
StackInBounds ==
  status = "out of bounds" => case.results = -2 /\ case.host + Main.max > StackLen

=============================================================================
