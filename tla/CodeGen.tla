------------------------------- MODULE CodeGen ------------------------------
(***************************************************************************)
(* The code generator of compiler.zig: a walk over the syntax tree that    *)
(* emits register bytecode for one function, allocating registers and      *)
(* constants on the way.                                                   *)
(*                                                                         *)
(* The generator's state is one record, `fs' (Compiler.Func and what else  *)
(* the walk keeps), and every method is an operator from fs to fs that     *)
(* works on the expression descriptor fs.exp: cur_exp, or the descriptor   *)
(* a caller has put there with `With'.  Instructions are counted from 0,   *)
(* as in the code.  Panics, failed assertions and errors are recorded in   *)
(* fs.st, which keeps the first; what is computed after it has no meaning. *)
(* The two assertions of genReturnStatement are told from the others.      *)
(* Integer underflow panics: the model is of a build with safety checks.   *)
(*                                                                         *)
(* Left out: the size hints of newtable, which the VM does not read; the   *)
(* life spans of local variables, which nothing reads; upvalues, which no  *)
(* path of the generator creates; and the patch lists, which no path fills *)
(* (so hasjumps() is false).                                               *)
(*                                                                         *)
(* A definition placed before another with the same parameters and named   *)
(* for what it gets wrong is a deliberately faulty variant.                *)
(***************************************************************************)
EXTENDS Integers, Sequences, FiniteSetsExt, SequencesExt

CONSTANTS
  MaxStackSize,     (* parse.max_stack_size: 250                           *)
  MaxVars,          (* max_vars: 200                                       *)
  RKMax,            (* opcodes.rk_max_constant_index: 255                  *)
  FieldsPerFlush,   (* Instruction.SetList.fields_per_flush: 50            *)
  MaxC              (* Instruction.ABC.max_c: 511                          *)

(***************************************************************************)
(* Values.  Sums, differences and products of integers are computed; any   *)
(* other number is the term that denotes it.  A string is the sequence of  *)
(* its letters.                                                            *)
(***************************************************************************)
Nil == <<"nil">>
Bool(b) == <<"boolean", b>>
Num(n) == <<"number", n>>
Str(s) == <<"string", s>>
Lit(i) == <<"lit", i>>

BinaryMath == {"add", "sub", "mul", "div", "mod", "pow"}

Arith(op, x, y) ==
  IF x[1] # "lit" \/ y[1] # "lit" \/ op \notin {"add", "sub", "mul"}
    THEN <<op, x, y>>
    ELSE Lit(CASE op = "add" -> x[2] + y[2]
               [] op = "sub" -> x[2] - y[2]
               [] op = "mul" -> x[2] * y[2])

Negate(x) == IF x[1] = "lit" THEN Lit(-x[2]) ELSE <<"unm", x>>

(***************************************************************************)
(* Expression descriptors: a kind and what goes with it, a register, an    *)
(* instruction, the index of a constant, a number; `w' is the key of an    *)
(* indexed expression.                                                     *)
(***************************************************************************)
Desc(k, v) == [k |-> k, v |-> v, w |-> 0]
Void == Desc("void", 0)
NonReloc(reg) == Desc("nonreloc", reg)
Relocable(i) == Desc("relocable", i)
HasMultRet(e) == e.k \in {"call", "vararg"}

(* An operand is a register, or a constant's index with this bit set. *)
RKBit == 256
RKIsConstant(rk) == rk >= RKBit
RKConstant(rk) == rk - RKBit

NewFunc ==
  [max |-> 2, free |-> 0, nact |-> 0, act |-> [i \in 1 .. MaxVars |-> 0],
   locals |-> <<>>, code |-> <<>>, consts |-> <<>>, exp |-> Void,
   rk |-> 0, index |-> 0, breaks |-> <<>>, st |-> "ok"]

(* One step after the other: the state after the first is the parameter of *)
(* the second.                                                             *)
Then(fs, Op(_)) == Op(fs)

Fail(fs, why) == [fs EXCEPT !.st = IF @ = "ok" THEN why ELSE @]
With(fs, e) == [fs EXCEPT !.exp = e]
PC(fs) == Len(fs.code)
At(fs, i) == fs.code[i + 1]
Patch(fs, i, inst) == [fs EXCEPT !.code[i + 1] = inst]

Inst(op, a, b, c) == [op |-> op, a |-> a, b |-> b, c |-> c]
Emit(fs, op, a, b, c) == [fs EXCEPT !.code = Append(@, Inst(op, a, b, c))]

(* Emit an instruction whose result register is still to be determined. *)
EmitRelocable(fs, op, b, c) ==
  With(Emit(fs, op, 0, b, c), Relocable(PC(fs)))

(* The constant's place is left in fs.index. *)
MaxBx == 262143
PutConstant(fs, c) ==
  LET i == SelectInSeq(fs.consts, LAMBDA d : d = c)
  IN  IF i # 0 THEN [fs EXCEPT !.index = i - 1]
      ELSE Then([fs EXCEPT !.consts = Append(@, c), !.index = Len(fs.consts)],
                LAMBDA f : IF f.index > MaxBx THEN Fail(f, "error") ELSE f)

-----------------------------------------------------------------------------
(* Registers.                                                              *)

CheckTooLate(fs, n) == IF fs.free <= fs.max THEN fs ELSE [fs EXCEPT !.max = fs.free]
CheckStack(fs, n) ==
  LET new == fs.free + n
  IN  IF new <= fs.max THEN fs
      ELSE IF new >= MaxStackSize THEN Fail(fs, "complex")
      ELSE [fs EXCEPT !.max = new]

ReserveRegs(fs, n) == [CheckStack(fs, n) EXCEPT !.free = @ + n]

FreeReg(fs, reg) ==
  IF RKIsConstant(reg) \/ reg < fs.nact THEN fs
  ELSE IF fs.free = 0 THEN Fail(fs, "overflow")
  ELSE Then([fs EXCEPT !.free = @ - 1],
            LAMBDA f : IF reg = f.free THEN f ELSE Fail(f, "assert"))

FreeExp(fs) == IF fs.exp.k = "nonreloc" THEN FreeReg(fs, fs.exp.v) ELSE fs

(* At the very start of a function the registers are taken to be nil. *)
EmitNil(fs, reg, n) ==
  IF PC(fs) = 0 /\ reg >= fs.nact THEN fs
  ELSE Emit(fs, "loadnil", reg, reg + n - 1, 0)

SetNumReturns(fs, n) ==   (* n = -1: all of them *)
  LET i == fs.exp.v
  IN  IF fs.exp.k = "call" THEN Patch(fs, i, [At(fs, i) EXCEPT !.c = n + 1])
      ELSE Patch(fs, i, [At(fs, i) EXCEPT !.b = n + 1])

SetOneRet(fs) ==
  CASE fs.exp.k = "call"   -> With(fs, NonReloc(At(fs, fs.exp.v).a))
    [] fs.exp.k = "vararg" -> With(SetNumReturns(fs, 1), Relocable(fs.exp.v))
    [] OTHER               -> fs

SetReturns(fs, n) ==
  CASE fs.exp.k = "call"   -> SetNumReturns(fs, n)
    [] fs.exp.k = "vararg" ->
         Then(SetNumReturns(fs, n), LAMBDA f :
           ReserveRegs(Patch(f, f.exp.v, [At(f, f.exp.v) EXCEPT !.a = f.free]), 1))
    [] OTHER               -> fs

DischargeVars(fs) ==
  LET e == fs.exp
  IN  CASE e.k = "local_register" -> With(fs, NonReloc(e.v))
        [] e.k = "global"  -> EmitRelocable(fs, "getglobal", e.v, 0)
        [] e.k = "indexed" ->
             EmitRelocable(FreeReg(FreeReg(fs, e.w), e.v), "gettable", e.v, e.w)
        [] HasMultRet(e)   -> SetOneRet(fs)
        [] OTHER           -> fs

SetsA == BinaryMath \cup {"unm", "len", "not", "concat", "getglobal", "gettable",
                          "newtable", "vararg"}

Discharge2Reg(fs, reg) ==
  Then(DischargeVars(fs), LAMBDA f :
    LET e == f.exp
    IN  CASE e.k \in {"void", "jmp"} -> f
          [] e.k = "nil" -> With(EmitNil(f, reg, 1), NonReloc(reg))
          [] e.k \in {"true", "false"} ->
               With(Emit(f, "loadbool", reg, IF e.k = "true" THEN 1 ELSE 0, 0), NonReloc(reg))
          [] e.k = "constant_index" -> With(Emit(f, "loadk", reg, e.v, 0), NonReloc(reg))
          [] e.k = "number" ->
               Then(PutConstant(f, Num(e.v)), LAMBDA g :
                 With(Emit(g, "loadk", reg, g.index, 0), NonReloc(reg)))
          [] e.k = "relocable" ->
               IF At(f, e.v).op \notin SetsA THEN Fail(f, "assert")
               ELSE With(Patch(f, e.v, [At(f, e.v) EXCEPT !.a = reg]), NonReloc(reg))
          [] e.k = "nonreloc" ->
               With(IF reg = e.v THEN f ELSE Emit(f, "move", reg, e.v, 0), NonReloc(reg))
          [] OTHER -> Fail(f, "unreachable"))

(* The result of a comparison has no code yet. *)
Exp2Reg(fs, reg) ==
  Then(Discharge2Reg(fs, reg), LAMBDA f :
    IF f.exp.k = "jmp" THEN Fail(f, "todo") ELSE With(f, NonReloc(reg)))

Exp2NextReg(fs) ==
  Then(ReserveRegs(FreeExp(DischargeVars(fs)), 1), LAMBDA f : Exp2Reg(f, f.free - 1))

Exp2AnyReg(fs) ==
  Then(DischargeVars(fs), LAMBDA f : IF f.exp.k = "nonreloc" THEN f ELSE Exp2NextReg(f))

Discharge2AnyReg(fs) ==
  IF fs.exp.k = "nonreloc" THEN fs
  ELSE Then(ReserveRegs(fs, 1), LAMBDA f : Discharge2Reg(f, f.free - 1))

(* The operand is left in fs.rk. *)
ConstantOf(e) ==
  CASE e.k = "nil"    -> Nil
    [] e.k = "number" -> Num(e.v)
    [] OTHER          -> Bool(e.k = "true")

Exp2RK(fs) ==
  Then(DischargeVars(fs), LAMBDA f :
    LET e == f.exp
    IN  IF e.k \in {"number", "true", "false", "nil"} /\ Len(f.consts) <= RKMax
          THEN Then(PutConstant(f, ConstantOf(e)), LAMBDA g : [g EXCEPT !.rk = RKBit + g.index])
        ELSE IF e.k = "constant_index" /\ e.v <= RKMax
          THEN [f EXCEPT !.rk = RKBit + e.v]
        ELSE Then(Exp2AnyReg(f), LAMBDA g : [g EXCEPT !.rk = g.exp.v]))

-----------------------------------------------------------------------------
(* Operators.                                                              *)

CanFold(op, e1, e2) ==
  /\ e1.k = "number" /\ e2.k = "number"
  /\ op \in {"div", "mod"} => e2.v # Lit(0)

(* The second operand is put in its register before the first is looked    *)
(* at; the higher of the two is freed first.                               *)
FreeBoth(fs, lower, higher) == FreeExp(With(FreeExp(With(fs, higher)), lower))

CodeArith(fs, op, e1, e2) ==
  IF CanFold(op, e1, e2) THEN With(fs, Desc("number", Arith(op, e1.v, e2.v)))
  ELSE Then(Exp2RK(With(fs, e2)), LAMBDA f :
       Then(Exp2RK(With(f, e1)), LAMBDA g :
         EmitRelocable(IF g.rk > f.rk THEN FreeBoth(g, f.exp, g.exp) ELSE FreeBoth(g, g.exp, f.exp),
                       op, g.rk, f.rk)))

CodeUnary(fs, op) ==
  Then(Exp2RK(fs), LAMBDA f : EmitRelocable(FreeExp(f), op, f.rk, 0))

CodeNot(fs) ==
  Then(DischargeVars(fs), LAMBDA f :
    CASE f.exp.k \in {"nil", "false"} -> With(f, Desc("true", 0))
      [] f.exp.k \in {"constant_index", "number", "true"} -> With(f, Desc("false", 0))
      [] f.exp.k = "jmp" -> Fail(f, "todo")
      [] f.exp.k \in {"relocable", "nonreloc"} ->
           Then(Discharge2AnyReg(f), LAMBDA g : EmitRelocable(FreeExp(g), "not", g.exp.v, 0))
      [] OTHER -> Fail(f, "unreachable"))

Prefix(fs, op) ==
  CASE op = "not" -> CodeNot(fs)
    [] op = "-"   -> IF fs.exp.k = "number"
                       THEN With(fs, Desc("number", Negate(fs.exp.v)))
                       ELSE CodeUnary(Exp2AnyReg(fs), "unm")
    [] op = "#"   -> CodeUnary(Exp2AnyReg(fs), "len")

OpCodeOf == [o \in {"+", "-", "*", "/", "%", "^"} |->
               CASE o = "+" -> "add" [] o = "-" -> "sub" [] o = "*" -> "mul"
                 [] o = "/" -> "div" [] o = "%" -> "mod" [] o = "^" -> "pow"]

Infix(fs, op) ==
  CASE op \in {"and", "or"} -> Fail(fs, "todo")
    [] op = ".." -> Exp2RK(Exp2NextReg(fs))
    [] op \in DOMAIN OpCodeOf /\ fs.exp.k = "number" -> fs
    [] OTHER -> Exp2RK(fs)

(* Concatenation is right associative: a concatenation on the right grows  *)
(* to the left by the register before it.                                  *)
PosfixConcat(fs, e1) ==
  Then(DischargeVars(fs), LAMBDA f :
    LET i == f.exp.v
    IN  IF f.exp.k = "relocable" /\ At(f, i).op = "concat"
          THEN IF At(f, i).b # e1.v + 1 THEN Fail(f, "assert")
               ELSE With(Patch(FreeExp(With(f, e1)), i, [At(f, i) EXCEPT !.b = e1.v]), Relocable(i))
          ELSE Then(Exp2NextReg(f), LAMBDA g : CodeArith(g, "concat", e1, g.exp)))

(* A comparison, with its operands in this order; its result is a jump. *)
CodeComp(fs, op, invert, x, y) ==
  Then(Exp2RK(With(fs, x)), LAMBDA f :
  Then(Exp2RK(With(f, y)), LAMBDA g :
    With(Emit(g, op, invert, f.rk, g.rk), Desc("jmp", PC(g)))))

Comparison == [o \in {"<", ">", "<=", ">=", "==", "~="} |->
                 CASE o \in {"<", ">"} -> "lt" [] o \in {"<=", ">="} -> "le" [] OTHER -> "eq"]

Posfix(fs, op, e1) ==
  LET e2 == fs.exp
      swapped == op \in {">", ">="}
  IN  CASE op = ".." -> PosfixConcat(fs, e1)
        [] op \in DOMAIN OpCodeOf -> CodeArith(fs, OpCodeOf[op], e1, e2)
        [] op \in DOMAIN Comparison ->
             CodeComp(fs, Comparison[op], IF op \in {">", ">=", "~="} THEN 1 ELSE 0,
                      IF swapped THEN e2 ELSE e1, IF swapped THEN e1 ELSE e2)
        [] OTHER -> Fail(fs, "todo")

-----------------------------------------------------------------------------
(* Local variables, assignment, tables.                                    *)

NewLocalVar(fs, name, i) ==
  IF fs.nact + i >= MaxVars THEN Fail(fs, "todo")
  ELSE [fs EXCEPT !.act[fs.nact + i + 1] = Len(fs.locals),
                  !.locals = Append(@, name)]

AdjustLocalVars(fs, n) == [fs EXCEPT !.nact = @ + n]

(* The place of the innermost active variable of this name, 0 if there is  *)
(* none.  The search goes down from the last variable and stops, too, at   *)
(* one whose entry of `act' is no index of `locals'.                       *)
Named(fs, i, name) ==
  fs.act[i] >= Len(fs.locals) \/ fs.locals[fs.act[i] + 1] = name

OutermostLocalVar(fs, name) ==
  LET found == {i \in 1 .. fs.nact : Named(fs, i, name)}
  IN  IF found = {} THEN 0 ELSE Min(found)
FindLocalVar(fs, name) ==
  LET found == {i \in 1 .. fs.nact : Named(fs, i, name)}
  IN  IF found = {} THEN 0 ELSE Max(found)

AdjustAssign(fs, vars, values) ==
  LET extra == vars - values
      open == IF extra + 1 < 0 THEN 0 ELSE extra + 1
  IN  IF HasMultRet(fs.exp)
        THEN Then(SetReturns(fs, open), LAMBDA f :
               IF open > 1 THEN ReserveRegs(f, open - 1) ELSE f)
        ELSE Then(IF fs.exp.k = "void" THEN fs ELSE Exp2NextReg(fs), LAMBDA f :
               IF extra > 0 THEN EmitNil(ReserveRegs(f, extra), f.free, extra) ELSE f)

StoreVar(fs, var) ==
  CASE var.k = "local_register" -> Exp2Reg(FreeExp(fs), var.v)
    [] var.k = "global" ->
         Then(Exp2AnyReg(fs), LAMBDA f : FreeExp(Emit(f, "setglobal", f.exp.v, var.v, 0)))
    [] var.k = "indexed" -> Fail(fs, "todo")
    [] OTHER -> Fail(fs, "unreachable")

(* fs.exp is the table; `key' is a descriptor. *)
Indexed(fs, key) ==
  Then(Exp2RK(With(fs, key)), LAMBDA f :
    With(f, [k |-> "indexed", v |-> fs.exp.v, w |-> f.rk]))

HandleSelf(fs, key) ==
  Then(FreeExp(Exp2AnyReg(fs)), LAMBDA f :
  Then(Exp2RK(With(ReserveRegs(f, 2), key)), LAMBDA g :
    With(FreeExp(Emit(g, "self", f.free, f.exp.v, g.rk)), NonReloc(f.free))))

(* A batch number too large for the C field takes an instruction's place.  *)
BatchNum(n) == (n - 1) \div FieldsPerFlush + 1
SetList(fs, reg, n, store) ==    (* store = 0: all up to the top *)
  LET batch == BatchNum(n)
  IN  Then(Emit(fs, "setlist", reg, store, IF batch <= MaxC THEN batch ELSE 0), LAMBDA f :
        [IF batch <= MaxC THEN f ELSE Emit(f, "batch", 0, batch, 0) EXCEPT !.free = reg + 1])

-----------------------------------------------------------------------------
(***************************************************************************)
(* The walk.  A node is a tuple that begins with its kind (ast.zig):       *)
(*   <<"literal", kind, value>>       <<"identifier", name>>               *)
(*   <<"unary", op, e>>  <<"binary", op, l, r>>  <<"group", e>>            *)
(*   <<"table", fields>>  of  <<key or None, value>>                       *)
(*   <<"field", prefix, separator, name>>   <<"index", prefix, e>>         *)
(*   <<"call", f, arguments, is_statement>>                                *)
(*   <<"function", name or None, parameters, body, is_local>>              *)
(*   <<"assign", variables, values, is_local>>    <<"return", values>>     *)
(*   <<"if", clauses>>  of  <<condition or None, body>>                    *)
(*   <<"while", e, body>>  <<"repeat", body, e>>  <<"do", body>>           *)
(*   <<"for", name, start, end, increment or None, body>>                  *)
(*   <<"forin", names, expressions, body>>        <<"break">>              *)
(***************************************************************************)
None == <<"none">>

GenLiteral(fs, kind, value) ==
  CASE kind \in {"nil", "true", "false"} -> With(fs, Desc(kind, 0))
    [] kind = "number" -> With(fs, Desc("number", Lit(value)))
    [] kind \in {"string", "name"} ->
         Then(PutConstant(fs, Str(<<value>>)), LAMBDA f : With(f, Desc("constant_index", f.index)))
    [] kind = "ellipsis" -> With(Emit(fs, "vararg", 0, 1, 0), Desc("vararg", PC(fs)))

GenIdentifier(fs, name) ==
  LET i == FindLocalVar(fs, name)
  IN  IF i = 0
        THEN Then(PutConstant(fs, Str(<<name>>)), LAMBDA f : With(f, Desc("global", f.index)))
      ELSE IF fs.act[i] >= Len(fs.locals) THEN Fail(fs, "bounds")
      ELSE With(fs, Desc("local_register", i - 1))

(* setSignedBx at the instruction numbered i, to the present place. *)
PatchHere(fs, i) == Patch(fs, i, [At(fs, i) EXCEPT !.b = PC(fs) - i - 1])
PatchAllHere(fs, list) == FoldLeft(PatchHere, fs, list)

(* A jump back: the distance is an unsigned subtraction. *)
JumpBack(fs, to) ==
  IF to - PC(fs) - 1 < 0 THEN Fail(fs, "overflow") ELSE Emit(fs, "jmp", 0, to - PC(fs) - 1, 0)

(* Loops save the list of pending breaks and install their own.  An entry  *)
(* that an inner function added indexes that function's code: here it may  *)
(* be no instruction at all, or overwrite one that is not a jump.          *)
EnterLoop(fs) == [fs EXCEPT !.breaks = Append(@, <<>>)]
PatchBreaks(fs, list) ==
  IF \E i \in ToSet(list) : i >= PC(fs) THEN Fail(fs, "bounds")
  ELSE IF \E i \in ToSet(list) : At(fs, i).op # "jmp" THEN Fail(fs, "corrupt")
  ELSE PatchAllHere(fs, list)
LeaveLoop(fs) == [fs EXCEPT !.breaks = Front(@)]

GenBreak(fs) ==
  IF fs.breaks = <<>> THEN Fail(fs, "error")
  ELSE [Emit(fs, "jmp", 0, 0, 0) EXCEPT
          !.breaks = Append(Front(@), Append(Last(@), PC(fs)))]

RECURSIVE Gen(_, _)

GenAll(fs, nodes) == FoldLeft(Gen, fs, nodes)

(* genExpList1: all but the last go to the next registers. *)
GenExpList1(fs, nodes) ==
  IF nodes = <<>> THEN fs
  ELSE Gen(FoldLeft(LAMBDA f, n : Exp2NextReg(Gen(f, n)), fs, Front(nodes)), Last(nodes))

(* A keyed field is stored at once.  A value without a key waits for the   *)
(* next field, as the last may have any number of results; values pile up  *)
(* in registers and are stored FieldsPerFlush at a time.                   *)
GenKeyedField(fs, field) ==
  Then(Exp2RK(Gen(fs, field[1])), LAMBDA k :
  Then(Exp2RK(Gen(k, field[2])), LAMBDA v :
    [With(Emit(v, "settable", fs.exp.v, k.rk, v.rk), fs.exp) EXCEPT !.free = fs.free]))

FlushField(t) ==
  IF t.waiting.k = "void" THEN t
  ELSE Then(With(Exp2NextReg(With(t.fs, t.waiting)), t.fs.exp), LAMBDA f :
         IF t.pending < FieldsPerFlush THEN [t EXCEPT !.fs = f, !.waiting = Void]
         ELSE [t EXCEPT !.fs = SetList(f, f.exp.v, t.total, t.pending),
                        !.waiting = Void, !.pending = 0])

AddField(table, field) ==
  Then(FlushField(table), LAMBDA t :
    IF field[1] # None THEN [t EXCEPT !.fs = GenKeyedField(t.fs, field)]
    ELSE Then(Gen(t.fs, field[2]), LAMBDA f :
           [fs |-> With(f, t.fs.exp), waiting |-> f.exp,
            total |-> t.total + 1, pending |-> t.pending + 1]))

LastFields(t) ==
  LET reg == t.fs.exp.v
      last == With(t.fs, t.waiting)
  IN  CASE t.pending = 0 -> t.fs
        [] t.pending > 0 /\ HasMultRet(t.waiting) -> SetList(SetReturns(last, -1), reg, t.total, 0)
        [] OTHER -> SetList(IF t.waiting.k = "void" THEN last ELSE Exp2NextReg(last),
                            reg, t.total, t.pending)

GenTableConstructor(fs, fields) ==
  Then(Exp2NextReg(EmitRelocable(fs, "newtable", 0, 0)), LAMBDA new :
    With(LastFields(FoldLeft(AddField, [fs |-> new, waiting |-> Void, total |-> 0, pending |-> 0],
                             fields)),
         new.exp))

GenLocal(fs, names, values) ==
  Then(GenExpList1(FoldLeftDomain(LAMBDA f, i : NewLocalVar(f, names[i][2], i - 1), fs, names),
                   values), LAMBDA f :
    AdjustLocalVars(AdjustAssign(IF values = <<>> THEN With(f, Void) ELSE f,
                                 Len(names), Len(values)), Len(names)))

(* Variables are stored from vars[n] down to vars[1], each from the top    *)
(* register.                                                               *)
StoreTop(fs, var) ==
  IF fs.free = 0 THEN Fail(fs, "overflow") ELSE StoreVar(With(fs, NonReloc(fs.free - 1)), var)
StoreDown(fs, vars, n) == FoldLeft(StoreTop, fs, Reverse(SubSeq(vars, 1, n)))

EvalVars(fs, variables) ==
  FoldLeft(LAMBDA p, n : Then(Gen(p.fs, n), LAMBDA f : [fs |-> f, vars |-> Append(p.vars, f.exp)]),
           [fs |-> fs, vars |-> <<>>], variables)

GenAssignment(fs, variables, values) ==
  Then(EvalVars(fs, variables), LAMBDA eval :
  LET n == Len(variables)
      surplus == IF Len(values) > n THEN Len(values) - n ELSE 0
      last_taken_care_of == Len(values) = n
      unstored_index == IF last_taken_care_of /\ n > 1 THEN n - 2 ELSE n - 1
      finished == last_taken_care_of /\ unstored_index = 0
      Trim(f) == IF f.free < surplus THEN Fail(f, "overflow") ELSE [f EXCEPT !.free = @ - surplus]
  IN  Then(GenExpList1(eval.fs, values), LAMBDA f :
      Then(IF last_taken_care_of THEN StoreVar(SetOneRet(f), Last(eval.vars))
           ELSE Trim(AdjustAssign(f, n, Len(values))), LAMBDA g :
        IF finished THEN g ELSE StoreDown(g, eval.vars, unstored_index + 1))))

ReturnOpen(fs, values) ==
  Then(SetReturns(fs, -1), LAMBDA f :
    LET i == fs.exp.v
        tail == Patch(f, i, [At(f, i) EXCEPT !.op = "tailcall"])
        called == IF fs.exp.k # "call" \/ Len(values) # 1 THEN f
                  ELSE IF At(f, i).a = f.nact THEN tail ELSE Fail(tail, "assert return")
    IN  Emit(called, "return", f.nact, 0, 0))

GenReturn(fs, values) ==
  Then(GenExpList1(fs, values), LAMBDA f :
    CASE values = <<>>       -> Emit(fs, "return", 0, 1, 0)
      [] values # <<>> /\ HasMultRet(f.exp) -> ReturnOpen(f, values)
      [] ~HasMultRet(f.exp) /\ Len(values) = 1 ->
           Then(Exp2AnyReg(f), LAMBDA one : Emit(one, "return", one.exp.v, 2, 0))
      [] OTHER -> Then(Exp2NextReg(f), LAMBDA all :
                    IF Len(values) # all.free - all.nact THEN Fail(all, "assert return")
                    ELSE Emit(all, "return", all.nact, Len(values) + 1, 0)))

(* The last argument, too, is cut to one value. *)
GenCall(fs, expression, arguments, is_statement) ==
  LET is_self == expression[1] = "field" /\ expression[3] = ":"
  IN  Then(Gen(fs, expression), LAMBDA f :
      Then(IF is_self THEN f ELSE Exp2NextReg(f), LAMBDA g :
        IF g.exp.k # "nonreloc" THEN Fail(g, "assert")
        ELSE Then(FoldLeft(LAMBDA p, n : Exp2NextReg(Gen(p, n)), g, arguments), LAMBDA h :
          [With(Emit(h, "call", g.exp.v, h.free - g.exp.v, IF is_statement THEN 1 ELSE 2),
                Desc("call", PC(h)))
             EXCEPT !.free = g.exp.v + 1])))

GenField(fs, prefix, separator, name) ==
  Then(Gen(fs, prefix), LAMBDA f :
  Then(PutConstant(IF separator = ":" THEN f ELSE Exp2AnyReg(f), Str(<<name>>)), LAMBDA g :
    LET key == Desc("constant_index", g.index)
    IN  IF separator = ":" THEN HandleSelf(g, key) ELSE Indexed(g, key)))

GenIndex(fs, prefix, index) ==
  Then(Exp2AnyReg(Gen(fs, prefix)), LAMBDA t :
  Then(DischargeVars(Gen(With(t, Void), index)), LAMBDA f :
    Indexed(With(f, t.exp), f.exp)))

(* The condition goes to the next register; the test is of register 0.  A  *)
(* branch that is not the last ends with a jump past the statement.        *)
GenClause(c, clause) ==
  IF clause[1] = None THEN [c EXCEPT !.fs = GenAll(c.fs, clause[2]), !.left = @ - 1]
  ELSE Then(Emit(Exp2NextReg(Gen(c.fs, clause[1])), "test", 0, 0, 0), LAMBDA tested :
       Then(GenAll(Emit(tested, "jmp", 0, 0, 0), clause[2]), LAMBDA branch :
         [fs |-> PatchHere(IF c.left > 1 THEN Emit(branch, "jmp", 0, 0, 0) ELSE branch, PC(tested)),
          left |-> c.left - 1,
          escapes |-> IF c.left > 1 THEN Append(c.escapes, PC(branch)) ELSE c.escapes]))

GenIf(fs, clauses) ==
  Then(FoldLeft(GenClause, [fs |-> fs, left |-> Len(clauses), escapes |-> <<>>], clauses),
       LAMBDA c : PatchAllHere(c.fs, c.escapes))

GenWhile(fs, condition, body) ==
  Then(Emit(Exp2NextReg(Gen(fs, condition)), "test", 0, 0, 0), LAMBDA tested :
  Then(JumpBack(GenAll(EnterLoop(Emit(tested, "jmp", 0, 0, 0)), body), PC(fs)), LAMBDA looped :
    PatchBreaks(PatchHere(LeaveLoop(looped), PC(tested)), Last(looped.breaks))))

GenRepeat(fs, body, condition) ==
  Then(Exp2NextReg(Gen(GenAll(EnterLoop(fs), body), condition)), LAMBDA f :
  Then(JumpBack(Emit(f, "test", 0, 0, 1), PC(fs)), LAMBDA looped :
    PatchBreaks(LeaveLoop(looped), Last(looped.breaks))))

(* The loop variables' entries of `act' are overwritten by registers. *)
NewLoopVar(fs, name, i, reg) ==
  Then(NewLocalVar(fs, name, i), LAMBDA f :
    IF f.nact >= MaxVars THEN Fail(f, "bounds")
    ELSE [f EXCEPT !.act[f.nact + 1] = reg, !.nact = @ + 1])

(* nact is lowered by the loop variables only, whatever the body declared. *)
CloseLoopVars(fs, n, base) ==
  LET f == [fs EXCEPT !.nact = @ - n]
  IN  [PatchBreaks(LeaveLoop(f), Last(fs.breaks)) EXCEPT !.free = base]

GenForNumeric(fs, name, start, end, increment, body) ==
  Then(Exp2NextReg(Gen(Exp2NextReg(Gen(ReserveRegs(fs, 4), start)), end)), LAMBDA f :
  Then(Exp2NextReg(IF increment = None THEN With(f, Desc("number", Lit(1)))
                   ELSE Gen(f, increment)), LAMBDA g :
    LET prep == EnterLoop(Emit(g, "forprep", fs.free, 0, 0))
        looped == GenAll(NewLoopVar(prep, name, 0, fs.free + 3), body)
    IN  CloseLoopVars(Emit(looped, "forloop", fs.free, 0, 0), 1, fs.free)))

(* The registers up to the third are always reserved by now: there is      *)
(* nothing to fill with nil.                                               *)
GenForGeneric(fs, names, expressions, body) ==
  Then(FoldLeft(LAMBDA p, n : Exp2NextReg(Gen(p, n)),
                ReserveRegs(fs, 3 + Len(names)), expressions), LAMBDA f :
    LET jump == Emit(Emit(f, "tforloop", fs.free, Len(names), 0), "jmp", 0, 0, 0)
        g == FoldLeftDomain(LAMBDA p, i : NewLoopVar(p, names[i], i - 1, fs.free + 2 + i),
                            EnterLoop(jump), names)
    IN  Then(JumpBack(GenAll(g, body), PC(f)), LAMBDA looped :
          CloseLoopVars(PatchHere(looped, PC(f) + 1), Len(names), fs.free)))

(* The code of an inner function is generated, with its parameters as      *)
(* active variables that no register is reserved for, and dropped: only    *)
(* its failure, and breaks added to the enclosing loop's list, remain.     *)
InnerFunction(fs, parameters, body) ==
  Then(FoldLeftDomain(LAMBDA p, i : NewLocalVar(p, parameters[i], i - 1),
                      [NewFunc EXCEPT !.st = fs.st, !.breaks = fs.breaks], parameters), LAMBDA f :
  Then(GenAll(AdjustLocalVars(f, Len(parameters)), body), LAMBDA inner :
    [fs EXCEPT !.st = inner.st, !.breaks = inner.breaks]))

GenFunction(fs, name, parameters, body, is_local) ==
  Then(InnerFunction(fs, parameters, body), LAMBDA outer :
  Then(IF is_local THEN NewLocalVar(outer, name[2], 0) ELSE outer, LAMBDA declared :
  Then(ReserveRegs(Emit(declared, "closure", fs.free, 0, 0), 1), LAMBDA made :
    CASE name = None -> With(made, NonReloc(fs.free))
      [] name # None /\ is_local -> AdjustLocalVars(made, 1)
      [] name # None /\ ~is_local /\ name[1] = "identifier" ->
           Then(PutConstant(made, Str(<<name[2]>>)), LAMBDA f :
             With(Emit(f, "setglobal", f.free - 1, f.index, 0), NonReloc(f.free - 1)))
      [] OTHER -> made)))      (* a method or field name is ignored *)

Gen(fs, n) ==
  CASE n[1] = "literal"    -> GenLiteral(fs, n[2], n[3])
    [] n[1] = "identifier" -> GenIdentifier(fs, n[2])
    [] n[1] = "unary"      -> Prefix(Gen(fs, n[3]), n[2])
    [] n[1] = "binary"     -> Then(Infix(Gen(fs, n[3]), n[2]), LAMBDA l :
                                Posfix(Gen(l, n[4]), n[2], l.exp))
    [] n[1] = "group"      -> Gen(fs, n[2])
    [] n[1] = "table"      -> GenTableConstructor(fs, n[2])
    [] n[1] = "field"      -> GenField(fs, n[2], n[3], n[4])
    [] n[1] = "index"      -> GenIndex(fs, n[2], n[3])
    [] n[1] = "call"       -> GenCall(fs, n[2], n[3], n[4])
    [] n[1] = "function"   -> GenFunction(fs, n[2], n[3], n[4], n[5])
    [] n[1] = "assign"     -> IF n[4] THEN GenLocal(fs, n[2], n[3])
                              ELSE GenAssignment(fs, n[2], n[3])
    [] n[1] = "return"     -> GenReturn(fs, n[2])
    [] n[1] = "if"         -> GenIf(fs, n[2])
    [] n[1] = "while"      -> GenWhile(fs, n[2], n[3])
    [] n[1] = "repeat"     -> GenRepeat(fs, n[2], n[3])
    [] n[1] = "do"         -> GenAll(fs, n[2])
    [] n[1] = "for"        -> GenForNumeric(fs, n[2], n[3], n[4], n[5], n[6])
    [] n[1] = "forin"      -> GenForGeneric(fs, n[2], n[3], n[4])
    [] n[1] = "break"      -> GenBreak(fs)

(* After a statement of the chunk all registers but the locals' are free. *)
GenStatement(fs, n) ==
  Then(Gen(fs, n), LAMBDA f :
    [IF f.max >= f.free /\ f.free >= f.nact THEN f ELSE Fail(f, "assert") EXCEPT !.free = f.nact])

(* At the end the remaining variables are looked up, to be removed. *)
GenChunk(body) ==
  Then(FoldLeft(GenStatement, NewFunc, body), LAMBDA f :
    LET lost == \E i \in 1 .. f.nact : f.act[i] >= Len(f.locals)
    IN  [Emit(IF lost THEN Fail(f, "bounds") ELSE f, "return", 0, 1, 0) EXCEPT !.nact = 0])
=============================================================================
