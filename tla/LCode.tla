-------------------------------- MODULE LCode -------------------------------
(***************************************************************************)
(* lcode.c, the code generator of Lua 5.1, whose output the compiler of    *)
(* this repository is to reproduce (its tests compare the two byte for     *)
(* byte), with the opcodes of lopcodes.c.                                  *)
(*                                                                         *)
(* The state of the compiler is one record `fs' (FuncState, and LexState   *)
(* for the parser); a function of the code is an operator from fs to fs    *)
(* that works on the expression descriptor fs.e and leaves the integer it  *)
(* returns in fs.r.  fs.st keeps the first error: syntax errors and limits *)
(* ("syntax"), failed assertions ("assert"); `Then' skips what follows an  *)
(* error, as the long jump of luaD_throw does.                             *)
(*                                                                         *)
(* An instruction is a record of its fields, Bx and sBx in b; instructions *)
(* count from 0.  Jumps that wait for their target are threaded, as in the *)
(* code, through the instructions themselves.  Left out: line information, *)
(* the life spans of variables, the growth of arrays up to MAX_INT, NaN.   *)
(***************************************************************************)
EXTENDS Integers, Sequences, FiniteSetsExt, SequencesExt

CONSTANTS
  MAXSTACK,            (* llimits.h: 250                                   *)
  MAXINDEXRK,          (* lopcodes.h: 255                                  *)
  LFIELDS_PER_FLUSH,   (* lopcodes.h: 50                                   *)
  MAXARG_C,            (* lopcodes.h: 511                                  *)
  MAXARG_sBx           (* lopcodes.h: 131071                               *)

NO_JUMP == -1
NO_REG == 255
BITRK == 256
ISK(x) == x >= BITRK
INDEXK(x) == x - BITRK
RKASK(x) == x + BITRK

(* Sums, differences and products of integers are computed; any other      *)
(* number is the term that denotes it.                                     *)
Nil == <<"nil">>
Bool(b) == <<"boolean", b>>
Num(n) == <<"number", n>>
Str(s) == <<"string", s>>
Lit(i) == <<"lit", i>>
NumArith(op, x, y) ==
  IF x[1] # "lit" \/ y[1] # "lit" \/ op \notin {"add", "sub", "mul", "unm"}
    THEN <<op, x, y>>
    ELSE Lit(CASE op = "add" -> x[2] + y[2] [] op = "sub" -> x[2] - y[2]
               [] op = "mul" -> x[2] * y[2] [] op = "unm" -> -x[2])

(* luaP_opmodes: the tests, the format, the modes of B and C.              *)
ArithOps == {"add", "sub", "mul", "div", "mod", "pow"}
testTMode(op) == op \in {"eq", "lt", "le", "test", "testset", "tforloop"}
isABx(op) == op \in {"loadk", "getglobal", "setglobal", "closure"}
isAsBx(op) == op \in {"jmp", "forloop", "forprep"}
unusedB(op) == op \in {"tforloop", "close"}
unusedC(op) == op \in {"move", "loadnil", "getupval", "setupval", "unm", "not", "len", "return", "close", "vararg"}
getBMode(op) ==
  CASE unusedB(op) -> "N"
    [] op \in {"loadbool", "getupval", "setupval", "newtable", "call", "tailcall", "return", "setlist", "closure", "vararg"} -> "U"
    [] op \in ArithOps \cup {"loadk", "getglobal", "setglobal", "settable", "eq", "lt", "le"} -> "K"
    [] OTHER -> "R"
getCMode(op) ==
  CASE unusedC(op) -> "N"
    [] op \in {"loadbool", "newtable", "test", "testset", "call", "tailcall", "tforloop", "setlist"} -> "U"
    [] op \in ArithOps \cup {"gettable", "settable", "self", "eq", "lt", "le"} -> "K"
    [] OTHER -> "R"

(* Expression descriptors: kind, the union of info and nval, aux, and the  *)
(* lists of the jumps taken when the value is true, or false.              *)
init_exp(k, i) == [k |-> k, info |-> i, aux |-> 0, t |-> NO_JUMP, f |-> NO_JUMP]
hasjumps(e) == e.t # e.f
isnumeral(e) == e.k = "VKNUM" /\ e.t = NO_JUMP /\ e.f = NO_JUMP
hasmultret(k) == k \in {"VCALL", "VVARARG"}

(* One step after the other, and a step of its own on an expression.  *)
Then(fs, Op(_)) == IF fs.st = "ok" THEN Op(fs) ELSE fs
Fail(fs, why) == [fs EXCEPT !.st = IF @ = "ok" THEN why ELSE @]
Check(fs, ok, why) == IF ok THEN fs ELSE Fail(fs, why)
With(fs, e) == [fs EXCEPT !.e = e]
Ret(fs, r) == [fs EXCEPT !.r = r]
As(fs, k, info) == [fs EXCEPT !.e.k = k, !.e.info = info]

(* The number that an instruction is: opcode, A, C and B, from the lowest  *)
(* bits; and the instruction that a number, below 38 * 64, is read as.     *)
OpOrder == <<"move", "loadk", "loadbool", "loadnil", "getupval", "getglobal", "gettable",
             "setglobal", "setupval", "settable", "newtable", "self", "add", "sub", "mul", "div",
             "mod", "pow", "unm", "not", "len", "concat", "jmp", "eq", "lt", "le", "test",
             "testset", "call", "tailcall", "return", "forloop", "forprep", "tforloop",
             "setlist", "close", "closure", "vararg">>
Inst(op, a, b, c) == [op |-> op, a |-> a, b |-> b, c |-> c]
Encode(i) == (SelectInSeq(OpOrder, LAMBDA o : o = i.op) - 1) + 64 * (i.a + 256 * (i.c + 512 * i.b))
Decode(n) == Inst(OpOrder[(n % 64) + 1], (n \div 64) % 256, n \div 8388608, (n \div 16384) % 512)

PC(fs) == Len(fs.code)
At(fs, i) == fs.code[i + 1]
getcode(fs) == At(fs, fs.e.info)
Patch(fs, i, inst) == [fs EXCEPT !.code[i + 1] = inst]
SetA(fs, i, a) == [fs EXCEPT !.code[i + 1].a = a]
SetB(fs, i, b) == [fs EXCEPT !.code[i + 1].b = b]
SetC(fs, i, c) == [fs EXCEPT !.code[i + 1].c = c]

-----------------------------------------------------------------------------
(* Jumps.                                                                  *)

fixjump(fs, pc, dest) ==
  IF dest - (pc + 1) > MAXARG_sBx \/ (pc + 1) - dest > MAXARG_sBx THEN Fail(fs, "syntax")
  ELSE SetB(Check(fs, dest # NO_JUMP, "assert"), pc, dest - (pc + 1))

luaK_getlabel(fs) == Ret([fs EXCEPT !.lasttarget = PC(fs)], PC(fs))

getjump(fs, pc) == IF At(fs, pc).b = NO_JUMP THEN NO_JUMP ELSE pc + 1 + At(fs, pc).b

RECURSIVE LastJump(_, _)
LastJump(fs, list) == IF getjump(fs, list) = NO_JUMP THEN list ELSE LastJump(fs, getjump(fs, list))

(* The place of the instruction that decides on a jump. *)
getjumpcontrol(fs, pc) == IF pc >= 1 /\ testTMode(At(fs, pc - 1).op) THEN pc - 1 ELSE pc
IsTestSet(fs, pc) == At(fs, getjumpcontrol(fs, pc)).op = "testset"

RECURSIVE need_value(_, _)
need_value(fs, list) ==
  list # NO_JUMP /\ (~IsTestSet(fs, list) \/ need_value(fs, getjump(fs, list)))

(* A testset that decides on the jump gets its register, or is a test. *)
RetargetKept(i, reg) ==
  IF i.op = "testset" /\ reg # NO_REG THEN [i EXCEPT !.a = reg] ELSE i
Retarget(i, reg) ==
  IF i.op # "testset" THEN i
  ELSE IF reg # NO_REG /\ reg # i.b THEN [i EXCEPT !.a = reg] ELSE Inst("test", i.b, 0, i.c)
patchtestreg(fs, node, reg) == [fs EXCEPT !.code[getjumpcontrol(fs, node) + 1] = Retarget(@, reg)]

RECURSIVE removevalues(_, _)
removevalues(fs, list) ==
  IF list = NO_JUMP THEN fs ELSE removevalues(patchtestreg(fs, list, NO_REG), getjump(fs, list))

RECURSIVE patchlistaux(_, _, _, _, _)
patchlistaux(fs, list, vtarget, reg, dtarget) ==
  IF list = NO_JUMP \/ fs.st # "ok" THEN fs
  ELSE patchlistaux(fixjump(patchtestreg(fs, list, reg), list, IF IsTestSet(fs, list) THEN vtarget ELSE dtarget),
                    getjump(fs, list), vtarget, reg, dtarget)

dischargejpc(fs) == [patchlistaux(fs, fs.jpc, PC(fs), NO_REG, PC(fs)) EXCEPT !.jpc = NO_JUMP]

luaK_code(fs, i) ==
  Then(dischargejpc(fs), LAMBDA f : Ret([f EXCEPT !.code = Append(@, i)], PC(f)))

luaK_codeABC(fs, o, a, b, c) ==
  luaK_code(Check(fs, ~isABx(o) /\ ~isAsBx(o) /\ (unusedB(o) => b = 0) /\ (unusedC(o) => c = 0), "assert"),
            Inst(o, a, b, c))
luaK_codeABx(fs, o, a, bc) == luaK_code(Check(fs, isABx(o) \/ isAsBx(o), "assert"), Inst(o, a, bc, 0))

(* The list that l1 has become is left in r. *)
luaK_concat(fs, l1, l2) ==
  IF l2 = NO_JUMP THEN Ret(fs, l1)
  ELSE IF l1 = NO_JUMP THEN Ret(fs, l2)
  ELSE Ret(fixjump(fs, LastJump(fs, l1), l2), l1)

luaK_patchtohere(fs, list) ==
  Then(luaK_getlabel(fs), LAMBDA f :
  Then(luaK_concat(f, f.jpc, list), LAMBDA g : [g EXCEPT !.jpc = g.r]))

luaK_patchlist(fs, list, target) ==
  IF target = PC(fs) THEN luaK_patchtohere(fs, list)
  ELSE patchlistaux(Check(fs, target < PC(fs), "assert"), list, target, NO_REG, target)

(* The jumps to here go with the new one, wherever it will lead. *)
luaK_jumpLosing(fs) ==
  luaK_codeABx([fs EXCEPT !.jpc = NO_JUMP], "jmp", 0, NO_JUMP)
luaK_jump(fs) ==
  Then(luaK_codeABx([fs EXCEPT !.jpc = NO_JUMP], "jmp", 0, NO_JUMP), LAMBDA f :
    luaK_concat(f, f.r, fs.jpc))

condjump(fs, op, a, b, c) == Then(luaK_codeABC(fs, op, a, b, c), luaK_jump)

luaK_ret(fs, first, nret) == luaK_codeABC(fs, "return", first, nret + 1, 0)

-----------------------------------------------------------------------------
(* Registers and constants.                                                *)

(* A loadnil just before this one, with no jump in between, is extended. *)
luaK_nilAlways(fs, from, n) ==
  LET prev == IF PC(fs) = 0 THEN Inst("none", 0, 0, 0) ELSE Last(fs.code)
  IN  IF PC(fs) = 0 /\ from >= fs.nactvar THEN fs
      ELSE IF prev.op = "loadnil" /\ prev.a <= from /\ from <= prev.b + 1
        THEN IF from + n - 1 > prev.b THEN SetB(fs, PC(fs) - 1, from + n - 1) ELSE fs
      ELSE luaK_codeABC(fs, "loadnil", from, from + n - 1, 0)
luaK_nil(fs, from, n) ==
  LET prev == IF PC(fs) = 0 THEN Inst("none", 0, 0, 0) ELSE Last(fs.code)
      here == PC(fs) > fs.lasttarget     (* no jumps to current position *)
  IN  IF here /\ PC(fs) = 0 /\ from >= fs.nactvar THEN fs
      ELSE IF here /\ prev.op = "loadnil" /\ prev.a <= from /\ from <= prev.b + 1
        THEN IF from + n - 1 > prev.b THEN SetB(fs, PC(fs) - 1, from + n - 1) ELSE fs
      ELSE luaK_codeABC(fs, "loadnil", from, from + n - 1, 0)

luaK_checkstack(fs, n) ==
  LET new == fs.freereg + n
  IN  IF new <= fs.max THEN fs
      ELSE IF new >= MAXSTACK THEN Fail(fs, "syntax") ELSE [fs EXCEPT !.max = new]

luaK_reserveregs(fs, n) == [luaK_checkstack(fs, n) EXCEPT !.freereg = @ + n]

freereg(fs, reg) ==
  IF ISK(reg) \/ reg < fs.nactvar THEN fs
  ELSE [Check(fs, reg = fs.freereg - 1, "assert") EXCEPT !.freereg = @ - 1]

freeexp(fs, e) == IF e.k = "VNONRELOC" THEN freereg(fs, e.info) ELSE fs

addk(fs, v) ==
  LET i == SelectInSeq(fs.k, LAMBDA w : w = v)
  IN  IF i # 0 THEN Ret(fs, i - 1) ELSE Ret([fs EXCEPT !.k = Append(@, v)], Len(fs.k))

luaK_setreturns(fs, nresults) ==
  CASE fs.e.k = "VCALL"   -> SetC(fs, fs.e.info, nresults + 1)
    [] fs.e.k = "VVARARG" ->
         luaK_reserveregs(SetA(SetB(fs, fs.e.info, nresults + 1), fs.e.info, fs.freereg), 1)
    [] OTHER -> fs
luaK_setmultret(fs) == luaK_setreturns(fs, -1)

luaK_setoneret(fs) ==
  CASE fs.e.k = "VCALL"   -> As(fs, "VNONRELOC", getcode(fs).a)
    [] fs.e.k = "VVARARG" -> As(SetB(fs, fs.e.info, 2), "VRELOCABLE", fs.e.info)
    [] OTHER -> fs

-----------------------------------------------------------------------------
(* Putting expressions somewhere.                                          *)

Relocable(fs) == As(fs, "VRELOCABLE", fs.r)

luaK_dischargevars(fs) ==
  LET e == fs.e
  IN  CASE e.k = "VLOCAL"  -> As(fs, "VNONRELOC", e.info)
        [] e.k = "VUPVAL"  -> Relocable(luaK_codeABC(fs, "getupval", 0, e.info, 0))
        [] e.k = "VGLOBAL" -> Relocable(luaK_codeABx(fs, "getglobal", 0, e.info))
        [] e.k = "VINDEXED" ->
             Relocable(luaK_codeABC(freereg(freereg(fs, e.aux), e.info), "gettable", 0, e.info, e.aux))
        [] hasmultret(e.k) -> luaK_setoneret(fs)
        [] OTHER -> fs

code_label(fs, a, b, jump) == luaK_codeABC(luaK_getlabel(fs), "loadbool", a, b, jump)

discharge2reg(fs0, reg) ==
  Then(luaK_dischargevars(fs0), LAMBDA fs :
    LET e == fs.e
        Put(f) == As(f, "VNONRELOC", reg)
    IN  CASE e.k = "VNIL" -> Put(luaK_nil(fs, reg, 1))
          [] e.k \in {"VFALSE", "VTRUE"} ->
               Put(luaK_codeABC(fs, "loadbool", reg, IF e.k = "VTRUE" THEN 1 ELSE 0, 0))
          [] e.k = "VK" -> Put(luaK_codeABx(fs, "loadk", reg, e.info))
          [] e.k = "VKNUM" -> Then(addk(fs, Num(e.info)), LAMBDA f : Put(luaK_codeABx(f, "loadk", reg, f.r)))
          [] e.k = "VRELOCABLE" -> Put(SetA(fs, e.info, reg))
          [] e.k = "VNONRELOC" -> Put(IF reg = e.info THEN fs ELSE luaK_codeABC(fs, "move", reg, e.info, 0))
          [] OTHER -> Check(fs, e.k \in {"VVOID", "VJMP"}, "assert"))

discharge2anyreg(fs) ==
  IF fs.e.k = "VNONRELOC" THEN fs
  ELSE Then(luaK_reserveregs(fs, 1), LAMBDA f : discharge2reg(f, f.freereg - 1))

(* The jumps out of an expression that carry no value go to a pair of      *)
(* instructions that load it.                                              *)
LoadBooleans(fs, reg) ==
  Then(IF fs.e.k = "VJMP" THEN Ret(fs, NO_JUMP) ELSE luaK_jump(fs), LAMBDA fj :
  Then(code_label(fj, reg, 0, 1), LAMBDA p_f :
  Then(code_label(p_f, reg, 1, 0), LAMBDA p_t :
    luaK_patchtohere(p_t, fj.r))))

exp2reg(fs0, reg) ==
  Then(discharge2reg(fs0, reg), LAMBDA fs1 :
  Then(IF fs1.e.k = "VJMP" THEN luaK_concat(fs1, fs1.e.t, fs1.e.info) ELSE Ret(fs1, fs1.e.t), LAMBDA fs2 :
  Then([fs2 EXCEPT !.e.t = fs2.r], LAMBDA fs :
  Then(IF ~hasjumps(fs.e) THEN fs
       ELSE LET needed == need_value(fs, fs.e.t) \/ need_value(fs, fs.e.f)
                first == PC(fs) + (IF fs.e.k = "VJMP" THEN 0 ELSE 1)
                p_f == IF needed THEN first ELSE NO_JUMP
                p_t == IF needed THEN first + 1 ELSE NO_JUMP
            IN  Then(luaK_getlabel(IF needed THEN LoadBooleans(fs, reg) ELSE fs), LAMBDA final :
                Then(patchlistaux(final, fs.e.f, final.r, reg, p_f), LAMBDA f :
                  patchlistaux(f, fs.e.t, final.r, reg, p_t))), LAMBDA f :
    With(f, init_exp("VNONRELOC", reg))))))

luaK_exp2nextreg(fs) ==
  Then(luaK_dischargevars(fs), LAMBDA f :
  Then(luaK_reserveregs(freeexp(f, f.e), 1), LAMBDA g : exp2reg(g, g.freereg - 1)))

(* The register is the descriptor's, and is left in r too. *)
luaK_exp2anyreg(fs) ==
  Then(luaK_dischargevars(fs), LAMBDA f :
    LET own == f.e.k = "VNONRELOC" /\ f.e.info >= f.nactvar      (* put the final value there *)
        g == IF own THEN f ELSE luaK_reserveregs(freeexp(f, f.e), 1)
    IN  IF f.e.k = "VNONRELOC" /\ ~hasjumps(f.e) THEN Ret(f, f.e.info)
        ELSE Then(g, LAMBDA h :
             Then(exp2reg(h, IF own THEN f.e.info ELSE h.freereg - 1), LAMBDA r : Ret(r, r.e.info))))

luaK_exp2val(fs) == IF hasjumps(fs.e) THEN luaK_exp2anyreg(fs) ELSE luaK_dischargevars(fs)

ConstantOf(e) ==
  CASE e.k = "VNIL" -> Nil [] e.k = "VKNUM" -> Num(e.info) [] OTHER -> Bool(e.k = "VTRUE")

luaK_exp2RK(fs0) ==
  Then(luaK_exp2val(fs0), LAMBDA fs :
    IF fs.e.k \in {"VKNUM", "VTRUE", "VFALSE", "VNIL"} /\ Len(fs.k) <= MAXINDEXRK
      THEN Then(addk(fs, ConstantOf(fs.e)), LAMBDA f : Ret(As(f, "VK", f.r), RKASK(f.r)))
    ELSE IF fs.e.k = "VK" /\ fs.e.info <= MAXINDEXRK THEN Ret(fs, RKASK(fs.e.info))
    ELSE luaK_exp2anyreg(fs))

(* Store the expression fs.e in a variable. *)
luaK_storevar(fs, var) ==
  CASE var.k = "VLOCAL" -> exp2reg(freeexp(fs, fs.e), var.info)
    [] var.k \in {"VUPVAL", "VGLOBAL"} ->
         Then(luaK_exp2anyreg(fs), LAMBDA f :
           freeexp(IF var.k = "VUPVAL" THEN luaK_codeABC(f, "setupval", f.r, var.info, 0)
                   ELSE luaK_codeABx(f, "setglobal", f.r, var.info), f.e))
    [] var.k = "VINDEXED" ->
         Then(luaK_exp2RK(fs), LAMBDA f :
           freeexp(luaK_codeABC(f, "settable", var.info, var.aux, f.r), f.e))
    [] OTHER -> Fail(fs, "assert")

luaK_self(fs0, key) ==
  Then(luaK_exp2anyreg(fs0), LAMBDA fs :
  LET f == freeexp(fs, fs.e)
  IN  Then(luaK_exp2RK(With(luaK_reserveregs(f, 2), key)), LAMBDA g :
        With(freeexp(luaK_codeABC(g, "self", f.freereg, fs.e.info, g.r), g.e),
             [fs.e EXCEPT !.info = f.freereg, !.k = "VNONRELOC"])))

luaK_indexed(fs, t) ==     (* fs.e is the key *)
  Then(luaK_exp2RK(fs), LAMBDA f : With(f, [t EXCEPT !.aux = f.r, !.k = "VINDEXED"]))

-----------------------------------------------------------------------------
(* Conditions.                                                             *)

invertjump(fs) ==
  LET pc == getjumpcontrol(fs, fs.e.info)
  IN  SetA(Check(fs, At(fs, pc).op \in {"eq", "lt", "le", "tforloop"}, "assert"),
           pc, 1 - At(fs, pc).a)

(* A negation just coded is taken back. *)
jumponcond(fs, cond) ==
  IF fs.e.k = "VRELOCABLE" /\ getcode(fs).op = "not"
    THEN condjump([fs EXCEPT !.code = Front(@)], "test", getcode(fs).b, 0, 1 - cond)
    ELSE Then(discharge2anyreg(fs), LAMBDA f :
           condjump(freeexp(f, f.e), "testset", NO_REG, f.e.info, cond))

luaK_goiftrue(fs0) ==
  Then(luaK_dischargevars(fs0), LAMBDA fs :
  Then(CASE fs.e.k \in {"VK", "VKNUM", "VTRUE"} -> Ret(fs, NO_JUMP)
         [] fs.e.k = "VJMP" -> Ret(invertjump(fs), fs.e.info)
         [] OTHER -> jumponcond(fs, 0), LAMBDA pc :
  Then(luaK_concat(pc, pc.e.f, pc.r), LAMBDA f :
    [luaK_patchtohere(f, f.e.t) EXCEPT !.e.f = f.r, !.e.t = NO_JUMP])))

luaK_goiffalse(fs0) ==
  Then(luaK_dischargevars(fs0), LAMBDA fs :
  Then(CASE fs.e.k \in {"VNIL", "VFALSE"} -> Ret(fs, NO_JUMP)
         [] fs.e.k = "VJMP" -> Ret(fs, fs.e.info)
         [] OTHER -> jumponcond(fs, 1), LAMBDA pc :
  Then(luaK_concat(pc, pc.e.t, pc.r), LAMBDA f :
    [luaK_patchtohere(f, f.e.f) EXCEPT !.e.t = f.r, !.e.f = NO_JUMP])))

codenotKeeping(fs0) ==
  Then(luaK_dischargevars(fs0), LAMBDA fs :
  Then(CASE fs.e.k \in {"VNIL", "VFALSE"} -> As(fs, "VTRUE", fs.e.info)
         [] fs.e.k \in {"VK", "VKNUM", "VTRUE"} -> As(fs, "VFALSE", fs.e.info)
         [] fs.e.k = "VJMP" -> invertjump(fs)
         [] fs.e.k \in {"VRELOCABLE", "VNONRELOC"} ->
              Then(discharge2anyreg(fs), LAMBDA f :
                Relocable(luaK_codeABC(freeexp(f, f.e), "not", 0, f.e.info, 0)))
         [] OTHER -> Fail(fs, "assert"), LAMBDA f :
    [f EXCEPT !.e.f = f.e.t, !.e.t = f.e.f]))
codenot(fs0) ==
  Then(luaK_dischargevars(fs0), LAMBDA fs :
  Then(CASE fs.e.k \in {"VNIL", "VFALSE"} -> As(fs, "VTRUE", fs.e.info)
         [] fs.e.k \in {"VK", "VKNUM", "VTRUE"} -> As(fs, "VFALSE", fs.e.info)
         [] fs.e.k = "VJMP" -> invertjump(fs)
         [] fs.e.k \in {"VRELOCABLE", "VNONRELOC"} ->
              Then(discharge2anyreg(fs), LAMBDA f :
                Relocable(luaK_codeABC(freeexp(f, f.e), "not", 0, f.e.info, 0)))
         [] OTHER -> Fail(fs, "assert"), LAMBDA f :
  Then([f EXCEPT !.e.f = f.e.t, !.e.t = f.e.f], LAMBDA g :
    removevalues(removevalues(g, g.e.f), g.e.t))))

-----------------------------------------------------------------------------
(* Operators.  fs.e is the (second) operand, e1 the first.                 *)

CanFold(op, e1, e2) ==
  /\ isnumeral(e1) /\ isnumeral(e2) /\ op \in ArithOps \cup {"unm"}
  /\ op \in {"div", "mod"} => e2.info # Lit(0)

codearith(fs, op, e1) ==
  LET e2 == fs.e
  IN  IF CanFold(op, e1, e2) THEN With(fs, [e1 EXCEPT !.info = NumArith(op, e1.info, e2.info)])
      ELSE Then(IF op \in {"unm", "len"} THEN Ret(fs, 0) ELSE luaK_exp2RK(fs), LAMBDA f2 :
           Then(luaK_exp2RK(With(f2, e1)), LAMBDA f1 :
             Relocable(luaK_codeABC(IF f1.r > f2.r THEN freeexp(freeexp(f1, f1.e), f2.e)
                                    ELSE freeexp(freeexp(f1, f2.e), f1.e), op, 0, f1.r, f2.r))))

(* A false `<' or `<=' is the true one of the exchanged operands. *)
codecomp(fs, op, cond, e1) ==
  Then(luaK_exp2RK(With(fs, e1)), LAMBDA f1 :
  Then(luaK_exp2RK(With(f1, fs.e)), LAMBDA f2 :
    LET free == freeexp(freeexp(f2, f2.e), f1.e)
        swap == cond = 0 /\ op # "eq"
    IN  Then(IF swap THEN condjump(free, op, 1, f2.r, f1.r) ELSE condjump(free, op, cond, f1.r, f2.r),
             LAMBDA f : As(With(f, f1.e), "VJMP", f.r))))

luaK_prefix(fs, op) ==
  IF op = "not" THEN codenot(fs)
  ELSE Then(IF op = "-" /\ isnumeral(fs.e) THEN fs ELSE luaK_exp2anyreg(fs), LAMBDA f :
         codearith(With(f, init_exp("VKNUM", Lit(0))), IF op = "-" THEN "unm" ELSE "len", f.e))

OpCodeOf == [o \in {"+", "-", "*", "/", "%", "^"} |->
               CASE o = "+" -> "add" [] o = "-" -> "sub" [] o = "*" -> "mul"
                 [] o = "/" -> "div" [] o = "%" -> "mod" [] o = "^" -> "pow"]

luaK_infix(fs, op) ==
  CASE op = "and" -> luaK_goiftrue(fs)
    [] op = "or"  -> luaK_goiffalse(fs)
    [] op = ".."  -> luaK_exp2nextreg(fs)
    [] OTHER -> IF op \in DOMAIN OpCodeOf /\ isnumeral(fs.e) THEN fs ELSE luaK_exp2RK(fs)

(* Concatenation is right associative: one on the right is extended. *)
PosfixConcat(fs0, e1) ==
  Then(luaK_exp2val(fs0), LAMBDA fs :
    IF fs.e.k = "VRELOCABLE" /\ getcode(fs).op = "concat"
      THEN LET f == freeexp(Check(fs, e1.info = getcode(fs).b - 1, "assert"), e1)
           IN  With(SetB(f, fs.e.info, e1.info), [e1 EXCEPT !.k = "VRELOCABLE", !.info = fs.e.info])
      ELSE Then(luaK_exp2nextreg(fs), LAMBDA f : codearith(f, "concat", e1)))

luaK_posfix(fs, op, e1) ==
  CASE op = "and" -> Then(luaK_dischargevars(Check(fs, e1.t = NO_JUMP, "assert")), LAMBDA f :
                     Then(luaK_concat(f, f.e.f, e1.f), LAMBDA g : [g EXCEPT !.e.f = g.r]))
    [] op = "or"  -> Then(luaK_dischargevars(Check(fs, e1.f = NO_JUMP, "assert")), LAMBDA f :
                     Then(luaK_concat(f, f.e.t, e1.t), LAMBDA g : [g EXCEPT !.e.t = g.r]))
    [] op = ".."  -> PosfixConcat(fs, e1)
    [] op \in DOMAIN OpCodeOf -> codearith(fs, OpCodeOf[op], e1)
    [] OTHER -> codecomp(fs, CASE op \in {"==", "~="} -> "eq" [] op \in {"<", ">"} -> "lt" [] OTHER -> "le",
                         IF op \in {"==", "<", "<="} THEN 1 ELSE 0, e1)

(* A batch number too large for the C field takes an instruction's place,  *)
(* where what looks at the code just generated may take it for one.        *)
luaK_setlist(fs, base, nelems, tostore) ==
  LET c == ((nelems - 1) \div LFIELDS_PER_FLUSH) + 1
      b == IF tostore = -1 THEN 0 ELSE tostore
      ok == Check(fs, tostore # 0, "assert")
  IN  [IF c <= MAXARG_C THEN luaK_codeABC(ok, "setlist", base, b, c)
       ELSE luaK_code(luaK_codeABC(ok, "setlist", base, b, 0), Decode(c))
       EXCEPT !.freereg = base + 1]
=============================================================================
