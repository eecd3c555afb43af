------------------------------ MODULE CheckCode -----------------------------
(***************************************************************************)
(* The bytecode checker of debug.zig, which the compiler's tests run on    *)
(* every function they compile: register operands below the frame size the *)
(* function declares, constants that exist, and an open result (a call or  *)
(* vararg that leaves all its values up to the top) followed at once by    *)
(* the instruction that consumes it.                                       *)
(*                                                                         *)
(* A function is a record with its code, its constants and its frame size. *)
(* The argument for the register whose last assignment is wanted is left   *)
(* out: checkcode passes none.                                             *)
(***************************************************************************)
EXTENDS CodeGen

(* The operands that are registers (B, C) or operands RK, by opcode. *)
RegisterB == {"move", "loadnil", "gettable", "self", "unm", "not", "len", "concat", "testset"}
RegisterC == {"concat"}
Compare == {"eq", "lt", "le"}
OperandB == {"settable"} \cup BinaryMath \cup Compare
OperandC == {"gettable", "settable", "self"} \cup BinaryMath \cup Compare
ConstantBx == {"loadk", "getglobal", "setglobal", "closure"}
UnusedB == {"tforloop", "test"}
UnusedC == {"move", "loadnil", "unm", "not", "len", "return", "vararg"}

CheckReg(fn, reg) == reg < fn.max
CheckRK(fn, rk) ==
  IF RKIsConstant(rk) THEN RKConstant(rk) < Len(fn.consts) ELSE CheckReg(fn, rk)

CheckArgModes(fn, i) ==
  /\ i.op \in RegisterB => CheckReg(fn, i.b)
  /\ i.op \in RegisterC => CheckReg(fn, i.c)
  /\ i.op \in OperandB => CheckRK(fn, i.b)
  /\ i.op \in OperandC => CheckRK(fn, i.c)
  /\ i.op \in ConstantBx => i.b < Len(fn.consts)
  /\ i.op \in UnusedB => i.b = 0
  /\ i.op \in UnusedC => i.c = 0

(* The instruction after an open result takes the values up to the top. *)
CheckOpenOp(i) == i.op \in {"call", "return", "setlist"} /\ i.b = 0

CheckInstruction(fn, n) ==
  LET i == fn.code[n]
  IN  /\ CheckReg(fn, i.a)
      /\ CheckArgModes(fn, i)
      /\ CASE i.op \in {"getglobal", "setglobal"} -> fn.consts[i.b + 1][1] = "string"
           [] i.op \in {"test", "testset"} \cup Compare -> n + 1 < Len(fn.code)
           [] i.op = "self" -> CheckReg(fn, i.a + 1)
           [] i.op = "concat" -> i.c - i.b + 1 >= 2
           [] i.op \in {"call", "tailcall"} ->
                /\ i.b # 0 => CheckReg(fn, i.a + i.b - 1)
                /\ i.c = 0 => CheckOpenOp(fn.code[n + 1])
                /\ i.c > 1 => CheckReg(fn, i.a + i.c - 2)
           [] i.op = "return" -> i.b > 1 => CheckReg(fn, i.a + i.b - 2)
           [] i.op = "setlist" ->
                /\ i.b > 0 => CheckReg(fn, i.a + i.b)
                /\ i.c = 0 => n < Len(fn.code)
           [] i.op = "vararg" ->
                IF i.b = 0 THEN CheckOpenOp(fn.code[n + 1])
                ELSE i.a + i.b >= 2 /\ CheckReg(fn, i.a + i.b - 2)
           [] OTHER -> TRUE

(* symbexec, for code without jumps (it gives up on one with a TODO).  The *)
(* word that holds a batch number is skipped.                              *)
CheckCode(fn) ==
  /\ fn.max <= MaxStackSize
  /\ \A n \in 1 .. Len(fn.code) : fn.code[n].op = "batch" \/ CheckInstruction(fn, n)
=============================================================================
