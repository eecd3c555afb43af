-------------------------------- MODULE LCheck ------------------------------
(***************************************************************************)
(* luaG_checkcode of ldebug.c: the checker that close_func asserts on      *)
(* every function the parser has compiled and that lua_load runs on every  *)
(* precompiled one.  Only the full check (no register is traced) is here.  *)
(*                                                                         *)
(* A Proto is a record: code, k (constants), p (inner functions), max      *)
(* (maxstacksize), numparams, is_vararg (a set of flags), nups.            *)
(***************************************************************************)
EXTENDS LCode

precheck(pt) ==
  /\ pt.max <= MAXSTACK
  /\ pt.numparams + (IF "HASARG" \in pt.is_vararg THEN 1 ELSE 0) <= pt.max
  /\ "NEEDSARG" \in pt.is_vararg => "HASARG" \in pt.is_vararg
  /\ Len(pt.code) > 0 /\ Last(pt.code).op = "return"

luaG_checkopenop(i) == i.op \in {"call", "tailcall", "return", "setlist"} /\ i.b = 0

checkreg(pt, reg) == reg < pt.max
checkArgMode(pt, r, mode) ==
  CASE mode = "N" -> r = 0
    [] mode = "U" -> TRUE
    [] mode = "R" -> checkreg(pt, r)
    [] mode = "K" -> IF ISK(r) THEN INDEXK(r) < Len(pt.k) ELSE checkreg(pt, r)

(* The words before instruction pc (from 0) that look like a setlist with  *)
(* a batch number after it, one after the other, back from pc.             *)
RECURSIVE SetlistsBefore(_, _)
SetlistsBefore(pt, pc) ==
  IF pc = 0 \/ pt.code[pc].op # "setlist" \/ pt.code[pc].c # 0 THEN 0
  ELSE 1 + SetlistsBefore(pt, pc - 1)
JumpsToInstruction(pt, dest) ==
  dest \in 0 .. Len(pt.code) - 1 /\ SetlistsBefore(pt, dest) % 2 = 0

CheckModes(pt, pc, i) ==
  /\ checkreg(pt, i.a)
  /\ IF isAsBx(i.op) THEN JumpsToInstruction(pt, pc + 1 + i.b)
     ELSE IF isABx(i.op) THEN getBMode(i.op) = "K" => i.b < Len(pt.k)
     ELSE checkArgMode(pt, i.b, getBMode(i.op)) /\ checkArgMode(pt, i.c, getCMode(i.op))
  /\ testTMode(i.op) => pc + 2 < Len(pt.code) /\ pt.code[pc + 2].op = "jmp"

(* One instruction, at pc (from 0); pt.code[pc + 2] is the next. *)
CheckInstruction(pt, pc, i) ==
  LET next == pt.code[pc + 2]
  IN  CheckModes(pt, pc, i) /\
      CASE i.op = "loadbool" -> i.c = 1 => pc + 2 < Len(pt.code) /\ (next.op = "setlist" => next.c # 0)
        [] i.op \in {"getupval", "setupval"} -> i.b < pt.nups
        [] i.op \in {"getglobal", "setglobal"} -> pt.k[i.b + 1][1] = "string"
        [] i.op = "self" -> checkreg(pt, i.a + 1)
        [] i.op = "concat" -> i.b < i.c
        [] i.op = "tforloop" -> i.c >= 1 /\ checkreg(pt, i.a + 2 + i.c)
        [] i.op \in {"forloop", "forprep"} -> checkreg(pt, i.a + 3)
        [] i.op \in {"call", "tailcall"} ->
             /\ i.b # 0 => checkreg(pt, i.a + i.b - 1)
             /\ IF i.c = 0 THEN luaG_checkopenop(next) ELSE i.c > 1 => checkreg(pt, i.a + i.c - 2)
        [] i.op = "return" -> i.b > 1 => checkreg(pt, i.a + i.b - 2)
        [] i.op = "setlist" ->
             /\ i.b > 0 => checkreg(pt, i.a + i.b)
             /\ i.c = 0 => pc + 1 < Len(pt.code) - 1
        [] i.op = "closure" ->
             /\ i.b < Len(pt.p) /\ pc + pt.p[i.b + 1].nups < Len(pt.code)
             /\ \A j \in 1 .. pt.p[i.b + 1].nups : pt.code[pc + 1 + j].op \in {"getupval", "move"}
        [] i.op = "vararg" ->
             /\ "ISVARARG" \in pt.is_vararg /\ "NEEDSARG" \notin pt.is_vararg
             /\ i.b = 0 => luaG_checkopenop(next)
             /\ checkreg(pt, i.a + i.b - 2)
        [] OTHER -> TRUE

(* From pc on; a batch number is stepped over. *)
RECURSIVE symbexec(_, _)
symbexec(pt, pc) ==
  \/ pc >= Len(pt.code)
  \/ LET i == pt.code[pc + 1]
     IN  /\ CheckInstruction(pt, pc, i)
         /\ symbexec(pt, pc + (IF i.op = "setlist" /\ i.c = 0 THEN 2 ELSE 1))

luaG_checkcode(pt) == precheck(pt) /\ symbexec(pt, 0)
=============================================================================
