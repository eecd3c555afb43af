-------------------------------- MODULE LDump -------------------------------
(***************************************************************************)
(* ldump.c and lundump.c: a prototype as a precompiled chunk, and back.    *)
(*                                                                         *)
(* A chunk is a sequence of words, one for each variable that DumpBlock    *)
(* writes: a number, an instruction, the text of a string, the header.     *)
(* The prototypes of the model carry no debug information, so the chunk    *)
(* is that of luaU_dump with strip = 1: sources are NULL and the lists of  *)
(* lines, variables and upvalue names are empty.                           *)
(*                                                                         *)
(* A loader works on the LoadState S and leaves what it has read in S.v;   *)
(* after an error (S.st) it does nothing, as luaD_throw makes sure.        *)
(***************************************************************************)
EXTENDS LParser

luaU_header == "this version, these sizes"
NULL == 0

DumpString(s) == <<Len(s) + 1, s>>
DumpVector(words) == <<Len(words)>> \o words
DumpConstant(o) ==
  CASE o[1] = "nil" -> <<"nil">>
    [] o[1] \in {"boolean", "number"} -> o
    [] o[1] = "string" -> <<"string">> \o DumpString(o[2])
DumpDebug == DumpVector(<<>>) \o DumpVector(<<>>) \o DumpVector(<<>>)

RECURSIVE DumpFunction(_)
DumpFunction(f) ==
  LET DumpAll(items, Dump(_)) == <<Len(items)>> \o FlattenSeq([i \in DOMAIN items |-> Dump(items[i])])
  IN  <<NULL, 0, 0, f.nups, f.numparams, f.is_vararg, f.max>>
        \o DumpVector(f.code) \o DumpAll(f.k, DumpConstant) \o DumpAll(f.p, DumpFunction)
        \o DumpDebug
luaU_dump(f) == <<luaU_header>> \o DumpFunction(f)

-----------------------------------------------------------------------------
(* Loading.  Every error is LUA_ERRSYNTAX.                                 *)

LoadVar(S) ==
  IF S.st # "ok" THEN S
  ELSE IF S.pos = Len(S.z) THEN Fail(S, "syntax")
  ELSE [S EXCEPT !.pos = @ + 1, !.v = S.z[S.pos + 1]]
LoadInt(S) == Then(LoadVar(S), LAMBDA n : IF n.v < 0 THEN Fail(n, "syntax") ELSE n)
LoadString(S) == Then(LoadVar(S), LAMBDA size : IF size.v = 0 THEN [size EXCEPT !.v = NULL] ELSE LoadVar(size))

(* n things, one after the other. *)
LoadItems(S0, n, Load(_)) ==
  FoldLeft(LAMBDA S, i : Then(Load(S), LAMBDA item : [item EXCEPT !.v = Append(S.v, @)]),
           [S0 EXCEPT !.v = <<>>], [i \in 1 .. n |-> i])
LoadVector(S, Load(_)) == Then(LoadInt(S), LAMBDA n : LoadItems(n, n.v, Load))

LoadConstant(S) ==
  Then(LoadVar(S), LAMBDA t :
    CASE t.v = "nil" -> [t EXCEPT !.v = Nil]
      [] t.v \in {"boolean", "number"} -> Then(LoadVar(t), LAMBDA u : [u EXCEPT !.v = <<t.v, @>>])
      [] t.v = "string" -> Then(LoadString(t), LAMBDA u : [u EXCEPT !.v = Str(@)])
      [] OTHER -> Fail(t, "syntax"))
LoadLocVar(S) == LoadInt(LoadInt(LoadString(S)))
LoadDebug(S) == LoadVector(LoadVector(LoadVector(S, LoadVar), LoadLocVar), LoadString)

RECURSIVE LoadFunction(_)
LoadFunction(S0) ==
  LET S == [S0 EXCEPT !.nCcalls = @ + 1]
      head == LoadItems(LoadInt(LoadInt(LoadString(S))), 4, LoadVar)
      code == LoadVector(head, LoadVar)
      k == LoadVector(code, LoadConstant)
      p == LoadVector(k, LoadFunction)
      f == [nups |-> head.v[1], numparams |-> head.v[2], is_vararg |-> head.v[3], max |-> head.v[4],
            code |-> code.v, k |-> k.v, p |-> p.v]
  IN  IF S.nCcalls > LUAI_MAXCCALLS THEN Fail(S, "syntax")
      ELSE Then(LoadDebug(p), LAMBDA end :
             IF luaG_checkcode(f) THEN [end EXCEPT !.v = f, !.nCcalls = @ - 1] ELSE Fail(end, "syntax"))

LoadHeader(S) == Then(LoadVar(S), LAMBDA h : IF h.v = luaU_header THEN h ELSE Fail(h, "syntax"))
luaU_undump(z) == LoadFunction(LoadHeader([z |-> z, pos |-> 0, st |-> "ok", v |-> NULL, nCcalls |-> 0]))
=============================================================================
