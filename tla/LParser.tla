------------------------------- MODULE LParser ------------------------------
(***************************************************************************)
(* lparser.c, the parser of Lua 5.1, which generates code (LCode) as it    *)
(* reads tokens.  A token is <<kind, meaning, line>>; names, numbers and   *)
(* strings have a meaning.  The record `ls' is the FuncState of the        *)
(* function being compiled, that of the enclosing one in ls.prev (a        *)
(* sequence of at most one), and the LexState: the tokens left, the first  *)
(* of them the current one, the lines, and the C levels in use.  A name    *)
(* and the contents of a string are sequences of letters.                  *)
(*                                                                         *)
(* ls.bl are the active blocks, the innermost last; ls.actvar the names of *)
(* the local variables, those past nactvar declared but not yet active.    *)
(***************************************************************************)
EXTENDS LCheck

CONSTANTS
  LUAI_MAXVARS,       (* luaconf.h: 200                                    *)
  LUAI_MAXUPVALUES,   (* luaconf.h: 60                                     *)
  LUAI_MAXCCALLS      (* luaconf.h: 200                                    *)

EOS == "<eof>"
Tok(ls) == ls.toks[1][1]
Sem(ls) == ls.toks[1][2]

luaX_next(ls) ==
  LET left == IF Len(ls.toks) = 1 THEN ls.toks ELSE Tail(ls.toks)
  IN  [ls EXCEPT !.lastline = ls.linenumber, !.toks = left, !.linenumber = left[1][3]]
(* The lexer is now on the line of the token ahead. *)
luaX_lookahead(ls) == [ls EXCEPT !.linenumber = ls.toks[2][3]]

check(ls, c) == Check(ls, Tok(ls) = c, "syntax")
checknext(ls, c) == Then(check(ls, c), luaX_next)
check_match(ls, what) == checknext(ls, what)
Skip(ls) == Then(ls, luaX_next)

(* Op is given the name. *)
str_checkname(ls, Op(_, _)) ==
  Then(check(ls, "name"), LAMBDA s : Op(luaX_next(s), Sem(s)))

codestring(ls, s) == Then(addk(ls, Str(s)), LAMBDA f : With(f, init_exp("VK", f.r)))
checkname(ls) == str_checkname(ls, codestring)

-----------------------------------------------------------------------------
(* Variables.                                                              *)

new_localvar(ls, name, n) ==
  IF ls.nactvar + n + 1 > LUAI_MAXVARS THEN Fail(ls, "syntax")
  ELSE [ls EXCEPT !.actvar = Append(SubSeq(@, 1, ls.nactvar + n), name)]

adjustlocalvars(ls, n) == [ls EXCEPT !.nactvar = @ + n]
removevars(ls, tolevel) == [ls EXCEPT !.nactvar = tolevel, !.actvar = SubSeq(@, 1, tolevel)]

(* The index of the upvalue that is the variable v outside is left in r. *)
indexupvalue(ls, name, v) ==
  LET i == SelectInSeq(ls.upvalues, LAMBDA u : u.k = v.k /\ u.info = v.info)
  IN  IF i # 0 THEN Ret(Check(ls, ls.upvalues[i].name = name, "assert"), i - 1)
      ELSE IF Len(ls.upvalues) + 1 > LUAI_MAXUPVALUES THEN Fail(ls, "syntax")
      ELSE Ret([ls EXCEPT !.upvalues = Append(@, [k |-> v.k, info |-> v.info, name |-> name])],
               Len(ls.upvalues))

searchvar(ls, n) == Max({-1} \cup {i \in 0 .. ls.nactvar - 1 : ls.actvar[i + 1] = n})

(* The block that declares the variable of this level has an upvalue. *)
markupvalInnermost(ls, level) ==
  IF ls.bl = <<>> THEN ls ELSE [ls EXCEPT !.bl[Len(ls.bl)].upval = TRUE]
markupval(ls, level) ==
  LET at == {i \in DOMAIN ls.bl : ls.bl[i].nactvar <= level}
  IN  IF at = {} THEN ls ELSE [ls EXCEPT !.bl[Max(at)].upval = TRUE]

RECURSIVE singlevaraux(_, _, _)
singlevaraux(ls, n, base) ==
  LET v == searchvar(ls, n)
  IN  IF v >= 0 THEN With(IF base THEN ls ELSE markupval(ls, v), init_exp("VLOCAL", v))
      ELSE IF ls.prev = <<>> THEN With(ls, init_exp("VGLOBAL", NO_REG))
      ELSE Then(singlevaraux(ls.prev[1], n, FALSE), LAMBDA up :
           IF up.e.k = "VGLOBAL" THEN With(ls, init_exp("VGLOBAL", NO_REG))
           ELSE Then(indexupvalue([ls EXCEPT !.prev = <<up>>, !.st = up.st], n, up.e), LAMBDA f :
                  With(f, init_exp("VUPVAL", f.r))))

singlevar(ls) ==
  str_checkname(ls, LAMBDA s, n :
    Then(singlevaraux(s, n, TRUE), LAMBDA f :
      IF f.e.k # "VGLOBAL" THEN f
      ELSE Then(addk(f, Str(n)), LAMBDA g : With(g, init_exp("VGLOBAL", g.r)))))

adjust_assign(ls, nvars, nexps) ==
  LET extra == nvars - nexps
      open == IF extra + 1 < 0 THEN 0 ELSE extra + 1
  IN  IF hasmultret(ls.e.k)
        THEN Then(luaK_setreturns(ls, open), LAMBDA f :
               IF open > 1 THEN luaK_reserveregs(f, open - 1) ELSE f)
        ELSE Then(IF ls.e.k = "VVOID" THEN ls ELSE luaK_exp2nextreg(ls), LAMBDA f :
               IF extra > 0 THEN luaK_nil(luaK_reserveregs(f, extra), f.freereg, extra) ELSE f)

-----------------------------------------------------------------------------
(* Levels, blocks, functions.                                              *)

enterlevel(ls) == [Check(ls, ls.nCcalls < LUAI_MAXCCALLS, "syntax") EXCEPT !.nCcalls = @ + 1]
leavelevel(ls) == [ls EXCEPT !.nCcalls = @ - 1]

enterblock(ls, isbreakable) ==
  [Check(ls, ls.freereg = ls.nactvar, "assert") EXCEPT
     !.bl = Append(@, [breaklist |-> NO_JUMP, nactvar |-> ls.nactvar, upval |-> FALSE,
                       isbreakable |-> isbreakable])]

leaveblock(ls) ==
  LET bl == Last(ls.bl)
      left == removevars([ls EXCEPT !.bl = Front(@)], bl.nactvar)
  IN  Then(Check(left, ~bl.isbreakable \/ ~bl.upval, "assert"), LAMBDA s :
      Then(IF bl.upval THEN luaK_codeABC(s, "close", bl.nactvar, 0, 0) ELSE s, LAMBDA f :
        luaK_patchtohere([f EXCEPT !.freereg = bl.nactvar], bl.breaklist)))

NewFunc(toks) ==
  [code |-> <<>>, k |-> <<>>, p |-> <<>>, max |-> 2, freereg |-> 0, nactvar |-> 0,
   actvar |-> <<>>, bl |-> <<>>, upvalues |-> <<>>, is_vararg |-> {}, numparams |-> 0,
   lasttarget |-> -1, jpc |-> NO_JUMP, prev |-> <<>>, e |-> init_exp("VVOID", 0), r |-> 0,
   toks |-> toks, linenumber |-> toks[1][3], lastline |-> 1, nCcalls |-> 0, st |-> "ok"]

open_func(ls) ==
  [NewFunc(ls.toks) EXCEPT !.prev = <<ls>>, !.linenumber = ls.linenumber,
                           !.lastline = ls.lastline, !.nCcalls = ls.nCcalls]

Proto(ls) == [code |-> ls.code, k |-> ls.k, p |-> ls.p, max |-> ls.max,
              numparams |-> ls.numparams, is_vararg |-> ls.is_vararg, nups |-> Len(ls.upvalues)]

close_func(ls) ==
  Then(luaK_ret(removevars(ls, 0), 0, 0), LAMBDA f :
    Check(f, luaG_checkcode(Proto(f)) /\ f.bl = <<>>, "assert"))

(* Back in the enclosing function: the instructions after the closure say  *)
(* where its upvalues are.                                                 *)
pushclosure(func) ==
  LET ls == [func.prev[1] EXCEPT !.toks = func.toks, !.linenumber = func.linenumber,
               !.lastline = func.lastline, !.nCcalls = func.nCcalls, !.st = func.st,
               !.p = Append(@, Proto(func))]
      Capture(f, u) == luaK_codeABC(f, IF u.k = "VLOCAL" THEN "move" ELSE "getupval", 0, u.info, 0)
  IN  Then(luaK_codeABx(ls, "closure", 0, Len(ls.p) - 1), LAMBDA f :
        With(FoldLeft(Capture, f, func.upvalues), init_exp("VRELOCABLE", f.r)))

-----------------------------------------------------------------------------
(* Expressions.  The descriptor is left in ls.e.                           *)

(* Parse(ls, n): the nonterminals n that contain one another. *)
RECURSIVE Parse(_, _)
expr(ls) == Parse(ls, <<"subexpr", 0>>)

field(ls) ==
  Then(luaK_exp2anyreg(ls), LAMBDA v :
  Then(checkname(luaX_next(v)), LAMBDA key : luaK_indexed(key, v.e)))

yindex(ls) ==
  Then(expr(luaX_next(ls)), LAMBDA v : Then(luaK_exp2val(v), LAMBDA w : checknext(w, "]")))

(* explist1: the descriptor of the last, the number of them in r. *)
RECURSIVE ExpList(_, _)
ExpList(ls, n) ==
  Then(expr(ls), LAMBDA v :
    IF Tok(v) # "," THEN Ret(v, n)
    ELSE Then(luaK_exp2nextreg(luaX_next(v)), LAMBDA w : ExpList(w, n + 1)))
explist1(ls) == Parse(ls, <<"explist1">>)

(* Constructors: cc has the last list item read (not yet stored), the      *)
(* numbers of items of both kinds, and of those waiting to be stored.      *)
recfield(ls, cc) ==
  LET reg == ls.freereg
      Value(k) == Then(expr(k), LAMBDA v : Then(luaK_exp2RK(v), LAMBDA w :
                    [luaK_codeABC(w, "settable", cc.t.info, k.r, w.r) EXCEPT !.freereg = reg]))
  IN  Then(IF Tok(ls) = "name" THEN checkname(ls) ELSE yindex(ls), LAMBDA key :
      Then(checknext(key, "="), LAMBDA s : Then(luaK_exp2RK(s), Value)))

closelistfield(ls, cc) ==
  IF cc.v.k = "VVOID" THEN ls
  ELSE Then(luaK_exp2nextreg(With(ls, cc.v)), LAMBDA f :
         IF cc.tostore = LFIELDS_PER_FLUSH THEN luaK_setlist(f, cc.t.info, cc.na, cc.tostore) ELSE f)

lastlistfield(ls, cc) ==
  CASE cc.tostore = 0 -> ls
    [] cc.tostore # 0 /\ hasmultret(cc.v.k) ->
         luaK_setlist(luaK_setmultret(With(ls, cc.v)), cc.t.info, cc.na, -1)
    [] OTHER -> Then(IF cc.v.k = "VVOID" THEN ls ELSE luaK_exp2nextreg(With(ls, cc.v)), LAMBDA f :
                  luaK_setlist(f, cc.t.info, cc.na, cc.tostore))

RECURSIVE int2fb(_, _)
int2fb(x, e) == IF x >= 16 THEN int2fb((x + 1) \div 2, e + 1)
                ELSE IF x < 8 THEN x ELSE 8 * (e + 1) + (x - 8)
luaO_int2fb(x) == int2fb(x, 0)

CloseConstructor(ls, cc) ==
  Then(check_match(ls, "}"), LAMBDA s :
  Then(lastlistfield(s, cc), LAMBDA f :
    LET na == IF cc.tostore # 0 /\ hasmultret(cc.v.k) THEN cc.na - 1 ELSE cc.na
    IN  With(SetC(SetB(f, cc.pc, luaO_int2fb(na)), cc.pc, luaO_int2fb(cc.nh)), cc.t)))

RECURSIVE ConsFields(_, _)
NextField(ls, cc) ==
  IF Tok(ls) \in {",", ";"} THEN ConsFields(luaX_next(ls), cc) ELSE CloseConstructor(ls, cc)

ConsFields(ls, cc) ==
  IF Tok(ls) = "}" THEN CloseConstructor(ls, cc)
  ELSE Then(closelistfield(ls, cc), LAMBDA f :
    LET c == [cc EXCEPT !.v = init_exp("VVOID", 0),
                !.tostore = IF cc.v.k # "VVOID" /\ @ = LFIELDS_PER_FLUSH THEN 0 ELSE @]
        s == IF Tok(f) = "name" THEN luaX_lookahead(f) ELSE f
        rec == Tok(f) = "[" \/ (Tok(f) = "name" /\ f.toks[2][1] = "=")
    IN  IF rec THEN Then(recfield(s, c), LAMBDA g : NextField(g, [c EXCEPT !.nh = @ + 1]))
        ELSE Then(expr(s), LAMBDA g :
               NextField(g, [c EXCEPT !.v = g.e, !.na = @ + 1, !.tostore = @ + 1])))

constructor(ls) ==
  Then(luaK_codeABC(ls, "newtable", 0, 0, 0), LAMBDA f :
  Then(luaK_exp2nextreg(With(f, init_exp("VRELOCABLE", f.r))), LAMBDA g :
  Then(checknext(g, "{"), LAMBDA s :
    ConsFields(s, [t |-> g.e, v |-> init_exp("VVOID", 0), nh |-> 0, na |-> 0, tostore |-> 0,
                   pc |-> f.r]))))

(* A parameter `...' declares the variable arg as well. *)
RECURSIVE Params(_, _)
Params(ls, n) ==
  CASE Tok(ls) = "name" ->
         str_checkname(ls, LAMBDA s, name : Then(new_localvar(s, name, n), LAMBDA f :
           IF Tok(f) = "," THEN Params(luaX_next(f), n + 1) ELSE Ret(f, n + 1)))
    [] Tok(ls) = "..." ->
         Ret([new_localvar(luaX_next(ls), <<"arg">>, n) EXCEPT
                !.is_vararg = {"HASARG", "NEEDSARG", "ISVARARG"}], n + 1)
    [] OTHER -> Fail(ls, "syntax")

parlist(ls) ==
  Then(IF Tok(ls) = ")" THEN Ret(ls, 0) ELSE Params(ls, 0), LAMBDA p :
  Then(adjustlocalvars(p, p.r), LAMBDA f :
    luaK_reserveregs([f EXCEPT !.numparams = f.nactvar - (IF "HASARG" \in f.is_vararg THEN 1 ELSE 0)],
                     f.nactvar)))

body(ls, needself) ==
  Then(checknext(open_func(ls), "("), LAMBDA f :
  Then(IF needself THEN adjustlocalvars(new_localvar(f, <<"self">>, 0), 1) ELSE f, LAMBDA g :
  Then(parlist(g), LAMBDA h : Then(checknext(h, ")"), LAMBDA s : Then(Parse(s, <<"chunk">>), LAMBDA t :
  Then(check_match(t, "end"), LAMBDA u : Then(close_func(u), pushclosure)))))))

(* A call that a new line separates from its function is ambiguous. *)
Arguments(ls) ==
  CASE Tok(ls) = "(" ->
         Then(luaX_next(Check(ls, ls.linenumber = ls.lastline, "syntax")), LAMBDA s :
         Then(IF Tok(s) = ")" THEN With(s, init_exp("VVOID", 0))
              ELSE Then(explist1(s), luaK_setmultret), LAMBDA t : check_match(t, ")")))
    [] Tok(ls) = "{" -> Parse(ls, <<"constructor">>)
    [] Tok(ls) = "string" -> Skip(codestring(ls, Sem(ls)))
    [] OTHER -> Fail(ls, "syntax")

funcargs(ls) ==
  LET base == ls.e.info
      f == Check(ls, ls.e.k = "VNONRELOC", "assert")
      Call(g, b) == [With(luaK_codeABC(g, "call", base, b, 2), init_exp("VCALL", PC(g)))
                       EXCEPT !.freereg = base + 1]
  IN  Then(Arguments(f), LAMBDA args :
        IF hasmultret(args.e.k) THEN Call(args, 0)
        ELSE Then(IF args.e.k = "VVOID" THEN args ELSE luaK_exp2nextreg(args), LAMBDA g :
               Call(g, g.freereg - base)))

prefixexp(ls) ==
  CASE Tok(ls) = "(" -> Then(expr(luaX_next(ls)), LAMBDA v :
                        Then(check_match(v, ")"), luaK_dischargevars))
    [] Tok(ls) = "name" -> singlevar(ls)
    [] OTHER -> Fail(ls, "syntax")

RECURSIVE ExpSuffixes(_)
ExpSuffixes(ls) ==
  CASE Tok(ls) = "." -> Then(field(ls), ExpSuffixes)
    [] Tok(ls) = "[" -> Then(luaK_exp2anyreg(ls), LAMBDA v : Then(yindex(v), LAMBDA key :
                        Then(luaK_indexed(key, v.e), ExpSuffixes)))
    [] Tok(ls) = ":" -> Then(checkname(luaX_next(ls)), LAMBDA key :
                        Then(luaK_self(With(key, ls.e), key.e), LAMBDA v :
                        Then(funcargs(v), ExpSuffixes)))
    [] Tok(ls) \in {"(", "string", "{"} ->
         Then(luaK_exp2nextreg(ls), LAMBDA v : Then(funcargs(v), ExpSuffixes))
    [] OTHER -> ls
primaryexp(ls) == Then(prefixexp(ls), ExpSuffixes)

simpleexp(ls) ==
  CASE Tok(ls) = "number" -> luaX_next(With(ls, init_exp("VKNUM", Lit(Sem(ls)))))
    [] Tok(ls) = "string" -> Skip(codestring(ls, Sem(ls)))
    [] Tok(ls) = "nil"    -> luaX_next(With(ls, init_exp("VNIL", 0)))
    [] Tok(ls) = "true"   -> luaX_next(With(ls, init_exp("VTRUE", 0)))
    [] Tok(ls) = "false"  -> luaX_next(With(ls, init_exp("VFALSE", 0)))
    [] Tok(ls) = "..." ->
         Then(Check(ls, ls.is_vararg # {}, "syntax"), LAMBDA s :
         Then(luaK_codeABC([s EXCEPT !.is_vararg = @ \ {"NEEDSARG"}], "vararg", 0, 1, 0), LAMBDA f :
           luaX_next(With(f, init_exp("VVARARG", f.r)))))
    [] Tok(ls) = "{" -> Parse(ls, <<"constructor">>)
    [] Tok(ls) = "function" -> body(luaX_next(ls), FALSE)
    [] OTHER -> Parse(ls, <<"primaryexp">>)

UnOps == {"not", "-", "#"}
BinOps == {"+", "-", "*", "/", "%", "^", "..", "~=", "==", "<", "<=", ">", ">=", "and", "or"}
Priority(op) ==     (* left, right *)
  CASE op \in {"+", "-"} -> <<6, 6>> [] op \in {"*", "/", "%"} -> <<7, 7>>
    [] op = "^" -> <<10, 9>> [] op = ".." -> <<5, 4>> [] op = "and" -> <<2, 2>> [] op = "or" -> <<1, 1>>
    [] OTHER -> <<3, 3>>
UNARY_PRIORITY == 8

(* The operators that bind tighter than `limit', as long as there are any. *)
RECURSIVE BinaryRest(_, _)
BinaryRest(ls, limit) ==
  LET op == Tok(ls)
  IN  IF op \notin BinOps THEN ls
      ELSE IF Priority(op)[1] <= limit THEN ls
      ELSE Then(luaK_infix(luaX_next(ls), op), LAMBDA v :
           Then(Parse(v, <<"subexpr", Priority(op)[2]>>), LAMBDA v2 :
           Then(luaK_posfix(v2, op, v.e), LAMBDA f : BinaryRest(f, limit))))

subexpr(ls, limit) ==
  Then(enterlevel(ls), LAMBDA s :
  Then(IF Tok(s) \in UnOps
         THEN Then(Parse(luaX_next(s), <<"subexpr", UNARY_PRIORITY>>), LAMBDA v : luaK_prefix(v, Tok(s)))
         ELSE simpleexp(s), LAMBDA v : Then(BinaryRest(v, limit), leavelevel)))

-----------------------------------------------------------------------------
(* Statements.                                                             *)

block_follow(token) == token \in {"else", "elseif", "end", "until", EOS}

block(ls) ==
  Then(Parse(enterblock(ls, FALSE), <<"chunk">>), LAMBDA s :
    leaveblock(Check(s, Last(s.bl).breaklist = NO_JUMP, "assert")))

(* A local about to be assigned that an assignment to its left uses, as a  *)
(* table or as a key, is copied; lhs are the descriptors to the left.      *)
Conflicts(lh, v) == lh.k = "VINDEXED" /\ (lh.info = v.info \/ lh.aux = v.info)
SafeCopy(lh, v, extra) ==
  IF lh.k # "VINDEXED" THEN lh
  ELSE [lh EXCEPT !.info = IF @ = v.info THEN extra ELSE @, !.aux = IF @ = v.info THEN extra ELSE @]

no_conflict_check(ls, lhs, v) == [ls |-> ls, lhs |-> lhs]
check_conflict(ls, lhs, v) ==
  LET copied == luaK_reserveregs(luaK_codeABC(ls, "move", ls.freereg, v.info, 0), 1)
  IN  [ls |-> IF \E i \in DOMAIN lhs : Conflicts(lhs[i], v) THEN copied ELSE ls,
       lhs |-> [i \in DOMAIN lhs |-> SafeCopy(lhs[i], v, ls.freereg)]]

(* The variables from the last to the first, each from the top register. *)
StoreDefaults(ls, lhs) ==
  FoldLeft(LAMBDA f, v : Then(f, LAMBDA g : luaK_storevar(With(g, init_exp("VNONRELOC", g.freereg - 1)), v)),
           ls, Reverse(lhs))

AssignValues(ls, lhs) ==
  Then(checknext(ls, "="), LAMBDA s : Then(explist1(s), LAMBDA e :
    IF e.r = Len(lhs)
      THEN Then(luaK_storevar(luaK_setoneret(e), Last(lhs)), LAMBDA f : StoreDefaults(f, Front(lhs)))
      ELSE Then(adjust_assign(e, Len(lhs), e.r), LAMBDA f :
             StoreDefaults([f EXCEPT !.freereg = @ - (IF e.r > Len(lhs) THEN e.r - Len(lhs) ELSE 0)], lhs))))

RECURSIVE assignment(_, _)
assignment(ls, lhs) ==
  Then(Check(ls, Last(lhs).k \in {"VLOCAL", "VUPVAL", "VGLOBAL", "VINDEXED"}, "syntax"), LAMBDA s :
    IF Tok(s) # "," THEN AssignValues(s, lhs)
    ELSE Then(Parse(luaX_next(s), <<"primaryexp">>), LAMBDA nv :
           LET c == IF nv.e.k = "VLOCAL" THEN check_conflict(nv, lhs, nv.e) ELSE [ls |-> nv, lhs |-> lhs]
           IN  Then(Check(c.ls, Len(lhs) <= LUAI_MAXCCALLS - nv.nCcalls, "syntax"), LAMBDA f :
                 assignment(f, Append(c.lhs, nv.e)))))

(* The list of the jumps of a false condition is left in r. *)
cond(ls) ==
  Then(expr(ls), LAMBDA v :
  Then(luaK_goiftrue(IF v.e.k = "VNIL" THEN As(v, "VFALSE", 0) ELSE v), LAMBDA f : Ret(f, f.e.f)))

(* The variables of the blocks left are closed, if any is an upvalue. *)
breakstatOpen(ls) ==
  LET loops == {i \in DOMAIN ls.bl : ls.bl[i].isbreakable}
      b == Max(loops)
  IN  IF loops = {} THEN Fail(ls, "syntax")
      ELSE Then(luaK_jump(ls), LAMBDA g :
           Then(luaK_concat(g, g.bl[b].breaklist, g.r), LAMBDA h : [h EXCEPT !.bl[b].breaklist = h.r]))
breakstat(ls) ==
  LET loops == {i \in DOMAIN ls.bl : ls.bl[i].isbreakable}
      b == Max(loops)
      upval == \E i \in b + 1 .. Len(ls.bl) : ls.bl[i].upval
  IN  IF loops = {} THEN Fail(ls, "syntax")
      ELSE Then(IF upval THEN luaK_codeABC(ls, "close", ls.bl[b].nactvar, 0, 0) ELSE ls, LAMBDA f :
           Then(luaK_jump(f), LAMBDA g :
           Then(luaK_concat(g, g.bl[b].breaklist, g.r), LAMBDA h : [h EXCEPT !.bl[b].breaklist = h.r])))

(* A jump back to the instruction `to'. *)
JumpBack(ls, to) == Then(luaK_jump(ls), LAMBDA f : luaK_patchlist(f, f.r, to))

whilestat(ls) ==
  Then(cond(luaK_getlabel(luaX_next(ls))), LAMBDA condexit :
  Then(checknext(enterblock(condexit, TRUE), "do"), LAMBDA s : Then(block(s), LAMBDA t :
  Then(JumpBack(t, PC(ls)), LAMBDA u : Then(check_match(u, "end"), LAMBDA v :
  Then(leaveblock(v), LAMBDA w : luaK_patchtohere(w, condexit.r)))))))

(* With an upvalue in its scope, the loop is left by a break that closes   *)
(* it, and the scope is closed before the jump back too.                   *)
repeatstat(ls) ==
  LET Simple(c) == Then(leaveblock(c), LAMBDA s : luaK_patchlist(s, c.r, PC(ls)))
      Closing(c) == Then(breakstat(c), LAMBDA s : Then(luaK_patchtohere(s, c.r), LAMBDA t :
                    Then(leaveblock(t), LAMBDA u : JumpBack(u, PC(ls)))))
  IN  Then(enterblock(enterblock(luaK_getlabel(ls), TRUE), FALSE), LAMBDA s :
      Then(Parse(luaX_next(s), <<"chunk">>), LAMBDA t : Then(check_match(t, "until"), LAMBDA u :
      Then(cond(u), LAMBDA c :
      Then(IF Last(c.bl).upval THEN Closing(c) ELSE Simple(c), leaveblock)))))

exp1(ls) == Then(expr(ls), luaK_exp2nextreg)

forbody(ls, base, nvars, isnum) ==
  LET Loop(f, prep) ==
        IF isnum THEN Then(luaK_codeABx(f, "forloop", base, NO_JUMP), LAMBDA g : luaK_patchlist(g, g.r, prep + 1))
        ELSE Then(luaK_codeABC(f, "tforloop", base, 0, nvars), LAMBDA g : JumpBack(g, prep + 1))
  IN  Then(checknext(adjustlocalvars(ls, 3), "do"), LAMBDA s :
      Then(IF isnum THEN luaK_codeABx(s, "forprep", base, NO_JUMP) ELSE luaK_jump(s), LAMBDA prep :
      Then(luaK_reserveregs(adjustlocalvars(enterblock(prep, FALSE), nvars), nvars), LAMBDA t :
      Then(block(t), LAMBDA u : Then(leaveblock(u), LAMBDA v :
      Then(luaK_patchtohere(v, prep.r), LAMBDA w : Loop(w, prep.r)))))))

NewLocals(ls, names, first) ==
  FoldLeftDomain(LAMBDA f, i : Then(f, LAMBDA g : new_localvar(g, names[i], first + i - 1)), ls, names)

fornum(ls, varname) ==
  Then(checknext(NewLocals(ls, << <<"(for index)">>, <<"(for limit)">>, <<"(for step)">>, varname>>, 0), "="), LAMBDA s :
  Then(exp1(s), LAMBDA t : Then(checknext(t, ","), LAMBDA u : Then(exp1(u), LAMBDA v :
  Then(IF Tok(v) = "," THEN exp1(luaX_next(v))
       ELSE Then(addk(v, Num(Lit(1))), LAMBDA f :
              luaK_reserveregs(luaK_codeABx(f, "loadk", f.freereg, f.r), 1)), LAMBDA w :
    forbody(w, ls.freereg, 1, TRUE))))))

(* More names, after the first n variables; the number of all is in r. *)
RECURSIVE Names(_, _)
Names(ls, n) ==
  IF Tok(ls) # "," THEN Ret(ls, n)
  ELSE str_checkname(luaX_next(ls), LAMBDA s, name : Then(new_localvar(s, name, n), LAMBDA t : Names(t, n + 1)))

forlist(ls, indexname) ==
  Then(NewLocals(ls, << <<"(for generator)">>, <<"(for state)">>, <<"(for control)">>, indexname>>, 0), LAMBDA s :
  Then(Names(s, 4), LAMBDA t : Then(checknext(t, "in"), LAMBDA u : Then(explist1(u), LAMBDA e :
  Then(adjust_assign(e, 3, e.r), LAMBDA f :
    forbody(luaK_checkstack(f, 3), ls.freereg, t.r - 3, FALSE))))))

forstat(ls) ==
  Then(str_checkname(luaX_next(enterblock(ls, TRUE)), LAMBDA s, varname :
         CASE Tok(s) = "=" -> fornum(s, varname)
           [] Tok(s) \in {",", "in"} -> forlist(s, varname)
           [] OTHER -> Fail(s, "syntax")), LAMBDA t : Then(check_match(t, "end"), leaveblock))

test_then_block(ls) ==
  Then(cond(luaX_next(ls)), LAMBDA c :
  Then(checknext(c, "then"), LAMBDA s : Then(block(s), LAMBDA t : Ret(t, c.r))))

(* flist: where a false condition goes; escapelist: the ends of branches. *)
RECURSIVE IfRest(_, _, _)
IfRest(ls, flist, escapelist) ==
  LET Escape == Then(Then(luaK_jump(ls), LAMBDA f : luaK_concat(f, escapelist, f.r)), LAMBDA g :
                  [luaK_patchtohere(g, flist) EXCEPT !.r = g.r])
      End(f, list) == Then(luaK_patchtohere(f, list), LAMBDA g : check_match(g, "end"))
  IN  CASE Tok(ls) = "elseif" -> Then(Escape, LAMBDA e : Then(test_then_block(e), LAMBDA f : IfRest(f, f.r, e.r)))
        [] Tok(ls) = "else" -> Then(Escape, LAMBDA e : Then(block(luaX_next(e)), LAMBDA f : End(f, e.r)))
        [] OTHER -> Then(luaK_concat(ls, escapelist, flist), LAMBDA f : End(f, f.r))
ifstat(ls) == Then(test_then_block(ls), LAMBDA f : IfRest(f, f.r, NO_JUMP))

localfunc(ls) ==
  str_checkname(ls, LAMBDA s, name : Then(new_localvar(s, name, 0), LAMBDA f :
  Then(body(adjustlocalvars(luaK_reserveregs(f, 1), 1), FALSE), LAMBDA b :
    luaK_storevar(b, init_exp("VLOCAL", f.freereg)))))

localstat(ls) ==
  str_checkname(ls, LAMBDA s, name : Then(new_localvar(s, name, 0), LAMBDA f :
  Then(Names(f, 1), LAMBDA v :
  Then(IF Tok(v) = "=" THEN explist1(luaX_next(v)) ELSE Ret(With(v, init_exp("VVOID", 0)), 0), LAMBDA e :
  Then(adjust_assign(e, v.r, e.r), LAMBDA g : adjustlocalvars(g, v.r))))))

RECURSIVE Fields(_)
Fields(ls) == IF Tok(ls) = "." THEN Then(field(ls), Fields) ELSE ls
funcstat(ls) ==
  Then(singlevar(luaX_next(ls)), LAMBDA s : Then(Fields(s), LAMBDA t :
  Then(IF Tok(t) = ":" THEN field(t) ELSE t, LAMBDA v :
  Then(body(v, Tok(t) = ":"), LAMBDA b : luaK_storevar(b, v.e)))))

exprstat(ls) ==
  Then(Parse(ls, <<"primaryexp">>), LAMBDA v :
    IF v.e.k = "VCALL" THEN SetC(v, v.e.info, 1) ELSE assignment(v, <<v.e>>))

ReturnAll(ls, nret) ==
  Then(luaK_setmultret(ls), LAMBDA f :
    LET i == ls.e.info
        tail == Check([f EXCEPT !.code[i + 1].op = "tailcall"], At(f, i).a = f.nactvar, "assert")
    IN  luaK_ret(IF ls.e.k = "VCALL" /\ nret = 1 THEN tail ELSE f, f.nactvar, -1))

retstat(ls0) ==
  Then(luaX_next(ls0), LAMBDA ls :
    IF block_follow(Tok(ls)) \/ Tok(ls) = ";" THEN luaK_ret(ls, 0, 0)
    ELSE Then(explist1(ls), LAMBDA e :
      IF hasmultret(e.e.k) THEN ReturnAll(e, e.r)
      ELSE IF e.r = 1 THEN Then(luaK_exp2anyreg(e), LAMBDA f : luaK_ret(f, f.r, 1))
      ELSE Then(luaK_exp2nextreg(e), LAMBDA f :
             luaK_ret(Check(f, e.r = f.freereg - f.nactvar, "assert"), f.nactvar, e.r))))

LastStatements == {"return", "break"}
statement(ls) ==
  CASE Tok(ls) = "if"       -> ifstat(ls)
    [] Tok(ls) = "while"    -> whilestat(ls)
    [] Tok(ls) = "do"       -> Then(block(luaX_next(ls)), LAMBDA s : check_match(s, "end"))
    [] Tok(ls) = "for"      -> forstat(ls)
    [] Tok(ls) = "repeat"   -> repeatstat(ls)
    [] Tok(ls) = "function" -> funcstat(ls)
    [] Tok(ls) = "local"    -> Then(luaX_next(ls), LAMBDA s :
                                 IF Tok(s) = "function" THEN localfunc(luaX_next(s)) ELSE localstat(s))
    [] Tok(ls) = "return"   -> retstat(ls)
    [] Tok(ls) = "break"    -> breakstat(luaX_next(ls))
    [] OTHER -> exprstat(ls)

RECURSIVE Statements(_)
Statements(ls) ==
  IF block_follow(Tok(ls)) THEN ls
  ELSE Then(statement(ls), LAMBDA s :
       LET f == Check(IF Tok(s) = ";" THEN luaX_next(s) ELSE s,
                      s.max >= s.freereg /\ s.freereg >= s.nactvar, "assert")
           free == [f EXCEPT !.freereg = f.nactvar]
       IN  IF Tok(ls) \in LastStatements THEN free ELSE Then(free, Statements))
chunk(ls) == Then(enterlevel(ls), LAMBDA s : Then(Statements(s), leavelevel))

Parse(ls, n) ==
  CASE n[1] = "subexpr" -> subexpr(ls, n[2])
    [] n[1] = "primaryexp" -> primaryexp(ls)
    [] n[1] = "constructor" -> constructor(ls)
    [] n[1] = "explist1" -> ExpList(ls, 1)
    [] n[1] = "chunk" -> chunk(ls)

luaY_parser(toks) ==
  Then(Parse([NewFunc(toks) EXCEPT !.is_vararg = {"ISVARARG"}], <<"chunk">>), LAMBDA s :
  Then(check(s, EOS), LAMBDA t : Then(close_func(t), LAMBDA f :
    Check(f, f.upvalues = <<>>, "assert"))))
=============================================================================
