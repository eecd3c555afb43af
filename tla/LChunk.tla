------------------------------- MODULE LChunk -------------------------------
(***************************************************************************)
(* A chunk from its source to its results: the tokens of a syntax tree are *)
(* compiled (LParser), dumped as luac does and loaded again (LDump) and    *)
(* executed (LVM), and what comes out is compared with the meaning of the  *)
(* tree, which the operators below give in the terms of the reference      *)
(* manual: variables are cells, functions close over environments, events  *)
(* look for metamethods.                                                   *)
(*                                                                         *)
(* The syntax trees are those of the code generator of this repository     *)
(* (CodeGen).                                                              *)
(***************************************************************************)
EXTENDS LVM, LDump

CONSTANTS
  Chunks,     (* the chunks: statements, the arguments they are given, what *)
              (* becomes of the compiled file, and whether the parser and   *)
              (* the loader are to accept them                              *)
  MaxCalls    (* the depth of calls up to which the meaning is worked out   *)

VARIABLE source
vars == <<source, main, L>>

None == <<"none">>

-----------------------------------------------------------------------------
(* The tokens of a tree, with the parentheses that the precedence of the   *)
(* operators (manual, 2.5.6) asks for.                                     *)

T(k) == <<k, 0, 1>>
NameTok(n) == <<"name", <<n>>, 1>>
StrTok(s) == <<"string", s, 1>>

Precedence(n) ==
  IF n[1] = "unary" THEN 7 ELSE IF n[1] # "binary" THEN 9
  ELSE CASE n[2] = "or" -> 1 [] n[2] = "and" -> 2 [] n[2] \in {"<", ">", "<=", ">=", "~=", "=="} -> 3
         [] n[2] = ".." -> 4 [] n[2] \in {"+", "-"} -> 5 [] n[2] \in {"*", "/", "%"} -> 6 [] n[2] = "^" -> 8
RightAssociative(op) == op \in {"..", "^"}

Commas(parts) ==
  FlattenSeq([i \in DOMAIN parts |-> IF i = 1 THEN parts[i] ELSE <<T(",")>> \o parts[i]])

RECURSIVE Toks(_)
RECURSIVE BlockToks(_)
ListToks(nodes) == Commas([i \in DOMAIN nodes |-> Toks(nodes[i])])
Paren(n) == <<T("(")>> \o Toks(n) \o <<T(")")>>
Operand(n, lowest) == IF Precedence(n) < lowest THEN Paren(n) ELSE Toks(n)
PrefixToks(n) == IF n[1] \in {"identifier", "field", "index", "call", "group"} THEN Toks(n) ELSE Paren(n)
FieldToks(f) ==
  IF f[1] = None THEN Toks(f[2])
  ELSE <<T("[")>> \o Toks(f[1]) \o <<T("]"), T("=")>> \o Toks(f[2])
ParamToks(params) == Commas([i \in DOMAIN params |-> IF params[i] \in {"...", "...arg"} THEN <<T("...")>> ELSE <<NameTok(params[i])>>])
FunctionToks(n) == <<T("(")>> \o ParamToks(n[3]) \o <<T(")")>> \o BlockToks(n[4]) \o <<T("end")>>
ClauseToks(clauses, i) ==
  IF clauses[i][1] = None THEN <<T("else")>> \o BlockToks(clauses[i][2])
  ELSE <<T(IF i = 1 THEN "if" ELSE "elseif")>> \o Toks(clauses[i][1]) \o <<T("then")>> \o BlockToks(clauses[i][2])

Toks(n) ==
  CASE n[1] = "literal" ->
         CASE n[2] = "number" -> << <<"number", n[3], 1>> >> [] n[2] = "string" -> <<StrTok(<<n[3]>>)>>
           [] n[2] = "letters" -> <<StrTok(n[3])>> [] n[2] = "ellipsis" -> <<T("...")>> [] OTHER -> <<T(n[2])>>
    [] n[1] = "identifier" -> <<NameTok(n[2])>>
    [] n[1] = "unary" -> <<T(n[2])>> \o Operand(n[3], 7)
    [] n[1] = "binary" ->
         LET p == Precedence(n)
         IN  Operand(n[3], IF RightAssociative(n[2]) THEN p + 1 ELSE p) \o <<T(n[2])>>
             \o (IF n[4][1] = "unary" THEN Toks(n[4]) ELSE Operand(n[4], IF RightAssociative(n[2]) THEN p ELSE p + 1))
    [] n[1] = "group" -> Paren(n[2])
    [] n[1] = "table" -> <<T("{")>> \o Commas([i \in DOMAIN n[2] |-> FieldToks(n[2][i])]) \o <<T("}")>>
    [] n[1] = "field" -> PrefixToks(n[2]) \o <<T(n[3]), NameTok(n[4])>>
    [] n[1] = "index" -> PrefixToks(n[2]) \o <<T("[")>> \o Toks(n[3]) \o <<T("]")>>
    [] n[1] = "call" -> PrefixToks(n[2]) \o <<T("(")>> \o ListToks(n[3]) \o <<T(")")>>
    [] n[1] = "function" ->
         (IF n[5] THEN <<T("local")>> ELSE <<>>) \o <<T("function")>>
           \o (IF n[2] = None THEN <<>> ELSE Toks(n[2])) \o FunctionToks(n)
    [] n[1] = "assign" ->
         (IF n[4] THEN <<T("local")>> ELSE <<>>) \o ListToks(n[2])
           \o (IF n[3] = <<>> THEN <<>> ELSE <<T("=")>> \o ListToks(n[3]))
    [] n[1] = "return" -> <<T("return")>> \o ListToks(n[2])
    [] n[1] = "if" -> FlattenSeq([i \in DOMAIN n[2] |-> ClauseToks(n[2], i)]) \o <<T("end")>>
    [] n[1] = "while" -> <<T("while")>> \o Toks(n[2]) \o <<T("do")>> \o BlockToks(n[3]) \o <<T("end")>>
    [] n[1] = "repeat" -> <<T("repeat")>> \o BlockToks(n[2]) \o <<T("until")>> \o Toks(n[3])
    [] n[1] = "do" -> <<T("do")>> \o BlockToks(n[2]) \o <<T("end")>>
    [] n[1] = "for" ->
         <<T("for"), NameTok(n[2]), T("=")>> \o ListToks(<<n[3], n[4]>> \o (IF n[5] = None THEN <<>> ELSE <<n[5]>>))
           \o <<T("do")>> \o BlockToks(n[6]) \o <<T("end")>>
    [] n[1] = "forin" ->
         <<T("for")>> \o ParamToks(n[2]) \o <<T("in")>> \o ListToks(n[3]) \o <<T("do")>> \o BlockToks(n[4]) \o <<T("end")>>
    [] n[1] = "break" -> <<T("break")>>
BlockToks(stmts) == FlattenSeq([i \in DOMAIN stmts |-> Append(Toks(stmts[i]), T(";"))])
Source(stmts) == Append(BlockToks(stmts), T(EOS))

-----------------------------------------------------------------------------
(* The meaning of a tree.  A world w has the cells of the variables, the   *)
(* tables and the functions made so far, the environment (names to cells,  *)
(* and the extra arguments), the depth of calls, the values of the         *)
(* expressions just evaluated (vs), and how things stand.                  *)

Go(w, Op(_)) == IF w.how = "on" THEN Op(w) ELSE w
Vals(w, vs) == [w EXCEPT !.vs = vs]
Val1(w) == Arg(w.vs, 1)
One(w) == IF w.how = "on" THEN Vals(w, <<Val1(w)>>) ELSE w
Thrown(w, v) == [w EXCEPT !.how = "error", !.vs = <<v>>]
Wrong(w, why) == Thrown(w, Message(why))

Bind(w, names, values) ==
  LET first == Len(w.cells)
      at(n) == Max({i \in DOMAIN names : names[i] = n})
  IN  [w EXCEPT !.cells = @ \o [i \in DOMAIN names |-> Arg(values, i)],
                !.env.names = [n \in DOMAIN @ \cup Range(names) |-> IF n \in Range(names) THEN first + at(n) ELSE @[n]]]
GlobalKey(n) == Str(<<n>>)
Meta(w, v, e) == luaT_gettmbyobj(w.tabs, v, e)

RECURSIVE Apply(_, _, _)
RECURSIVE IndexEvent(_, _, _, _)
IndexEvent(w, t, key, n) ==
  LET raw == IF ttype(t) = "table" THEN luaH_get(w.tabs, t[2], key) ELSE Nil
      h == Meta(w, t, "index")
  IN  IF n = MAXTAGLOOP THEN Wrong(w, "loop")
      ELSE IF raw # Nil \/ (ttype(t) = "table" /\ h = Nil) THEN Vals(w, <<raw>>)
      ELSE IF h = Nil THEN Wrong(w, "index")
      ELSE IF ttype(h) = "function" THEN One(Apply(w, h, <<t, key>>)) ELSE IndexEvent(w, h, key, n + 1)

RECURSIVE NewIndexEvent(_, _, _, _, _)
NewIndexEvent(w, t, key, v, n) ==
  LET raw == IF ttype(t) = "table" THEN luaH_get(w.tabs, t[2], key) ELSE Nil
      h == Meta(w, t, "newindex")
  IN  IF n = MAXTAGLOOP THEN Wrong(w, "loop")
      ELSE IF ttype(t) = "table" /\ key = Nil THEN Wrong(w, "table index is nil")
      ELSE IF raw # Nil \/ (ttype(t) = "table" /\ h = Nil) THEN [w EXCEPT !.tabs = SetRaw(@, t[2], key, v)]
      ELSE IF h = Nil THEN Wrong(w, "index")
      ELSE IF ttype(h) = "function" THEN Apply(w, h, <<t, key, v>>) ELSE NewIndexEvent(w, h, key, v, n + 1)

BinaryHandler(w, a, b, e) == IF Meta(w, a, e) # Nil THEN Meta(w, a, e) ELSE Meta(w, b, e)
ByHandler(w, a, b, e, why) ==
  LET h == BinaryHandler(w, a, b, e)
  IN  IF h = Nil THEN Wrong(w, why) ELSE One(Apply(w, h, <<a, b>>))
ArithEvent(w, op, a, b) ==
  LET x == luaV_tonumber(a)
      y == luaV_tonumber(b)
  IN  IF Nil \notin {x, y} THEN Vals(w, <<Num(NumArith(op, x[2], y[2]))>>) ELSE ByHandler(w, a, b, op, "arithmetic")
ConcatEvent(w, a, b) ==
  IF IsStringlike(a) /\ IsStringlike(b) THEN Vals(w, <<Str(luaV_tostring(a)[2] \o luaV_tostring(b)[2])>>)
  ELSE ByHandler(w, a, b, "concat", "concatenate")
LenEvent(w, v) ==
  CASE ttype(v) = "string" -> Vals(w, <<Num(Lit(Len(v[2])))>>)
    [] ttype(v) = "table"  -> Vals(w, <<Num(Lit(luaH_getn(w.tabs, v[2])))>>)
    [] OTHER -> Wrong(w, "get length of")

(* A comparison is handled by a metamethod that both operands share. *)
CompHandler(w, a, b, e) ==
  IF ttype(a) = ttype(b) /\ ttype(a) = "table" /\ Meta(w, a, e) = Meta(w, b, e) THEN Meta(w, a, e) ELSE Nil
Truth(w, positive) == Go(w, LAMBDA u : Vals(u, <<Bool(l_isfalse(Val1(u)) # positive)>>))
EqEvent(w, a, b) ==
  IF ttype(a) # ttype(b) \/ a = b \/ CompHandler(w, a, b, "eq") = Nil THEN Vals(w, <<Bool(a = b)>>)
  ELSE Truth(Apply(w, CompHandler(w, a, b, "eq"), <<a, b>>), TRUE)
LtEvent(w, a, b) ==
  CASE ttype(a) = "number" /\ ttype(b) = "number" -> Vals(w, <<Bool(luai_numlt(a[2], b[2]))>>)
    [] ttype(a) = "string" /\ ttype(b) = "string" -> Vals(w, <<Bool(l_strcmp(a[2], b[2]) < 0)>>)
    [] OTHER -> IF CompHandler(w, a, b, "lt") = Nil THEN Wrong(w, "compare")
                ELSE Truth(Apply(w, CompHandler(w, a, b, "lt"), <<a, b>>), TRUE)
LeEvent(w, a, b) ==
  CASE ttype(a) = "number" /\ ttype(b) = "number" -> Vals(w, <<Bool(~luai_numlt(b[2], a[2]))>>)
    [] ttype(a) = "string" /\ ttype(b) = "string" -> Vals(w, <<Bool(l_strcmp(a[2], b[2]) <= 0)>>)
    [] OTHER -> IF CompHandler(w, a, b, "le") # Nil THEN Truth(Apply(w, CompHandler(w, a, b, "le"), <<a, b>>), TRUE)
                ELSE IF CompHandler(w, a, b, "lt") = Nil THEN Wrong(w, "compare")
                ELSE Truth(Apply(w, CompHandler(w, a, b, "lt"), <<b, a>>), FALSE)

BinaryEvent(w, op, a, b) ==
  CASE op \in DOMAIN OpCodeOf -> ArithEvent(w, OpCodeOf[op], a, b)
    [] op = ".." -> ConcatEvent(w, a, b)
    [] op = "==" -> EqEvent(w, a, b)
    [] op = "~=" -> Truth(EqEvent(w, a, b), FALSE)
    [] op = "<"  -> LtEvent(w, a, b)
    [] op = ">"  -> LtEvent(w, b, a)
    [] op = "<=" -> LeEvent(w, a, b)
    [] op = ">=" -> LeEvent(w, b, a)
UnaryEvent(w, op, a) ==
  CASE op = "not" -> Vals(w, <<Bool(l_isfalse(a))>>)
    [] op = "#" -> LenEvent(w, a)
    [] op = "-" -> ArithEvent(w, "unm", a, a)

(* Expressions. *)
RECURSIVE Eval(_, _)
RECURSIVE EvalList(_, _)
RECURSIVE Block(_, _)
EvalOne(w, n) == One(Eval(w, n))
EvalList(w, nodes) ==
  IF nodes = <<>> THEN Vals(w, <<>>)
  ELSE IF Len(nodes) = 1 THEN Eval(w, nodes[1])
  ELSE Go(EvalOne(w, nodes[1]), LAMBDA a : Go(EvalList(a, Tail(nodes)), LAMBDA b : Vals(b, a.vs \o b.vs)))

(* The fields of a constructor; those without a key are numbered. *)
RECURSIVE EvalFields(_, _, _, _)
EvalFields(w, t, fields, i) ==
  LET f == Head(fields)
      Store(u, key, v) == [u EXCEPT !.tabs = SetRaw(@, t, key, v)]
      StoreAll(u) == FoldLeftDomain(LAMBDA x, j : Store(x, Num(Lit(i + j - 1)), u.vs[j]), u, u.vs)
      Keyed(k) == Go(EvalOne(k, f[2]), LAMBDA v :
                    IF Val1(k) = Nil THEN Wrong(v, "table index is nil")
                    ELSE EvalFields(Store(v, Val1(k), Val1(v)), t, Tail(fields), i))
  IN  IF fields = <<>> THEN w
      ELSE IF f[1] # None THEN Go(EvalOne(w, f[1]), Keyed)
      ELSE IF Len(fields) = 1 THEN Go(Eval(w, f[2]), StoreAll)
      ELSE Go(EvalOne(w, f[2]), LAMBDA v : EvalFields(Store(v, Num(Lit(i)), Val1(v)), t, Tail(fields), i + 1))
EvalTable(w, fields) ==
  LET t == Len(w.tabs) + 1
  IN  Go(EvalFields([w EXCEPT !.tabs = Append(@, NewTab(NoMap))], t, fields, 1), LAMBDA u : Vals(u, <<Tbl(t)>>))

Close(w, params, stmts) ==
  Vals([w EXCEPT !.cls = Append(@, [c |-> "", params |-> params, stmts |-> stmts, env |-> w.env])],
       <<Fn(Len(w.cls) + 1)>>)

EvalCall(w, n) ==
  LET method == n[2][1] = "field" /\ n[2][3] = ":"
  IN  IF method
        THEN Go(EvalOne(w, n[2][2]), LAMBDA o : Go(IndexEvent(o, Val1(o), GlobalKey(n[2][4]), 0), LAMBDA f :
             Go(EvalList(f, n[3]), LAMBDA a : Apply(a, Val1(f), <<Val1(o)>> \o a.vs))))
        ELSE Go(EvalOne(w, n[2]), LAMBDA f : Go(EvalList(f, n[3]), LAMBDA a : Apply(a, Val1(f), a.vs)))

LiteralValue(n) ==
  CASE n[2] = "nil" -> Nil [] n[2] \in {"true", "false"} -> Bool(n[2] = "true")
    [] n[2] = "number" -> Num(Lit(n[3])) [] n[2] = "string" -> Str(<<n[3]>>) [] n[2] = "letters" -> Str(n[3])

Eval(w, n) ==
  CASE n[1] = "literal" -> Vals(w, IF n[2] = "ellipsis" THEN w.env.extra ELSE <<LiteralValue(n)>>)
    [] n[1] = "identifier" ->
         IF n[2] \in DOMAIN w.env.names THEN Vals(w, <<w.cells[w.env.names[n[2]]]>>)
         ELSE IndexEvent(w, Globals, GlobalKey(n[2]), 0)
    [] n[1] = "unary" -> Go(EvalOne(w, n[3]), LAMBDA u : UnaryEvent(u, n[2], Val1(u)))
    [] n[1] = "binary" /\ n[2] \in {"and", "or"} ->
         Go(EvalOne(w, n[3]), LAMBDA u : IF l_isfalse(Val1(u)) = (n[2] = "and") THEN u ELSE EvalOne(u, n[4]))
    [] n[1] = "binary" /\ n[2] \notin {"and", "or"} ->
         Go(EvalOne(w, n[3]), LAMBDA a : Go(EvalOne(a, n[4]), LAMBDA b : BinaryEvent(b, n[2], Val1(a), Val1(b))))
    [] n[1] = "group" -> EvalOne(w, n[2])
    [] n[1] = "table" -> EvalTable(w, n[2])
    [] n[1] = "field" -> Go(EvalOne(w, n[2]), LAMBDA t : IndexEvent(t, Val1(t), GlobalKey(n[4]), 0))
    [] n[1] = "index" ->
         Go(EvalOne(w, n[2]), LAMBDA t : Go(EvalOne(t, n[3]), LAMBDA k : IndexEvent(k, Val1(t), Val1(k), 0)))
    [] n[1] = "call" -> EvalCall(w, n)
    [] n[1] = "function" -> Close(w, n[3], n[4])

(* Calls.  A last parameter "...arg" is one whose function does not use    *)
(* `...' itself: `arg' is a table of the extra arguments.                  *)
CallLua(w, f, args) ==
  LET isvararg == f.params # <<>> /\ Last(f.params) \in {"...", "...arg"}
      fixed == IF isvararg THEN Front(f.params) ELSE f.params
      extra == IF isvararg THEN SubSeq(args, Len(fixed) + 1, Len(args)) ELSE <<>>
      oldstyle == isvararg /\ Last(f.params) = "...arg"
      argmap == [k \in {Num(Lit(i)) : i \in {j \in DOMAIN extra : extra[j] # Nil}} \cup {Str(<<"n">>)} |->
                   IF k[1] = "string" THEN Num(Lit(Len(extra))) ELSE extra[k[2][2]]]
      inside == [w EXCEPT !.env = [names |-> f.env.names, extra |-> extra], !.depth = @ + 1]
      entered == IF oldstyle THEN Bind([inside EXCEPT !.tabs = Append(@, NewTab(argmap))], Append(fixed, "arg"),
                                       [i \in DOMAIN fixed |-> Arg(args, i)] \o <<Tbl(Len(w.tabs) + 1)>>)
                 ELSE Bind(inside, fixed, args)
      Leave(u) == [u EXCEPT !.env = w.env, !.depth = w.depth,
                            !.vs = IF u.how = "on" THEN <<>> ELSE @, !.how = IF @ = "return" THEN "on" ELSE @]
  IN  IF w.depth = MaxCalls THEN [w EXCEPT !.how = "deep"] ELSE Leave(Block(entered, f.stmts))

Pcall(w, args) ==
  LET u == Apply(w, args[1], Tail(args))
  IN  CASE args = <<>> -> Wrong(w, "bad argument")
        [] args # <<>> /\ u.how = "on" -> Vals(u, <<Bool(TRUE)>> \o u.vs)
        [] args # <<>> /\ u.how = "error" ->
             [u EXCEPT !.how = "on", !.env = w.env, !.depth = w.depth, !.vs = <<Bool(FALSE)>> \o @]
        [] OTHER -> u

CallBuiltin(w, name, args) ==
  LET c == CFunction(w.tabs, name, args)
  IN  IF name = "pcall" THEN Pcall(w, args)
      ELSE IF c.err # Nil \/ name = "error" THEN Thrown(w, c.err) ELSE Vals([w EXCEPT !.tabs = c.tabs], c.vs)

Apply(w, f, args) ==
  IF ttype(f) = "function"
    THEN IF w.cls[f[2]].c = "" THEN CallLua(w, w.cls[f[2]], args) ELSE CallBuiltin(w, w.cls[f[2]].c, args)
    ELSE IF ttype(Meta(w, f, "call")) = "function" THEN Apply(w, Meta(w, f, "call"), <<f>> \o args)
    ELSE Wrong(w, "call")

(* Statements. *)
Scoped(w, stmts) == [Block(w, stmts) EXCEPT !.env = w.env]

(* The table and the key of each variable first, then the values. *)
Target(w, n) ==
  CASE n[1] = "identifier" -> Vals(w, IF n[2] \in DOMAIN w.env.names THEN <<"cell", w.env.names[n[2]]>>
                                      ELSE <<"slot", Globals, GlobalKey(n[2])>>)
    [] n[1] = "field" -> Go(EvalOne(w, n[2]), LAMBDA t : Vals(t, <<"slot", Val1(t), GlobalKey(n[4])>>))
    [] n[1] = "index" -> Go(EvalOne(w, n[2]), LAMBDA t : Go(EvalOne(t, n[3]), LAMBDA k :
                           Vals(k, <<"slot", Val1(t), Val1(k)>>)))
StoreTo(w, target, v) ==
  IF target[1] = "cell" THEN [w EXCEPT !.cells[target[2]] = v] ELSE NewIndexEvent(w, target[2], target[3], v, 0)
RECURSIVE Targets(_, _)
Targets(w, nodes) ==
  IF nodes = <<>> THEN Vals(w, <<>>)
  ELSE Go(Target(w, nodes[1]), LAMBDA a : Go(Targets(a, Tail(nodes)), LAMBDA b : Vals(b, <<a.vs>> \o b.vs)))
ExecAssign(w, targets, values) ==
  Go(Targets(w, targets), LAMBDA t : Go(EvalList(t, values), LAMBDA v :
    FoldLeft(LAMBDA u, i : Go(u, LAMBDA x : StoreTo(x, t.vs[i], Arg(v.vs, i))), v, Reverse([i \in DOMAIN targets |-> i]))))

ExecFunction(w, n) ==
  LET method == n[2][1] = "field" /\ n[2][3] = ":"
      params == IF method THEN <<"self">> \o n[3] ELSE n[3]
      Declared(u) == Close(u, params, n[4])
  IN  IF n[5] THEN LET f == Declared(Bind(w, <<n[2][2]>>, <<Nil>>))
                   IN  StoreTo(f, <<"cell", f.env.names[n[2][2]]>>, Val1(f))
      ELSE Go(Target(w, n[2]), LAMBDA t : LET f == Declared(t) IN StoreTo(f, t.vs, Val1(f)))

RECURSIVE ExecIf(_, _)
ExecIf(w, clauses) ==
  IF clauses = <<>> THEN w
  ELSE IF clauses[1][1] = None THEN Scoped(w, clauses[1][2])
  ELSE Go(EvalOne(w, clauses[1][1]), LAMBDA c :
         IF l_isfalse(Val1(c)) THEN ExecIf(c, Tail(clauses)) ELSE Scoped(c, clauses[1][2]))

Broken(w) == [w EXCEPT !.how = IF @ = "break" THEN "on" ELSE @]
RECURSIVE ExecWhile(_, _)
ExecWhile(w, n) ==
  Go(EvalOne(w, n[2]), LAMBDA c :
    IF l_isfalse(Val1(c)) THEN c ELSE Go(Scoped(c, n[3]), LAMBDA u : ExecWhile(u, n)))
RECURSIVE ExecRepeat(_, _)
ExecRepeat(w, n) ==
  LET round == Go(Block(w, n[2]), LAMBDA u : EvalOne(u, n[3]))
      out == [round EXCEPT !.env = w.env]
  IN  Go(out, LAMBDA u : IF l_isfalse(Val1(u)) THEN ExecRepeat(u, n) ELSE u)
RECURSIVE ExecFor(_, _, _, _, _)
ExecFor(w, n, i, limit, step) ==
  LET out == [Block(Bind(w, <<n[2]>>, <<Num(i)>>), n[6]) EXCEPT !.env = w.env]
  IN  IF IF luai_numlt(Lit(0), step) THEN luai_numlt(limit, i) ELSE luai_numlt(i, limit) THEN w
      ELSE Go(out, LAMBDA u : ExecFor(u, n, NumArith("add", i, step), limit, step))
StartFor(w, n) ==
  Go(EvalList(w, <<n[3], n[4], IF n[5] = None THEN <<"literal", "number", 1>> ELSE n[5]>>), LAMBDA u :
    LET v == [i \in 1 .. 3 |-> luaV_tonumber(Arg(u.vs, i))]
    IN  IF Nil \in Range(v) THEN Wrong(u, "for") ELSE ExecFor(u, n, v[1][2], v[2][2], v[3][2]))
RECURSIVE ExecForIn(_, _, _, _, _)
ExecForIn(w, n, f, state, control) ==
  Go(Apply(w, f, <<state, control>>), LAMBDA u :
    IF Val1(u) = Nil THEN u
    ELSE Go([Block(Bind(u, n[2], u.vs), n[4]) EXCEPT !.env = w.env], LAMBDA x : ExecForIn(x, n, f, state, Val1(u))))

Exec(w, n) ==
  CASE n[1] = "assign" /\ n[4] -> Go(EvalList(w, n[3]), LAMBDA v : Bind(v, [i \in DOMAIN n[2] |-> n[2][i][2]], v.vs))
    [] n[1] = "assign" /\ ~n[4] -> ExecAssign(w, n[2], n[3])
    [] n[1] = "call" -> EvalCall(w, n)
    [] n[1] = "function" -> ExecFunction(w, n)
    [] n[1] = "return" -> Go(EvalList(w, n[2]), LAMBDA v : [v EXCEPT !.how = "return"])
    [] n[1] = "if" -> ExecIf(w, n[2])
    [] n[1] = "while" -> Broken(ExecWhile(w, n))
    [] n[1] = "repeat" -> Broken(ExecRepeat(w, n))
    [] n[1] = "do" -> Scoped(w, n[2])
    [] n[1] = "for" -> Broken(StartFor(w, n))
    [] n[1] = "forin" ->
         Broken(Go(EvalList(w, n[3]), LAMBDA v : ExecForIn(v, n, Arg(v.vs, 1), Arg(v.vs, 2), Arg(v.vs, 3))))
    [] n[1] = "break" -> [w EXCEPT !.how = "break"]
Block(w, stmts) == FoldLeft(LAMBDA u, n : Go(u, LAMBDA x : Exec(x, n)), w, stmts)

(* The meaning of a chunk: a function with a `...' and no upvalues. *)
NoNames == [n \in {} |-> 0]
Meaning(c) ==
  Block([cells |-> <<>>, tabs |-> NewState.tabs, depth |-> 0, vs |-> <<>>, how |-> "on",
         env |-> [names |-> NoNames, extra |-> c.args],
         cls |-> Append([i \in DOMAIN CNames |-> [c |-> CNames[i]]],
                        [c |-> "", params |-> <<"...">>, stmts |-> c.stmts,
                         env |-> [names |-> NoNames, extra |-> <<>>]])], c.stmts)

-----------------------------------------------------------------------------
(* The specification.                                                      *)

(* The prototype of the chunk, and whether the parser was content. *)
Apply1(x, Op(_)) == Op(x)
Compiled(stmts) ==
  Apply1(luaY_parser(Source(stmts)), LAMBDA f : [st |-> f.st] @@ Proto(f))

(* The file that luac wrote may be one of another version, and its last    *)
(* words may be lost; f_parser knows it by its first byte.                 *)
Arrived(z) ==
  SubSeq(IF source.foreign THEN <<"another version">> \o Tail(z) ELSE z, 1, Max({1, Len(z) - source.lost}))
Loaded(z) == Apply1(luaU_undump(z), LAMBDA ld : IF ld.st = "ok" THEN [st |-> "ok"] @@ ld.v ELSE [st |-> ld.st])
Init ==
  /\ source \in Chunks
  /\ main = Apply1(Compiled(source.stmts), LAMBDA f : IF f.st = "ok" THEN Loaded(Arrived(luaU_dump(f))) ELSE f)
  /\ L = [NewState EXCEPT !.st = IF main.st = "ok" THEN "loaded" ELSE main.st]

(* lua_call by the host, with the chunk's arguments, for all its results. *)
Call == L.st = "loaded" /\ Becomes(Start(source.args)) /\ UNCHANGED source
Run == Execute /\ UNCHANGED source
Next == Call \/ Run
(* Weak fairness of Next: a step that changes the state is possible unless *)
(* the chunk has ended or is at a jump to itself.                          *)
Running == L.st \in {"loaded", "ok", "raise"}
JumpsToItself == Ready /\ I.op = "jmp" /\ I.b = -1
Progress == []<><<Next>>_vars \/ []<>(~Running \/ JumpsToItself)
Spec == Init /\ [][Next]_vars /\ Progress

-----------------------------------------------------------------------------
(* Properties.                                                             *)

(* No assertion of the code fails: those of lcode.c and lparser.c (that    *)
(* registers are freed in the reverse order of their reservation, that the *)
(* code passes luaG_checkcode, ...), and those of luaV_execute (that the   *)
(* top is the frame's, unless an instruction with an open number of        *)
(* operands comes next, lvm.c:401; that a frame returns to a call).        *)
AssertionsHold == L.st # "assert" /\ (Ready => HeadAsserts)

(* Every chunk ends, and has then done what its source means: it has the   *)
(* same results, or the same error, and has left the same tables, whatever *)
(* registers, jump lists and upvalues the compiler and the machine used on *)
(* the way; and the parser refuses just the chunks it should.  (A chunk    *)
(* whose calls are nested too deeply for Meaning need only end.)           *)
Contents(tabs) == [t \in DOMAIN tabs |-> [h |-> tabs[t].h, mt |-> tabs[t].mt]]
Agrees(w) ==
  \/ w.how = "deep"
  \/ /\ w.how \in (IF L.st = "done" THEN {"on", "return"} ELSE {"error"})
     /\ IF L.st = "error" THEN w.vs = <<L.out>> ELSE (IF w.how = "on" THEN <<>> ELSE w.vs) = L.out
     /\ Contents(w.tabs) = Contents(L.tabs)
ComputesSource ==
  <>(~Running /\ IF source.valid THEN L.st \in {"done", "error"} /\ Agrees(Meaning(source)) ELSE L.st = "syntax")

(* The open upvalues are listed once per slot, from the highest slot down, *)
(* which findupval (lfunc.c:59) and close (lfunc.c:110) rely on; they are  *)
(* in frames that are still active; and nothing else is open.              *)
OpenUpvaluesActive ==
  /\ \A i, j \in DOMAIN L.open : i < j => Level(L, L.open[i]) > Level(L, L.open[j])
  /\ \A u \in DOMAIN L.upv : u \in Range(L.open) <=> Level(L, u) # NoUp
  /\ L.st = "ok" => \A u \in Range(L.open) : \E i \in DOMAIN L.ci :
                      L.ci[i].base <= Level(L, u) /\ Level(L, u) < L.ci[i].top

(* What a metatable's flags say is absent is absent: no assignment leaves  *)
(* a metamethod that the cache of fasttm (ltm.h:42) hides.                 *)
FlagsTrue ==
  \A t \in DOMAIN L.tabs : \A e \in L.tabs[t].flags : luaH_get(L.tabs, t, EventName(e)) = Nil
=============================================================================
