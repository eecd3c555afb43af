------------------------------ MODULE MCExecute -----------------------------
(***************************************************************************)
(* Families of chunks.  Left out are those that the parser rejects: a      *)
(* return that does not end its block, a break outside all loops.          *)
(***************************************************************************)
EXTENDS Execute

N(i) == <<"literal", "number", i>>
S(s) == <<"literal", "string", s>>
L(k) == <<"literal", k, 0>>
Id(n) == <<"identifier", n>>
Fld(e, n) == <<"field", e, ".", n>>
Bin(op, l, r) == <<"binary", op, l, r>>
Un(op, e) == <<"unary", op, e>>
Tab(fields) == <<"table", fields>>
Val(e) == <<None, e>>
Local(names, es) == <<"assign", [i \in DOMAIN names |-> Id(names[i])], es, TRUE>>
Assign(names, es) == <<"assign", [i \in DOMAIN names |-> Id(names[i])], es, FALSE>>
CallE(f, args) == <<"call", f, args, FALSE>>
CallS(f, args) == <<"call", f, args, TRUE>>
Return(es) == <<"return", es>>

(* Expressions over a local a, the globals x and t, and constants. *)
Atoms == {N(0), N(1), S("s"), L("true"), L("nil"), Id("a"), Id("x"), Fld(Id("t"), "k")}
Few == {N(2), S("s"), Id("a"), Id("x")}
Ops == {"+", "-", "/", ".."}
Ex1 == {Un(op, e) : op \in {"-", "not", "#"}, e \in Atoms \cup {Id("t")}}
         \cup {Bin(op, l, r) : op \in Ops, l \in Atoms, r \in Atoms}
         \cup {<<"index", Id("t"), e>> : e \in Atoms}
         \cup {Fld(e, "k") : e \in {Id("a"), Id("x")}}
         \cup {Bin(op, N(1), N(2)) : op \in {"%", "^", "*"}}
Deep == {Bin(op, Id("x"), Bin(p, Id("a"), r)) : op \in Ops, p \in Ops, r \in Few}
          \cup {Bin(op, Bin(p, Id("x"), l), Id("a")) : op \in Ops, p \in Ops, l \in Few}
          \cup {Bin("..", S("s"), Bin("..", e, S("k"))) : e \in Few}
          \cup {<<"index", <<"group", Tab(<<<<e, Id("x")>>>>)>>, e>> : e \in Atoms}
          \cup {Bin("+", Fld(Id("t"), "k"), <<"index", Id("t"), Bin("..", S("k"), e)>>) : e \in Few}
Tables == {Tab(<<Val(e), Val(Id("x")), Val(N(1)), Val(e)>>) : e \in Few}
            \cup {Tab(<<Val(e), <<S("k"), Id("a")>>, Val(N(1)), <<e, Id("x")>>, Val(e)>>) : e \in Few}
            \cup {Tab(<<<<e, Tab(<<Val(e)>>)>>>>) : e \in Few} \cup {Tab(<<>>)}
            \cup {Un("#", Tab([i \in 1 .. n |-> Val(N(i))])) : n \in 0 .. 4}
Exprs == Atoms \cup Ex1 \cup Deep \cup Tables

A1 == Local(<<"a">>, <<N(1)>>)
Straight ==
  {<<A1, Assign(<<"y">>, <<e>>), Return(<<Id("a")>>)>> : e \in Exprs}
    \cup {<<A1, Return(<<e, Id("x")>>)>> : e \in Tables \cup Deep}
    \cup {<<A1, Local(<<"a", "b">>, <<e>>), Assign(<<"a">>, <<Bin("+", Id("a"), N(2))>>),
           Assign(<<"x", "y", "z">>, <<Id("b"), e, Id("a")>>)>> : e \in Atoms}
    \cup {<<A1, Assign(<<"a", "y">>, <<e>>), Assign(<<"z">>, <<Id("a"), e>>), Return(<<e>>)>> : e \in Atoms}
    \cup {<<A1, Local(<<"b", "c">>, <<L("ellipsis")>>), Assign(<<"c", "b", "a">>, <<Id("a"), Id("c"), e>>),
           Return(<<Id("c"), Id("b"), Id("a")>>)>> : e \in Atoms}
Ifs ==
  {<<Assign(<<"y">>, <<N(1)>>), <<"if", <<<<c, <<Assign(<<"x">>, <<e>>)>>>>>>>>, Return(<<Id("x")>>)>> :
      c \in {L("nil"), Id("x"), L("false")}, e \in Few \ {Id("a")}}
    \cup {<<<<"if", <<<<c, <<Assign(<<"x">>, <<e>>)>>>>, <<None, <<Assign(<<"y">>, <<e>>)>>>>>>>>,
           Assign(<<"z">>, <<N(0)>>)>> : c \in {N(0), Id("y"), Id("x")}, e \in Few \ {Id("a")}}
    \cup {<<<<"if", <<<<c, <<Assign(<<"y">>, <<c>>)>>>>, <<None, <<>>>>>>>>>> : c \in {N(0), Id("y"), Id("x")}}

(* Calls of C functions and chunks, as statements, arguments, methods and  *)
(* tail calls; what the generator does not handle; loops.                  *)
F == Id("f")
Calls ==
  {<<CallS(F, args), Assign(<<"x">>, <<CallE(F, args)>>)>> : args \in {<<>>, <<N(1)>>, <<Id("x"), CallE(F, <<>>)>>}}
    \cup {<<A1, Local(<<"b", "c">>, <<CallE(F, <<Id("a")>>)>>), Return(<<CallE(F, <<N(1)>>)>>)>>,
          <<Return(<<CallE(F, <<N(1)>>)>>)>>, <<Return(<<N(1), CallE(F, <<>>)>>)>>,
          <<Return(<<Tab(<<Val(N(1)), Val(CallE(F, <<>>))>>)>>)>>,
          <<Return(<<Tab(<<Val(CallE(F, <<>>)), Val(L("ellipsis"))>>)>>)>>,
          <<Assign(<<"x", "y", "z">>, <<CallE(F, <<>>)>>)>>,
          <<Assign(<<"x">>, <<N(1), CallE(F, <<>>)>>), Return(<<L("ellipsis")>>)>>,
          <<Assign(<<"t">>, <<Tab(<<<<S("m"), F>>>>)>>), CallS(<<"field", Id("t"), ":", "m">>, <<N(1)>>)>>}
Partial ==
  {<<Assign(<<"y">>, <<Bin(op, Id("x"), N(1))>>)>> : op \in {"<", ">", "==", "~=", "<=", ">=", "and", "or"}}
    \cup {<<Assign(<<"y">>, <<Un("not", Bin("<", N(1), N(2)))>>)>>,
          <<<<"assign", <<Fld(Id("t"), "k")>>, <<N(1)>>, FALSE>>>>,
          <<<<"while", Id("x"), <<<<"break">>>>>>>>, <<<<"repeat", <<<<"break">>>>, Id("x")>>>>,
          <<<<"forin", <<"v">>, <<Id("t")>>, <<>>>>>>, <<<<"break">>>>,
          <<<<"do", <<Local(<<"v">>, <<N(1)>>), Assign(<<"x">>, <<Id("v")>>)>>>>>>,
          <<<<"function", Id("f"), <<"v">>, <<Return(<<Id("v")>>)>>, FALSE>>, CallS(F, <<N(1)>>)>>,
          <<<<"function", Id("g"), <<>>, <<>>, TRUE>>, Assign(<<"x">>, <<<<"function", None, <<>>, <<>>, FALSE>>>>)>>,
          <<Return([i \in 1 .. 9 |-> N(i)])>>}
Loop(body) == <<"for", "i", N(1), N(2), None, body>>
Loops ==
  {<<Loop(<<CallS(<<"function", None, <<>>, <<>>, FALSE>>, <<>>), <<"break">>>>), Assign(<<"x">>, <<N(1)>>)>>}
    \cup {<<Assign(<<"x", "y", "z">>, <<N(1), N(n), N(1)>>), Loop(body)>> :
             n \in 0 .. 3, body \in {<<>>, <<<<"break">>>>}}


(* What the generator is known to get wrong, each family one construct:    *)
(* two values for two variables, a nil at the very start, conditions that  *)
(* are not in register 0, variables of inner blocks, conversions, a        *)
(* constructor with a batch number in a word of its own.                   *)
Pairs ==
  {<<Assign(<<"x", "y">>, <<d, e>>)>> : d \in {N(1), Id("x")}, e \in {N(2), Id("x"), S("s")}}
    \cup {<<A1, Assign(<<"a", "y">>, <<Id("x"), Id("a")>>), Return(<<Id("a")>>)>>}
FirstNils ==
  {<<Local(names, <<>>), Assign(<<"x">>, <<Id("a")>>)>> : names \in {<<"a">>, <<"a", "b">>, <<"b", "a">>}}
    \cup {<<Assign(<<"x">>, <<L("nil")>>)>>, <<Return(<<L("nil"), Id("x")>>)>>,
          <<<<"if", <<<<L("nil"), <<Assign(<<"y">>, <<N(1)>>)>>>>>>>>>>}
SetY(n) == Assign(<<"y">>, <<N(n)>>)
If(c, body) == <<"if", <<<<c, body>>>>>>
Conditions ==
  {<<A1, If(c, <<SetY(1)>>)>> : c \in {L("false"), Id("y"), Id("x")}}
    \cup {<<<<"if", <<<<c, <<SetY(1)>>>>, <<d, <<SetY(2)>>>>, <<None, <<SetY(3)>>>>>>>>>> :
             c \in {L("false"), Id("x")}, d \in {L("false"), Id("x")}}
    \cup {<<If(Id("x"), <<If(c, <<SetY(1)>>)>>)>> : c \in {L("false"), Id("x")}}
Scopes ==
  {<<<<"do", <<Local(<<v>>, <<N(1)>>)>>>>, Assign(<<"y">>, <<Id("x")>>)>> : v \in {"x", "v"}}
    \cup {<<If(Id("x"), <<Local(<<"v">>, <<N(1)>>), Assign(<<"y">>, <<Id("v")>>)>>)>>}
Conversions ==
  {<<Return(<<e>>)>> : e \in {Bin("..", N(1), N(2)), Bin("..", Id("x"), S("s")), Bin("+", S("1"), N(2)),
                              Un("-", S("1")), Bin("..", Bin("+", N(1), Id("x")), S("s"))}}

LongTables == {<<Return(<<Tab([i \in 1 .. n |-> Val(N(i))])>>)>> : n \in 4 .. 7}

(* Blocks of one or two statements. *)
Leading == {Local(<<"v">>, <<N(1)>>), Assign(<<"y">>, <<Bin("+", Id("x"), N(1))>>), CallS(F, <<>>),
            If(Id("x"), <<Assign(<<"x">>, <<N(1)>>)>>), <<"function", Id("f"), <<>>, <<>>, FALSE>>}
Closing == Leading \cup {Return(es) : es \in {<<>>, <<Id("x")>>, <<N(1), N(2)>>, <<CallE(F, <<>>)>>}}
InBlocks(body) ==
  {If(Id("x"), body), <<"if", <<<<Id("y"), <<>>>>, <<None, body>>>>>>, <<"do", body>>, Loop(body),
   <<"function", Id("f"), <<>>, body, FALSE>>, <<"function", Id("f"), <<"v">>, body, FALSE>>}
Blocks ==
  UNION {{<<n>> : n \in InBlocks(body)} : body \in {<<s>> : s \in Closing} \cup (Leading \X Closing)}
    \cup {<<Loop(<<CallS(<<"function", None, <<>>, <<<<"break">>>>, FALSE>>, <<>>)>>)>>,
          <<Loop(<<Return(<<N(1), N(2)>>)>>)>>}

Case(p, f, host, results) == [prog |-> p, f |-> f, host |-> host, results |-> results]
MCCases ==
  {Case(p, Nil, 0, -1) : p \in Straight \cup Ifs \cup Pairs \cup FirstNils \cup Conditions
                                 \cup Scopes \cup Conversions \cup LongTables \cup Blocks}
    \cup {Case(p, Nil, h, -2) : p \in Ifs, h \in 0 .. 1}
    \cup {Case(p, f, h, r) : p \in Calls \cup Loops, h \in 0 .. 1, r \in {-2, -1, 1},
                             f \in {Nil, Fn("main"), Fn("lib"), Fn("c0"), Fn("c1")}}
    \cup {Case(p, Nil, 0, -2) : p \in Partial}
    \cup {Case(p, f, h, r) : p \in Calls \cup Conversions \cup {<<A1, Return(<<e, Id("x")>>)>> : e \in Tables},
                             h \in StackLen - 6 .. StackLen, r \in {-2, -1}, f \in {Nil, Fn("main"), Fn("lib")}}

(* The cases of the runs that expect a violation. *)
PairCases == {Case(p, Nil, 0, -1) : p \in Pairs}
FirstNilCases == {Case(p, Nil, 0, -1) : p \in FirstNils}
ConditionCases == {Case(p, Nil, 0, -1) : p \in Conditions}
BlockCases == {Case(p, Nil, 0, -1) : p \in Blocks}

=============================================================================
