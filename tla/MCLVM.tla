-------------------------------- MODULE MCLVM -------------------------------
(* Families of chunks for the compiler and the machine of Lua 5.1. *)
EXTENDS LChunk

Nm(i) == <<"literal", "number", i>>
St(s) == <<"literal", "string", s>>
Ls(s) == <<"literal", "letters", s>>
Lt(k) == <<"literal", k, 0>>
Dots == Lt("ellipsis")
Id(n) == <<"identifier", n>>
Fld(e, n) == <<"field", e, ".", n>>
Idx(e, k) == <<"index", e, k>>
Bin(op, l, r) == <<"binary", op, l, r>>
Un(op, e) == <<"unary", op, e>>
Tab(fields) == <<"table", fields>>
Vl(e) == <<None, e>>
Local(names, es) == <<"assign", [i \in DOMAIN names |-> Id(names[i])], es, TRUE>>
Set(targets, es) == <<"assign", targets, es, FALSE>>
CallE(f, args) == <<"call", f, args, FALSE>>
Mth(e, n) == <<"field", e, ":", n>>
Fun(params, stmts) == <<"function", None, params, stmts, FALSE>>
LocalFun(n, params, stmts) == <<"function", Id(n), params, stmts, TRUE>>
Return(es) == <<"return", es>>
If(c, a) == <<"if", << <<c, a>> >> >>
IfElse(c, a, b) == <<"if", << <<c, a>>, <<None, b>> >> >>
While(c, b) == <<"while", c, b>>
Repeat(b, c) == <<"repeat", b, c>>
For(n, a, b, c, s) == <<"for", n, a, b, c, s>>
ForIn(names, es, s) == <<"forin", names, es, s>>
Do(b) == <<"do", b>>
Break == <<"break">>
Chunk(stmts) == [stmts |-> stmts, args |-> <<Num(Lit(7)), Nil, Str(<<"s">>)>>, valid |-> TRUE,
                 lost |-> 0, foreign |-> FALSE]
Bad(stmts) == [Chunk(stmts) EXCEPT !.valid = FALSE]

(* Expressions over the locals a (a number) and b (nil), the globals x (a  *)
(* number), t (a table) and u (undefined), and constants.                  *)
a == Id("a")
b == Id("b")
x == Id("x")
t == Id("t")
Pre == <<Set(<<x, t>>, <<Nm(2), Tab(<< <<St("k"), Nm(1)>>, Vl(Nm(5))>>)>>), Local(<<"a", "b">>, <<Nm(1)>>)>>
Ex(stmts) == Chunk(Pre \o stmts)
Atoms == {Nm(0), Nm(3), St("s"), Ls(<<"1", "0">>), Ls(<<>>), Lt("true"), Lt("false"), Lt("nil"), Dots, a, b, x, t,
          Fld(t, "k")}
Logic == {"and", "or"}
Unary == {Un(op, e) : op \in {"-", "not", "#"}, e \in Atoms}
Binary == {Bin(op, l, r) : op \in {"+", "..", "==", ">="}, l \in {Nm(3), Ls(<<"1", "0">>), a, x, t}, r \in {Nm(2), St("s"), a, b}}
Logical ==
  {Bin(o1, Bin(o2, l, a), r) : o1 \in Logic, o2 \in Logic \cup {"=="}, l \in {a, x, Lt("nil")}, r \in {b, Nm(3)}}
    \cup {Bin(o1, l, Bin(o2, b, r)) : o1 \in Logic \cup {"=="}, o2 \in Logic, l \in {a, x, Lt("false")}, r \in {a, St("s")}}
    \cup {Bin(o1, Un("not", Bin(o2, l, Nm(1))), b) : o1 \in Logic, o2 \in {"and", "or", "<", "~="}, l \in {a, b, x}}
Ops == {"+", "-", "*", "^", ".."}
Precedences ==
  {Bin(o1, Bin(o2, x, a), Nm(3)) : o1 \in Ops, o2 \in Ops} \cup {Bin(o1, x, Bin(o2, a, Nm(3))) : o1 \in Ops, o2 \in Ops}
    \cup {Un(u, Bin(o, x, Nm(3))) : u \in {"-", "not"}, o \in {"^", "*", "==", "and"}}
    \cup {Bin(o, Un(u, x), Nm(3)) : u \in {"-", "not"}, o \in {"^", "*", "==", "and"}}
    \cup {Bin("..", l, Bin("..", m, r)) : l \in {a, t}, m \in {St("s"), b}, r \in {Nm(3), Ls(<<>>)}}
    \cup {Bin("^", Nm(2), Un("-", x)), Bin("+", Bin("..", Nm(1), Nm(2)), Nm(1))}
InContexts(e) ==
  {Ex(<<Return(<<e, a>>)>>), Ex(<<If(e, <<Return(<<Nm(1)>>)>>), Return(<<Nm(2)>>)>>),
   Ex(<<Set(<<b, Id("y")>>, <<Bin("or", b, e)>>), Return(<<b, Tab(<<Vl(e), Vl(e)>>)>>)>>)}
Expressions == UNION {InContexts(e) : e \in Unary \cup Binary \cup Logical}
                 \cup {Ex(<<Return(<<e>>)>>) : e \in Precedences}

(* Registers that hold something old when a local starts as nil, after a   *)
(* jump past another nil.                                                  *)
Stale == {Ex(<<Local(<<"y">>, <<Nm(4)>>), Do(<<Local(<<"z">>, <<Nm(5)>>)>>), If(c, <<Set(<<Id("y")>>, <<Lt("nil")>>)>>), s, Local(<<"w">>, vs), Return(<<Id("y"), Id("w")>>)>>) :
            c \in {a, b, x}, s \in {Do(<<>>), Set(<<x>>, <<Lt("nil")>>)}, vs \in {<<>>, <<Lt("nil")>>}}

(* Assignments to several variables at once, some of which are used in     *)
(* the others, and with other numbers of values than of variables.         *)
Two == LocalFun("two", <<>>, <<Return(<<Nm(8), Nm(9)>>)>>)
Targets2 == {a, x, t, Fld(a, "k"), Idx(t, b), Idx(a, Fld(a, "k"))}
ValueLists == {<<b, a>>, <<t>>, <<CallE(Id("two"), <<>>)>>, <<Nm(4), Nm(5), CallE(Id("two"), <<>>)>>}
Assignments ==
  {Chunk(<<Two, Set(<<t>>, <<Tab(<< <<St("k"), Nm(2)>> >>)>>), Local(<<"a", "b">>, <<t, Nm(1)>>), Set(<<l, r>>, vs),
           Return(<<a, b, x>>)>>) : l \in Targets2, r \in Targets2, vs \in ValueLists}
    \cup {Chunk(<<Two, Local(<<"a", "b", "c">>, vs), Local(<<"d", "a">>, <<>>), Return(<<a, b, Id("c"), Id("d")>>)>>) : vs \in ValueLists}

(* Closures over the locals of loops that are left by a jump.              *)
Keep(n) == Set(<<Idx(t, Bin("+", Un("#", t), Nm(1)))>>, <<Fun(<<>>, <<Set(<<Id(n)>>, <<Bin("+", Id(n), Nm(1))>>), Return(<<Id(n)>>)>>)>>)
Ask(i) == CallE(Idx(t, Nm(i)), <<>>)
Stop(i) == If(Bin("==", Id("i"), Nm(i)), <<Break>>)
Bodies == {<<Keep("i"), Stop(2)>>, <<Local(<<"y">>, <<Id("i")>>), Keep("y"), Stop(2)>>,
           <<Local(<<"y">>, <<Id("i")>>), Do(<<Local(<<"z">>, <<Id("y")>>), Keep("z"), Keep("y"), Stop(1)>>)>>,
           <<If(Bin("<", Id("i"), Nm(2)), <<Local(<<"z">>, <<Id("i")>>), Keep("z")>>), Keep("a")>>}
Step1 == Set(<<Id("i")>>, <<Bin("+", Id("i"), Nm(1))>>)
Looping(s) ==
  {<<For("i", Nm(1), Nm(3), None, s)>>, <<For("i", Nm(3), Nm(1), Un("-", Nm(1)), s)>>,
   <<ForIn(<<"i", "v">>, <<CallE(Id("ipairs"), <<Tab(<<Vl(Nm(1)), Vl(Nm(2))>>)>>)>>, s)>>,
   <<Local(<<"i">>, <<Nm(0)>>), While(Bin("<", Id("i"), Nm(3)), <<Step1>> \o s)>>,
   <<Local(<<"i">>, <<Nm(0)>>), Repeat(<<Step1>> \o s, Bin(">=", Id("i"), Nm(3)))>>,
   <<Local(<<"i">>, <<Nm(0)>>), Repeat(<<Step1>> \o s \o <<Local(<<"w">>, <<Id("i")>>), Keep("w")>>, Bin("==", Id("w"), Nm(2)))>>,
   <<LocalFun("f", <<"i">>, <<While(Lt("true"), s \o <<Break>>), Return(<<Fun(<<>>, <<Return(<<Id("i")>>)>>)>>)>>),
     Set(<<x>>, <<CallE(CallE(Id("f"), <<Nm(5)>>), <<>>)>>)>>}
Loops ==
  {Chunk(<<Local(<<"a">>, <<Nm(9)>>), Set(<<t>>, <<Tab(<<>>)>>), Do(l), Local(<<"c">>, <<Nm(6)>>), Ask(1), Return(<<Ask(1), Ask(2), a, Id("c")>>)>>) :
     l \in UNION {Looping(s) : s \in Bodies} }

(* Calls: arguments and results more or fewer than wanted, tail calls,     *)
(* methods, recursion.                                                     *)
Bodies2 == {<<Return(<<Id("p"), Id("q")>>)>>, <<Return(<<CallE(Id("two"), <<>>)>>)>>, <<>>,
            <<Local(<<"c">>, <<Nm(6)>>), Return(<<CallE(Fun(<<"n">>, <<Return(<<Id("n"), Id("c"), Id("p")>>)>>), <<Id("q")>>)>>)>>}
Varargs == {Fun(<<"p", "q">>, s) : s \in Bodies2} \cup {Fun(<<"p", "q", "...arg">>, <<Return(<<Id("p"), Fld(Id("arg"), "n"), Idx(Id("arg"), Nm(1))>>)>>)}
   \cup {Fun(<<"p", "...">>, s) : s \in {<<Return(<<Dots>>)>>, <<Return(<<Dots, Id("p")>>)>>, <<Local(<<"c", "d">>, <<Dots>>), Return(<<Id("d"), Id("c"), Tab(<<Vl(Id("p")), Vl(Dots)>>)>>)>>,
                                         <<Return(<<CallE(Id("select"), <<St("#"), Dots>>)>>)>>, <<Return(<<CallE(Id("two"), <<Dots>>)>>)>>}}
ArgLists == {<<>>, <<Nm(1)>>, <<Nm(1), Nm(2), Lt("nil"), Nm(4)>>, <<CallE(Id("two"), <<>>), CallE(Id("two"), <<>>)>>, <<Dots>>}
Calls ==
  {Chunk(<<Two, Local(<<"f">>, <<f>>), Local(<<"c", "d">>, <<CallE(Id("f"), args)>>), Return(<<Id("c"), Id("d"), CallE(Id("f"), args)>>)>>) : f \in Varargs, args \in ArgLists}
    \cup {Chunk(<<Two, Local(<<"f">>, <<f>>), Return(<<CallE(Id("f"), args)>>)>>) : f \in Varargs, args \in ArgLists}
Methods ==
  {Chunk(<<Set(<<t>>, <<Tab(<< <<St("k"), Nm(1)>> >>)>>), <<"function", Mth(t, "m"), <<"p">>, s, FALSE>>,
           Return(<<CallE(Mth(t, "m"), <<Nm(3)>>), CallE(Mth(Id(o), "m"), <<>>)>>)>>) :
     s \in {<<Return(<<Id("p"), Fld(Id("self"), "k")>>)>>, <<Set(<<Fld(Id("self"), "k")>>, <<Id("p")>>)>>}, o \in {"t", "u"}}
Recursive(n, last) ==
  Chunk(<<LocalFun("f", <<"n">>, <<If(Bin("==", Id("n"), Nm(0)), <<Return(<<Nm(1), Nm(2)>>)>>), last>>), Return(<<CallE(Id("pcall"), <<Id("f"), Nm(n)>>), CallE(Id("f"), <<Nm(0)>>)>>)>>)
Less == CallE(Id("f"), <<Bin("-", Id("n"), Nm(1))>>)
Recursions == {Recursive(n, last) : n \in {2, 5, 20}, last \in {Return(<<Less>>), Return(<<Nm(3), Less>>), Return(<<CallE(Id("pcall"), <<Id("f"), Bin("-", Id("n"), Nm(1))>>)>>)}}

(* Metamethods, present from the start, added after their absence was      *)
(* noticed (by an assignment or by rawset), or taken away again.           *)
m == Id("m")
Handler == Fun(<<"p", "q", "r">>, <<Set(<<x>>, <<Id("q")>>), Return(<<Bin("or", Id("r"), Nm(4)), Id("p")>>)>>)
Uses == {Return(<<Fld(t, "k"), t>>), Set(<<Fld(t, "k")>>, <<Nm(3)>>), Return(<<Bin("==", t, Id("v"))>>), Return(<<Bin("<", t, Id("v"))>>),
         Return(<<Bin("<=", t, Id("v"))>>), Return(<<Bin("..", Nm(1), Bin("..", t, Nm(2)))>>), Return(<<CallE(t, <<Nm(1)>>)>>),
         Return(<<Bin("+", Nm(1), t)>>), Return(<<Un("-", t)>>), If(Bin("==", t, Id("v")), <<Return(<<Nm(1)>>)>>)}
EventsOf == {"__index", "__newindex", "__eq", "__lt", "__le", "__concat", "__call", "__add", "__unm"}
SetUp == <<Set(<<t, m, Id("v")>>, <<Tab(<<>>), Tab(<<>>), Tab(<<>>)>>), CallE(Id("setmetatable"), <<t, m>>), CallE(Id("setmetatable"), <<Id("v"), m>>)>>
Installs(e) ==
  {<<Set(<<Fld(m, e)>>, <<Handler>>)>>, <<Local(<<"c">>, <<Fld(t, "k")>>), Set(<<Fld(t, "k")>>, <<Lt("nil")>>), Set(<<Fld(m, e)>>, <<Handler>>)>>,
   <<Local(<<"c">>, <<Bin("==", t, Id("v"))>>), CallE(Id("rawset"), <<m, St(e), Handler>>), Set(<<Fld(m, "z")>>, <<Fld(t, "z")>>)>>,
   <<Set(<<Fld(m, e)>>, <<Tab(<< <<St("k"), Nm(6)>> >>)>>)>>, <<Set(<<Fld(m, e)>>, <<t>>)>>,
   <<Set(<<Fld(m, e)>>, <<Handler>>), Local(<<"c">>, <<Fld(t, "k")>>), Set(<<Fld(m, e)>>, <<Lt("nil")>>)>>}
Related(e, s) ==
  CASE e \in {"__index", "__newindex"} -> s[1] \in {"assign", "return"}
    [] e = "__eq" -> s[1] \in {"if", "return"}
    [] OTHER -> s[1] = "return"
Metamethods == {Chunk(SetUp \o i \o <<s>> \o (IF s[1] = "return" THEN <<>> ELSE <<Return(<<x, Fld(t, "k")>>)>>)) :
                  <<i, s>> \in {<<CallE(Id("setmetatable"), <<t, t>>), Set(<<Fld(t, e)>>, <<Handler>>)>> : e \in {"__index", "__newindex"}} \X Uses
                     \cup UNION {Installs(e) \X {u \in Uses : Related(e, u)} : e \in EventsOf}}

(* Errors that leave frames, loops and closures behind.                    *)
Failures == {CallE(Id("error"), <<St("no")>>), Set(<<Fld(Id("u"), "k")>>, <<Nm(1)>>), Set(<<x>>, <<Bin("+", Nm(1), Id("u"))>>),
         CallE(Id("u"), <<>>), Set(<<x>>, <<Bin("<", Nm(1), St("s"))>>), For("i", Lt("nil"), Nm(1), None, <<>>)}
Failing(f) ==
  {<<Local(<<"y">>, <<Nm(1)>>), Keep("y"), f>>, <<For("i", Nm(1), Nm(2), None, <<Keep("i"), f>>)>>,
   <<Local(<<"y">>, <<Nm(1)>>), Keep("y"), CallE(Id("pcall"), <<Fun(<<>>, <<Set(<<Id("y")>>, <<Bin("+", Id("y"), Nm(1))>>), Local(<<"z">>, <<Id("y")>>), Keep("z"), f>>)>>), Return(<<Id("y")>>)>>}
Errors == {Chunk(<<Local(<<"a">>, <<Nm(9)>>), Set(<<t>>, <<Tab(<<>>)>>), Local(<<"o", "e">>, <<CallE(Id("pcall"), <<Fun(<<>>, s)>>)>>), Local(<<"c">>, <<Nm(6)>>),
                   Return(<<Id("o"), Id("e"), Ask(1), Ask(1), Id("c"), a>>)>>) : s \in UNION {Failing(f) : f \in Failures}}
  \cup {Chunk(<<f>>) : f \in Failures}

(* Constructors: batches of LFIELDS_PER_FLUSH items, numbered past MAXARG_C. *)
Items(n, last) == [i \in 1 .. n |-> Vl(IF i = n THEN last ELSE Nm(i))]
Constructors == {Ex(<<Return(<<Tab(Items(n, last))>>)>>) : n \in 1 .. 9, last \in {Nm(0), Dots, b}}
  \cup {Ex(<<Return(<<Tab(Items(n, Dots) \o << <<St("k"), Nm(2)>> >> \o Items(2, Dots))>>)>>) : n \in 1 .. 3}

(* What the parser refuses, and limits it meets. *)
Locals(n) == [i \in 1 .. n |-> Local(<<"c">>, <<Nm(1)>>)]
RECURSIVE Nested(_, _)
Nested(n, e) == IF n = 0 THEN e ELSE <<"group", Nested(n - 1, e)>>
Refused ==
  {Bad(<<Break>>), Bad(<<Return(<<Fun(<<"p">>, <<Return(<<Dots>>)>>)>>)>>), Bad(Locals(LUAI_MAXVARS + 1)), Bad(<<Return(<<Nested(LUAI_MAXCCALLS, a)>>)>>),
   Bad(<<While(a, <<Return(<<Fun(<<>>, <<Break>>)>>)>>)>>), Bad(<<Set(<<Id("c")>>, <<Fun(<<>>, <<Local(<<"c">>, <<>>), Set(<<<<"call", a, <<>>, FALSE>>>>, <<b>>)>>)>>)>>),
   Bad(<<Local(<<"c1", "c2", "c3", "c4">>, <<>>), Return(<<Fun(<<>>, <<Return(<<Id("c1"), Id("c2"), Id("c3"), Id("c4")>>)>>)>>)>>),
   Bad(<<Return(<<Tab([i \in 1 .. 2 |-> Vl(CallE(a, [j \in 1 .. MAXSTACK |-> b]))])>>)>>)}
Accepted == {Chunk(Locals(LUAI_MAXVARS)), Chunk(<<Return(<<Nested(4, Nm(1))>>)>>)}

(* Compiled files that are cut short, or are of another version.           *)
Inner == Chunk(<<Local(<<"a">>, <<Nm(1)>>), Set(<<x>>, <<St("s")>>), Return(<<Fun(<<"p">>, <<Return(<<a, Ls(<<>>)>>)>>)>>)>>)
Damaged == {[Inner EXCEPT !.lost = n, !.valid = FALSE] : n \in 1 .. 50}
  \cup {[Inner EXCEPT !.foreign = TRUE, !.valid = FALSE]}

MCChunks ==
  Expressions \cup Stale \cup Assignments \cup Loops \cup Calls \cup Methods \cup Recursions \cup Metamethods
    \cup Errors \cup Constructors \cup Refused \cup Accepted \cup {Inner} \cup Damaged
=============================================================================
