------------------------------- MODULE MCLGC -------------------------------
(* Small programs for LGC: each has the few kinds of objects and of stores *)
(* that one part of the collector is about, and all of their histories.    *)
EXTENDS LGC, TLC

CONSTANTS a, b, c, d, m, reg, s1, s2

(* A program over the objects a to d; the registry doubles as a metatable  *)
(* with the events of `rev', d as one with those of `dev'.                 *)
Uses(ka, kb, kc, kd, rev, dev, assigns, makes) ==
  [kind |-> (m :> "thread" @@ reg :> "table" @@ a :> ka @@ b :> kb @@ c :> kc @@ d :> kd),
   events |-> (m :> {} @@ reg :> rev @@ a :> {} @@ b :> {} @@ c :> {} @@ d :> dev),
   assigns |-> assigns, makes |-> makes]

MCId == {a, b, c, d}
MCSlots == {s1, s2}
SlotSymmetry == Permutations(MCSlots)

Global == <<reg, "v">>

Tables == Uses("table", "table", "unused", "unused", {}, {},
               {Global, <<a, "v">>, <<b, "v">>}, {"collect"})
WeakKeys == Uses("table", "table", "unused", "unused", {"k"}, {},
                 {Global, <<a, "k">>, <<a, "v">>, <<a, "mt">>}, {})
WeakValues == Uses("table", "table", "string", "unused", {"v"}, {},
                   {<<a, "v">>, <<a, "mt">>, <<b, "v">>}, {})
AllWeak == Uses("table", "table", "unused", "unused", {"k", "v"}, {},
                {<<a, "k">>, <<a, "v">>, <<a, "mt">>}, {})
Resurrection == Uses("userdata", "unused", "unused", "unused", {"gc"}, {},
                     {Global, <<a, "mt">>}, {"collect"})
WeakUserdata == Uses("table", "userdata", "unused", "unused", {"gc", "v"}, {},
                     {<<a, "v">>, <<a, "mt">>, <<b, "mt">>}, {"collect"})
WaitingKeys == Uses("table", "userdata", "unused", "unused", {"gc", "k"}, {},
                    {<<a, "k">>, <<a, "v">>, <<a, "mt">>, <<b, "mt">>}, {})
Shutdown == Uses("userdata", "string", "unused", "unused", {"gc"}, {},
                 {Global, <<a, "mt">>}, {"close"})
Closures == Uses("lclosure", "upval", "string", "unused", {}, {},
                 {Global, <<a, "up">>}, {"setupvalue"})
SharedUpvalue == Uses("lclosure", "upval", "lclosure", "unused", {}, {},
                      {<<a, "up">>}, {})
Prototypes == Uses("proto", "proto", "string", "unused", {}, {},
                   {<<a, "k">>, <<b, "k">>}, {})
Coroutines == Uses("lclosure", "upval", "thread", "unused", {}, {}, {<<a, "up">>}, {})
CFunctions == Uses("cclosure", "string", "unused", "table", {}, {},
                   {Global, <<a, "v">>, <<a, "env">>}, {})
BasicTypes == Uses("string", "unused", "unused", "table", {}, {"gc"},
                   {Global, <<a, "mt">>}, {"collect"})

MCShapes == {Tables, WeakKeys, WeakValues, AllWeak, Resurrection, WeakUserdata, WaitingKeys,
             Shutdown, Closures, SharedUpvalue, Prototypes, Coroutines, CFunctions, BasicTypes}

(* A weak table leads to a userdata that waits for its finalizer.          *)
Waits == {WaitingKeys}

(* Two closures share an upvalue, and debug.setupvalue assigns to it.      *)
SetUpvalues == {Uses("lclosure", "upval", "lclosure", "string", {}, {}, {}, {"setupvalue"})}
============================================================================
