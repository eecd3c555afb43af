------------------------------- MODULE LuaMap -------------------------------
(***************************************************************************)
(* What a Lua table promises its users: a total map from keys to values,   *)
(* in which nil stands for absence, changed by one assignment at a time.   *)
(* ObjectTable (object.zig) implements it.                                 *)
(***************************************************************************)
CONSTANTS Keys, Vals, Nil

VARIABLE content

TypeOK == content \in [Keys -> Vals \cup {Nil}]

Init == content = [k \in Keys |-> Nil]

Assign(k, v) == content' = [content EXCEPT ![k] = v]

Next == \E k \in Keys, v \in Vals \cup {Nil} : Assign(k, v)

Spec == Init /\ [][Next]_content
=============================================================================
