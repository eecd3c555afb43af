------------------------------ MODULE MCVMHeap ------------------------------
(* Small instances of VMHeap. *)
EXTENDS VMHeap, TLC

CONSTANTS t, s1, s2, s3

MCObjects == {Globals, Registry, MainThread, t, s1, s2, s3}
MCKind == [o \in Objects |->
             IF o = MainThread THEN "thread"
             ELSE IF o \in {s1, s2, s3} THEN "string" ELSE "table"]
MCSize == [k \in Kinds |-> 1]

(* With one string object fewer. *)
FewerObjects == MCObjects \ {s3}

(* Two names with one hash. *)
MCTexts == {"a", "b"}
Colliding == [x \in MCTexts |-> 0]

(* One name. *)
OneText == {"a"}
OneHash == [x \in OneText |-> 0]
=============================================================================
