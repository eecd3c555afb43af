-------------------------------- MODULE MCGC --------------------------------
(* A small instance of GC. *)
EXTENDS GC, TLC

CONSTANTS g, r, th, c, p, u

(* Two tables, a thread, a closure with its proto, and an upvalue: enough  *)
(* for cycles through every kind that both is pointed to and points.       *)
MCObjects == {g, r, th, c, p, u}
MCKinds == (g :> "table" @@ r :> "table" @@ th :> "thread"
            @@ c :> "closure" @@ p :> "proto" @@ u :> "upvalue")

(* Distinct sizes, so that a wrong sum shows. *)
MCSizes == [string |-> 2, table |-> 3, closure |-> 5, c_closure |-> 7,
            userdata |-> 11, thread |-> 13, upvalue |-> 17, proto |-> 19]
=============================================================================
