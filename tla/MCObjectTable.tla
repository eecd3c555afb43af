---------------------------- MODULE MCObjectTable ---------------------------
(* Small instances of ObjectTable. *)
EXTENDS ObjectTable
CONSTANTS x, y
(* Two keys for the array, one just above the limit, two others. *)
MCIntKeys == 1 .. 3
MCOtherKeys == {x, y}
=============================================================================
