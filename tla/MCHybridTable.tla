--------------------------- MODULE MCHybridTable ----------------------------
(* Small instances of HybridTable. *)
EXTENDS HybridTable
CONSTANTS x
MCSizes == {0, 1, 4}
MCIntKeys == 1 .. 5
NoKeys == {}
=============================================================================
