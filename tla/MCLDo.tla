-------------------------------- MODULE MCLDo --------------------------------
(***************************************************************************)
(* Instances of LDo for TLC.  The programs differ in what they call, so    *)
(* that each can nest deeply enough: protected calls in coroutines, errors *)
(* in error handlers, errors in the parser and in its reader, coroutines   *)
(* that resume one another, C functions that call back.                    *)
(***************************************************************************)
EXTENDS LDo

CONSTANTS main, co1, co2

SomeCoroutines == {co1, co2}

SomePrograms == {
    [calls |-> {"lua", "create", "resume", "yield", "pcall"}, coroutines |-> {co1}],
    [calls |-> {"lua", "fn", "xpcall"}, coroutines |-> {}],
    [calls |-> {"lua", "load", "xpcall", "pcall"}, coroutines |-> {}],
    [calls |-> {"lua", "create", "wrap", "yield"}, coroutines |-> {co1, co2}],
    [calls |-> {"lua", "fn", "create", "wrap", "yield"}, coroutines |-> {co1}]}
=============================================================================
