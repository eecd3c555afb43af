------------------------------ MODULE MCLTable ------------------------------
(***************************************************************************)
(* Instances of LTable for TLC.                                            *)
(***************************************************************************)
EXTENDS LTable, TLC

CONSTANTS s1, o1, v1

SomeInts == {1, 2, 3}
SomeStrings == {s1}
SomeObjects == {o1}

(* The high word of the double of a small positive integer: exponent and   *)
(* mantissa.  The low word is zero.                                        *)
HighWord ==
    [n \in 1 .. MAX_INT |->
        LET e == CHOOSE e \in 0 .. 20 : 2^e <= n /\ n < 2^(e + 1)
        IN  (1023 + e) * 2^20 + (n - 2^e) * 2^(20 - e)]
SomeHash == s1 :> 3 @@ o1 :> 0 @@ HighWord

SomeVals == {v1}
SomeSizes == {<<0, 0>>, <<0, 4>>}
=============================================================================
