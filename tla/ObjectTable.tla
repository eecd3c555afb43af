----------------------------- MODULE ObjectTable ----------------------------
(***************************************************************************)
(* The table of object.zig, the one the VM and the standard library use:   *)
(* an array for the integer keys up to a fixed limit, a hash map for all   *)
(* other keys, and `next', which walks over both.  A traversal is a series *)
(* of calls of next, each with the key that the call before it returned.   *)
(*                                                                         *)
(* Keys are positive integers (IntKeys) or anything else (OtherKeys:       *)
(* strings, booleans, fractions, negative numbers ...).  The slot order of *)
(* the hash map is unknown and may change whenever a key is added: it is   *)
(* the sequence `order'.                                                   *)
(*                                                                         *)
(* As in GC, a definition placed before another with the same parameters   *)
(* and named for what it gets wrong is a deliberately faulty variant.      *)
(***************************************************************************)
EXTENDS Integers, Sequences, FiniteSets

CONSTANTS
  ArrayLimit,   (* 50 in object.zig                                        *)
  IntKeys,      (* the positive integers used as keys                      *)
  OtherKeys,    (* the other keys                                          *)
  Vals, Nil

Keys == IntKeys \cup OtherKeys

ASSUME LimitAssumption == ArrayLimit \in Nat
ASSUME KeyAssumption == /\ IntKeys \subseteq Nat \ {0}
                        /\ \A k \in OtherKeys : k \notin Int
                        /\ Nil \notin Keys
ASSUME ValueAssumption == Nil \notin Vals

VARIABLES
  array,        (* array.items                                             *)
  map,          (* the entries of the hash map                             *)
  order,        (* its keys in slot order                                  *)
  loop,         (* "off", or a traversal "running" or "done"               *)
  key,          (* the last key it delivered, Nil at first                 *)
  todo,         (* what it owes its user: the keys present when it began   *)
                (* that it has not yet delivered                           *)
  repeated      (* whether it delivered a key that it did not owe          *)

contents == <<array, map, order>>
loopVars == <<loop, key, todo, repeated>>
vars == <<contents, loopVars>>

Values == Vals \cup {Nil}

(* The sequences that list the elements of S once each. *)
Listings(S) ==
  {f \in [1 .. Cardinality(S) -> S] : \A x \in S : \E i \in DOMAIN f : f[i] = x}

TypeOK ==
  /\ array \in Seq(Values)
  /\ map \in [DOMAIN map -> Values]
  /\ DOMAIN map \subseteq Keys /\ IsFiniteSet(DOMAIN map)
  /\ order \in Seq(Keys)
  /\ loop \in {"off", "running", "done"}
  /\ key \in Keys \cup {Nil}
  /\ todo \subseteq Keys
  /\ repeated \in BOOLEAN

Init ==
  /\ array = <<>> /\ map = [k \in {} |-> Nil] /\ order = <<>>
  /\ loop = "off" /\ key = Nil /\ todo = {} /\ repeated = FALSE

-----------------------------------------------------------------------------
(* get, set, length, next.                                                 *)

InArray(k) == k \in IntKeys /\ k <= Len(array)

MapGet(k) == IF k \in DOMAIN map THEN map[k] ELSE Nil

Get(k) == IF InArray(k) /\ array[k] # Nil THEN array[k] ELSE MapGet(k)

(* set: a key up to the limit goes to the array, which grows with nils up  *)
(* to it.                                                                  *)
FillWithValue(k, v) ==
  /\ k \in IntKeys /\ k <= ArrayLimit
  /\ array' = [i \in 1 .. (IF Len(array) < k THEN k ELSE Len(array)) |->
                 IF i = k \/ i > Len(array) THEN v ELSE array[i]]
  /\ UNCHANGED <<map, order>>

SetArray(k, v) ==
  /\ k \in IntKeys /\ k <= ArrayLimit
  /\ array' = [i \in 1 .. (IF Len(array) < k THEN k ELSE Len(array)) |->
                 IF i = k THEN v
                 ELSE IF i <= Len(array) THEN array[i] ELSE Nil]
  /\ UNCHANGED <<map, order>>

(* remove leaves the other entries in their slots. *)
Before(s, x, y) == \E i, j \in 1 .. Len(s) : i < j /\ s[i] = x /\ s[j] = y

MapRemove(k) ==
  /\ map' = [x \in DOMAIN map \ {k} |-> map[x]]
  /\ order' \in Listings(DOMAIN map \ {k})
  /\ \A i, j \in 1 .. Len(order') : i < j => Before(order, order'[i], order'[j])

MapPut(k, v) ==
  /\ map' = [x \in DOMAIN map \cup {k} |-> IF x = k THEN v ELSE map[x]]
  /\ IF k \in DOMAIN map THEN UNCHANGED order
     ELSE order' \in Listings(DOMAIN map \cup {k})

SetMap(k, v) ==
  /\ ~(k \in IntKeys /\ k <= ArrayLimit)
  /\ IF v = Nil THEN MapRemove(k) ELSE MapPut(k, v)
  /\ UNCHANGED array

Set(k, v) == SetArray(k, v) \/ SetMap(k, v)

(* length: the last index of the array that does not hold nil. *)
ArrayLength == Len(array)

Length ==
  LET full == {i \in 1 .. Len(array) : array[i] # Nil}
  IN  IF full = {} THEN 0 ELSE CHOOSE i \in full : \A m \in full : m <= i

(* next(k): where the search of the array starts, the first array element  *)
(* from there on, else the entry after k in the map; Nil when none is left.*)
StartTwoOn(k) == IF k # Nil /\ InArray(k) THEN k + 2 ELSE 1
StartIndex(k) == IF k # Nil /\ InArray(k) THEN k + 1 ELSE 1

AfterInMap(k) ==
  IF k = Nil
    THEN IF order = <<>> THEN Nil ELSE order[1]
    ELSE LET at == {i \in 1 .. Len(order) - 1 : order[i] = k}
         IN  IF at = {} THEN Nil ELSE order[(CHOOSE i \in at : TRUE) + 1]

NextKey(k) ==
  LET left == {i \in StartIndex(k) .. Len(array) : array[i] # Nil}
  IN  IF left # {} THEN CHOOSE i \in left : \A m \in left : i <= m
      ELSE AfterInMap(k)

-----------------------------------------------------------------------------
(* The program: assignments, and traversals.                               *)

Assignment(k, v) ==
  /\ loop # "running"
  /\ Set(k, v)
  /\ loop' = "off" /\ key' = Nil /\ todo' = {} /\ repeated' = FALSE

(* The first call passes nil. *)
Traverse ==
  /\ loop = "off"
  /\ loop' = "running" /\ key' = Nil /\ repeated' = FALSE
  /\ todo' = {k \in Keys : Get(k) # Nil}
  /\ UNCHANGED contents

(* The user may clear the field it was given before it asks for the next.  *)
ClearField ==
  /\ loop = "running"
  /\ key # Nil /\ Get(key) # Nil
  /\ Set(key, Nil)
  /\ UNCHANGED loopVars

(* LuaState.next, called by base_next, with the last key. *)
Step ==
  /\ loop = "running"
  /\ LET k == NextKey(key)
     IN  IF k = Nil
           THEN loop' = "done" /\ UNCHANGED <<key, todo, repeated>>
           ELSE /\ key' = k
                /\ todo' = todo \ {k}
                /\ repeated' = (repeated \/ k \notin todo)
                /\ UNCHANGED loop
  /\ UNCHANGED contents

Next ==
  \/ \E k \in Keys, v \in Values : Assignment(k, v)
  \/ Traverse
  \/ ClearField
  \/ Step

(* A traversal that has begun goes on: nothing in next can block. *)
Spec == Init /\ [][Next]_vars /\ WF_vars(Step)

-----------------------------------------------------------------------------
(* Properties.                                                             *)

(* No integer key lives in both parts, no map entry holds nil, and the     *)
(* nils that grow the array stay nil until their key is set: what get and  *)
(* next rely on.                                                           *)
PartsDisjoint ==
  /\ Len(array) <= ArrayLimit
  /\ \A k \in DOMAIN map : ~(k \in IntKeys /\ k <= ArrayLimit) /\ map[k] # Nil
  /\ \A i \in 1 .. Len(array) : array[i] # Nil => i \in IntKeys

(* The hybrid table is a Lua map: whichever part holds a key and however   *)
(* the array has grown, every step of the table changes what get returns   *)
(* for at most one key.                                                    *)
Abstract == INSTANCE LuaMap WITH content <- [k \in Keys |-> Get(k)]
ImplementsMap == Abstract!Spec

(* set(k, v) changes what get returns for k to v, and nothing else.        *)
SetStores ==
  [][\A k \in Keys, v \in Values : Assignment(k, v) => Abstract!Assign(k, v)]_vars

(* A border: what the length operator of Lua 5.1 may return.               *)
IsBorder(n) ==
  /\ n = 0 \/ (n \in Keys => Get(n) # Nil)
  /\ n + 1 \in Keys => Get(n + 1) = Nil

(* length returns a border as long as nothing is stored just above the     *)
(* array limit.                                                            *)
LengthBorderInArray == (ArrayLimit + 1) \notin DOMAIN map => IsBorder(Length)

(* Both parts hold something. *)
Mixed == order # <<>> /\ \E i \in 1 .. Len(array) : array[i] # Nil

(* A traversal never delivers a key twice or a key that was not present,   *)
(* although its user clears fields on the way.  When it ends it has        *)
(* delivered all of the array, and all of the map too if there was nothing *)
(* in the array and the last key has not been cleared.                     *)
TraversalOnce ==
  /\ ~repeated
  /\ loop = "done" => \A k \in todo : ~(k \in IntKeys /\ k <= ArrayLimit)
  /\ loop = "done" /\ ~Mixed /\ (key # Nil => Get(key) # Nil) => todo = {}

=============================================================================
