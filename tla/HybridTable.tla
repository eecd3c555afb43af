---------------------------- MODULE HybridTable -----------------------------
(***************************************************************************)
(* The table of table.zig: an array part of the length given when it was   *)
(* made, an insertion-ordered map for all other keys, luaH_getn and        *)
(* luaH_next.  Nothing is ever removed from the map: a key that has been   *)
(* assigned nil keeps its entry.                                           *)
(*                                                                         *)
(* getn is a loop, not a formula: the state holds its locals i and j and   *)
(* the place it has reached, so that its result can be compared with what  *)
(* the table holds and its termination can be checked.                     *)
(***************************************************************************)
EXTENDS Integers, Sequences, FiniteSets

CONSTANTS
  ArraySizes,   (* what initCapacity is called with                        *)
  IntKeys,      (* the positive integers used as keys                      *)
  OtherKeys,    (* keys that are not numbers, or fractions                 *)
  Vals, Nil,
  MaxInt        (* maxInt(i32)                                             *)

Keys == IntKeys \cup OtherKeys
Values == Vals \cup {Nil}

ASSUME SizeAssumption == ArraySizes \subseteq Nat
ASSUME KeyAssumption == /\ IntKeys \subseteq Nat \ {0}
                        /\ \A k \in OtherKeys : k \notin Int
                        /\ Nil \notin Keys
ASSUME ValueAssumption == Nil \notin Vals
ASSUME MaxAssumption == MaxInt \in Nat

VARIABLES
  array,        (* array.items                                             *)
  map,          (* the entries of the map                                  *)
  order,        (* their keys, oldest first                                *)
  pc,           (* where getn or a traversal is; "idle" otherwise          *)
  i, j,         (* getn's locals: i is also last_contiguous_i              *)
  key,          (* a traversal's last key                                  *)
  todo,         (* the present keys that it has not delivered              *)
  stray         (* whether it delivered a key that it did not owe          *)

contents == <<array, map, order>>
traversal == <<key, todo, stray>>
vars == <<contents, pc, i, j, traversal>>

Places == {"idle", "array", "double", "linear", "map", "returned",
           "traverse", "end"}

TypeOK ==
  /\ array \in Seq(Values)
  /\ map \in [DOMAIN map -> Values] /\ DOMAIN map \subseteq Keys
  /\ order \in Seq(Keys)
  /\ pc \in Places
  /\ i \in Nat /\ j \in Nat
  /\ key \in Keys \cup {Nil}
  /\ todo \subseteq Keys
  /\ stray \in BOOLEAN

(* initCapacity: an array of nils, an empty map. *)
Init ==
  /\ \E n \in ArraySizes : array = [m \in 1 .. n |-> Nil]
  /\ map = [k \in {} |-> Nil] /\ order = <<>>
  /\ pc = "idle" /\ i = 0 /\ j = 0
  /\ key = Nil /\ todo = {} /\ stray = FALSE

-----------------------------------------------------------------------------
(* get and getOrCreate.                                                    *)

InArray(k) == k \in 1 .. Len(array)

(* A missing entry and an entry that holds nil read the same. *)
MapGet(k) == IF k \in DOMAIN map THEN map[k] ELSE Nil

Get(k) == IF InArray(k) THEN array[k] ELSE MapGet(k)

(* getOrCreate(k), and v stored through the pointer it returns. *)
Assign(k, v) ==
  /\ pc \in {"idle", "returned", "end"}
  /\ IF InArray(k)
       THEN /\ array' = [array EXCEPT ![k] = v]
            /\ UNCHANGED <<map, order>>
       ELSE /\ map' = [x \in DOMAIN map \cup {k} |-> IF x = k THEN v ELSE map[x]]
            /\ order' = IF k \in DOMAIN map THEN order ELSE Append(order, k)
            /\ UNCHANGED array
  /\ pc' = "idle" /\ i' = 0 /\ j' = 0
  /\ key' = Nil /\ todo' = {} /\ stray' = FALSE

-----------------------------------------------------------------------------
(* getn.                                                                   *)

Return(n) == pc' = "returned" /\ i' = n /\ j' = j

(* A search in the array if its last element is nil; its length if there   *)
(* is no map; else on to the map.                                          *)
Getn ==
  /\ pc = "idle"
  /\ LET n == Len(array)
     IN  \/ /\ n > 0 /\ array[n] = Nil
            /\ pc' = "array" /\ i' = 0 /\ j' = n
         \/ /\ ~(n > 0 /\ array[n] = Nil)
            /\ DOMAIN map = {}
            /\ Return(n)
         \/ /\ ~(n > 0 /\ array[n] = Nil)
            /\ DOMAIN map # {}
            /\ pc' = "double" /\ i' = n /\ j' = n + 1
  /\ UNCHANGED <<contents, traversal>>

(* The loop: halve the distance between i, where there is a value (or 0),  *)
(* and j, where there is none.                                             *)
Mid == (i + j) \div 2

Halve(present) ==
  /\ IF present THEN i' = Mid /\ j' = j ELSE i' = i /\ j' = Mid
  /\ UNCHANGED pc

ArraySearch ==
  /\ pc = "array"
  /\ IF j - i > 1 THEN Halve(array[Mid] # Nil) ELSE Return(i)
  /\ UNCHANGED <<contents, traversal>>

(* Double j until the map has nothing there; beyond MaxInt give up and     *)
(* count from 1.                                                           *)
Double ==
  /\ pc = "double"
  /\ \/ /\ MapGet(j) # Nil /\ 2 * j <= MaxInt
        /\ i' = j /\ j' = 2 * j /\ UNCHANGED pc
     \/ /\ MapGet(j) # Nil /\ 2 * j > MaxInt
        /\ pc' = "linear" /\ i' = 1 /\ j' = 2 * j
     \/ /\ MapGet(j) = Nil
        /\ pc' = "map" /\ UNCHANGED <<i, j>>
  /\ UNCHANGED <<contents, traversal>>

LinearReturnsI ==
  /\ pc = "linear"
  /\ IF Get(i) # Nil THEN i' = i + 1 /\ UNCHANGED <<pc, j>> ELSE Return(i)
  /\ UNCHANGED <<contents, traversal>>

LinearSearch ==
  /\ pc = "linear"
  /\ IF Get(i) # Nil THEN i' = i + 1 /\ UNCHANGED <<pc, j>> ELSE Return(i - 1)
  /\ UNCHANGED <<contents, traversal>>

MapSearchStays ==
  /\ pc = "map"
  /\ IF j - i > 0 THEN Halve(MapGet(Mid) # Nil) ELSE Return(i)
  /\ UNCHANGED <<contents, traversal>>

MapSearch ==
  /\ pc = "map"
  /\ IF j - i > 1 THEN Halve(MapGet(Mid) # Nil) ELSE Return(i)
  /\ UNCHANGED <<contents, traversal>>

-----------------------------------------------------------------------------
(* next.                                                                   *)

(* An integer key says where in the array to go on; any other key, and     *)
(* nil, start at 1.                                                        *)
StartAtKey(k) == IF k \in IntKeys THEN k ELSE 1
StartIndex(k) == IF k \in IntKeys THEN k + 1 ELSE 1

(* The entry after k, or the first one if k has no entry. *)
AfterInMap(k) ==
  LET at == {n \in 1 .. Len(order) : order[n] = k}
      n  == IF at = {} THEN 1 ELSE (CHOOSE m \in at : TRUE) + 1
  IN  IF n <= Len(order) THEN order[n] ELSE Nil

NextKey(k) ==
  LET left == {n \in StartIndex(k) .. Len(array) : array[n] # Nil}
  IN  IF left # {} THEN CHOOSE n \in left : \A m \in left : n <= m
      ELSE AfterInMap(k)

(* A traversal: next from nil on, each time with the key that it returned. *)
Traverse ==
  /\ pc = "idle"
  /\ pc' = "traverse" /\ key' = Nil /\ stray' = FALSE
  /\ todo' = {k \in Keys : Get(k) # Nil}
  /\ UNCHANGED <<contents, i, j>>

Step ==
  /\ pc = "traverse"
  /\ LET k == NextKey(key)
     IN  IF k = Nil
           THEN pc' = "end" /\ UNCHANGED traversal
           ELSE /\ key' = k
                /\ todo' = todo \ {k}
                /\ stray' = (stray \/ k \notin todo)
                /\ UNCHANGED pc
  /\ UNCHANGED <<contents, i, j>>

Running == ArraySearch \/ Double \/ LinearSearch \/ MapSearch \/ Step

Next ==
  \/ \E k \in Keys, v \in Values : Assign(k, v)
  \/ Getn
  \/ Traverse
  \/ Running

(* Once called, getn and a traversal go on: nothing in them can block.     *)
Spec == Init /\ [][Next]_vars /\ WF_vars(Running)

-----------------------------------------------------------------------------
(* Properties.                                                             *)

IsBorder(n) ==
  /\ n = 0 \/ Get(n) # Nil
  /\ Get(n + 1) = Nil

(* Whatever holes the table has, wherever its values are and whichever of  *)
(* its four loops ends, getn returns a border: the index of a value with   *)
(* no value after it, or 0.                                                *)
GetnBorder == pc = "returned" => IsBorder(i)

(* Every call of getn returns, and every traversal of a table that has     *)
(* only integer keys ends.                                                 *)
Terminates ==
  (pc \in {"array", "double", "linear", "map"} \/ (pc = "traverse" /\ DOMAIN map \subseteq IntKeys))
    ~> (pc \in {"idle", "returned", "end"})

(* Every entry of the map holds a value.                                   *)
NoNilEntries == \A k \in DOMAIN map : map[k] # Nil

(* If all keys are integers and none has been assigned nil, a traversal    *)
(* delivers every key once and nothing else.                               *)
IntegerTraversal ==
  DOMAIN map \subseteq IntKeys /\ NoNilEntries =>
    ~stray /\ (pc = "end" => todo = {})

-----------------------------------------------------------------------------
(* The loop invariant of getn behind GetnBorder.                           *)

(* In every search there is a value at i, or i is 0, and none at j; keys   *)
(* beyond the array can only be in the map.                                *)
LoopInv ==
  /\ pc = "array"  => i < j /\ j <= Len(array) /\ array[j] = Nil
                      /\ (i = 0 \/ array[i] # Nil)
  /\ pc \in {"double", "map"} => Len(array) <= i /\ i < j /\ (i = 0 \/ Get(i) # Nil)
  /\ pc = "map"    => Get(j) = Nil
  /\ pc = "linear" => i >= 1 /\ (i = 1 \/ Get(i - 1) # Nil)

(* A key is in the array or in the map, never in both; what has not been   *)
(* assigned is nil.                                                        *)
PartsDisjoint ==
  /\ \A k \in DOMAIN map : ~InArray(k)
  /\ \A n \in 1 .. Len(array) : array[n] # Nil => n \in IntKeys

(* The inductive invariant of the proofs in HybridTableProofs.             *)
IInv == TypeOK /\ PartsDisjoint /\ LoopInv /\ GetnBorder
=============================================================================
