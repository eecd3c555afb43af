------------------------- MODULE ObjectTableProofs --------------------------
(***************************************************************************)
(* Proofs about the table of object.zig for every array limit, every set   *)
(* of keys and values: it keeps its two parts apart, it implements the map *)
(* that LuaMap describes, set stores exactly what it is given, length is a *)
(* border unless the key just above the limit is in use, and a traversal   *)
(* delivers no key twice and misses none that it can reach.                *)
(***************************************************************************)
EXTENDS ObjectTable, IndexLemmas, FiniteSetTheorems, TLAPS

(* The order of a map's slots is a sequence of keys.                       *)
LEMMA ListingIsSeq ==
  ASSUME NEW S \in SUBSET Keys, IsFiniteSet(S), NEW f \in Listings(S)
  PROVE  f \in Seq(Keys)
<1>1. Cardinality(S) \in Nat
  BY FS_CardinalityType
<1> QED BY <1>1 DEF Listings

(* next returns a key of the table, or nil.                                *)
LEMMA NextKeyType ==
  ASSUME TypeOK, PartsDisjoint, NEW k \in Keys \cup {Nil}
  PROVE  NextKey(k) \in Keys \cup {Nil}
<1> DEFINE left == {i \in StartIndex(k) .. Len(array) : array[i] # Nil}
<1>0. Len(array) \in Nat /\ StartIndex(k) \in Nat \ {0}
  BY KeyAssumption DEF TypeOK, StartIndex, InArray, Keys
<1>1. CASE left # {}
  <2>1. left \in SUBSET Nat
    BY <1>0
  <2>2. \E i \in left : \A m \in left : i <= m
    BY <1>1, <2>1, LeastElement
  <2>3. (CHOOSE i \in left : \A m \in left : i <= m) \in left
    BY <2>2
  <2>4. \A i \in left : i \in IntKeys
    BY <1>0 DEF PartsDisjoint
  <2> QED BY <1>1, <2>3, <2>4 DEF NextKey, Keys
<1>2. CASE left = {}
  <2>1. \A i \in 1 .. Len(order) : order[i] \in Keys
    BY DEF TypeOK
  <2>2. Len(order) \in Nat /\ order # <<>> => Len(order) >= 1
    BY DEF TypeOK
  <2>3. AfterInMap(k) \in Keys \cup {Nil}
    <3> DEFINE at == {i \in 1 .. Len(order) - 1 : order[i] = k}
    <3>1. CASE k = Nil
      BY <3>1, <2>1, <2>2 DEF AfterInMap, TypeOK
    <3>2. CASE k # Nil /\ at = {}
      BY <3>2 DEF AfterInMap
    <3>3. CASE k # Nil /\ at # {}
      <4>1. (CHOOSE i \in at : TRUE) \in at
        BY <3>3
      <4>2. order[(CHOOSE i \in at : TRUE) + 1] \in Keys
        BY <4>1, <2>1, <2>2 DEF TypeOK
      <4> QED BY <3>3, <4>2 DEF AfterInMap
    <3> QED BY <3>1, <3>2, <3>3
  <2> QED BY <1>2, <2>3 DEF NextKey
<1> QED BY <1>1, <1>2

-----------------------------------------------------------------------------
(* The invariant.                                                          *)

Inv == TypeOK /\ PartsDisjoint

(* set keeps the parts typed and apart, whichever part the key goes to.    *)
LEMMA SetPreserves ==
  ASSUME Inv, NEW k \in Keys, NEW v \in Values, Set(k, v)
  PROVE  /\ array' \in Seq(Values)
         /\ map' \in [DOMAIN map' -> Values]
         /\ DOMAIN map' \subseteq Keys /\ IsFiniteSet(DOMAIN map')
         /\ order' \in Seq(Keys)
         /\ PartsDisjoint'
<1> USE LimitAssumption, KeyAssumption DEF Inv, TypeOK, PartsDisjoint
<1>1. CASE SetArray(k, v)
  <2> DEFINE n == IF Len(array) < k THEN k ELSE Len(array)
  <2>0. n \in Nat /\ Len(array) \in Nat /\ \A i \in 1 .. Len(array) : array[i] \in Values
    BY <1>1 DEF SetArray
  <2>1. array' \in Seq(Values) /\ Len(array') = n
    <3>1. array' = [i \in 1 .. n |-> IF i = k THEN v
                                    ELSE IF i <= Len(array) THEN array[i] ELSE Nil]
      BY <1>1 DEF SetArray
    <3>2. array' \in [1 .. n -> Values]
      BY <3>1, <2>0 DEF Values
    <3> HIDE DEF n
    <3> QED BY <2>0, <3>2
  <2>2. \A i \in 1 .. Len(array') : array'[i] # Nil => i \in IntKeys
    BY <1>1, <2>1 DEF SetArray
  <2>3. Len(array') <= ArrayLimit
    BY <1>1, <2>1 DEF SetArray
  <2> QED BY <1>1, <2>1, <2>2, <2>3 DEF SetArray
<1>2. CASE SetMap(k, v) /\ v = Nil
  <2>1. MapRemove(k) /\ UNCHANGED array
    BY <1>2 DEF SetMap
  <2>2. DOMAIN map' = DOMAIN map \ {k} /\ \A x \in DOMAIN map' : map'[x] = map[x]
    BY <2>1 DEF MapRemove
  <2>3. IsFiniteSet(DOMAIN map')
    BY <2>2, FS_RemoveElement
  <2>4. order' \in Seq(Keys)
    BY <2>1, <2>2, <2>3, ListingIsSeq DEF MapRemove
  <2>5. map' \in [DOMAIN map' -> Values]
    BY <2>1, <2>2 DEF MapRemove
  <2> QED BY <2>1, <2>2, <2>3, <2>4, <2>5
<1>3. CASE SetMap(k, v) /\ v # Nil
  <2>1. MapPut(k, v) /\ UNCHANGED array /\ ~(k \in IntKeys /\ k <= ArrayLimit)
    BY <1>3 DEF SetMap
  <2>2. /\ DOMAIN map' = DOMAIN map \cup {k}
        /\ \A x \in DOMAIN map' : map'[x] = IF x = k THEN v ELSE map[x]
    BY <2>1 DEF MapPut
  <2>3. IsFiniteSet(DOMAIN map')
    BY <2>2, FS_AddElement
  <2>4. order' \in Seq(Keys)
    BY <2>1, <2>2, <2>3, ListingIsSeq DEF MapPut
  <2>5. map' \in [DOMAIN map' -> Values]
    BY <2>1, <2>2 DEF MapPut
  <2> QED BY <1>3, <2>1, <2>2, <2>3, <2>4, <2>5
<1> QED BY <1>1, <1>2, <1>3 DEF Set

(* Every reachable table keeps its two parts apart and free of leftovers.  *)
THEOREM Invariance == Spec => []Inv
<1>1. Init => Inv
  <2> SUFFICES ASSUME Init PROVE Inv
    OBVIOUS
  <2>1. DOMAIN map = {} /\ IsFiniteSet(DOMAIN map) /\ map \in [DOMAIN map -> Values]
    BY FS_EmptySet DEF Init
  <2>2. array \in Seq(Values) /\ order \in Seq(Keys)
    BY DEF Init
  <2>3. TypeOK
    BY <2>1, <2>2 DEF Init, TypeOK
  <2>4. PartsDisjoint
    BY LimitAssumption DEF Init, PartsDisjoint
  <2> QED BY <2>3, <2>4 DEF Inv
<1>2. Inv /\ [Next]_vars => Inv'
  <2> SUFFICES ASSUME Inv, [Next]_vars PROVE Inv'
    OBVIOUS
  <2>1. CASE \E k \in Keys, v \in Values : Assignment(k, v)
    <3>1. PICK k \in Keys, v \in Values : Assignment(k, v)
      BY <2>1
    <3>2. Set(k, v)
      BY <3>1 DEF Assignment
    <3> QED BY <3>1, <3>2, SetPreserves DEF Assignment, Inv, TypeOK
  <2>2. CASE Traverse
    BY <2>2 DEF Traverse, Inv, TypeOK, PartsDisjoint, contents
  <2>3. CASE ClearField
    <3>1. key \in Keys /\ Nil \in Values /\ Set(key, Nil)
      BY <2>3 DEF ClearField, Inv, TypeOK, Values
    <3> QED BY <2>3, <3>1, SetPreserves DEF ClearField, loopVars, Inv, TypeOK
  <2>4. CASE Step
    <3>1. NextKey(key) \in Keys \cup {Nil}
      BY NextKeyType DEF Inv, TypeOK
    <3> QED BY <2>4, <3>1 DEF Step, Inv, TypeOK, PartsDisjoint, contents
  <2>5. CASE UNCHANGED vars
    BY <2>5 DEF vars, contents, loopVars, Inv, TypeOK, PartsDisjoint
  <2> QED BY <2>1, <2>2, <2>3, <2>4, <2>5 DEF Next
<1> QED BY <1>1, <1>2, PTL DEF Spec

-----------------------------------------------------------------------------
(* The refinement.                                                         *)

(* Whatever the representation does, set(k, v) is the assignment of v to k *)
(* in the map that get shows.                                              *)
LEMMA SetIsAssign ==
  ASSUME Inv, NEW k \in Keys, NEW v \in Values, Set(k, v)
  PROVE  Abstract!Assign(k, v)
<1> USE LimitAssumption, KeyAssumption
<1> SUFFICES ASSUME NEW x \in Keys
             PROVE  Get(x)' = IF x = k THEN v ELSE Get(x)
  BY DEF Abstract!Assign
<1>0. Len(array) \in Nat /\ Len(array) <= ArrayLimit
  BY DEF Inv, TypeOK, PartsDisjoint
<1>1. CASE SetArray(k, v)
  <2>1. /\ k \in IntKeys /\ k <= ArrayLimit /\ UNCHANGED map
        /\ Len(array') = IF Len(array) < k THEN k ELSE Len(array)
        /\ \A i \in 1 .. Len(array') : array'[i] =
              IF i = k THEN v ELSE IF i <= Len(array) THEN array[i] ELSE Nil
    BY <1>0, <1>1 DEF SetArray
  <2>2. k \notin DOMAIN map
    BY <2>1 DEF Inv, PartsDisjoint
  <2>3. CASE x = k
    BY <1>0, <2>1, <2>2, <2>3 DEF Get, MapGet, InArray
  <2>4. CASE x # k /\ x \in IntKeys
    BY <1>0, <2>1, <2>4 DEF Get, MapGet, InArray
  <2>5. CASE x \notin IntKeys
    BY <2>1, <2>5 DEF Get, MapGet, InArray
  <2> QED BY <2>3, <2>4, <2>5
<1>2. CASE SetMap(k, v)
  <2>1. UNCHANGED array /\ ~(k \in IntKeys /\ k <= ArrayLimit)
    BY <1>2 DEF SetMap
  <2>2. ~InArray(k)
    <3>1. k \in IntKeys => k \in Nat
      OBVIOUS
    <3> QED BY <1>0, <2>1, <3>1, LimitAssumption DEF InArray
  <2>3. MapGet(x)' = IF x = k THEN v ELSE MapGet(x)
    <3>1. CASE v = Nil
      BY <1>2, <3>1 DEF SetMap, MapRemove, MapGet
    <3>2. CASE v # Nil
      BY <1>2, <3>2 DEF SetMap, MapPut, MapGet
    <3> QED BY <3>1, <3>2
  <2> QED BY <2>1, <2>2, <2>3 DEF Get, InArray
<1> QED BY <1>1, <1>2 DEF Set

(* A table step that is not a set shows the same map.                      *)
LEMMA SameContent ==
  ASSUME UNCHANGED contents
  PROVE  UNCHANGED [k \in Keys |-> Get(k)]
BY DEF contents, Get, MapGet, InArray

(* The table of object.zig implements a Lua map.                           *)
THEOREM Refinement == Spec => ImplementsMap
<1>1. Init => Abstract!Init
  <2> SUFFICES ASSUME Init, NEW k \in Keys PROVE Get(k) = Nil
    BY DEF Abstract!Init
  <2>1. Len(array) = 0 /\ (k \in IntKeys => k \in Nat \ {0})
    BY KeyAssumption DEF Init
  <2>2. ~InArray(k)
    BY <2>1 DEF InArray
  <2> QED BY <2>2 DEF Init, Get, MapGet
<1>2. Inv /\ [Next]_vars => [Abstract!Next]_([k \in Keys |-> Get(k)])
  <2> SUFFICES ASSUME Inv, [Next]_vars
               PROVE  [Abstract!Next]_([k \in Keys |-> Get(k)])
    OBVIOUS
  <2>1. CASE \E k \in Keys, v \in Values : Assignment(k, v)
    <3>1. PICK k \in Keys, v \in Values : Assignment(k, v)
      BY <2>1
    <3>2. Abstract!Assign(k, v)
      BY <3>1, SetIsAssign DEF Assignment
    <3> QED BY <3>2 DEF Abstract!Next, Values
  <2>2. CASE ClearField
    <3>1. key \in Keys /\ Nil \in Values
      BY <2>2 DEF ClearField, Inv, TypeOK, Values
    <3>2. Abstract!Assign(key, Nil)
      BY <2>2, <3>1, SetIsAssign DEF ClearField
    <3> QED BY <3>1, <3>2 DEF Abstract!Next, Values
  <2>3. CASE Traverse \/ Step \/ UNCHANGED vars
    BY <2>3, SameContent DEF Traverse, Step, vars
  <2> QED BY <2>1, <2>2, <2>3 DEF Next
<1> QED BY <1>1, <1>2, Invariance, PTL DEF Spec, ImplementsMap, Abstract!Spec

(* set(k, v) makes get(k) return v and changes no other key.               *)
THEOREM SetStoresExactly == Spec => SetStores
<1>1. Inv => \A k \in Keys, v \in Values : Assignment(k, v) => Abstract!Assign(k, v)
  BY SetIsAssign DEF Assignment
<1>2. Inv /\ [Next]_vars =>
        [\A k \in Keys, v \in Values : Assignment(k, v) => Abstract!Assign(k, v)]_vars
  BY <1>1
<1> QED BY <1>2, Invariance, PTL DEF Spec, SetStores

-----------------------------------------------------------------------------
(* The length.                                                             *)

(* length returns a border of every table that does not use the key just   *)
(* above the array limit.                                                  *)
THEOREM LengthIsBorder == Spec => []LengthBorderInArray
<1>1. Inv => LengthBorderInArray
  <2> SUFFICES ASSUME Inv, (ArrayLimit + 1) \notin DOMAIN map
               PROVE  IsBorder(Length)
    BY DEF LengthBorderInArray
  <2> DEFINE full == {i \in 1 .. Len(array) : array[i] # Nil}
  <2>0. /\ Len(array) \in Nat /\ Len(array) <= ArrayLimit /\ ArrayLimit \in Nat
        /\ \A k \in DOMAIN map : ~(k \in IntKeys /\ k <= ArrayLimit)
    BY LimitAssumption DEF Inv, TypeOK, PartsDisjoint
  <2>1. /\ Length \in 0 .. Len(array)
        /\ Length # 0 => array[Length] # Nil
        /\ \A i \in Length + 1 .. Len(array) : array[i] = Nil
    <3>1. CASE full = {}
      BY <2>0, <3>1 DEF Length
    <3>2. CASE full # {}
      <4>1. \E i \in full : \A m \in full : m <= i
        BY <2>0, <3>2, GreatestElement
      <4>2. Length \in full /\ \A m \in full : m <= Length
        BY <3>2, <4>1 DEF Length
      <4> QED BY <2>0, <4>2
    <3> QED BY <3>1, <3>2
  <2>2. Length # 0 => (Length \in Keys => Get(Length) # Nil)
    <3>1. Length # 0 => Length \in IntKeys
      BY <2>0, <2>1 DEF Inv, PartsDisjoint
    <3> QED BY <2>0, <2>1, <3>1 DEF Get, InArray
  <2>3. Length + 1 \in Keys => Get(Length + 1) = Nil
    <3> SUFFICES ASSUME Length + 1 \in Keys PROVE Get(Length + 1) = Nil
      OBVIOUS
    <3>1. Length + 1 \in IntKeys /\ Length + 1 <= ArrayLimit + 1
      BY <2>0, <2>1, KeyAssumption DEF Keys
    <3>2. Length + 1 \notin DOMAIN map
      BY <2>0, <2>1, <3>1
    <3> QED BY <2>0, <2>1, <3>1, <3>2 DEF Get, MapGet, InArray
  <2> QED BY <2>2, <2>3 DEF IsBorder
<1> QED BY <1>1, Invariance, PTL

-----------------------------------------------------------------------------
(* The traversal.                                                          *)

(* The slots list every key of the map once.                               *)
OrderListsMap ==
  /\ \A k \in DOMAIN map : \E i \in 1 .. Len(order) : order[i] = k
  /\ \A i \in 1 .. Len(order) : order[i] \in DOMAIN map
  /\ \A i, j \in 1 .. Len(order) : order[i] = order[j] => i = j

(* The keys of the array part, whether or not the array reaches them.      *)
Low(k) == k \in IntKeys /\ k <= ArrayLimit

(* What a running traversal still owes, by where its last key lives: with  *)
(* none delivered, every key present; at a key of the array, the present   *)
(* keys that are not at or before it; at a key of the map, the keys in the *)
(* slots behind it, unless its user has cleared it - then only that        *)
(* nothing of the array is owed.                                           *)
OwesAll == todo = {k \in Keys : Get(k) # Nil}
OwesFromArray ==
  \A k \in Keys : k \in todo <=> Get(k) # Nil /\ (InArray(k) => key < k)
OwesFromMap ==
  /\ \A i \in 1 .. Len(array) : array[i] = Nil
  /\ \A k \in todo : ~Low(k)
  /\ \A p \in 1 .. Len(order) : order[p] = key =>
       \A k \in Keys : k \in todo <=> \E j \in p + 1 .. Len(order) : order[j] = k

TravInv ==
  /\ OrderListsMap
  /\ ~repeated
  /\ loop = "running" /\ key = Nil => OwesAll
  /\ loop = "running" /\ key # Nil /\ InArray(key) => OwesFromArray
  /\ loop = "running" /\ key # Nil /\ ~InArray(key) => OwesFromMap
  /\ loop = "done" => TraversalOnce

(* A listing of a finite set has no repetition: it is as long as the set.  *)
LEMMA ListingListsOnce ==
  ASSUME NEW S \in SUBSET Keys, IsFiniteSet(S), NEW f \in Listings(S)
  PROVE  /\ Len(f) = Cardinality(S) /\ Len(f) \in Nat
         /\ \A k \in S : \E i \in 1 .. Len(f) : f[i] = k
         /\ \A i \in 1 .. Len(f) : f[i] \in S
         /\ \A i, j \in 1 .. Len(f) : f[i] = f[j] => i = j
<1> DEFINE n == Cardinality(S)
<1>1. n \in Nat
  BY FS_CardinalityType
<1>2. IsFiniteSet(1 .. n) /\ Cardinality(1 .. n) = n
  BY <1>1, FS_Interval
<1>3. f \in [1 .. n -> S] /\ \A x \in S : \E i \in 1 .. n : f[i] = x
  BY DEF Listings
<1>4. f \in Surjection(1 .. n, S)
  BY <1>3 DEF Surjection
<1>5. f \in Injection(1 .. n, S)
  BY <1>2, <1>4, FS_SurjSameCardinalityImpliesInj
<1>6. \A i, j \in 1 .. n : f[i] = f[j] => i = j
  BY <1>5 DEF Injection, IsInjective
<1>7. Len(f) = n
  <2> HIDE DEF n
  <2> QED BY <1>1, <1>3
<1> QED BY <1>1, <1>3, <1>6, <1>7

(* set keeps the slots a listing of the map.                               *)
LEMMA SetKeepsOrder ==
  ASSUME Inv, OrderListsMap, NEW k \in Keys, NEW v \in Values, Set(k, v)
  PROVE  OrderListsMap'
<1>0. DOMAIN map' \in SUBSET Keys /\ IsFiniteSet(DOMAIN map')
  BY SetPreserves
<1>1. CASE SetArray(k, v) \/ (SetMap(k, v) /\ v # Nil /\ k \in DOMAIN map)
  <2>1. UNCHANGED order /\ DOMAIN map' = DOMAIN map
    BY <1>1 DEF SetArray, SetMap, MapPut
  <2> QED BY <2>1 DEF OrderListsMap
<1>2. CASE SetMap(k, v) /\ ~(v # Nil /\ k \in DOMAIN map)
  <2>1. order' \in Listings(DOMAIN map')
    BY <1>2 DEF SetMap, MapPut, MapRemove
  <2> QED BY <1>0, <2>1, ListingListsOnce DEF OrderListsMap
<1> QED BY <1>1, <1>2 DEF Set

(* A map without slots is empty.                                           *)
LEMMA NoSlots ==
  ASSUME OrderListsMap, order = <<>>
  PROVE  DOMAIN map = {}
<1>1. Len(order) = 0 /\ \A i \in Int : i \notin 1 .. 0
  OBVIOUS
<1>2. ASSUME NEW k \in DOMAIN map PROVE FALSE
  <2>1. PICK i \in 1 .. Len(order) : order[i] = k
    BY DEF OrderListsMap
  <2> QED BY <1>1, <2>1
<1> QED BY <1>2

(* A key is present if its array element is not nil or the map has it.     *)
LEMMA Present ==
  ASSUME Inv, NEW k \in Keys
  PROVE  /\ Get(k) # Nil <=> (InArray(k) /\ array[k] # Nil) \/ k \in DOMAIN map
         /\ InArray(k) => Low(k) /\ k \in 1 .. Len(array) /\ k \notin DOMAIN map
         /\ Low(k) => k \notin DOMAIN map
<1> USE LimitAssumption, KeyAssumption
<1>1. Len(array) \in Nat /\ Len(array) <= ArrayLimit
  BY DEF Inv, TypeOK, PartsDisjoint
<1>2. InArray(k) => Low(k) /\ k \in 1 .. Len(array)
  BY <1>1 DEF InArray, Low
<1>3. Low(k) => k \notin DOMAIN map
  BY DEF Inv, PartsDisjoint, Low
<1>4. k \in DOMAIN map => map[k] # Nil
  BY DEF Inv, PartsDisjoint
<1> QED BY <1>2, <1>3, <1>4 DEF Get, MapGet

(* What next returns: an array element at or above the start, the least,   *)
(* or else, when none is left, the entry that follows in the map.          *)
LEMMA NextKeyCases ==
  ASSUME Inv, NEW k \in Keys \cup {Nil}
  PROVE  \/ /\ NextKey(k) \in StartIndex(k) .. Len(array)
            /\ array[NextKey(k)] # Nil
            /\ \A m \in StartIndex(k) .. Len(array) : array[m] # Nil => NextKey(k) <= m
         \/ /\ \A m \in StartIndex(k) .. Len(array) : array[m] = Nil
            /\ NextKey(k) = AfterInMap(k)
<1> DEFINE left == {i \in StartIndex(k) .. Len(array) : array[i] # Nil}
<1>0. Len(array) \in Nat /\ StartIndex(k) \in Nat \ {0}
  BY KeyAssumption DEF Inv, TypeOK, StartIndex, InArray, Keys
<1>1. CASE left # {}
  <2>0. left \in SUBSET Nat
    BY <1>0
  <2>1. \E i \in left : \A m \in left : i <= m
    BY <1>1, <2>0, LeastElement
  <2>2. NextKey(k) \in left /\ \A m \in left : NextKey(k) <= m
    BY <1>1, <2>1 DEF NextKey
  <2> QED BY <2>2
<1>2. CASE left = {}
  BY <1>2 DEF NextKey
<1> QED BY <1>1, <1>2

(* A traversal begins owing every key that is present.                     *)
LEMMA TraverseKeeps ==
  ASSUME Inv, TravInv, Traverse
  PROVE  TravInv'
<1>1. UNCHANGED <<array, map, order>> /\ loop' = "running" /\ key' = Nil /\ ~repeated'
  BY DEF Traverse, contents
<1>2. OrderListsMap'
  BY <1>1 DEF TravInv, OrderListsMap
<1>3. \A k \in Keys : Get(k)' = Get(k)
  BY <1>1 DEF Get, MapGet, InArray
<1>4. OwesAll'
  BY <1>3 DEF Traverse, OwesAll
<1> QED BY <1>1, <1>2, <1>4 DEF TravInv

(* To clear the field that was delivered last takes nothing from what is   *)
(* owed.                                                                   *)
LEMMA ClearFieldKeeps ==
  ASSUME Inv, TravInv, ClearField
  PROVE  TravInv'
<1> USE LimitAssumption, KeyAssumption
<1>0. /\ key \in Keys /\ key # Nil /\ Nil \in Values /\ Set(key, Nil) /\ Get(key) # Nil
      /\ loop = "running" /\ UNCHANGED <<loop, key, todo, repeated>>
  BY DEF ClearField, loopVars, Inv, TypeOK, Values
<1>1. OrderListsMap'
  BY <1>0, SetKeepsOrder DEF TravInv
<1>2. Abstract!Assign(key, Nil)
  BY <1>0, SetIsAssign
<1>3. \A k \in Keys : Get(k)' = IF k = key THEN Nil ELSE Get(k)
  BY <1>2 DEF Abstract!Assign
<1>4. CASE InArray(key)
  <2>1. Len(array) \in Nat /\ key \in Nat /\ key \in 1 .. Len(array) /\ Low(key)
    BY <1>0, <1>4, Present DEF Inv, TypeOK
  <2>2. SetArray(key, Nil)
    BY <1>0, <2>1 DEF Set, SetMap, Low
  <2>3. Len(array') = Len(array)
    BY <2>1, <2>2 DEF SetArray
  <2>4. \A k \in Keys : InArray(k)' <=> InArray(k)
    BY <2>3 DEF InArray
  <2>5. InArray(key)'
    BY <1>0, <1>4, <2>3 DEF InArray
  <2>6. OwesFromArray
    BY <1>0, <1>4 DEF TravInv
  <2>7. OwesFromArray'
    BY <1>0, <1>3, <1>4, <2>1, <2>4, <2>6 DEF OwesFromArray
  <2> QED BY <1>0, <1>1, <2>5, <2>7 DEF TravInv
<1>5. CASE ~InArray(key)
  <2>1. key \in DOMAIN map /\ ~Low(key)
    BY <1>0, <1>5, Present
  <2>2. MapRemove(key) /\ UNCHANGED array
    BY <1>0, <2>1 DEF Set, SetMap, SetArray, Low
  <2>3. key \notin DOMAIN map'
    BY <2>2 DEF MapRemove
  <2>4. \A p \in 1 .. Len(order') : order'[p] # key
    BY <1>1, <2>3 DEF OrderListsMap
  <2>5. OwesFromMap
    BY <1>0, <1>5 DEF TravInv
  <2>6. OwesFromMap'
    BY <1>0, <2>2, <2>4, <2>5 DEF OwesFromMap, Low
  <2>7. ~InArray(key)'
    BY <1>0, <1>5, <2>2 DEF InArray
  <2> QED BY <1>0, <1>1, <2>6, <2>7 DEF TravInv
<1> QED BY <1>4, <1>5

(* The call of next that ends the traversal: nothing of the array is owed, *)
(* and nothing at all unless both parts were in use.                       *)
LEMMA LastStep ==
  ASSUME Inv, TravInv, loop = "running", NextKey(key) = Nil
  PROVE  /\ \A k \in todo : ~Low(k)
         /\ ~Mixed /\ (key # Nil => Get(key) # Nil) => todo = {}
<1> USE LimitAssumption, KeyAssumption
<1>0. /\ key \in Keys \cup {Nil} /\ todo \subseteq Keys /\ Len(array) \in Nat
      /\ Nil \notin Keys /\ OrderListsMap /\ Len(order) \in Nat /\ order \in Seq(Keys)
  BY DEF Inv, TypeOK, TravInv
<1>1. /\ \A m \in StartIndex(key) .. Len(array) : array[m] = Nil
      /\ AfterInMap(key) = Nil
  <2>1. StartIndex(key) \in Nat \ {0}
    BY <1>0 DEF StartIndex, InArray, Keys
  <2>2. NextKey(key) \notin StartIndex(key) .. Len(array) \/ array[NextKey(key)] = Nil
    <3>1. \A m \in 1 .. Len(array) : array[m] # Nil => m \in Keys
      BY DEF Inv, PartsDisjoint, Keys
    <3> QED BY <1>0, <2>1, <3>1
  <2> QED BY <1>0, <2>2, NextKeyCases
<1>2. CASE key = Nil
  <2>1. OwesAll /\ StartIndex(key) = 1
    BY <1>2 DEF TravInv, StartIndex
  <2>2. order = <<>>
    <3>1. order # <<>> => order[1] \in Keys
      BY <1>0
    <3> QED BY <1>0, <1>1, <1>2, <3>1 DEF AfterInMap
  <2>3. DOMAIN map = {}
    BY <1>0, <2>2, NoSlots
  <2>4. todo = {}
    BY <1>0, <1>1, <2>1, <2>3, Present DEF OwesAll
  <2> QED BY <2>4
<1>3. CASE key # Nil /\ InArray(key)
  <2>1. OwesFromArray /\ StartIndex(key) = key + 1 /\ key \in 1 .. Len(array)
    BY <1>0, <1>3, Present DEF TravInv, StartIndex
  <2>2. \A k \in todo : k \in DOMAIN map
    <3> SUFFICES ASSUME NEW k \in todo, k \notin DOMAIN map PROVE FALSE
      OBVIOUS
    <3>1. k \in Keys /\ Get(k) # Nil /\ (InArray(k) => key < k)
      BY <1>0, <2>1 DEF OwesFromArray
    <3>2. InArray(k) /\ array[k] # Nil /\ k \in 1 .. Len(array)
      BY <3>1, Present
    <3> QED BY <1>1, <2>1, <3>1, <3>2
  <2>3. \A k \in todo : ~Low(k)
    BY <1>0, <2>2, Present
  <2>4. ~Mixed /\ Get(key) # Nil => DOMAIN map = {}
    <3>1. Get(key) # Nil => array[key] # Nil
      BY <1>0, <1>3, Present
    <3>2. order = <<>> => DOMAIN map = {}
      BY <1>0, NoSlots
    <3> QED BY <2>1, <3>1, <3>2 DEF Mixed
  <2> QED BY <1>3, <2>2, <2>3, <2>4
<1>4. CASE key # Nil /\ ~InArray(key)
  <2>1. OwesFromMap
    BY <1>4 DEF TravInv
  <2>2. ASSUME Get(key) # Nil PROVE todo = {}
    <3>1. key \in DOMAIN map
      BY <1>0, <1>4, <2>2, Present
    <3>2. PICK p \in 1 .. Len(order) : order[p] = key
      BY <1>0, <3>1 DEF OrderListsMap
    <3>3. p = Len(order)
      <4> SUFFICES ASSUME p \in 1 .. Len(order) - 1 PROVE FALSE
        BY <1>0
      <4> DEFINE at == {i \in 1 .. Len(order) - 1 : order[i] = key}
      <4>1. at # {}
        BY <3>2
      <4>2. (CHOOSE i \in at : TRUE) \in at
        BY <4>1
      <4>3. order[(CHOOSE i \in at : TRUE) + 1] \in Keys
        BY <1>0, <4>2
      <4> QED BY <1>0, <1>1, <1>4, <4>1, <4>3 DEF AfterInMap
    <3>4. \A k \in Keys : k \notin todo
      BY <1>0, <2>1, <3>2, <3>3 DEF OwesFromMap
    <3> QED BY <1>0, <3>4
  <2> QED BY <1>4, <2>1, <2>2 DEF OwesFromMap
<1> QED BY <1>0, <1>2, <1>3, <1>4

(* The call of next that finds an array element: it is the least one owed. *)
LEMMA StepInArray ==
  ASSUME Inv, TravInv, loop = "running", Step,
         NextKey(key) \in StartIndex(key) .. Len(array),
         array[NextKey(key)] # Nil,
         \A m \in StartIndex(key) .. Len(array) : array[m] # Nil => NextKey(key) <= m
  PROVE  TravInv'
<1> USE LimitAssumption, KeyAssumption
<1> DEFINE n == NextKey(key)
<1>0. /\ key \in Keys \cup {Nil} /\ todo \subseteq Keys /\ Len(array) \in Nat
      /\ Nil \notin Keys
  BY DEF Inv, TypeOK
<1>1. StartIndex(key) \in Nat \ {0}
  BY <1>0 DEF StartIndex, InArray, Keys
<1>2. n \in 1 .. Len(array) /\ n \in IntKeys /\ n \in Keys /\ n # Nil /\ InArray(n)
  BY <1>0, <1>1 DEF Inv, PartsDisjoint, Keys, InArray
<1>3. /\ UNCHANGED <<array, map, order>> /\ loop' = "running" /\ key' = n
      /\ todo' = todo \ {n} /\ repeated' = (repeated \/ n \notin todo)
  BY <1>2 DEF Step, contents
<1> HIDE DEF n
<1>4. \A k \in Keys : (Get(k)' = Get(k)) /\ (InArray(k)' <=> InArray(k))
  BY <1>3 DEF Get, MapGet, InArray
<1>5. OrderListsMap'
  BY <1>3 DEF TravInv, OrderListsMap
<1>6. InArray(key)' /\ key' # Nil
  BY <1>2, <1>3 DEF InArray
<1>7. \A k \in Keys : k \in todo <=>
         Get(k) # Nil /\ (InArray(k) => k >= StartIndex(key))
  <2>1. CASE key = Nil
    <3>1. OwesAll /\ StartIndex(key) = 1
      BY <2>1 DEF TravInv, StartIndex
    <3>2. \A k \in Keys : InArray(k) => k >= 1
      BY DEF InArray
    <3> QED BY <3>1, <3>2 DEF OwesAll
  <2>2. CASE key # Nil /\ InArray(key)
    <3>1. OwesFromArray /\ StartIndex(key) = key + 1 /\ key \in Nat
      BY <2>2 DEF TravInv, StartIndex, InArray
    <3>2. \A k \in Keys : InArray(k) => (key < k <=> k >= key + 1)
      BY <3>1 DEF InArray
    <3> QED BY <3>1, <3>2 DEF OwesFromArray
  <2>3. CASE key # Nil /\ ~InArray(key)
    BY <1>0, <1>2, <2>3 DEF TravInv, OwesFromMap, n
  <2> QED BY <2>1, <2>2, <2>3
<1>8. n \in todo
  <2>1. Get(n) # Nil
    BY <1>2, Present DEF n
  <2> QED BY <1>2, <1>7, <2>1 DEF n
<1>9. \A k \in Keys : k \in todo' <=> Get(k)' # Nil /\ (InArray(k)' => key' < k)
  <2> SUFFICES ASSUME NEW k \in Keys
               PROVE  k \in todo /\ k # n <=> Get(k) # Nil /\ (InArray(k) => n < k)
    BY <1>3, <1>4
  <2>1. CASE InArray(k) /\ Get(k) # Nil
    <3>1. k \in 1 .. Len(array) /\ array[k] # Nil
      BY <2>1, Present
    <3>2. k >= StartIndex(key) => n <= k
      BY <1>1, <3>1 DEF n
    <3>3. n >= StartIndex(key)
      BY <1>1 DEF n
    <3> QED BY <1>1, <1>2, <1>7, <2>1, <3>1, <3>2, <3>3
  <2>2. CASE ~InArray(k) /\ Get(k) # Nil
    BY <1>2, <1>7, <2>2
  <2>3. CASE Get(k) = Nil
    BY <1>7, <2>3
  <2> QED BY <2>1, <2>2, <2>3
<1>10. OwesFromArray'
  BY <1>9 DEF OwesFromArray
<1>11. ~repeated'
  BY <1>3, <1>8 DEF TravInv
<1> QED BY <1>3, <1>5, <1>6, <1>10, <1>11 DEF TravInv

(* The call of next that finds an entry of the map: the array is exhausted *)
(* and was empty, and the entry is the first slot that is owed.            *)
LEMMA StepInMap ==
  ASSUME Inv, TravInv, loop = "running", Step, NextKey(key) # Nil,
         \A m \in StartIndex(key) .. Len(array) : array[m] = Nil,
         NextKey(key) = AfterInMap(key)
  PROVE  TravInv'
<1> USE LimitAssumption, KeyAssumption
<1> DEFINE n == NextKey(key)
<1>0. /\ key \in Keys \cup {Nil} /\ todo \subseteq Keys /\ Len(array) \in Nat
      /\ Nil \notin Keys /\ OrderListsMap /\ Len(order) \in Nat /\ order \in Seq(Keys)
  BY DEF Inv, TypeOK, TravInv
<1>1. \A k \in Keys : k \in DOMAIN map <=> \E j \in 1 .. Len(order) : order[j] = k
  BY <1>0 DEF OrderListsMap
<1>2. PICK q \in 1 .. Len(order) :
        /\ n = order[q]
        /\ \A m \in 1 .. Len(array) : array[m] = Nil
        /\ \A k \in todo : ~Low(k)
        /\ \A k \in Keys : k \in todo <=> \E j \in q .. Len(order) : order[j] = k
  <2>1. CASE key = Nil
    <3>1. OwesAll /\ StartIndex(key) = 1
      BY <2>1 DEF TravInv, StartIndex
    <3>2. order # <<>> /\ n = order[1] /\ 1 \in 1 .. Len(order)
      BY <1>0, <2>1 DEF AfterInMap
    <3>3. \A k \in Keys : k \in todo <=> k \in DOMAIN map
      BY <1>0, <3>1, Present DEF OwesAll
    <3>4. \A k \in todo : ~Low(k)
      BY <1>0, <3>3, Present
    <3> QED BY <1>1, <3>1, <3>2, <3>3, <3>4
  <2>2. CASE key # Nil
    <3> DEFINE at == {i \in 1 .. Len(order) - 1 : order[i] = key}
    <3>1. at # {} /\ n = order[(CHOOSE i \in at : TRUE) + 1]
      BY <2>2 DEF AfterInMap
    <3>2. PICK p \in at : n = order[p + 1]
      BY <3>1
    <3>3. p \in 1 .. Len(order) /\ p + 1 \in 1 .. Len(order) /\ order[p] = key
      BY <1>0, <3>2
    <3>4. key \in DOMAIN map
      BY <1>0, <2>2, <3>3 DEF OrderListsMap
    <3>5. ~InArray(key)
      BY <1>0, <2>2, <3>4, Present
    <3>6. OwesFromMap
      BY <2>2, <3>5 DEF TravInv
    <3> QED BY <3>2, <3>3, <3>6 DEF OwesFromMap
  <2> QED BY <2>1, <2>2
<1>3. n \in Keys /\ n # Nil /\ n \in todo
  BY <1>0, <1>2
<1>4. /\ UNCHANGED <<array, map, order>> /\ loop' = "running" /\ key' = n
      /\ todo' = todo \ {n} /\ repeated' = (repeated \/ n \notin todo)
  BY <1>3 DEF Step, contents
<1> HIDE DEF n
<1>5. OrderListsMap'
  BY <1>0, <1>4 DEF OrderListsMap
<1>6. ~InArray(key)' /\ key' # Nil
  <2>1. n \in DOMAIN map
    BY <1>1, <1>2, <1>3
  <2>2. ~InArray(n)
    BY <1>3, <2>1, Present
  <2> QED BY <1>3, <1>4, <2>2 DEF InArray
<1>7. ASSUME NEW p \in 1 .. Len(order), order[p] = n, NEW k \in Keys
      PROVE  k \in todo /\ k # n <=> \E j \in p + 1 .. Len(order) : order[j] = k
  <2>1. p = q
    BY <1>0, <1>2, <1>7 DEF OrderListsMap
  <2>2. \A j \in 1 .. Len(order) : order[j] = n => j = q
    BY <1>0, <1>2 DEF OrderListsMap
  <2>3. ASSUME k \in todo, k # n PROVE \E j \in p + 1 .. Len(order) : order[j] = k
    <3>1. PICK j \in q .. Len(order) : order[j] = k
      BY <1>2, <2>3
    <3>2. j # q
      BY <1>2, <2>3, <3>1
    <3> QED BY <1>0, <2>1, <3>1, <3>2
  <2>4. ASSUME NEW j \in p + 1 .. Len(order), order[j] = k PROVE k \in todo /\ k # n
    <3>1. j \in q .. Len(order) /\ j \in 1 .. Len(order) /\ j # q
      BY <1>0, <2>1
    <3> QED BY <1>2, <2>2, <2>4, <3>1
  <2> QED BY <2>3, <2>4
<1>8. OwesFromMap'
  BY <1>2, <1>4, <1>7 DEF OwesFromMap, Low
<1>9. ~repeated'
  BY <1>3, <1>4 DEF TravInv
<1> QED BY <1>4, <1>5, <1>6, <1>8, <1>9 DEF TravInv

(* Every call of next keeps what is owed exact.                            *)
LEMMA StepKeeps ==
  ASSUME Inv, TravInv, Step
  PROVE  TravInv'
<1>0. loop = "running" /\ UNCHANGED <<array, map, order>> /\ key \in Keys \cup {Nil}
  BY DEF Step, contents, Inv, TypeOK
<1>1. CASE NextKey(key) = Nil
  <2>1. loop' = "done" /\ UNCHANGED <<key, todo, repeated>>
    BY <1>1 DEF Step
  <2>2. /\ \A k \in todo : ~Low(k)
        /\ ~Mixed /\ (key # Nil => Get(key) # Nil) => todo = {}
    BY <1>0, <1>1, LastStep
  <2>3. (Mixed' <=> Mixed) /\ Get(key)' = Get(key)
    BY <1>0, <2>1 DEF Mixed, Get, MapGet, InArray
  <2>4. ~repeated' /\ OrderListsMap'
    BY <1>0, <2>1 DEF TravInv, OrderListsMap
  <2>5. TraversalOnce'
    BY <2>1, <2>2, <2>3, <2>4 DEF TraversalOnce, Low
  <2> QED BY <2>1, <2>4, <2>5 DEF TravInv
<1>2. CASE NextKey(key) # Nil
  BY <1>0, <1>2, NextKeyCases, StepInArray, StepInMap
<1> QED BY <1>1, <1>2

(* Every traversal, however its user clears fields on the way, delivers    *)
(* only keys that were present when it began, each once, and when it ends  *)
(* it has delivered the whole array - and the map too, if the array was    *)
(* empty and the last key is still there.                                  *)
THEOREM TraversalAlwaysOnce == Spec => []TraversalOnce
<1>1. Init => TravInv
  BY DEF Init, TravInv, OrderListsMap
<1>2. Inv /\ TravInv /\ [Next]_vars => TravInv'
  <2> SUFFICES ASSUME Inv, TravInv, [Next]_vars PROVE TravInv'
    OBVIOUS
  <2>1. CASE \E k \in Keys, v \in Values : Assignment(k, v)
    <3>1. PICK k \in Keys, v \in Values : Assignment(k, v)
      BY <2>1
    <3>2. OrderListsMap'
      BY <3>1, SetKeepsOrder DEF Assignment, TravInv
    <3> QED BY <3>1, <3>2 DEF Assignment, TravInv
  <2>2. CASE Traverse
    BY <2>2, TraverseKeeps
  <2>3. CASE ClearField
    BY <2>3, ClearFieldKeeps
  <2>4. CASE Step
    BY <2>4, StepKeeps
  <2>5. CASE UNCHANGED vars
    BY <2>5 DEF vars, contents, loopVars, TravInv, OrderListsMap, OwesAll,
                OwesFromArray, OwesFromMap, TraversalOnce, Mixed, Get, MapGet, InArray
  <2> QED BY <2>1, <2>2, <2>3, <2>4, <2>5 DEF Next
<1>3. TravInv => TraversalOnce
  <2> SUFFICES ASSUME TravInv PROVE TraversalOnce
    OBVIOUS
  <2>1. ~repeated /\ (loop = "done" => TraversalOnce)
    BY DEF TravInv
  <2> QED BY <2>1 DEF TraversalOnce
<1> QED BY <1>1, <1>2, <1>3, Invariance, PTL DEF Spec
=============================================================================
