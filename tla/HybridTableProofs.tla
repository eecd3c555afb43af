------------------------- MODULE HybridTableProofs --------------------------
(***************************************************************************)
(* Proofs that getn of table.zig returns a border, for tables of every     *)
(* size with any holes, all keys and values, and any limit at which it     *)
(* changes to the linear search, and that next delivers every key of a     *)
(* table that has only integer keys and no nil entries, once.              *)
(***************************************************************************)
EXTENDS HybridTable, IndexLemmas, TLAPS

(* next returns a key of the table, or nil.                                *)
LEMMA NextKeyType ==
  ASSUME TypeOK, PartsDisjoint, NEW k \in Keys \cup {Nil}
  PROVE  NextKey(k) \in Keys \cup {Nil}
<1> DEFINE left == {n \in StartIndex(k) .. Len(array) : array[n] # Nil}
<1>0. Len(array) \in Nat /\ StartIndex(k) \in Nat \ {0}
  BY KeyAssumption DEF TypeOK, StartIndex
<1>1. CASE left # {}
  <2>1. left \in SUBSET Nat
    BY <1>0
  <2>2. \E n \in left : \A m \in left : n <= m
    BY <1>1, <2>1, LeastElement
  <2>3. (CHOOSE n \in left : \A m \in left : n <= m) \in left
    BY <2>2
  <2>4. \A n \in left : n \in IntKeys
    BY <1>0 DEF PartsDisjoint
  <2> QED BY <1>1, <2>3, <2>4 DEF NextKey, Keys
<1>2. CASE left = {}
  <2>1. Len(order) \in Nat /\ \A n \in 1 .. Len(order) : order[n] \in Keys
    BY DEF TypeOK
  <2> DEFINE at == {n \in 1 .. Len(order) : order[n] = k}
  <2>2. at # {} => (CHOOSE m \in at : TRUE) \in at
    OBVIOUS
  <2>3. AfterInMap(k) \in Keys \cup {Nil}
    <3>1. CASE at = {}
      BY <2>1, <3>1 DEF AfterInMap
    <3>2. CASE at # {}
      BY <2>1, <2>2, <3>2 DEF AfterInMap
    <3> QED BY <3>1, <3>2
  <2> QED BY <1>2, <2>3 DEF NextKey
<1> QED BY <1>1, <1>2

(* The keys beyond the array are in the map only, the others in the array. *)
LEMMA GetCases ==
  ASSUME NEW n \in Nat
  PROVE  /\ n \in 1 .. Len(array) => Get(n) = array[n]
         /\ n \notin 1 .. Len(array) => Get(n) = MapGet(n)
BY DEF Get, InArray

(* One assignment.                                                         *)
LEMMA AssignPreserves ==
  ASSUME IInv, NEW k \in Keys, NEW v \in Values, Assign(k, v)
  PROVE  IInv'
<1> USE DEF IInv
<1>1. pc' = "idle" /\ i' = 0 /\ j' = 0 /\ key' = Nil /\ todo' = {} /\ stray' = FALSE
  BY DEF Assign
<1>2. LoopInv' /\ GetnBorder'
  BY <1>1 DEF LoopInv, GetnBorder
<1>3. CASE InArray(k)
  <2>1. array' = [array EXCEPT ![k] = v] /\ UNCHANGED <<map, order>>
    BY <1>3 DEF Assign
  <2>2. array' \in Seq(Values) /\ Len(array') = Len(array)
    BY <1>3, <2>1 DEF TypeOK, InArray
  <2>3. k \in IntKeys
    BY <1>3, KeyAssumption DEF InArray, Keys
  <2>4. PartsDisjoint'
    BY <1>3, <2>1, <2>2, <2>3 DEF PartsDisjoint, InArray, TypeOK
  <2> QED BY <1>1, <1>2, <2>1, <2>2, <2>4 DEF TypeOK, Places
<1>4. CASE ~InArray(k)
  <2>1. /\ map' = [x \in DOMAIN map \cup {k} |-> IF x = k THEN v ELSE map[x]]
        /\ order' = IF k \in DOMAIN map THEN order ELSE Append(order, k)
        /\ UNCHANGED array
    BY <1>4 DEF Assign
  <2>2. DOMAIN map' = DOMAIN map \cup {k} /\ map' \in [DOMAIN map' -> Values]
    BY <2>1 DEF TypeOK
  <2>3. order' \in Seq(Keys)
    BY <2>1 DEF TypeOK
  <2>4. PartsDisjoint'
    BY <1>4, <2>1, <2>2 DEF PartsDisjoint, InArray
  <2> QED BY <1>1, <1>2, <2>1, <2>2, <2>3, <2>4 DEF TypeOK, Places
<1> QED BY <1>3, <1>4

(* The steps of getn leave the table alone: what is left to show is that   *)
(* its locals keep their meaning.                                          *)
LEMMA Frame ==
  ASSUME IInv, UNCHANGED <<contents, traversal>>, pc' \in Places,
         i' \in Nat, j' \in Nat, LoopInv', GetnBorder'
  PROVE  IInv'
BY DEF IInv, TypeOK, PartsDisjoint, InArray, contents, traversal

LEMMA GetnPreserves ==
  ASSUME IInv, Getn
  PROVE  IInv'
<1> USE DEF Getn, Return
<1>1. UNCHANGED <<contents, traversal>> /\ UNCHANGED array /\ UNCHANGED map
  BY DEF contents
<1>2. Len(array) \in Nat /\ i \in Nat /\ j \in Nat
  BY DEF IInv, TypeOK
<1>3. pc' \in Places /\ i' \in Nat /\ j' \in Nat
  BY <1>2 DEF Places
<1>4. \A n \in Nat : Get(n)' = Get(n)
  BY <1>1 DEF Get, InArray, MapGet
<1>5. Len(array) # 0 /\ array[Len(array)] # Nil => Get(Len(array)) # Nil
  BY <1>2, GetCases
<1>6. LoopInv'
  BY <1>1, <1>2, <1>3, <1>4, <1>5 DEF LoopInv
<1>7. GetnBorder'
  <2> SUFFICES ASSUME pc' = "returned" PROVE IsBorder(i)'
    BY DEF GetnBorder
  <2>1. DOMAIN map = {} /\ i' = Len(array) /\ ~(Len(array) > 0 /\ array[Len(array)] = Nil)
    OBVIOUS
  <2>2. Get(i' + 1) = Nil
    BY <1>2, <2>1, GetCases DEF MapGet
  <2> QED BY <1>2, <1>4, <1>5, <2>1, <2>2 DEF IsBorder
<1> QED BY <1>1, <1>3, <1>6, <1>7, Frame

LEMMA ArraySearchPreserves ==
  ASSUME IInv, ArraySearch
  PROVE  IInv'
<1> USE DEF ArraySearch, Return, Halve, Mid
<1>1. UNCHANGED <<contents, traversal>> /\ UNCHANGED array /\ UNCHANGED map
  BY DEF contents
<1>2. /\ Len(array) \in Nat /\ i \in Nat /\ j \in Nat
      /\ i < j /\ j <= Len(array) /\ array[j] = Nil /\ (i = 0 \/ array[i] # Nil)
  BY DEF IInv, TypeOK, LoopInv
<1>3. pc' \in Places /\ i' \in Nat /\ j' \in Nat
  BY <1>2 DEF Places
<1>4. \A n \in Nat : Get(n)' = Get(n)
  BY <1>1 DEF Get, InArray, MapGet
<1>5. CASE j - i > 1
  <2> DEFINE m == (i + j) \div 2
  <2>1. m \in Nat /\ i < m /\ m < j
    BY <1>2, <1>5
  <2>2. pc' = "array" /\ (\/ array[m] # Nil /\ i' = m /\ j' = j
                          \/ array[m] = Nil /\ i' = i /\ j' = m)
    BY <1>5
  <2> HIDE DEF m
  <2>3. LoopInv'
    BY <1>1, <1>2, <2>1, <2>2 DEF LoopInv
  <2>4. GetnBorder'
    BY <2>2 DEF GetnBorder
  <2> QED BY <1>1, <1>3, <2>3, <2>4, Frame
<1>6. CASE ~(j - i > 1)
  <2>1. pc' = "returned" /\ i' = i /\ j = i + 1
    BY <1>2, <1>6
  <2>2. Get(i + 1) = Nil /\ (i = 0 \/ Get(i) # Nil)
    BY <1>2, <2>1, GetCases
  <2>3. GetnBorder'
    BY <1>2, <1>4, <2>1, <2>2 DEF GetnBorder, IsBorder
  <2>4. LoopInv'
    BY <2>1 DEF LoopInv
  <2> QED BY <1>1, <1>3, <2>3, <2>4, Frame
<1> QED BY <1>5, <1>6

LEMMA DoublePreserves ==
  ASSUME IInv, Double
  PROVE  IInv'
<1> USE DEF Double
<1>1. UNCHANGED <<contents, traversal>> /\ UNCHANGED array /\ UNCHANGED map
  BY DEF contents
<1>2. /\ Len(array) \in Nat /\ i \in Nat /\ j \in Nat
      /\ Len(array) <= i /\ i < j /\ (i = 0 \/ Get(i) # Nil)
  BY DEF IInv, TypeOK, LoopInv
<1>3. pc' \in Places /\ i' \in Nat /\ j' \in Nat
  BY <1>2 DEF Places
<1>4. \A n \in Nat : Get(n)' = Get(n)
  BY <1>1 DEF Get, InArray, MapGet
<1>5. Get(j) = MapGet(j)
  BY <1>2, GetCases
<1>6. LoopInv'
  BY <1>1, <1>2, <1>3, <1>4, <1>5 DEF LoopInv
<1>7. GetnBorder'
  BY DEF GetnBorder
<1> QED BY <1>1, <1>3, <1>6, <1>7, Frame

LEMMA LinearPreserves ==
  ASSUME IInv, LinearSearch
  PROVE  IInv'
<1> USE DEF LinearSearch, Return
<1>1. UNCHANGED <<contents, traversal>> /\ UNCHANGED array /\ UNCHANGED map
  BY DEF contents
<1>2. i \in Nat /\ j \in Nat /\ i >= 1 /\ (i = 1 \/ Get(i - 1) # Nil)
  BY DEF IInv, TypeOK, LoopInv
<1>3. pc' \in Places /\ i' \in Nat /\ j' \in Nat
  BY <1>2 DEF Places
<1>4. \A n \in Nat : Get(n)' = Get(n)
  BY <1>1 DEF Get, InArray, MapGet
<1>5. CASE Get(i) # Nil
  <2>1. i' = i + 1 /\ pc' = "linear" /\ i' - 1 = i
    BY <1>2, <1>5
  <2>2. LoopInv'
    BY <1>2, <1>4, <1>5, <2>1 DEF LoopInv
  <2>3. GetnBorder'
    BY <2>1 DEF GetnBorder
  <2> QED BY <1>1, <1>3, <2>2, <2>3, Frame
<1>6. CASE Get(i) = Nil
  <2>1. i' = i - 1 /\ pc' = "returned" /\ i' + 1 = i /\ i' \in Nat
    BY <1>2, <1>6
  <2>2. IsBorder(i)'
    BY <1>2, <1>4, <1>6, <2>1 DEF IsBorder
  <2>3. LoopInv'
    BY <2>1 DEF LoopInv
  <2> QED BY <1>1, <1>3, <2>2, <2>3, Frame DEF GetnBorder
<1> QED BY <1>5, <1>6

LEMMA MapSearchPreserves ==
  ASSUME IInv, MapSearch
  PROVE  IInv'
<1> USE DEF MapSearch, Return, Halve, Mid
<1>1. UNCHANGED <<contents, traversal>> /\ UNCHANGED array /\ UNCHANGED map
  BY DEF contents
<1>2. /\ Len(array) \in Nat /\ i \in Nat /\ j \in Nat
      /\ Len(array) <= i /\ i < j /\ (i = 0 \/ Get(i) # Nil) /\ Get(j) = Nil
  BY DEF IInv, TypeOK, LoopInv
<1>3. pc' \in Places /\ i' \in Nat /\ j' \in Nat
  BY <1>2 DEF Places
<1>4. \A n \in Nat : Get(n)' = Get(n)
  BY <1>1 DEF Get, InArray, MapGet
<1>5. CASE j - i > 1
  <2> DEFINE m == (i + j) \div 2
  <2>1. m \in Nat /\ i < m /\ m < j
    BY <1>2, <1>5
  <2>2. pc' = "map" /\ (\/ MapGet(m) # Nil /\ i' = m /\ j' = j
                        \/ MapGet(m) = Nil /\ i' = i /\ j' = m)
    BY <1>5
  <2> HIDE DEF m
  <2>3. Get(m) = MapGet(m)
    BY <1>2, <2>1, GetCases
  <2>4. LoopInv'
    BY <1>1, <1>2, <1>4, <2>1, <2>2, <2>3 DEF LoopInv
  <2>5. GetnBorder'
    BY <2>2 DEF GetnBorder
  <2> QED BY <1>1, <1>3, <2>4, <2>5, Frame
<1>6. CASE ~(j - i > 1)
  <2>1. pc' = "returned" /\ i' = i /\ j = i + 1
    BY <1>2, <1>6
  <2>2. GetnBorder'
    BY <1>2, <1>4, <2>1 DEF GetnBorder, IsBorder
  <2>3. LoopInv'
    BY <2>1 DEF LoopInv
  <2> QED BY <1>1, <1>3, <2>2, <2>3, Frame
<1> QED BY <1>5, <1>6

(* A traversal does not touch the table or getn's locals.                  *)
LEMMA TraversalPreserves ==
  ASSUME IInv, Traverse \/ Step
  PROVE  IInv'
<1>1. UNCHANGED <<array, map, order, i, j>> /\ pc' \in {"traverse", "end"}
  BY DEF Traverse, Step, contents
<1>2. NextKey(key) \in Keys \cup {Nil}
  BY NextKeyType DEF IInv, TypeOK
<1>3. key' \in Keys \cup {Nil} /\ todo' \subseteq Keys /\ stray' \in BOOLEAN
  BY <1>2 DEF IInv, TypeOK, Traverse, Step, traversal
<1>4. TypeOK'
  BY <1>1, <1>3 DEF IInv, TypeOK, Places
<1>5. PartsDisjoint' /\ LoopInv' /\ GetnBorder'
  BY <1>1 DEF IInv, PartsDisjoint, InArray, LoopInv, GetnBorder
<1> QED BY <1>4, <1>5 DEF IInv

(* Every reachable state satisfies the loop invariant of getn.             *)
THEOREM Invariance == Spec => []IInv
<1>1. Init => IInv
  <2> SUFFICES ASSUME Init PROVE IInv
    OBVIOUS
  <2>1. PICK n \in ArraySizes : array = [m \in 1 .. n |-> Nil]
    BY DEF Init
  <2>2. n \in Nat
    BY SizeAssumption
  <2>3. array \in Seq(Values) /\ Len(array) = n /\ \A m \in 1 .. n : array[m] = Nil
    BY <2>1, <2>2 DEF Values
  <2>4. DOMAIN map = {} /\ map \in [DOMAIN map -> Values] /\ order \in Seq(Keys)
    BY DEF Init
  <2>5. TypeOK
    BY <2>3, <2>4 DEF Init, TypeOK, Places
  <2>6. PartsDisjoint /\ LoopInv /\ GetnBorder
    BY <2>3, <2>4 DEF Init, PartsDisjoint, LoopInv, GetnBorder
  <2> QED BY <2>5, <2>6 DEF IInv
<1>2. IInv /\ [Next]_vars => IInv'
  <2> SUFFICES ASSUME IInv, [Next]_vars PROVE IInv'
    OBVIOUS
  <2>1. CASE \E k \in Keys, v \in Values : Assign(k, v)
    BY <2>1, AssignPreserves
  <2>2. CASE Getn
    BY <2>2, GetnPreserves
  <2>3. CASE ArraySearch
    BY <2>3, ArraySearchPreserves
  <2>4. CASE Double
    BY <2>4, DoublePreserves
  <2>5. CASE LinearSearch
    BY <2>5, LinearPreserves
  <2>6. CASE MapSearch
    BY <2>6, MapSearchPreserves
  <2>7. CASE Traverse \/ Step
    BY <2>7, TraversalPreserves
  <2>8. CASE UNCHANGED vars
    BY <2>8 DEF vars, contents, traversal, IInv, TypeOK, PartsDisjoint,
                InArray, LoopInv, GetnBorder, IsBorder, Get, MapGet
  <2> QED BY <2>1, <2>2, <2>3, <2>4, <2>5, <2>6, <2>7, <2>8 DEF Next, Running
<1> QED BY <1>1, <1>2, PTL DEF Spec

(* getn of table.zig returns a border of the table, always.                *)
THEOREM GetnReturnsBorder == Spec => []GetnBorder
<1>1. IInv => GetnBorder
  BY DEF IInv
<1> QED BY <1>1, Invariance, PTL

-----------------------------------------------------------------------------
(* The traversal.                                                          *)

(* The slots list every key of the map once.                               *)
OrderListsMap ==
  /\ \A k \in DOMAIN map : \E n \in 1 .. Len(order) : order[n] = k
  /\ \A n \in 1 .. Len(order) : order[n] \in DOMAIN map
  /\ \A m, n \in 1 .. Len(order) : order[m] = order[n] => m = n

(* The tables that next can be trusted with.                               *)
Plain == DOMAIN map \subseteq IntKeys /\ NoNilEntries

(* What a traversal still owes after no key, a key of the array, a key of  *)
(* the map: all, the keys behind it and all of the map, the slots behind   *)
(* it.                                                                     *)
OwesAll == todo = {k \in Keys : Get(k) # Nil}
OwesFromArray ==
  \A k \in Keys : k \in todo <=> Get(k) # Nil /\ (InArray(k) => key < k)
OwesFromMap ==
  \E p \in 1 .. Len(order) :
    /\ order[p] = key
    /\ \A k \in Keys : k \in todo <=> \E m \in p + 1 .. Len(order) : order[m] = k

Owes ==
  /\ key = Nil => OwesAll
  /\ key # Nil /\ InArray(key) => OwesFromArray
  /\ key # Nil /\ ~InArray(key) => OwesFromMap

TravInv ==
  /\ OrderListsMap
  /\ Plain => /\ ~stray
              /\ pc = "traverse" => Owes
              /\ pc = "end" => todo = {}

(* An assignment leaves the slots alone or adds one for a new key.         *)
LEMMA AssignKeepsOrder ==
  ASSUME IInv, OrderListsMap, NEW k \in Keys, NEW v \in Values, Assign(k, v)
  PROVE  OrderListsMap'
<1>0. order \in Seq(Keys) /\ Len(order) \in Nat
  BY DEF IInv, TypeOK
<1>1. CASE InArray(k) \/ k \in DOMAIN map
  <2>1. UNCHANGED order /\ DOMAIN map' = DOMAIN map
    BY <1>1 DEF Assign
  <2> QED BY <2>1 DEF OrderListsMap
<1>2. CASE ~InArray(k) /\ k \notin DOMAIN map
  <2>1. DOMAIN map' = DOMAIN map \cup {k} /\ order' = Append(order, k)
    BY <1>2 DEF Assign
  <2>2. /\ Len(order') = Len(order) + 1 /\ order'[Len(order) + 1] = k
        /\ \A n \in 1 .. Len(order) : order'[n] = order[n]
    BY <1>0, <2>1
  <2>3. \A n \in 1 .. Len(order') : n \in 1 .. Len(order) \/ n = Len(order) + 1
    BY <1>0, <2>2
  <2>4. \A n \in 1 .. Len(order) : order[n] # k
    BY <1>2 DEF OrderListsMap
  <2>5. \A x \in DOMAIN map' : \E n \in 1 .. Len(order') : order'[n] = x
    <3> SUFFICES ASSUME NEW x \in DOMAIN map'
                 PROVE  \E n \in 1 .. Len(order') : order'[n] = x
      OBVIOUS
    <3>1. CASE x = k
      BY <1>0, <2>2, <3>1
    <3>2. CASE x \in DOMAIN map
      BY <1>0, <2>2, <3>2 DEF OrderListsMap
    <3> QED BY <2>1, <3>1, <3>2
  <2>6. \A n \in 1 .. Len(order') : order'[n] \in DOMAIN map'
    BY <2>1, <2>2, <2>3 DEF OrderListsMap
  <2>7. \A m, n \in 1 .. Len(order') : order'[m] = order'[n] => m = n
    BY <2>2, <2>3, <2>4 DEF OrderListsMap
  <2> QED BY <2>5, <2>6, <2>7 DEF OrderListsMap
<1> QED BY <1>1, <1>2

(* In a table without nil entries a key is present if its array element is *)
(* not nil or the map has it; the keys of the map lie beyond the array.    *)
LEMMA Present ==
  ASSUME IInv, NoNilEntries, NEW k \in Keys
  PROVE  /\ Get(k) # Nil <=> (InArray(k) /\ array[k] # Nil) \/ k \in DOMAIN map
         /\ InArray(k) => k \notin DOMAIN map
         /\ k \in DOMAIN map /\ k \in IntKeys => k \in Nat /\ Len(array) < k
<1>1. InArray(k) => k \notin DOMAIN map
  BY DEF IInv, PartsDisjoint
<1>2. k \in DOMAIN map => map[k] # Nil
  BY DEF NoNilEntries
<1>3. k \in DOMAIN map /\ k \in IntKeys => k \in Nat /\ Len(array) < k
  <2>1. Len(array) \in Nat /\ (k \in IntKeys => k \in Nat \ {0})
    BY KeyAssumption DEF IInv, TypeOK
  <2> QED BY <1>1, <2>1 DEF InArray
<1> QED BY <1>1, <1>2, <1>3 DEF Get, MapGet

(* The search of the array starts at a positive index.                     *)
LEMMA StartType ==
  ASSUME NEW k
  PROVE  StartIndex(k) \in Nat \ {0}
<1>1. k \in IntKeys => k \in Nat \ {0}
  BY KeyAssumption
<1>2. CASE k \in IntKeys
  BY <1>1, <1>2 DEF StartIndex
<1>3. CASE k \notin IntKeys
  BY <1>3 DEF StartIndex
<1> QED BY <1>2, <1>3

(* What next returns: the least array element left, or else the entry      *)
(* that follows in the map.                                                *)
LEMMA NextKeyCases ==
  ASSUME IInv, NEW k \in Keys \cup {Nil}
  PROVE  \/ /\ NextKey(k) \in StartIndex(k) .. Len(array)
            /\ array[NextKey(k)] # Nil
            /\ \A m \in StartIndex(k) .. Len(array) : array[m] # Nil => NextKey(k) <= m
         \/ /\ \A m \in StartIndex(k) .. Len(array) : array[m] = Nil
            /\ NextKey(k) = AfterInMap(k)
<1> DEFINE left == {n \in StartIndex(k) .. Len(array) : array[n] # Nil}
<1>0. Len(array) \in Nat /\ StartIndex(k) \in Nat \ {0}
  BY StartType DEF IInv, TypeOK
<1>1. CASE left # {}
  <2>0. left \in SUBSET Nat
    BY <1>0
  <2>1. \E n \in left : \A m \in left : n <= m
    BY <1>1, <2>0, LeastElement
  <2>2. NextKey(k) \in left /\ \A m \in left : NextKey(k) <= m
    BY <1>1, <2>1 DEF NextKey
  <2> QED BY <2>2
<1>2. CASE left = {}
  BY <1>2 DEF NextKey
<1> QED BY <1>1, <1>2

(* After no key or a key of the array the map is entered at its first      *)
(* slot; after a key of the map, at the slot behind it.                    *)
LEMMA AfterInMapCases ==
  ASSUME IInv, OrderListsMap, NEW k \in Keys \cup {Nil}
  PROVE  /\ k \notin DOMAIN map =>
              AfterInMap(k) = IF Len(order) = 0 THEN Nil ELSE order[1]
         /\ \A p \in 1 .. Len(order) : order[p] = k =>
              AfterInMap(k) = IF p = Len(order) THEN Nil ELSE order[p + 1]
<1> DEFINE at == {n \in 1 .. Len(order) : order[n] = k}
<1>0. Len(order) \in Nat
  BY DEF IInv, TypeOK
<1>1. ASSUME k \notin DOMAIN map
      PROVE  AfterInMap(k) = IF Len(order) = 0 THEN Nil ELSE order[1]
  <2>1. at = {}
    BY <1>1 DEF OrderListsMap
  <2> QED BY <1>0, <2>1 DEF AfterInMap
<1>2. ASSUME NEW p \in 1 .. Len(order), order[p] = k
      PROVE  AfterInMap(k) = IF p = Len(order) THEN Nil ELSE order[p + 1]
  <2>1. at = {p}
    BY <1>2 DEF OrderListsMap
  <2>2. at # {} /\ (CHOOSE m \in at : TRUE) = p
    BY <2>1
  <2>3. AfterInMap(k) = IF p + 1 <= Len(order) THEN order[p + 1] ELSE Nil
    BY <2>2 DEF AfterInMap
  <2> QED BY <1>0, <2>3
<1> QED BY <1>1, <1>2

(* The call of next that ends a traversal of a plain table: nothing is     *)
(* owed any more.                                                          *)
LEMMA LastStep ==
  ASSUME IInv, OrderListsMap, Plain, Owes, NextKey(key) = Nil
  PROVE  todo = {}
<1> USE KeyAssumption
<1>0. /\ key \in Keys \cup {Nil} /\ todo \subseteq Keys /\ Len(array) \in Nat
      /\ Nil \notin Keys /\ order \in Seq(Keys) /\ Len(order) \in Nat
  BY DEF IInv, TypeOK
<1>1. /\ \A m \in StartIndex(key) .. Len(array) : array[m] = Nil
      /\ AfterInMap(key) = Nil
  <2>1. StartIndex(key) \in Nat \ {0}
    BY StartType
  <2>2. \A m \in 1 .. Len(array) : array[m] # Nil => m \in Keys
    BY DEF IInv, PartsDisjoint, Keys
  <2>3. NextKey(key) \notin StartIndex(key) .. Len(array) \/ array[NextKey(key)] = Nil
    BY <1>0, <2>1, <2>2
  <2> QED BY <1>0, <2>3, NextKeyCases
<1>2. ASSUME key = Nil \/ InArray(key) PROVE todo = {}
  <2>1. key \notin DOMAIN map
    BY <1>0, <1>2, Present DEF IInv, TypeOK, Plain
  <2>2. Len(order) = 0
    <3>1. Len(order) # 0 => order[1] \in Keys
      BY <1>0
    <3> QED BY <1>0, <1>1, <2>1, <3>1, AfterInMapCases
  <2>3. \A k \in Keys : k \notin DOMAIN map
    <3>1. \A n \in Int : n \notin 1 .. 0
      OBVIOUS
    <3> QED BY <2>2, <3>1 DEF OrderListsMap
  <2>4. ASSUME NEW k \in todo PROVE FALSE
    <3>0. k \in Keys
      BY <1>0
    <3>1. CASE key = Nil
      <4>1. Get(k) # Nil /\ StartIndex(key) = 1
        BY <1>0, <2>4, <3>1 DEF Owes, OwesAll, StartIndex, Keys
      <4>2. InArray(k) /\ array[k] # Nil
        BY <2>3, <3>0, <4>1, Present DEF Plain
      <4> QED BY <1>1, <4>1, <4>2 DEF InArray
    <3>2. CASE key # Nil /\ InArray(key)
      <4>1. Get(k) # Nil /\ (InArray(k) => key < k)
        BY <1>0, <2>4, <3>0, <3>2 DEF Owes, OwesFromArray
      <4>2. InArray(k) /\ array[k] # Nil /\ key < k
        BY <2>3, <3>0, <4>1, Present DEF Plain
      <4>3. StartIndex(key) = key + 1 /\ key \in Nat
        BY <1>0, <3>2 DEF InArray, StartIndex, Keys
      <4> QED BY <1>0, <1>1, <4>2, <4>3 DEF InArray
    <3> QED BY <1>2, <3>1, <3>2
  <2> QED BY <2>4
<1>3. ASSUME key # Nil, ~InArray(key) PROVE todo = {}
  <2>1. PICK p \in 1 .. Len(order) :
          /\ order[p] = key
          /\ \A k \in Keys : k \in todo <=> \E m \in p + 1 .. Len(order) : order[m] = k
    BY <1>3 DEF Owes, OwesFromMap
  <2>2. p = Len(order)
    <3>1. p # Len(order) => order[p + 1] \in Keys
      BY <1>0
    <3> QED BY <1>0, <1>1, <2>1, <3>1, AfterInMapCases
  <2>3. \A m \in Int : m \notin Len(order) + 1 .. Len(order)
    BY <1>0
  <2>4. \A k \in Keys : k \notin todo
    BY <1>0, <2>1, <2>2, <2>3
  <2> QED BY <1>0, <2>4
<1> QED BY <1>2, <1>3

(* A last key beyond the array is a key of the map.                        *)
LEMMA KeyInMap ==
  ASSUME OrderListsMap, Owes, key # Nil, ~InArray(key)
  PROVE  key \in DOMAIN map
BY DEF Owes, OwesFromMap, OrderListsMap

(* A call of next that finds an array element: it is the least one owed.   *)
LEMMA StepInArray ==
  ASSUME IInv, OrderListsMap, Plain, Owes, Step,
         NextKey(key) \in StartIndex(key) .. Len(array),
         array[NextKey(key)] # Nil,
         \A m \in StartIndex(key) .. Len(array) : array[m] # Nil => NextKey(key) <= m
  PROVE  NextKey(key) # Nil /\ NextKey(key) \in todo /\ Owes'
<1> USE KeyAssumption
<1> DEFINE n == NextKey(key)
<1>0. /\ key \in Keys \cup {Nil} /\ todo \subseteq Keys /\ Len(array) \in Nat
      /\ Nil \notin Keys
  BY DEF IInv, TypeOK
<1>1. StartIndex(key) \in Nat \ {0}
  BY StartType
<1>2. n \in 1 .. Len(array) /\ n \in IntKeys /\ n \in Keys /\ n # Nil /\ InArray(n)
  BY <1>0, <1>1 DEF IInv, PartsDisjoint, Keys, InArray
<1>3. UNCHANGED <<array, map, order>> /\ key' = n /\ todo' = todo \ {n}
  BY <1>2 DEF Step, contents
<1> HIDE DEF n
<1>4. \A k \in Keys : (Get(k)' = Get(k)) /\ (InArray(k)' <=> InArray(k))
  BY <1>3 DEF Get, MapGet, InArray
<1>5. InArray(key)' /\ key' # Nil
  BY <1>2, <1>3 DEF InArray
<1>6. \A k \in Keys : k \in todo <=>
         Get(k) # Nil /\ (InArray(k) => k >= StartIndex(key))
  <2>1. CASE key = Nil
    <3>1. OwesAll /\ StartIndex(key) = 1
      BY <1>0, <2>1 DEF Owes, StartIndex, Keys
    <3>2. \A k \in Keys : InArray(k) => k >= 1
      BY DEF InArray
    <3> QED BY <3>1, <3>2 DEF OwesAll
  <2>2. CASE key # Nil /\ InArray(key)
    <3>1. OwesFromArray /\ StartIndex(key) = key + 1 /\ key \in Nat
      BY <1>0, <2>2 DEF Owes, StartIndex, InArray, Keys
    <3>2. \A k \in Keys : InArray(k) => (key < k <=> k >= key + 1)
      BY <3>1 DEF InArray
    <3> QED BY <3>1, <3>2 DEF OwesFromArray
  <2>3. CASE key # Nil /\ ~InArray(key)
    <3>1. key \in Keys /\ key \in DOMAIN map
      BY <1>0, <2>3, KeyInMap
    <3>2. key \in IntKeys /\ key \in Nat /\ Len(array) < key
      BY <3>1, Present DEF Plain
    <3>3. StartIndex(key) = key + 1
      BY <3>2 DEF StartIndex
    <3> QED BY <1>0, <3>2, <3>3
  <2> QED BY <2>1, <2>2, <2>3
<1>7. n \in todo
  <2>1. Get(n) # Nil
    BY <1>2, Present DEF n, Plain
  <2> QED BY <1>2, <1>6, <2>1 DEF n
<1>8. \A k \in Keys : k \in todo' <=> Get(k)' # Nil /\ (InArray(k)' => key' < k)
  <2> SUFFICES ASSUME NEW k \in Keys
               PROVE  k \in todo /\ k # n <=> Get(k) # Nil /\ (InArray(k) => n < k)
    BY <1>3, <1>4
  <2>1. CASE InArray(k) /\ Get(k) # Nil
    <3>1. k \in 1 .. Len(array) /\ array[k] # Nil
      BY <2>1, Present DEF InArray, Plain
    <3>2. k >= StartIndex(key) => n <= k
      BY <1>1, <3>1 DEF n
    <3>3. n >= StartIndex(key)
      BY <1>1 DEF n
    <3> QED BY <1>1, <1>2, <1>6, <2>1, <3>1, <3>2, <3>3
  <2>2. CASE ~InArray(k) /\ Get(k) # Nil
    BY <1>2, <1>6, <2>2
  <2>3. CASE Get(k) = Nil
    BY <1>6, <2>3
  <2> QED BY <2>1, <2>2, <2>3
<1>9. OwesFromArray'
  BY <1>8 DEF OwesFromArray
<1> QED BY <1>2, <1>5, <1>7, <1>9 DEF Owes, n

(* A call of next that finds an entry of the map: the array is exhausted,  *)
(* and the entry is in the first slot that is owed.                        *)
LEMMA StepInMap ==
  ASSUME IInv, OrderListsMap, Plain, Owes, Step, NextKey(key) # Nil,
         \A m \in StartIndex(key) .. Len(array) : array[m] = Nil,
         NextKey(key) = AfterInMap(key)
  PROVE  NextKey(key) \in todo /\ Owes'
<1> USE KeyAssumption
<1> DEFINE n == NextKey(key)
<1>0. /\ key \in Keys \cup {Nil} /\ todo \subseteq Keys /\ Len(array) \in Nat
      /\ Nil \notin Keys /\ order \in Seq(Keys) /\ Len(order) \in Nat
  BY DEF IInv, TypeOK
<1>1. \A k \in Keys : k \in DOMAIN map <=> \E m \in 1 .. Len(order) : order[m] = k
  BY <1>0 DEF OrderListsMap
<1>2. PICK q \in 1 .. Len(order) :
        /\ n = order[q]
        /\ \A k \in Keys : k \in todo <=> \E m \in q .. Len(order) : order[m] = k
  <2>1. CASE key = Nil \/ InArray(key)
    <3>1. key \notin DOMAIN map
      BY <1>0, <2>1, Present DEF IInv, TypeOK, Plain
    <3>2. n = order[1] /\ 1 \in 1 .. Len(order)
      BY <1>0, <3>1, AfterInMapCases
    <3>3. \A k \in Keys : k \in todo <=> k \in DOMAIN map
      <4>1. CASE key = Nil
        <5>1. OwesAll /\ StartIndex(key) = 1
          BY <1>0, <4>1 DEF Owes, StartIndex, Keys
        <5> QED BY <5>1, Present DEF OwesAll, InArray, Plain
      <4>2. CASE key # Nil /\ InArray(key)
        <5>1. OwesFromArray /\ StartIndex(key) = key + 1 /\ key \in Nat
          BY <1>0, <4>2 DEF Owes, StartIndex, InArray, Keys
        <5>2. \A k \in Keys : InArray(k) /\ key < k => array[k] = Nil
          BY <1>0, <5>1 DEF InArray
        <5> QED BY <5>1, <5>2, Present DEF OwesFromArray, Plain
      <4> QED BY <2>1, <4>1, <4>2
    <3> QED BY <1>1, <3>2, <3>3
  <2>2. CASE key # Nil /\ ~InArray(key)
    <3>1. PICK p \in 1 .. Len(order) :
            /\ order[p] = key
            /\ \A k \in Keys : k \in todo <=> \E m \in p + 1 .. Len(order) : order[m] = k
      BY <2>2 DEF Owes, OwesFromMap
    <3>2. p # Len(order) /\ n = order[p + 1]
      BY <1>0, <3>1, AfterInMapCases
    <3> QED BY <1>0, <3>1, <3>2
  <2> QED BY <2>1, <2>2
<1>3. n \in Keys /\ n # Nil /\ n \in todo
  BY <1>0, <1>2
<1>4. UNCHANGED <<array, map, order>> /\ key' = n /\ todo' = todo \ {n}
  BY <1>3 DEF Step, contents
<1> HIDE DEF n
<1>5. ~InArray(key)' /\ key' # Nil
  <2>1. n \in DOMAIN map
    BY <1>1, <1>2, <1>3
  <2>2. ~InArray(n)
    BY <1>3, <2>1, Present DEF Plain
  <2> QED BY <1>3, <1>4, <2>2 DEF InArray
<1>6. ASSUME NEW k \in Keys
      PROVE  k \in todo /\ k # n <=> \E m \in q + 1 .. Len(order) : order[m] = k
  <2>1. \A m \in 1 .. Len(order) : order[m] = n => m = q
    BY <1>2 DEF OrderListsMap
  <2>2. ASSUME k \in todo, k # n PROVE \E m \in q + 1 .. Len(order) : order[m] = k
    <3>1. PICK m \in q .. Len(order) : order[m] = k
      BY <1>2, <2>2
    <3>2. m # q
      BY <1>2, <2>2, <3>1
    <3> QED BY <1>0, <3>1, <3>2
  <2>3. ASSUME NEW m \in q + 1 .. Len(order), order[m] = k PROVE k \in todo /\ k # n
    <3>1. m \in q .. Len(order) /\ m \in 1 .. Len(order) /\ m # q
      BY <1>0
    <3> QED BY <1>2, <2>1, <2>3, <3>1
  <2> QED BY <2>2, <2>3
<1>7. OwesFromMap'
  BY <1>2, <1>4, <1>6 DEF OwesFromMap
<1> QED BY <1>3, <1>5, <1>7 DEF Owes, n

(* Every call of next keeps what is owed exact.                            *)
LEMMA StepKeeps ==
  ASSUME IInv, TravInv, Step
  PROVE  TravInv'
<1>0. pc = "traverse" /\ UNCHANGED <<array, map, order>> /\ key \in Keys \cup {Nil}
  BY DEF Step, contents, IInv, TypeOK
<1>1. OrderListsMap' /\ (Plain' <=> Plain)
  BY <1>0 DEF TravInv, OrderListsMap, Plain, NoNilEntries
<1>2. SUFFICES ASSUME Plain
               PROVE  ~stray' /\ (pc' = "traverse" => Owes') /\ (pc' = "end" => todo' = {})
  BY <1>1 DEF TravInv
<1>3. OrderListsMap /\ Owes /\ ~stray
  BY <1>0, <1>2 DEF TravInv
<1>4. CASE NextKey(key) = Nil
  <2>1. todo = {}
    BY <1>2, <1>3, <1>4, LastStep
  <2> QED BY <1>3, <1>4, <2>1 DEF Step, traversal
<1>5. CASE NextKey(key) # Nil
  <2>1. NextKey(key) \in todo /\ Owes'
    BY <1>0, <1>2, <1>3, <1>5, NextKeyCases, StepInArray, StepInMap
  <2> QED BY <1>0, <1>3, <1>5, <2>1 DEF Step
<1> QED BY <1>4, <1>5

(* The steps of getn, and the first call of next.                          *)
LEMMA OthersKeep ==
  ASSUME IInv, TravInv, Getn \/ ArraySearch \/ Double \/ LinearSearch \/ MapSearch \/ Traverse
  PROVE  TravInv'
<1>0. UNCHANGED <<array, map, order>>
  BY DEF Getn, ArraySearch, Double, LinearSearch, MapSearch, Traverse, contents
<1>1. OrderListsMap' /\ (Plain' <=> Plain)
  BY <1>0 DEF TravInv, OrderListsMap, Plain, NoNilEntries
<1>2. CASE Traverse
  <2>1. \A k \in Keys : Get(k)' = Get(k)
    BY <1>0 DEF Get, MapGet, InArray
  <2>2. pc' = "traverse" /\ key' = Nil /\ ~stray' /\ OwesAll'
    BY <1>2, <2>1 DEF Traverse, OwesAll
  <2> QED BY <1>1, <2>2 DEF TravInv, Owes
<1>3. CASE Getn \/ ArraySearch \/ Double \/ LinearSearch \/ MapSearch
  <2>1. pc' \notin {"traverse", "end"} /\ UNCHANGED stray
    BY <1>3 DEF Getn, ArraySearch, Double, LinearSearch, MapSearch, Halve, Return, traversal
  <2> QED BY <1>1, <2>1 DEF TravInv
<1> QED BY <1>2, <1>3

(* next of table.zig delivers every key of every table whose keys are all  *)
(* integers and were never assigned nil, once each, and nothing else.      *)
THEOREM IntegerTraversalExact == Spec => []IntegerTraversal
<1>1. Init => TravInv
  <2> SUFFICES ASSUME Init PROVE TravInv
    OBVIOUS
  <2>1. DOMAIN map = {} /\ Len(order) = 0 /\ pc = "idle" /\ ~stray
    BY DEF Init
  <2> QED BY <2>1 DEF TravInv, OrderListsMap
<1>2. IInv /\ TravInv /\ [Next]_vars => TravInv'
  <2> SUFFICES ASSUME IInv, TravInv, [Next]_vars PROVE TravInv'
    OBVIOUS
  <2>1. CASE \E k \in Keys, v \in Values : Assign(k, v)
    <3>1. PICK k \in Keys, v \in Values : Assign(k, v)
      BY <2>1
    <3>2. OrderListsMap'
      BY <3>1, AssignKeepsOrder DEF TravInv
    <3> QED BY <3>1, <3>2 DEF Assign, TravInv
  <2>2. CASE Getn \/ ArraySearch \/ Double \/ LinearSearch \/ MapSearch \/ Traverse
    BY <2>2, OthersKeep
  <2>3. CASE Step
    BY <2>3, StepKeeps
  <2>4. CASE UNCHANGED vars
    BY <2>4 DEF vars, contents, traversal, TravInv, OrderListsMap, Plain, NoNilEntries,
                Owes, OwesAll, OwesFromArray, OwesFromMap, Get, MapGet, InArray
  <2> QED BY <2>1, <2>2, <2>3, <2>4 DEF Next, Running
<1>3. TravInv => IntegerTraversal
  BY DEF TravInv, IntegerTraversal, Plain
<1> QED BY <1>1, <1>2, <1>3, Invariance, PTL DEF Spec
=============================================================================
