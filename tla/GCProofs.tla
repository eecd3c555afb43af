------------------------------ MODULE GCProofs ------------------------------
(***************************************************************************)
(* Proofs about the collector, for every set of objects and every graph.   *)
(***************************************************************************)
EXTENDS GC, FiniteSetTheorems, TLAPS

(* Every list of objects is finite, so Cardinality counts it. *)
LEMMA ListFinite == ASSUME TypeOK PROVE IsFiniteSet(objects)
  BY ObjectsAssumption, FS_Subset DEF TypeOK

(* addObject's num_objects += 1 matches the longer list. *)
LEMMA CountAdd ==
  ASSUME TypeOK, ListAccounting, NEW o \in Objects, o \notin objects
  PROVE  num_objects + 1 = Cardinality(objects \cup {o})
  BY ListFinite, FS_AddElement DEF ListAccounting

(* sweep's num_objects -= 1 matches the shorter list, and never underflows. *)
LEMMA CountRemove ==
  ASSUME TypeOK, ListAccounting, NEW o \in objects
  PROVE  /\ num_objects - 1 = Cardinality(objects \ {o})
         /\ num_objects - 1 \in Nat
<1>1. IsFiniteSet(objects) BY ListFinite
<1>2. /\ IsFiniteSet(objects \ {o})
      /\ Cardinality(objects \ {o}) = Cardinality(objects) - 1
  BY <1>1, FS_RemoveElement
<1>3. Cardinality(objects \ {o}) \in Nat BY <1>2, FS_CardinalityType
<1>4. num_objects = Cardinality(objects) BY DEF ListAccounting
<1> QED BY <1>2, <1>3, <1>4

(* The adjusted threshold is a number that the survivors do not exceed. *)
LEMMA ThresholdCovers ==
  ASSUME NEW n \in Nat, NEW k \in Nat
  PROVE  NewThreshold(n, k) \in Nat /\ NewThreshold(n, k) >= n
<1>0. MinThreshold \in Nat BY BoundAssumption
<1>1. CASE n = 0 BY <1>0, <1>1 DEF NewThreshold
<1>2. CASE n # 0
  <2> DEFINE num == 3 * n * (n + 2 * k)
             den == 2 * (n + k)
  <2>1. num \in Nat /\ den \in Nat /\ den > 0 BY <1>2
  <2>2. num >= n * den
    <3>1. num = 3 * (n * n) + 6 * (n * k) OBVIOUS
    <3>2. n * den = 2 * (n * n) + 2 * (n * k) OBVIOUS
    <3>3. n * n \in Nat /\ n * k \in Nat OBVIOUS
    <3> HIDE DEF num, den
    <3>4. QED BY <3>1, <3>2, <3>3
  <2>3. ASSUME NEW a \in Nat, NEW d \in Nat, d > 0, a >= n * d
        PROVE  a \div d \in Nat /\ a \div d >= n
    <3>1. PICK q \in Int, m \in 0 .. (d - 1) : a = q * d + m /\ q = a \div d
      BY <2>3
    <3>2. q >= n
      <4>1. SUFFICES ASSUME q < n PROVE FALSE BY <3>1
      <4>2. (q + 1) * d <= n * d BY <4>1, <3>1, <2>3
      <4>3. (q + 1) * d = q * d + d BY <3>1
      <4>4. n * d \in Int /\ q * d \in Int BY <3>1
      <4> QED BY <4>2, <4>3, <4>4, <3>1, <2>3
    <3> QED BY <3>1, <3>2
  <2> HIDE DEF num, den
  <2>4. num \div den \in Nat /\ num \div den >= n BY <2>1, <2>2, <2>3
  <2>5. NewThreshold(n, k) = IF num \div den < MinThreshold
                               THEN MinThreshold ELSE num \div den
    BY <1>2 DEF NewThreshold, num, den
  <2> QED BY <2>4, <2>5, <1>0
<1> QED BY <1>1, <1>2

-----------------------------------------------------------------------------
(* The initial state. *)
LEMMA InitIInv == Init => IInv
<1> SUFFICES ASSUME Init PROVE IInv OBVIOUS
<1>1. TypeOK BY BoundAssumption DEF Init, TypeOK, Unset, Phases
<1>2. ListAccounting BY FS_EmptySet DEF Init, ListAccounting
<1>3. StageInv /\ RefsInv /\ FreshInv /\ MarkInv /\ SweepInv
  BY DEF Init, Unset, StageInv, RefsInv, FreshInv, MarkInv, SweepInv, Marking,
         Sweeping
<1> QED BY <1>1, <1>2, <1>3 DEF IInv

(* One markObject call keeps the tri-colour closure of MarkInv. *)
LEMMA MarkObjectIInv ==
  ASSUME IInv, NEW o \in Objects, MarkObject(o)
  PROVE  IInv'
<1> USE DEF IInv, Children
<1>1. TypeOK' BY DEF TypeOK, MarkObject, heapVars, statVars
<1>2. ListAccounting' BY DEF ListAccounting, MarkObject, heapVars
<1>3. Marking /\ ~Sweeping /\ Marking' /\ ~Sweeping'
  BY DEF MarkObject, Marking, Sweeping
<1>4. StageInv'
  BY <1>3 DEF StageInv, MarkObject, heapVars, statVars, Marking, Sweeping
<1>5. RefsInv' BY <1>3 DEF RefsInv, MarkObject, heapVars
<1>6. o \in objects BY <1>3 DEF MarkInv, MarkObject
<1>7. FreshInv'
  <2>1. roots.set => o \notin fresh BY DEF FreshInv, MarkObject
  <2>2. roots.set => refs[o] \cap fresh = {} BY <1>6, <2>1 DEF FreshInv
  <2> QED BY <2>1, <2>2 DEF FreshInv, MarkObject, heapVars
<1>8. MarkInv'
  <2>1. RootSet' = RootSet /\ refs' = refs /\ objects' = objects
    BY DEF RootSet, MarkObject, heapVars
  <2>2. \A S : PointsInto(S)' <=> PointsInto(S) BY <2>1 DEF PointsInto
  <2>3. refs[o] \subseteq objects
    <3>1. queued = {} \/ o \notin fresh BY DEF FreshInv, MarkObject
    <3>2. refs[o] \subseteq objects \cup queued BY <1>3, <1>6 DEF RefsInv
    <3>3. queued # {} => refs[o] \cap fresh = {}
      BY <3>1, <1>6 DEF FreshInv
    <3> QED BY <3>2, <3>3 DEF FreshInv
  <2>4. marked \cup pending \subseteq marked' \cup pending'
    BY DEF MarkObject
  <2>5. marked' \cup pending' \subseteq (marked \cup pending) \cup refs[o]
    BY DEF MarkObject
  <2>6. (marked \cup pending)' \subseteq objects
    BY <2>3, <2>5, <1>3 DEF MarkInv
  <2>7. RootSet \subseteq (marked \cup pending)' BY <2>4, <1>3 DEF MarkInv
  <2>8. \A x \in marked' : refs[x] \subseteq (marked \cup pending)'
    BY <2>4, <1>3 DEF MarkInv, MarkObject
  <2>9. \A S \in SUBSET Objects : RootSet \subseteq S /\ PointsInto(S)
          => (marked \cup pending)' \subseteq S
    <3>1. o \in marked \cup pending BY DEF MarkObject
    <3> QED BY <3>1, <2>5, <1>3 DEF MarkInv, PointsInto
  <2> QED BY <2>1, <2>2, <2>6, <2>7, <2>8, <2>9 DEF MarkInv
<1>9. SweepInv' BY <1>3 DEF SweepInv
<1> QED BY <1>1, <1>2, <1>4, <1>5, <1>7, <1>8, <1>9

(* When markRoots returns, the marked objects are the survivors. *)
LEMMA StartSweepIInv == ASSUME IInv, StartSweep PROVE IInv'
<1> USE DEF IInv
<1>1. TypeOK' BY DEF TypeOK, StartSweep, heapVars, statVars, Phases
<1>2. ListAccounting' BY DEF ListAccounting, StartSweep, heapVars
<1>3. Marking /\ ~Sweeping /\ Sweeping' /\ ~Marking'
  BY DEF StartSweep, Marking, Sweeping
<1>4. StageInv'
  BY <1>3 DEF StageInv, MarkInv, StartSweep, heapVars, Marking, Sweeping
<1>5. RefsInv' /\ MarkInv' BY <1>3 DEF RefsInv, MarkInv
<1>6. FreshInv' BY DEF FreshInv, StartSweep, heapVars
<1>7. SweepInv'
  <2>1. RootSet' = RootSet /\ refs' = refs
    BY DEF RootSet, StartSweep, heapVars
  <2>2. \A S : PointsInto(S)' <=> PointsInto(S) BY <2>1 DEF PointsInto
  <2>3. Survivors' = marked /\ marked \cup pending = marked
    BY <1>3 DEF Survivors, StartSweep, MarkInv
  <2>4. PointsInto(marked) BY <2>3, <1>3 DEF MarkInv, PointsInto
  <2>5. PointsInto(Survivors)' BY <2>1, <2>3, <2>4 DEF PointsInto
  <2> QED BY <2>1, <2>2, <2>3, <2>5, <1>3 DEF MarkInv, SweepInv
<1> QED BY <1>1, <1>2, <1>4, <1>5, <1>6, <1>7

(* A turn of sweep's loop frees nothing that is to survive. *)
LEMMA SweepObjectIInv ==
  ASSUME IInv, NEW o \in Objects, SweepObject(o)
  PROVE  IInv'
<1> USE DEF IInv
<1>1. Sweeping /\ ~Marking /\ Sweeping' /\ ~Marking' /\ o \in objects
  BY DEF SweepObject, Sweeping, Marking, StageInv
<1>2. num_objects - 1 = Cardinality(objects \ {o}) /\ num_objects - 1 \in Nat
  BY <1>1, CountRemove
<1>3. TypeOK'
  BY <1>2, SizeAssumption, KindAssumption DEF TypeOK, SweepObject
<1>4. ListAccounting' BY <1>1, <1>2 DEF ListAccounting, SweepObject
<1>5. StageInv'
  BY <1>1 DEF StageInv, SweepObject, Sweeping, Marking
<1>6. RefsInv' /\ MarkInv' BY <1>1 DEF RefsInv, MarkInv
<1>7. FreshInv' BY DEF FreshInv, SweepObject
<1>8. SweepInv'
  <2>1. Survivors' = Survivors
    BY <1>1 DEF Survivors, SweepObject, StageInv
  <2>2. RootSet' = RootSet
    <3>1. CASE roots.set BY <3>1 DEF RootSet, SweepObject
    <3>2. CASE ~roots.set
      <4>1. o \in Survivors
        BY <1>1, <3>2 DEF SweepInv, RootSet
      <4>2. o \in marked BY <4>1 DEF Survivors, SweepObject
      <4> QED BY <3>2, <4>2 DEF RootSet, SweepObject
    <3> QED BY <3>1, <3>2
  <2>3. refs' = refs BY DEF SweepObject
  <2>4. \A S : PointsInto(S)' <=> PointsInto(S) BY <2>3 DEF PointsInto
  <2>5. PointsInto(Survivors)' <=> PointsInto(Survivors)
    BY <2>1, <2>3 DEF PointsInto
  <2> QED BY <2>1, <2>2, <2>4, <2>5, <1>1 DEF SweepInv
<1> QED BY <1>3, <1>4, <1>5, <1>6, <1>7, <1>8

(* When sweep is done the survivors are the list, and it is closed. *)
LEMMA FinishCollectIInv == ASSUME IInv, FinishCollect PROVE IInv'
<1> USE DEF IInv
<1>1. Sweeping /\ ~Sweeping' /\ ~Marking'
  BY DEF FinishCollect, Sweeping, Marking
<1>2. TypeOK'
  <2>1. threshold' \in Nat BY ThresholdCovers DEF TypeOK, FinishCollect
  <2> QED BY <2>1 DEF TypeOK, FinishCollect, heapVars, Phases
<1>3. ListAccounting' BY DEF ListAccounting, FinishCollect, heapVars
<1>4. StageInv'
  BY <1>1 DEF StageInv, FinishCollect, heapVars, Sweeping, Marking
<1>5. Survivors = objects
  BY <1>1 DEF Survivors, FinishCollect, StageInv
<1>6. RefsInv'
  <2>1. \A o \in objects : refs[o] \subseteq objects
    BY <1>1, <1>5 DEF SweepInv, PointsInto
  <2>2. roots.objs \subseteq objects
    <3>1. CASE roots.set
      BY <3>1, <1>1, <1>5 DEF SweepInv, RootSet
    <3>2. CASE ~roots.set BY <3>2, <1>1 DEF StageInv
    <3> QED BY <3>1, <3>2
  <2> QED BY <2>1, <2>2 DEF RefsInv, FinishCollect, heapVars
<1>7. FreshInv' BY DEF FreshInv, FinishCollect, heapVars
<1>8. MarkInv' /\ SweepInv' BY <1>1 DEF MarkInv, SweepInv
<1> QED BY <1>2, <1>3, <1>4, <1>6, <1>7, <1>8

(* Entering the mark phase with nothing marked and the roots pending.      *)
LEMMA EnterMark ==
  ASSUME marked' = {}, pending' = RootSet', RootSet' \subseteq objects'
  PROVE  MarkInv'
<1>1. (marked \cup pending)' = RootSet' OBVIOUS
<1>2. \A S \in SUBSET Objects : RootSet' \subseteq S /\ PointsInto(S)'
        => (marked \cup pending)' \subseteq S
  BY <1>1
<1> QED BY <1>1, <1>2 DEF MarkInv

(* A constructor's addObject: with or without a collection, the new object *)
(* is on the list and nothing points to it.                                *)
LEMMA NewObjectIInv ==
  ASSUME IInv, NEW o \in Objects, NewObject(o)
  PROVE  IInv'
<1> USE DEF IInv
<1>1. phase = "idle" /\ queued = {} /\ fresh = {} /\ marked = {} /\ pending = {}
      /\ unswept = {} /\ ~Sweeping
  BY DEF NewObject, StageInv, Sweeping
<1>2. o \notin objects /\ refs[o] = {}
  BY DEF NewObject, ListAccounting, StageInv
<1>3. ~Sweeping' BY <1>1 DEF NewObject, AddObject, StartCollect, Sweeping
<1>4. TypeOK'
  <2>1. num_objects' \in Nat /\ total_allocated' \in Nat
    BY SizeAssumption, KindAssumption DEF TypeOK, NewObject, AddObject
  <2>2. phase' \in Phases /\ pending' \in SUBSET Objects
    BY DEF TypeOK, NewObject, AddObject, StartCollect, MarkRoots, Phases
  <2> QED BY <2>1, <2>2 DEF TypeOK, NewObject, AddObject
<1>5. ListAccounting'
  <2>1. num_objects + 1 = Cardinality(objects \cup {o}) BY <1>2, CountAdd
  <2> QED BY <1>2, <2>1 DEF ListAccounting, NewObject, AddObject
<1>6. StageInv'
  BY <1>1 DEF StageInv, NewObject, AddObject, StartCollect, Marking, Sweeping
<1>7. RefsInv'
  BY <1>1, <1>2 DEF RefsInv, NewObject, AddObject
<1>8. FreshInv'
  <2>1. \A x \in objects : o \notin refs[x]
    BY <1>1, <1>2 DEF RefsInv
  <2>2. o \notin roots.objs BY <1>1, <1>2 DEF RefsInv
  <2>3. pending' \subseteq objects \cup {o} /\ (roots.set => pending' \subseteq roots.objs)
    BY <1>1 DEF NewObject, AddObject, StartCollect, MarkRoots, RefsInv
  <2> QED BY <1>1, <1>2, <2>1, <2>2, <2>3 DEF FreshInv, NewObject, AddObject
<1>9. MarkInv'
  <2>1. CASE num_objects + 1 > threshold
    <3>1. marked' = {} /\ pending' = RootSet' /\ RootSet' \subseteq objects'
      BY <1>1, <2>1 DEF NewObject, AddObject, StartCollect, RootSet, MarkRoots,
                        RefsInv
    <3> QED BY <3>1, EnterMark
  <2>2. CASE ~(num_objects + 1 > threshold)
    <3>1. ~Marking' BY <1>1, <2>2 DEF NewObject, AddObject, Marking
    <3> QED BY <3>1 DEF MarkInv
  <2> QED BY <2>1, <2>2
<1>10. SweepInv' BY <1>3 DEF SweepInv
<1> QED BY <1>4, <1>5, <1>6, <1>7, <1>8, <1>9, <1>10

(* Closure.initWithGC's first addObject. *)
LEMMA NewClosureIInv ==
  ASSUME IInv, NEW c \in Objects, NEW p \in Objects, NewClosure(c, p)
  PROVE  IInv'
<1> USE DEF IInv
<1>1. phase = "idle" /\ queued = {} /\ fresh = {} /\ marked = {} /\ pending = {}
      /\ unswept = {} /\ ~Sweeping /\ roots.set
  BY DEF NewClosure, StageInv, Sweeping
<1>2. c \notin objects /\ p \notin objects /\ refs[c] = {} /\ refs[p] = {}
  BY DEF NewClosure, ListAccounting, StageInv
<1>a. c # p BY DEF NewClosure
<1>3. ~Sweeping' BY <1>1 DEF NewClosure, AddObject, StartCollect, Sweeping
<1>4. TypeOK'
  <2>0. Size[Kind[c]] \in Nat BY SizeAssumption, KindAssumption
  <2>1. num_objects' \in Nat /\ total_allocated' \in Nat
    BY <2>0 DEF TypeOK, NewClosure, AddObject
  <2>2. phase' \in Phases /\ pending' \in SUBSET Objects
    BY DEF TypeOK, NewClosure, AddObject, StartCollect, MarkRoots, Phases
  <2>3. refs' \in [Objects -> SUBSET Objects] BY DEF TypeOK, NewClosure
  <2> QED BY <2>1, <2>2, <2>3 DEF TypeOK, NewClosure, AddObject
<1>5. ListAccounting'
  <2>1. num_objects + 1 = Cardinality(objects \cup {c}) BY <1>2, CountAdd
  <2>2. objects' \cap queued' = {} BY <1>a, <1>2 DEF NewClosure, AddObject
  <2>3. objects' \cup queued' = allocated' \ freed' /\ freed' \subseteq allocated'
    BY <1>1, <1>2 DEF ListAccounting, NewClosure, AddObject, TypeOK
  <2> QED BY <2>1, <2>2, <2>3 DEF ListAccounting, NewClosure, AddObject
<1>b. refs' = [refs EXCEPT ![c] = {p}] /\ DOMAIN refs = Objects
  BY DEF NewClosure, TypeOK
<1>6. StageInv'
  BY <1>1, <1>2, <1>a, <1>b DEF StageInv, NewClosure, AddObject, StartCollect, Marking,
                    Sweeping, TypeOK
<1>7. RefsInv'
  BY <1>1, <1>2, <1>b DEF RefsInv, NewClosure, AddObject, TypeOK
<1>8. FreshInv'
  <2>1. \A x \in objects : refs[x] \cap {c, p} = {}
    BY <1>1, <1>2 DEF RefsInv
  <2>2. roots.objs \cap {c, p} = {} BY <1>1, <1>2 DEF RefsInv
  <2>3. pending' \subseteq roots.objs
    BY <1>1 DEF NewClosure, AddObject, StartCollect, MarkRoots
  <2>4. \A x \in objects' \ fresh' : refs'[x] = refs[x] /\ x \in objects
    BY <1>b DEF NewClosure, AddObject, TypeOK
  <2> QED BY <1>1, <2>1, <2>2, <2>3, <2>4 DEF FreshInv, NewClosure, AddObject
<1>9. MarkInv'
  <2>1. CASE num_objects + 1 > threshold
    <3>1. marked' = {} /\ pending' = RootSet' /\ RootSet' \subseteq objects'
      BY <1>1, <2>1 DEF NewClosure, AddObject, StartCollect, RootSet,
                        MarkRoots, RefsInv
    <3> QED BY <3>1, EnterMark
  <2>2. CASE ~(num_objects + 1 > threshold)
    <3>1. ~Marking' BY <1>1, <2>2 DEF NewClosure, AddObject, Marking
    <3> QED BY <3>1 DEF MarkInv
  <2> QED BY <2>1, <2>2
<1>10. SweepInv' BY <1>3 DEF SweepInv
<1> QED BY <1>4, <1>5, <1>6, <1>7, <1>8, <1>9, <1>10

(* Closure.initWithGC's second addObject, whether or not the first one's   *)
(* collection has already freed the closure.                               *)
LEMMA AddProtoIInv ==
  ASSUME IInv, NEW p \in Objects, AddProto(p)
  PROVE  IInv'
<1> USE DEF IInv
<1>1. phase = "idle" /\ marked = {} /\ pending = {} /\ unswept = {} /\ ~Sweeping
      /\ roots.set /\ p \in fresh /\ p \notin objects
  BY DEF AddProto, StageInv, Sweeping, FreshInv, ListAccounting
<1>2. queued = {p} BY DEF AddProto, StageInv
<1>3. ~Sweeping' BY <1>1 DEF AddProto, AddObject, StartCollect, Sweeping
<1>4. TypeOK'
  <2>0. Size[Kind[p]] \in Nat BY SizeAssumption, KindAssumption
  <2>1. num_objects' \in Nat /\ total_allocated' \in Nat
    BY <2>0 DEF TypeOK, AddProto, AddObject
  <2>2. phase' \in Phases /\ pending' \in SUBSET Objects
    BY DEF TypeOK, AddProto, AddObject, StartCollect, MarkRoots, Phases
  <2> QED BY <2>1, <2>2 DEF TypeOK, AddProto, AddObject, heapVars
<1>5. ListAccounting'
  <2>1. num_objects + 1 = Cardinality(objects \cup {p}) BY <1>1, CountAdd
  <2> QED BY <1>2, <2>1 DEF ListAccounting, AddProto, AddObject, heapVars
<1>6. StageInv'
  BY <1>1 DEF StageInv, AddProto, AddObject, StartCollect, Marking, Sweeping,
              heapVars
<1>7. RefsInv'
  <2>1. refs[p] \subseteq objects \cup {p} BY DEF AddProto, StageInv
  <2> QED BY <1>1, <1>2, <2>1 DEF RefsInv, AddProto, AddObject, heapVars
<1>8. FreshInv'
  <2>1. pending' \subseteq roots.objs
    BY <1>1 DEF AddProto, AddObject, StartCollect, MarkRoots
  <2> QED BY <1>1, <2>1 DEF FreshInv, AddProto, AddObject, heapVars
<1>9. MarkInv'
  <2>1. CASE num_objects + 1 > threshold
    <3>1. marked' = {} /\ pending' = RootSet' /\ RootSet' \subseteq objects'
      BY <1>1, <2>1 DEF AddProto, AddObject, StartCollect, RootSet, MarkRoots,
                        RefsInv
    <3> QED BY <3>1, EnterMark
  <2>2. CASE ~(num_objects + 1 > threshold)
    <3>1. ~Marking' BY <1>1, <2>2 DEF AddProto, AddObject, Marking
    <3> QED BY <3>1 DEF MarkInv
  <2> QED BY <2>1, <2>2
<1>10. SweepInv' BY <1>3 DEF SweepInv
<1> QED BY <1>4, <1>5, <1>6, <1>7, <1>8, <1>9, <1>10

(* A client's write between collections. *)
LEMMA StoreDropIInv ==
  ASSUME IInv, NEW o \in Objects, NEW v \in Objects, Store(o, v) \/ Drop(o, v)
  PROVE  IInv'
<1> USE DEF IInv
<1>1. /\ phase = "idle" /\ queued = {} /\ fresh = {} /\ o \in objects
      /\ UNCHANGED <<allocated, freed, marked, objects, num_objects, threshold,
                     statVars, roots, phase, pending, unswept, collected,
                     queued, fresh>>
  BY DEF Store, Drop, StageInv
<1>2. /\ refs' \in [Objects -> SUBSET Objects]
      /\ \A x \in Objects \ {o} : refs'[x] = refs[x]
      /\ refs'[o] \subseteq refs[o] \cup objects
  BY DEF Store, Drop, TypeOK
<1>3. ~Sweeping /\ ~Sweeping' /\ ~Marking'
  BY <1>1 DEF Sweeping, Marking
<1>4. TypeOK' BY <1>1, <1>2 DEF TypeOK, statVars
<1>5. ListAccounting' BY <1>1 DEF ListAccounting
<1>6. StageInv'
  <2>1. o \in allocated BY <1>1 DEF ListAccounting
  <2> QED BY <1>1, <1>2, <1>3, <2>1 DEF StageInv
<1>7. RefsInv' BY <1>1, <1>2, <1>3 DEF RefsInv, TypeOK
<1>8. FreshInv' BY <1>1 DEF FreshInv
<1>9. MarkInv' /\ SweepInv' BY <1>3 DEF MarkInv, SweepInv
<1> QED BY <1>4, <1>5, <1>6, <1>7, <1>8, <1>9

LEMMA SetRootsIInv ==
  ASSUME IInv, NEW g \in Objects, NEW r \in Objects, NEW t \in Objects,
         SetRoots(g, r, t)
  PROVE  IInv'
<1> USE DEF IInv
<1>1. phase = "idle" /\ queued = {} /\ fresh = {}
  BY DEF SetRoots, StageInv
<1>2. ~Sweeping /\ ~Sweeping' /\ ~Marking'
  BY <1>1 DEF Sweeping, Marking, SetRoots
<1>3. TypeOK' BY DEF TypeOK, SetRoots, heapVars, statVars
<1>4. ListAccounting' BY DEF ListAccounting, SetRoots, heapVars
<1>5. StageInv' BY <1>1, <1>2 DEF StageInv, SetRoots, heapVars
<1>6. RefsInv' BY <1>2 DEF RefsInv, SetRoots, heapVars
<1>7. FreshInv' BY <1>1 DEF FreshInv, SetRoots, heapVars
<1>8. MarkInv' /\ SweepInv' BY <1>2 DEF MarkInv, SweepInv
<1> QED BY <1>3, <1>4, <1>5, <1>6, <1>7, <1>8

(* collect() called by the owner, or by deinit with all-null roots. *)
LEMMA CollectDeinitIInv == ASSUME IInv, Collect \/ Deinit PROVE IInv'
<1> USE DEF IInv
<1>1. /\ phase = "idle" /\ queued = {} /\ fresh = {} /\ marked = {}
      /\ unswept = {}
      /\ UNCHANGED <<heapVars, marked, objects, num_objects, threshold,
                     statVars, unswept, collected, queued, fresh>>
  BY DEF Collect, Deinit, StageInv
<1>2. /\ roots' = roots \/ roots' = [set |-> TRUE, objs |-> {}]
      /\ phase' = "mark" \/ (phase' = "closing-mark"
                             /\ roots' = [set |-> TRUE, objs |-> {}])
      /\ pending' = MarkRoots(roots', objects)
  BY DEF Collect, Deinit, StartCollect
<1>3. ~Sweeping /\ ~Sweeping' /\ Marking'
  BY <1>1, <1>2 DEF Sweeping, Marking
<1>4. TypeOK'
  <2>0. [set |-> TRUE, objs |-> {}] \in [set : BOOLEAN, objs : SUBSET Objects]
    OBVIOUS
  <2>a. roots \in [set : BOOLEAN, objs : SUBSET Objects] BY DEF TypeOK
  <2>1. roots' \in [set : BOOLEAN, objs : SUBSET Objects]
    BY <1>2, <2>0, <2>a, Zenon
  <2>2. pending' \in SUBSET Objects BY <1>2, <2>1 DEF MarkRoots, TypeOK
  <2> QED BY <1>1, <1>2, <2>1, <2>2 DEF TypeOK, heapVars, statVars, Phases
<1>5. ListAccounting' BY <1>1 DEF ListAccounting, heapVars
<1>6. StageInv'
  BY <1>1, <1>2, <1>3 DEF StageInv, heapVars
<1>7. RefsInv' BY <1>1, <1>2, <1>3 DEF RefsInv, heapVars
<1>8. FreshInv' BY <1>1 DEF FreshInv, heapVars
<1>9. MarkInv'
  <2>1. pending' = RootSet' BY <1>1, <1>2 DEF RootSet, MarkRoots
  <2>2. RootSet' \subseteq objects'
    BY <1>1, <1>2, <1>3 DEF RootSet, MarkRoots, RefsInv
  <2> QED BY <1>1, <2>1, <2>2, EnterMark
<1>10. SweepInv' BY <1>3 DEF SweepInv
<1> QED BY <1>4, <1>5, <1>6, <1>7, <1>8, <1>9, <1>10

-----------------------------------------------------------------------------
(* Every step keeps the invariant. *)
LEMMA NextIInv == IInv /\ [Next]_vars => IInv'
<1> SUFFICES ASSUME IInv, [Next]_vars PROVE IInv' OBVIOUS
<1>1. CASE \E o \in Objects : MarkObject(o) BY <1>1, MarkObjectIInv
<1>2. CASE StartSweep BY <1>2, StartSweepIInv
<1>3. CASE \E o \in Objects : SweepObject(o) BY <1>3, SweepObjectIInv
<1>4. CASE FinishCollect BY <1>4, FinishCollectIInv
<1>5. CASE \E p \in Objects : AddProto(p) BY <1>5, AddProtoIInv
<1>6. CASE \E o \in Objects : NewObject(o) BY <1>6, NewObjectIInv
<1>7. CASE \E c, p \in Objects : NewClosure(c, p) BY <1>7, NewClosureIInv
<1>8. CASE \E o, v \in Objects : Store(o, v) BY <1>8, StoreDropIInv
<1>9. CASE \E o, v \in Objects : Drop(o, v) BY <1>9, StoreDropIInv
<1>10. CASE \E g, r, t \in Objects : SetRoots(g, r, t) BY <1>10, SetRootsIInv
<1>11. CASE Collect \/ Deinit BY <1>11, CollectDeinitIInv
<1>12. CASE UNCHANGED vars
  BY <1>12 DEF vars, heapVars, statVars, IInv, TypeOK, ListAccounting, StageInv,
     RefsInv, FreshInv, MarkInv, SweepInv, Marking, Sweeping, RootSet,
     PointsInto, Survivors
<1> QED
  BY <1>1, <1>2, <1>3, <1>4, <1>5, <1>6, <1>7, <1>8, <1>9, <1>10, <1>11, <1>12
  DEF Next, Collector, Client

(* The inductive invariant holds of every behaviour of the collector and   *)
(* its client.                                                             *)
THEOREM Invariance == Spec => []IInv
  BY InitIInv, NextIInv, PTL DEF Spec

(* Type correctness: in particular num_objects never goes below zero.      *)
THEOREM TypeCorrect == Spec => []TypeOK
<1>1. IInv => TypeOK BY DEF IInv
<1> QED BY <1>1, Invariance, PTL

(* num_objects, the list of all objects and the allocator always agree,    *)
(* also while sweep unlinks objects and between the two additions of       *)
(* Closure.initWithGC.                                                     *)
THEOREM ListAccountingHolds == Spec => []ListAccounting
<1>1. IInv => ListAccounting BY DEF IInv
<1> QED BY <1>1, Invariance, PTL

(* collect() spares exactly the objects reachable from its roots.          *)
LEMMA SurvivorsAreReachable == ASSUME IInv, Sweeping PROVE Survivors = Reachable
<1>1. Survivors \in SUBSET Objects
  BY DEF IInv, TypeOK, Survivors
<1>2. Survivors \subseteq Reachable
  BY <1>1 DEF IInv, SweepInv, Reachable
<1>3. RootSet \subseteq Survivors /\ PointsInto(Survivors)
  BY DEF IInv, SweepInv
<1>4. Reachable \subseteq Survivors BY <1>1, <1>3 DEF Reachable
<1> QED BY <1>2, <1>4

THEOREM CollectIsExact == Spec => []CollectExact
<1>1. IInv => CollectExact BY SurvivorsAreReachable DEF CollectExact
<1> QED BY <1>1, Invariance, PTL

(* Outside a collection no collectable object points to freed memory.      *)
THEOREM NoDangling == Spec => []NoDanglingRefs
<1>1. IInv => NoDanglingRefs
  BY DEF IInv, NoDanglingRefs, RefsInv, ListAccounting, Sweeping
<1> QED BY <1>1, Invariance, PTL

(* No step of the collector or the client frees a reachable object.        *)
THEOREM ReachableKept == Spec => ReachableNeverFreed
<1>1. IInv /\ [Next]_vars => [(freed' \ freed) \cap Reachable = {}]_vars
  <2> SUFFICES ASSUME IInv, [Next]_vars, NEW x \in freed' \ freed
               PROVE  x \notin Reachable
    OBVIOUS
  <2>1. SweepObject(x) /\ x \notin marked
    BY DEF Next, Collector, Client, MarkObject, StartSweep, SweepObject,
           FinishCollect, AddProto, NewObject, NewClosure, Store, Drop,
           SetRoots, Collect, Deinit, vars, heapVars
  <2>2. Sweeping /\ x \notin Survivors
    BY <2>1 DEF SweepObject, Sweeping, Survivors
  <2> QED BY <2>2, SurvivorsAreReachable
<1> QED BY <1>1, Invariance, PTL DEF Spec, ReachableNeverFreed

(* After deinit nothing is left: every object was freed.                   *)
THEOREM DeinitComplete == Spec => []DeinitFreesAll
<1> DEFINE DInv == phase = "closed" => objects = {}
<1>1. Init => DInv BY DEF Init
<1>2. IInv /\ DInv /\ [Next]_vars => DInv'
  <2> SUFFICES ASSUME IInv, DInv, [Next]_vars, phase' = "closed"
               PROVE  objects' = {}
    OBVIOUS
  <2>1. CASE phase = "closed"
    BY <2>1 DEF Next, Collector, Client, MarkObject, StartSweep, SweepObject,
           FinishCollect, AddProto, NewObject, NewClosure, Store, Drop,
           SetRoots, Collect, Deinit, vars
  <2>2. CASE phase # "closed"
    <3>1. FinishCollect /\ phase = "closing-sweep"
      BY <2>2 DEF Next, Collector, Client, MarkObject, StartSweep, SweepObject,
           FinishCollect, AddProto, NewObject, NewClosure, AddObject, Store,
           Drop, SetRoots, Collect, Deinit, StartCollect, vars, IInv, TypeOK
    <3>2. Sweeping /\ RootSet = {}
      BY <3>1 DEF Sweeping, IInv, StageInv, RootSet, MarkRoots
    <3>3. Survivors = objects BY <3>1 DEF Survivors, FinishCollect
    <3>4. Survivors \subseteq {} BY <3>2 DEF IInv, SweepInv, PointsInto
    <3> QED BY <3>1, <3>3, <3>4 DEF FinishCollect
  <2> QED BY <2>1, <2>2
<1>3. IInv /\ DInv => DeinitFreesAll
  BY DEF IInv, DeinitFreesAll, ListAccounting, StageInv
<1> QED BY <1>1, <1>2, <1>3, Invariance, PTL DEF Spec

(* When control is with the client the threshold is not exceeded.          *)
THEOREM ThresholdHeadroom == Spec => []Headroom
<1>1. Init => Headroom BY BoundAssumption DEF Init, Headroom
<1>2. IInv /\ Headroom /\ [Next]_vars => Headroom'
  <2> SUFFICES ASSUME IInv, Headroom, [Next]_vars, phase' = "idle"
               PROVE  num_objects' <= threshold'
    BY DEF Headroom
  <2>1. CASE FinishCollect
    BY <2>1, ThresholdCovers DEF FinishCollect, IInv, TypeOK
  <2>2. CASE ~FinishCollect
    <3>1. phase = "idle"
      BY <2>2 DEF Next, Collector, Client, MarkObject, StartSweep, SweepObject,
           AddProto, NewObject, NewClosure, AddObject, Store,
           Drop, SetRoots, Collect, Deinit, StartCollect, vars
    <3>2. num_objects \in Nat /\ threshold \in Nat BY DEF IInv, TypeOK
    <3> QED BY <2>2, <3>1, <3>2 DEF Next, Collector, Client, MarkObject,
           StartSweep, SweepObject, AddProto, NewObject, NewClosure, AddObject,
           Store, Drop, SetRoots, Collect, Deinit, StartCollect, vars, Headroom
  <2> QED BY <2>1, <2>2
<1> QED BY <1>1, <1>2, Invariance, PTL DEF Spec

(* An object whose constructor triggers a collection is freed by it as     *)
(* soon as the roots are set: addObject collects before its caller has had *)
(* a chance to store the object anywhere.  Every constructor of object.zig *)
(* then returns a pointer to freed memory (see VMHeap).                    *)
THEOREM FreshNeverSurvives ==
  Spec => [](roots.set /\ Sweeping => Survivors \cap fresh = {})
<1> DEFINE P == roots.set /\ Sweeping => Survivors \cap fresh = {}
<1>1. Init => P BY DEF Init, Unset
<1>2. IInv /\ P /\ [Next]_vars => P'
  <2> SUFFICES ASSUME IInv, P, [Next]_vars, (roots.set /\ Sweeping)'
               PROVE  (Survivors \cap fresh = {})'
    OBVIOUS
  <2>1. CASE StartSweep
    <3>1. Marking /\ roots.set BY <2>1 DEF StartSweep, Marking
    <3>2. (Survivors = marked)' BY <2>1, <3>1 DEF StartSweep, Survivors, IInv, MarkInv
    <3> QED BY <2>1, <3>1, <3>2 DEF IInv, FreshInv, StartSweep
  <2>2. CASE \E o \in Objects : SweepObject(o)
    <3>1. PICK o \in Objects : SweepObject(o) BY <2>2
    <3>2. Survivors' = Survivors
      BY <3>1 DEF Survivors, SweepObject, IInv, StageInv, Sweeping
    <3> QED BY <3>1, <3>2 DEF SweepObject, Sweeping
  <2>3. CASE UNCHANGED vars
    BY <2>3 DEF vars, Sweeping, Survivors
  <2>4. CASE ~StartSweep /\ ~(\E o \in Objects : SweepObject(o)) /\ ~UNCHANGED vars
    BY <2>4 DEF Next, Collector, Client, MarkObject, FinishCollect, AddProto,
           NewObject, NewClosure, AddObject, Store, Drop, SetRoots, Collect,
           Deinit, StartCollect, Sweeping
  <2> QED BY <2>1, <2>2, <2>3, <2>4
<1> QED BY <1>1, <1>2, Invariance, PTL DEF Spec
=============================================================================
