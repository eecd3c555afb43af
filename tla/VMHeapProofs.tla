---------------------------- MODULE VMHeapProofs ----------------------------
(***************************************************************************)
(* Proofs about the VM's heap API composed with the collector, for every   *)
(* set of objects, names and hashes (any two names may collide) and every  *)
(* stack size: until the first collection no call reads freed memory,      *)
(* deinit gives all memory back, no reachable object is freed although the *)
(* VM does not keep to the collector's contract, and names with one hash   *)
(* are kept apart.                                                         *)
(***************************************************************************)
EXTENDS VMHeap, GCProofs

(* The values that the program can have in hand: objects made so far.      *)
Made == allocated \cup {Nil}

(* The calls of VMHeap, by what they carry.                                *)
TableCalls == [op : {"table"}, at : {"push"}, str : allocated]
NameCalls ==
  [op : InternCalls, at : {"intern", "put", "finish"}, name : Texts,
   table : Tables \cup {Nil}, value : Made, str : Made]

(* Types, and that nothing holds an object that was never made.            *)
Entry == (allocated \X allocated) \cup {Nil}

HeapTypeOK ==
  /\ TypeOK
  /\ refs \in [Objects -> SUBSET allocated]
  /\ roots.objs \subseteq allocated

StateTypeOK ==
  /\ stack \in Seq(Made)
  /\ pool \in [Hashes -> Made]
  /\ text \in [Objects -> Texts \cup {Nil}]
  /\ entries \in [Tables -> [Texts -> Entry]]
  /\ call = NoCall \/ call \in TableCalls \/ call \in NameCalls
  /\ fault \in BOOLEAN

(* A call that has its string has one with the content it asked for, and   *)
(* a call that reads or writes a field has a table.                        *)
CallInv ==
  call.op \in InternCalls =>
    /\ call.at # "intern" => call.str \in allocated /\ text[call.str] = call.name
    /\ call.op # "push" => call.table \in Tables

(* The collector's working sets, by its phase.  Nothing is marked that is  *)
(* not on the list, although the VM may leave pointers to freed objects:   *)
(* such a pointer is met as a pending call, and the session ends there.    *)
Stages ==
  /\ queued = {} /\ roots.set
  /\ phase \in {"idle", "closed"} => marked = {} /\ pending = {} /\ unswept = {}
  /\ Marking => unswept = {} /\ marked \subseteq objects /\ pending \subseteq allocated
  /\ Sweeping => pending = {} /\ unswept \subseteq objects /\ marked \subseteq unswept

(* Marking does not lose a reachable object, sweeping does not free one.   *)
Closed ==
  /\ Marking => /\ roots.objs \subseteq marked \cup pending
                /\ \A o \in marked : refs[o] \subseteq marked \cup pending
  /\ Sweeping => roots.objs \subseteq Survivors /\ PointsInto(Survivors)

(* Before the first collection has ended nothing but its own sweep frees.  *)
Quiet == collection_count = 0 /\ ~Sweeping => freed = {}

(* deinit marks nothing, so its sweep keeps nothing.                       *)
Closing ==
  /\ phase \in {"closing-mark", "closing-sweep"} =>
       roots.objs = {} /\ marked = {} /\ pending = {}
  /\ phase = "closing-sweep" => objects \subseteq unswept
  /\ phase = "closed" => objects = {}

(* The invariant: of the collector as the VM drives it, and of the calls.  *)
CollectorInv == HeapTypeOK /\ ListAccounting /\ Stages /\ Closed /\ Quiet /\ Closing
SessionInv == StateTypeOK /\ CallInv /\ (fault => collection_count > 0)
VMInv == CollectorInv /\ SessionInv

-----------------------------------------------------------------------------
(* The collector.                                                          *)

(* One markObject call on an object that has not been freed.               *)
LEMMA MarkObjectKeeps ==
  ASSUME CollectorInv, NEW o \in Objects, MarkObject(o), o \notin freed
  PROVE  CollectorInv'
<1> USE DEF CollectorInv
<1>1. Marking /\ ~Sweeping /\ Marking' /\ ~Sweeping' /\ phase' = phase
  BY DEF MarkObject, Marking, Sweeping
<1>2. /\ UNCHANGED <<allocated, freed, refs, objects, num_objects, threshold,
                     total_allocated, total_collected, collection_count, roots,
                     unswept, collected, queued, fresh>>
      /\ o \in pending
      /\ \/ o \in marked /\ marked' = marked /\ pending' = pending \ {o}
         \/ /\ o \notin marked /\ marked' = marked \cup {o}
            /\ pending' = (pending \ {o}) \cup refs[o]
  BY DEF MarkObject, Children, heapVars, statVars
<1>3. o \in objects /\ refs[o] \subseteq allocated
  BY <1>1, <1>2 DEF Stages, ListAccounting, HeapTypeOK
<1>4. HeapTypeOK'
  BY <1>1, <1>2 DEF HeapTypeOK, TypeOK
<1>5. ListAccounting' /\ Quiet'
  BY <1>1, <1>2 DEF ListAccounting, Quiet
<1>6. Stages'
  BY <1>1, <1>2, <1>3 DEF Stages, Marking
<1>7. Closed'
  BY <1>1, <1>2 DEF Closed
<1>8. Closing'
  BY <1>1, <1>2 DEF Closing, Marking
<1> QED BY <1>4, <1>5, <1>6, <1>7, <1>8

(* When marking ends, the marked objects are closed: they will survive.    *)
LEMMA StartSweepKeeps ==
  ASSUME CollectorInv, StartSweep
  PROVE  CollectorInv'
<1> USE DEF CollectorInv
<1>1. Marking /\ ~Marking' /\ Sweeping' /\ ~Sweeping
  BY DEF StartSweep, Marking, Sweeping
<1>2. /\ UNCHANGED <<allocated, freed, refs, marked, objects, num_objects, threshold,
                     total_allocated, total_collected, collection_count, roots,
                     pending, queued, fresh>>
      /\ pending = {} /\ unswept' = objects /\ collected' = 0
      /\ phase' \in {"sweep", "closing-sweep"}
      /\ phase' = "closing-sweep" => phase = "closing-mark"
  BY DEF StartSweep, heapVars, statVars
<1>3. HeapTypeOK'
  BY <1>2 DEF HeapTypeOK, TypeOK, Phases
<1>4. ListAccounting' /\ Quiet'
  BY <1>1, <1>2 DEF ListAccounting, Quiet
<1>5. Stages'
  BY <1>1, <1>2 DEF Stages
<1>6. Survivors' = marked
  BY <1>1, <1>2 DEF Survivors, Stages
<1>7. Closed'
  BY <1>1, <1>2, <1>6 DEF Closed, PointsInto
<1>8. Closing'
  BY <1>2 DEF Closing
<1> QED BY <1>3, <1>4, <1>5, <1>7, <1>8

(* One turn of sweep changes neither what survives nor what points where.  *)
LEMMA SweepObjectKeeps ==
  ASSUME CollectorInv, NEW o \in Objects, SweepObject(o)
  PROVE  CollectorInv' /\ (freed' \ freed) \cap Survivors = {}
<1> USE DEF CollectorInv
<1>1. Sweeping /\ ~Marking /\ Sweeping' /\ ~Marking' /\ phase' = phase
  BY DEF SweepObject, Marking, Sweeping
<1>2. /\ UNCHANGED <<allocated, refs, threshold, total_allocated, collection_count,
                     roots, pending, queued, fresh>>
      /\ o \in unswept /\ unswept' = unswept \ {o}
  BY DEF SweepObject
<1>3. \/ /\ o \in marked /\ marked' = marked \ {o}
         /\ UNCHANGED <<objects, freed, num_objects, collected, total_collected>>
      \/ /\ o \notin marked /\ objects' = objects \ {o} /\ freed' = freed \cup {o}
         /\ num_objects' = num_objects - 1 /\ collected' = collected + 1
         /\ total_collected' = total_collected + Size[Kind[o]] /\ marked' = marked
  BY DEF SweepObject
<1>4. o \in objects /\ pending = {} /\ unswept \subseteq objects /\ marked \subseteq unswept
  BY <1>1, <1>2 DEF Stages
<1>5. num_objects - 1 \in Nat /\ num_objects - 1 = Cardinality(objects \ {o})
  BY <1>4, CountRemove DEF HeapTypeOK
<1>6. Size[Kind[o]] \in Nat
  BY KindAssumption, SizeAssumption
<1>7. TypeOK'
  <2>1. total_collected' \in Nat /\ num_objects' \in Nat /\ collected' \in Nat
    BY <1>3, <1>5, <1>6 DEF HeapTypeOK, TypeOK
  <2> QED BY <1>1, <1>2, <1>3, <2>1 DEF HeapTypeOK, TypeOK
<1>8. HeapTypeOK'
  BY <1>2, <1>7 DEF HeapTypeOK
<1>9. ListAccounting'
  <2>1. o \in allocated /\ o \notin queued
    BY <1>4 DEF ListAccounting
  <2> QED BY <1>2, <1>3, <1>5, <2>1 DEF ListAccounting
<1>10. Survivors' = Survivors
  BY <1>2, <1>3, <1>4 DEF Survivors
<1>11. Stages'
  BY <1>1, <1>2, <1>3, <1>4 DEF Stages, Sweeping
<1>12. Closed'
  BY <1>1, <1>2, <1>10 DEF Closed, PointsInto
<1>13. Quiet' /\ Closing'
  BY <1>1, <1>2, <1>3 DEF Quiet, Closing, Sweeping
<1>14. (freed' \ freed) \cap Survivors = {}
  BY <1>2, <1>3 DEF Survivors
<1> QED BY <1>8, <1>9, <1>11, <1>12, <1>13, <1>14

(* collect returns: every mark has been cleared.                           *)
LEMMA FinishCollectKeeps ==
  ASSUME CollectorInv, FinishCollect
  PROVE  CollectorInv' /\ collection_count' > 0
<1> USE DEF CollectorInv
<1>1. Sweeping /\ ~Marking /\ ~Sweeping' /\ ~Marking'
  BY DEF FinishCollect, Marking, Sweeping
<1>2. /\ UNCHANGED <<allocated, freed, refs, marked, objects, num_objects,
                     total_allocated, roots, pending, unswept, collected, queued>>
      /\ unswept = {} /\ collection_count' = collection_count + 1
      /\ phase' \in {"idle", "closed"}
      /\ phase' = "closed" => phase = "closing-sweep"
  BY DEF FinishCollect, heapVars, Sweeping
<1>3. threshold' \in Nat /\ total_collected' \in Nat /\ fresh' \in SUBSET Objects
  BY ThresholdCovers DEF FinishCollect, HeapTypeOK, TypeOK
<1>4. collection_count' \in Nat /\ collection_count' > 0
  BY <1>2 DEF HeapTypeOK, TypeOK
<1>5. HeapTypeOK'
  BY <1>2, <1>3, <1>4 DEF HeapTypeOK, TypeOK, Phases
<1>6. ListAccounting' /\ Quiet'
  BY <1>2, <1>4 DEF ListAccounting, Quiet
<1>7. Stages'
  BY <1>1, <1>2 DEF Stages
<1>8. Closed' /\ Closing'
  BY <1>1, <1>2 DEF Closed, Closing
<1> QED BY <1>4, <1>5, <1>6, <1>7, <1>8

(* A constructor, which may run into a collection.                         *)
LEMMA NewObjectKeeps ==
  ASSUME CollectorInv, NEW o \in Objects, NewObject(o)
  PROVE  /\ CollectorInv'
         /\ allocated' = allocated \cup {o} /\ freed' = freed
         /\ collection_count' = collection_count
<1> USE DEF CollectorInv
<1>1. /\ UNCHANGED <<freed, refs, marked, threshold, total_collected, collection_count,
                     roots, unswept, collected, queued>>
      /\ phase = "idle" /\ o \notin allocated
      /\ allocated' = allocated \cup {o} /\ objects' = objects \cup {o}
      /\ num_objects' = num_objects + 1
      /\ total_allocated' = total_allocated + Size[Kind[o]]
      /\ fresh' \in {{o}, {}}
      /\ \/ phase' = "mark" /\ pending' = MarkRoots(roots, objects \cup {o})
         \/ UNCHANGED <<phase, pending>>
  BY DEF NewObject, AddObject, StartCollect
<1>2. marked = {} /\ pending = {} /\ unswept = {} /\ queued = {} /\ roots.set
  BY <1>1 DEF Stages
<1>3. pending' \subseteq roots.objs /\ (phase' = "mark" => pending' = roots.objs)
  BY <1>1, <1>2 DEF MarkRoots
<1>4. ~Sweeping /\ ~Sweeping' /\ phase' \in {"idle", "mark"} /\ (Marking' => phase' = "mark")
  BY <1>1 DEF Marking, Sweeping
<1>5. Size[Kind[o]] \in Nat
  BY KindAssumption, SizeAssumption
<1>6. HeapTypeOK'
  BY <1>1, <1>3, <1>4, <1>5 DEF HeapTypeOK, TypeOK, Phases
<1>7. ListAccounting'
  <2>1. o \notin objects /\ o \notin freed
    BY <1>1 DEF ListAccounting
  <2>2. num_objects + 1 = Cardinality(objects \cup {o})
    BY <2>1, CountAdd DEF HeapTypeOK
  <2> QED BY <1>1, <1>2, <2>1, <2>2 DEF ListAccounting
<1>8. Stages'
  BY <1>1, <1>2, <1>3, <1>4 DEF Stages, HeapTypeOK
<1>9. Closed' /\ Quiet' /\ Closing'
  BY <1>1, <1>2, <1>3, <1>4 DEF Closed, Quiet, Closing
<1> QED BY <1>1, <1>6, <1>7, <1>8, <1>9

(* collect() and deinit, called by the owner.                              *)
LEMMA CollectDeinitKeeps ==
  ASSUME CollectorInv, Collect \/ Deinit
  PROVE  CollectorInv' /\ allocated' = allocated /\ freed' = freed
         /\ collection_count' = collection_count
<1> USE DEF CollectorInv
<1>1. /\ UNCHANGED <<allocated, freed, refs, marked, objects, num_objects, threshold,
                     total_allocated, total_collected, collection_count, unswept,
                     collected, queued, fresh>>
      /\ phase = "idle"
      /\ \/ phase' = "mark" /\ roots' = roots
         \/ phase' = "closing-mark" /\ roots' = [set |-> TRUE, objs |-> {}]
      /\ pending' = MarkRoots(roots', objects)
  BY DEF Collect, Deinit, StartCollect, heapVars, statVars
<1>2. marked = {} /\ pending = {} /\ unswept = {} /\ queued = {} /\ roots.set
  BY <1>1 DEF Stages
<1>3. /\ roots'.set /\ pending' = roots'.objs /\ roots'.objs \subseteq allocated
      /\ roots' \in [set : BOOLEAN, objs : SUBSET Objects]
      /\ phase' = "closing-mark" => roots'.objs = {}
  <2>1. CASE phase' = "mark" /\ roots' = roots
    BY <1>1, <1>2, <2>1 DEF MarkRoots, HeapTypeOK, TypeOK
  <2>2. CASE phase' = "closing-mark" /\ roots' = [set |-> TRUE, objs |-> {}]
    <3>1. roots'.set = TRUE /\ roots'.objs = {}
      BY <2>2
    <3>2. pending' = {}
      BY <1>1, <3>1 DEF MarkRoots
    <3> QED BY <2>2, <3>1, <3>2
  <2> QED BY <1>1, <2>1, <2>2
<1>4. ~Sweeping /\ ~Sweeping' /\ phase' \in {"mark", "closing-mark"}
  BY <1>1 DEF Sweeping
<1>5. HeapTypeOK'
  BY <1>1, <1>3, <1>4 DEF HeapTypeOK, TypeOK, Phases
<1>6. ListAccounting' /\ Quiet'
  BY <1>1, <1>4 DEF ListAccounting, Quiet
<1>7. Stages'
  BY <1>1, <1>2, <1>3, <1>4 DEF Stages
<1>8. Closed' /\ Closing'
  BY <1>1, <1>2, <1>3, <1>4 DEF Closed, Closing
<1> QED BY <1>1, <1>5, <1>6, <1>7, <1>8

(* A step that leaves the collector and the heap alone.                    *)
LEMMA CollectorRests ==
  ASSUME CollectorInv, UNCHANGED vars
  PROVE  /\ CollectorInv' /\ UNCHANGED <<allocated, freed, collection_count>>
         /\ Made' = Made
BY DEF vars, heapVars, statVars, CollectorInv, HeapTypeOK, TypeOK, ListAccounting,
       Stages, Closed, Quiet, Closing, Marking, Sweeping, Survivors, PointsInto, Made

-----------------------------------------------------------------------------
(* The calls.                                                              *)

(* push keeps the stack typed, also when it is full.                       *)
LEMMA PushType ==
  ASSUME NEW S, NEW s \in Seq(S), NEW v \in S
  PROVE  Push(s, v) \in Seq(S)
BY DEF Push

(* pop keeps the stack typed and hands out a value that has been made.     *)
LEMMA PopType ==
  ASSUME stack \in Seq(Made), stack # <<>>
  PROVE  Popped \in Seq(Made) /\ Top \in Made
<1>1. Len(stack) \in Nat \ {0}
  OBVIOUS
<1>2. \A i \in 1 .. Len(stack) - 1 : stack[i] \in Made
  BY <1>1
<1>3. Popped = [i \in 1 .. Len(stack) - 1 |-> stack[i]]
  BY <1>1 DEF Popped
<1> QED BY <1>1, <1>2, <1>3 DEF Top

(* A call with a name carries all of its fields.                           *)
LEMMA CallCases ==
  ASSUME SessionInv
  PROVE  /\ call.op \in InternCalls => call \in NameCalls
         /\ call.op = "table" => call \in TableCalls
BY DEF SessionInv, StateTypeOK, NoCall, TableCalls, NameCalls, InternCalls

(* What the calls hold stays valid when objects are made.                  *)
LEMMA SessionRests ==
  ASSUME SessionInv, UNCHANGED vmVars, allocated \subseteq allocated',
         fault => collection_count' > 0
  PROVE  SessionInv'
<1>1. UNCHANGED <<stack, pool, text, entries, call, fault>>
  BY DEF vmVars
<1>2. Made \subseteq Made' /\ Entry \subseteq Entry'
  BY DEF Made, Entry
<1>3. stack' \in Seq(Made')
  <2> DEFINE A == Made  B == Made'
  <2>1. A \subseteq B /\ stack \in Seq(A)
    BY <1>2 DEF SessionInv, StateTypeOK
  <2> HIDE DEF A, B
  <2>2. stack \in Seq(B)
    BY <2>1
  <2> QED BY <1>1, <2>2 DEF B
<1>4. pool' \in [Hashes -> Made'] /\ entries' \in [Tables -> [Texts -> Entry']]
  BY <1>1, <1>2 DEF SessionInv, StateTypeOK
<1>5. call' = NoCall \/ call' \in TableCalls' \/ call' \in NameCalls'
  BY <1>1, <1>2 DEF SessionInv, StateTypeOK, TableCalls, NameCalls
<1>6. CallInv'
  BY <1>1 DEF SessionInv, CallInv
<1> QED BY <1>1, <1>3, <1>4, <1>5, <1>6 DEF SessionInv, StateTypeOK

(* The steps of a call that need no collector: every new value is one that *)
(* the call had in hand, was on the stack, in the pool or in a table.      *)
LEMMA CallStepKeeps ==
  ASSUME VMInv, UNCHANGED vars,
         \/ \E s \in Texts : PushString(s) \/ SetGlobal(s) \/ GetGlobal(s)
         \/ \E i \in 1 .. Len(stack), s \in Texts : SetField(i, s) \/ GetField(i, s)
         \/ Pop \/ PushTableReturns \/ InternHit \/ PoolPut
         \/ PushStringReturns \/ GetReturns
  PROVE  SessionInv'
<1> USE DEF VMInv
<1>0. /\ UNCHANGED <<allocated, freed, collection_count>> /\ Made' = Made /\ Entry' = Entry
      /\ TableCalls' = TableCalls /\ NameCalls' = NameCalls
  <2>1. UNCHANGED <<allocated, freed, collection_count>> /\ Made' = Made
    BY CollectorRests
  <2> QED BY <2>1 DEF Entry, TableCalls, NameCalls
<1>1. /\ stack \in Seq(Made) /\ pool \in [Hashes -> Made] /\ entries \in [Tables -> [Texts -> Entry]]
      /\ text \in [Objects -> Texts \cup {Nil}] /\ fault \in BOOLEAN /\ Nil \in Made
      /\ fault => collection_count > 0
      /\ call = NoCall \/ call \in TableCalls \/ call \in NameCalls
  BY DEF SessionInv, StateTypeOK, Made
<1>2. \A s \in Texts : Hash[s] \in Hashes
  BY DEF Hashes
<1>3. Globals \in Tables /\ Tables \subseteq Objects
  BY StateAssumption DEF Tables
<1>4. SUFFICES ASSUME stack' \in Seq(Made) /\ pool' \in [Hashes -> Made]
                        /\ UNCHANGED <<text, entries, fault>>
                        /\ (call' = NoCall \/ call' \in TableCalls \/ call' \in NameCalls)
                        /\ CallInv'
                      => SessionInv'
               PROVE  SessionInv'
  BY <1>0, <1>1 DEF SessionInv, StateTypeOK
<1>5. CASE \E s \in Texts : PushString(s) \/ GetGlobal(s)
  <2>1. PICK s \in Texts : PushString(s) \/ GetGlobal(s)
    BY <1>5
  <2>2. call' \in NameCalls /\ CallInv'
    BY <1>1, <1>3, <2>1 DEF PushString, GetGlobal, Call, NameCalls, InternCalls, CallInv
  <2> QED BY <1>1, <1>4, <2>1, <2>2 DEF PushString, GetGlobal
<1>6. CASE \E s \in Texts : SetGlobal(s)
  <2>1. PICK s \in Texts : SetGlobal(s)
    BY <1>6
  <2>2. stack' \in Seq(Made) /\ Top \in Made
    BY <1>1, <2>1, PopType DEF SetGlobal
  <2>3. call' \in NameCalls /\ CallInv'
    BY <1>1, <1>3, <2>1, <2>2 DEF SetGlobal, Call, NameCalls, InternCalls, CallInv
  <2> QED BY <1>1, <1>4, <2>1, <2>2, <2>3 DEF SetGlobal
<1>7. CASE \E i \in 1 .. Len(stack), s \in Texts : SetField(i, s)
  <2>1. PICK i \in 1 .. Len(stack), s \in Texts : SetField(i, s)
    BY <1>7
  <2>2. stack # <<>>
    BY <2>1
  <2>3. stack' \in Seq(Made) /\ Top \in Made
    BY <1>1, <2>1, <2>2, PopType DEF SetField
  <2>4. call' \in NameCalls /\ CallInv'
    BY <1>1, <2>1, <2>3 DEF SetField, Call, NameCalls, InternCalls, CallInv
  <2> QED BY <1>1, <1>4, <2>1, <2>3, <2>4 DEF SetField
<1>8. CASE \E i \in 1 .. Len(stack), s \in Texts : GetField(i, s)
  <2>1. PICK i \in 1 .. Len(stack), s \in Texts : GetField(i, s)
    BY <1>8
  <2>2. CASE stack[i] \in Tables
    <3>1. call' \in NameCalls /\ CallInv'
      BY <1>1, <2>1, <2>2 DEF GetField, Call, NameCalls, InternCalls, CallInv
    <3> QED BY <1>1, <1>4, <2>1, <2>2, <3>1 DEF GetField
  <2>3. CASE stack[i] \notin Tables
    <3>1. stack' \in Seq(Made) /\ UNCHANGED call
      BY <1>1, <2>1, <2>3, PushType DEF GetField
    <3>2. CallInv'
      BY <1>0, <2>1, <3>1 DEF GetField, CallInv, SessionInv
    <3> QED BY <1>1, <1>4, <2>1, <3>1, <3>2 DEF GetField
  <2> QED BY <2>2, <2>3
<1>9. CASE Pop
  <2>1. stack' \in Seq(Made)
    BY <1>1, <1>9, PopType DEF Pop
  <2>2. CallInv'
    BY <1>0, <1>9 DEF Pop, CallInv, SessionInv
  <2> QED BY <1>1, <1>4, <1>9, <2>1, <2>2 DEF Pop
<1>10. CASE PushTableReturns
  <2>1. call.str \in Made
    BY <1>10, CallCases DEF PushTableReturns, Inside, TableCalls, Made
  <2>2. stack' \in Seq(Made)
    BY <1>1, <1>10, <2>1, PushType DEF PushTableReturns
  <2>3. CallInv'
    BY <1>10 DEF PushTableReturns, CallInv, NoCall, InternCalls
  <2> QED BY <1>1, <1>4, <1>10, <2>2, <2>3 DEF PushTableReturns
<1>11. CASE InternHit
  <2>1. call \in NameCalls
    BY <1>11, CallCases DEF InternHit, Inside
  <2>2. Pooled \in Made /\ Pooled # Nil /\ text[Pooled] = call.name
    BY <1>1, <1>2, <1>11, <2>1 DEF InternHit, Hit, Pooled, NameCalls
  <2>3. /\ call' \in NameCalls /\ call'.op = call.op /\ call'.table = call.table
        /\ call'.name = call.name /\ call'.str = Pooled
    BY <1>11, <2>1, <2>2 DEF InternHit, NameCalls
  <2>4. CallInv'
    BY <1>0, <1>11, <2>2, <2>3 DEF InternHit, CallInv, SessionInv, Made
  <2> QED BY <1>1, <1>4, <1>11, <2>3, <2>4 DEF InternHit
<1>12. CASE PoolPut
  <2>1. call \in NameCalls /\ call.at = "put" /\ call.op \in InternCalls
    BY <1>12, CallCases DEF PoolPut, Inside
  <2>2. pool' \in [Hashes -> Made]
    BY <1>1, <1>12, <2>1 DEF PoolPut, NameCalls
  <2>3. /\ call' \in NameCalls /\ call'.op = call.op /\ call'.table = call.table
        /\ call'.name = call.name /\ call'.str = call.str
    BY <1>12, <2>1 DEF PoolPut, NameCalls
  <2>4. CallInv'
    BY <1>0, <1>12, <2>1, <2>3 DEF PoolPut, CallInv, SessionInv
  <2> QED BY <1>1, <1>4, <1>12, <2>2, <2>3, <2>4 DEF PoolPut
<1>13. CASE PushStringReturns
  <2>1. call \in NameCalls
    BY <1>13, CallCases DEF PushStringReturns, Inside, InternCalls
  <2>2. stack' \in Seq(Made)
    BY <1>1, <1>13, <2>1, PushType DEF PushStringReturns, NameCalls
  <2>3. CallInv'
    BY <1>13 DEF PushStringReturns, CallInv, NoCall, InternCalls
  <2> QED BY <1>1, <1>4, <1>13, <2>2, <2>3 DEF PushStringReturns
<1>14. CASE GetReturns
  <2>1. call \in NameCalls /\ call.table \in Tables /\ text[call.str] \in Texts
    <3>1. call \in NameCalls /\ call.op = "get" /\ call.at = "finish"
      BY <1>14, CallCases DEF GetReturns, Inside, InternCalls
    <3> QED BY <3>1 DEF SessionInv, CallInv, InternCalls, NameCalls
  <2>2. EntryValue(call.table, text[call.str]) \in Made
    <3>1. entries[call.table][text[call.str]] \in Entry
      BY <1>1, <2>1
    <3> QED BY <3>1 DEF EntryValue, Entry, Made
  <2>3. stack' \in Seq(Made)
    BY <1>1, <1>14, <2>2, PushType DEF GetReturns
  <2>4. CallInv'
    BY <1>14 DEF GetReturns, CallInv, NoCall, InternCalls
  <2> QED BY <1>1, <1>4, <1>14, <2>3, <2>4 DEF GetReturns
<1> QED BY <1>5, <1>6, <1>7, <1>8, <1>9, <1>10, <1>11, <1>12, <1>13, <1>14

(* A fault needs a freed object outside of a sweep, so a collection has    *)
(* ended before it.                                                        *)
LEMMA FaultKeeps ==
  ASSUME VMInv, InternFault \/ EntryFault \/ MarkFault
  PROVE  VMInv'
<1> USE DEF VMInv
<1>1. UNCHANGED vars /\ UNCHANGED <<stack, pool, text, entries, call>> /\ fault' = TRUE
  BY DEF InternFault, EntryFault, MarkFault
<1>2. CollectorInv' /\ UNCHANGED <<allocated, freed, collection_count>> /\ Made' = Made
  BY <1>1, CollectorRests
<1>3. freed # {} /\ ~Sweeping
  BY DEF InternFault, EntryFault, MarkFault, Inside, Sweeping, CollectorInv, Stages
<1>4. collection_count' > 0
  BY <1>2, <1>3 DEF CollectorInv, Quiet, HeapTypeOK, TypeOK
<1>5. StateTypeOK' /\ CallInv'
  BY <1>1, <1>2 DEF SessionInv, StateTypeOK, CallInv, Entry, TableCalls, NameCalls
<1> QED BY <1>2, <1>4, <1>5 DEF SessionInv

(* The two calls that make an object.                                      *)
LEMMA NewKeeps ==
  ASSUME VMInv, NEW o \in Objects, PushTable(o) \/ InternMiss(o)
  PROVE  VMInv'
<1> USE DEF VMInv
<1>1. NewObject(o) /\ UNCHANGED <<stack, pool, entries, fault>>
  BY DEF PushTable, InternMiss
<1>2. /\ CollectorInv' /\ allocated' = allocated \cup {o}
      /\ collection_count' = collection_count
  BY <1>1, NewObjectKeeps
<1>3. Made \subseteq Made' /\ Entry \subseteq Entry'
  BY <1>2 DEF Made, Entry
<1>4. stack' \in Seq(Made')
  <2> DEFINE A == Made  B == Made'
  <2>1. A \subseteq B /\ stack \in Seq(A)
    BY <1>3 DEF SessionInv, StateTypeOK
  <2> HIDE DEF A, B
  <2>2. stack \in Seq(B)
    BY <2>1
  <2> QED BY <1>1, <2>2 DEF B
<1>5. pool' \in [Hashes -> Made'] /\ entries' \in [Tables -> [Texts -> Entry']]
  BY <1>1, <1>3 DEF SessionInv, StateTypeOK
<1>6. CASE PushTable(o)
  <2>1. call' \in TableCalls'
    BY <1>2, <1>6 DEF PushTable, TableCalls
  <2>2. CallInv'
    BY <1>6 DEF PushTable, CallInv, InternCalls
  <2>3. UNCHANGED text
    BY <1>6 DEF PushTable
  <2> QED BY <1>1, <1>2, <1>4, <1>5, <2>1, <2>2, <2>3 DEF SessionInv, StateTypeOK
<1>7. CASE InternMiss(o)
  <2>1. call \in NameCalls /\ call.op \in InternCalls
    BY <1>7, CallCases DEF InternMiss, Inside
  <2>2. call' = [call EXCEPT !.at = "put", !.str = o] /\ text' = [text EXCEPT ![o] = call.name]
    BY <1>7 DEF InternMiss
  <2>3. o \in Made'
    BY <1>2 DEF Made
  <2>4. /\ call' \in NameCalls' /\ call'.op = call.op /\ call'.table = call.table
        /\ call'.name = call.name /\ call'.str = o
    BY <1>3, <2>1, <2>2, <2>3 DEF NameCalls
  <2>5. text' \in [Objects -> Texts \cup {Nil}] /\ text'[o] = call.name
    BY <2>1, <2>2 DEF SessionInv, StateTypeOK, NameCalls
  <2>6. CallInv'
    BY <1>2, <2>1, <2>4, <2>5 DEF SessionInv, CallInv
  <2> QED BY <1>1, <1>2, <1>4, <1>5, <2>4, <2>5, <2>6 DEF SessionInv, StateTypeOK
<1> QED BY <1>6, <1>7

(* The entry that Table.set writes, and the pointers of the table then.    *)
LEMMA PutEntryType ==
  ASSUME NEW e \in [Texts -> Entry], NEW s \in Texts, NEW str \in allocated, NEW v \in Made
  PROVE  /\ PutEntry(e, s, str, v) \in [Texts -> Entry]
         /\ EntryRefs(PutEntry(e, s, str, v)) \subseteq allocated
<1> DEFINE w == IF v = Nil THEN Nil ELSE <<IF e[s] = Nil THEN str ELSE e[s][1], v>>
           f == PutEntry(e, s, str, v)
<1>1. f = [e EXCEPT ![s] = w]
  BY DEF PutEntry
<1>2. w \in Entry
  <2>1. CASE v = Nil
    BY <2>1 DEF Entry
  <2>2. CASE v # Nil
    <3>1. v \in allocated /\ e[s] \in Entry
      BY <2>2 DEF Made
    <3>2. (IF e[s] = Nil THEN str ELSE e[s][1]) \in allocated
      BY <3>1 DEF Entry
    <3> QED BY <2>2, <3>1, <3>2 DEF Entry
  <2> QED BY <2>1, <2>2
<1> HIDE DEF w
<1>3. f \in [Texts -> Entry]
  BY <1>1, <1>2
<1> HIDE DEF f
<1>4. EntryRefs(f) \subseteq allocated
  <2>1. \A x \in Texts : (IF f[x] = Nil THEN {} ELSE {f[x][1], f[x][2]}) \subseteq allocated
    BY <1>3 DEF Entry
  <2> QED BY <2>1 DEF EntryRefs
<1> QED BY <1>3, <1>4 DEF f

(* What setGlobal and setField have in hand when they call Table.set.      *)
LEMMA SetCall ==
  ASSUME VMInv, SetReturns
  PROVE  /\ call \in NameCalls /\ call.table \in Tables /\ call.name \in Texts
         /\ call.str \in allocated /\ text[call.str] = call.name /\ call.value \in Made
         /\ entries[call.table] \in [Texts -> Entry]
<1>1. call \in NameCalls /\ call.op = "set" /\ call.at = "finish"
  BY CallCases DEF VMInv, SetReturns, Inside, InternCalls
<1>2. /\ call.table \in Tables /\ call.str \in allocated /\ text[call.str] = call.name
      /\ call.name \in Texts /\ call.value \in Made
  BY <1>1 DEF VMInv, SessionInv, CallInv, InternCalls, NameCalls
<1> QED BY <1>1, <1>2 DEF VMInv, SessionInv, StateTypeOK

(* Table.set at the end of setGlobal or setField: the table then points to *)
(* objects that have been made, freed or not.                              *)
LEMMA SetReturnsKeeps ==
  ASSUME VMInv, SetReturns
  PROVE  VMInv'
<1> USE DEF VMInv
<1> DEFINE e == PutEntry(entries[call.table], text[call.str], call.str, call.value)
<1>1. /\ call.table \in Tables /\ call.table \in Objects
      /\ e \in [Texts -> Entry] /\ EntryRefs(e) \subseteq allocated
  BY SetCall, PutEntryType DEF Tables
<1>2. /\ UNCHANGED <<allocated, freed, marked, objects, num_objects, threshold,
                     total_allocated, total_collected, collection_count, roots, phase,
                     pending, unswept, collected, queued, fresh>>
      /\ UNCHANGED <<stack, pool, text, fault>> /\ call' = NoCall /\ phase = "idle"
  BY DEF SetReturns, statVars, Inside
<1>3. entries' = [entries EXCEPT ![call.table] = e]
  BY DEF SetReturns
<1>4. entries'[call.table] = e
  BY <1>1, <1>3 DEF SessionInv, StateTypeOK
<1>5. refs' = [refs EXCEPT ![call.table] = EntryRefs(e)]
  BY <1>4 DEF SetReturns
<1> HIDE DEF e
<1>6. refs' \in [Objects -> SUBSET allocated] /\ allocated \subseteq Objects
  BY <1>1, <1>5 DEF CollectorInv, HeapTypeOK, TypeOK
<1>7. entries' \in [Tables -> [Texts -> Entry]]
  BY <1>1, <1>3 DEF SessionInv, StateTypeOK
<1>8. HeapTypeOK'
  BY <1>2, <1>6 DEF CollectorInv, HeapTypeOK, TypeOK
<1>9. ~Marking' /\ ~Sweeping' /\ ~Sweeping
  BY <1>2 DEF Marking, Sweeping
<1>10. ListAccounting' /\ Stages' /\ Quiet' /\ Closing' /\ Closed'
  BY <1>2, <1>9 DEF CollectorInv, ListAccounting, Stages, Quiet, Closing, Closed
<1>11. StateTypeOK' /\ CallInv'
  BY <1>2, <1>7 DEF SessionInv, StateTypeOK, Made, Entry, CallInv, NoCall, InternCalls
<1> QED BY <1>2, <1>8, <1>10, <1>11 DEF CollectorInv, SessionInv

(* deinit empties the stack and the pool.                                  *)
LEMMA VMDeinitKeeps ==
  ASSUME VMInv, VMDeinit
  PROVE  VMInv'
<1> USE DEF VMInv
<1>1. /\ CollectorInv' /\ allocated' = allocated /\ collection_count' = collection_count
      /\ stack' = <<>> /\ pool' = [h \in Hashes |-> Nil]
      /\ UNCHANGED <<text, entries, call, fault>>
  BY CollectDeinitKeeps DEF VMDeinit
<1>2. Made' = Made /\ Entry' = Entry /\ TableCalls' = TableCalls /\ NameCalls' = NameCalls
  BY <1>1 DEF Made, Entry, TableCalls, NameCalls
<1>3. stack' \in Seq(Made) /\ pool' \in [Hashes -> Made]
  BY <1>1 DEF Made
<1>4. StateTypeOK' /\ CallInv'
  BY <1>1, <1>2, <1>3 DEF SessionInv, StateTypeOK, CallInv
<1> QED BY <1>1, <1>4 DEF SessionInv

(* The collector's turn.                                                   *)
LEMMA CollectorRunsKeeps ==
  ASSUME VMInv, CollectorRuns
  PROVE  VMInv'
<1> USE DEF VMInv
<1>1. UNCHANGED vmVars /\ ~fault /\ pending \cap freed = {}
  BY DEF CollectorRuns
<1>2. CollectorInv' /\ allocated' = allocated
  <2>1. CASE \E o \in Objects : MarkObject(o)
    <3>1. PICK o \in Objects : MarkObject(o)
      BY <2>1
    <3>2. o \notin freed /\ UNCHANGED allocated
      BY <1>1, <3>1 DEF MarkObject, heapVars
    <3> QED BY <3>1, <3>2, MarkObjectKeeps
  <2>2. CASE StartSweep
    BY <2>2, StartSweepKeeps DEF StartSweep, heapVars
  <2>3. CASE \E o \in Objects : SweepObject(o)
    BY <2>3, SweepObjectKeeps DEF SweepObject
  <2>4. CASE FinishCollect
    BY <2>4, FinishCollectKeeps DEF FinishCollect, heapVars
  <2> QED BY <2>1, <2>2, <2>3, <2>4 DEF CollectorRuns
<1> QED BY <1>1, <1>2, SessionRests

-----------------------------------------------------------------------------
(* The invariant.                                                          *)

(* LuaState.init leaves a thread and two tables, all of them roots.        *)
LEMMA VMInitOK == VMInit => VMInv
<1> SUFFICES ASSUME VMInit PROVE VMInv
  OBVIOUS
<1> DEFINE Three == {Globals, Registry, MainThread}
<1>1. Globals # Registry /\ Globals # MainThread /\ Registry # MainThread /\ Three \subseteq Objects
  BY StateAssumption
<1>2. Cardinality(Three) = 3
  <2>1. IsFiniteSet({Globals}) /\ Cardinality({Globals}) = 1
    BY FS_Singleton
  <2>2. IsFiniteSet({Globals} \cup {Registry}) /\ Cardinality({Globals} \cup {Registry}) = 2
    BY <1>1, <2>1, FS_AddElement
  <2>3. Cardinality(({Globals} \cup {Registry}) \cup {MainThread}) = 3
    BY <1>1, <2>2, FS_AddElement
  <2>4. ({Globals} \cup {Registry}) \cup {MainThread} = Three
    OBVIOUS
  <2> QED BY <2>3, <2>4
<1>3. 2 * Size["table"] + Size["thread"] \in Nat
  <2>1. Size["table"] \in Nat /\ Size["thread"] \in Nat
    BY SizeAssumption DEF Kinds
  <2> QED BY <2>1
<1>4. HeapTypeOK
  BY <1>1, <1>3, BoundAssumption DEF VMInit, HeapTypeOK, TypeOK, Phases
<1>5. ListAccounting
  BY <1>2 DEF VMInit, ListAccounting
<1>6. Stages /\ Closed /\ Quiet /\ Closing
  BY DEF VMInit, Stages, Closed, Quiet, Closing, Marking, Sweeping
<1>7. StateTypeOK
  <2>1. Nil \in Made /\ Nil \in Entry /\ <<>> \in Seq(Made)
    BY DEF Made, Entry
  <2>2. /\ pool \in [Hashes -> Made] /\ text \in [Objects -> Texts \cup {Nil}]
        /\ entries \in [Tables -> [Texts -> Entry]]
    BY <2>1 DEF VMInit
  <2> QED BY <2>1, <2>2 DEF VMInit, StateTypeOK
<1>8. CallInv
  BY DEF VMInit, CallInv, NoCall, InternCalls
<1> QED BY <1>4, <1>5, <1>6, <1>7, <1>8 DEF VMInv, CollectorInv, SessionInv, VMInit

(* Every step of a call and of the collector keeps the invariant.          *)
LEMMA VMNextOK == VMInv /\ [VMNext]_allVars => VMInv'
<1> SUFFICES ASSUME VMInv, [VMNext]_allVars PROVE VMInv'
  OBVIOUS
<1>1. CASE \E o \in Objects : PushTable(o) \/ InternMiss(o)
  BY <1>1, NewKeeps
<1>2. CASE \/ \E s \in Texts : PushString(s) \/ SetGlobal(s) \/ GetGlobal(s)
           \/ \E i \in 1 .. Len(stack), s \in Texts : SetField(i, s) \/ GetField(i, s)
           \/ Pop \/ PushTableReturns \/ InternHit \/ PoolPut
           \/ PushStringReturns \/ GetReturns
  <2>1. UNCHANGED vars
    BY <1>2 DEF PushString, SetGlobal, GetGlobal, SetField, GetField, Pop,
                PushTableReturns, InternHit, PoolPut, PushStringReturns, GetReturns
  <2> QED BY <1>2, <2>1, CallStepKeeps, CollectorRests DEF VMInv
<1>3. CASE VMDeinit
  BY <1>3, VMDeinitKeeps
<1>4. CASE VMCollect
  <2>1. CollectorInv' /\ allocated' = allocated /\ collection_count' = collection_count
    BY <1>4, CollectDeinitKeeps DEF VMCollect, VMInv
  <2> QED BY <1>4, <2>1, SessionRests DEF VMCollect, VMInv, SessionInv
<1>5. CASE InternFault \/ EntryFault \/ MarkFault
  BY <1>5, FaultKeeps
<1>6. CASE SetReturns
  BY <1>6, SetReturnsKeeps
<1>7. CASE CollectorRuns
  BY <1>7, CollectorRunsKeeps
<1>8. CASE UNCHANGED allVars
  <2>1. UNCHANGED vars /\ UNCHANGED vmVars
    BY <1>8 DEF allVars
  <2>2. CollectorInv' /\ UNCHANGED <<allocated, freed, collection_count>>
    BY <2>1, CollectorRests DEF VMInv
  <2> QED BY <2>1, <2>2, SessionRests DEF VMInv, SessionInv
<1> QED BY <1>1, <1>2, <1>3, <1>4, <1>5, <1>6, <1>7, <1>8 DEF VMNext

(* Every reachable state of a session satisfies the invariant.             *)
THEOREM VMInvariance == VMSpec => []VMInv
BY VMInitOK, VMNextOK, PTL DEF VMSpec

(* No call reads freed memory before the first collection has ended, and   *)
(* deinit gives every object back, in every session.                       *)
THEOREM QuietSessionHolds == VMSpec => []QuietSession
<1>1. VMInv => QuietSession
  <2> SUFFICES ASSUME VMInv PROVE QuietSession
    OBVIOUS
  <2>1. fault => collection_count > 0
    BY DEF VMInv, SessionInv
  <2>2. DeinitFreesAll
    BY DEF VMInv, CollectorInv, Closing, ListAccounting, Stages, DeinitFreesAll
  <2> QED BY <2>1, <2>2 DEF QuietSession
<1> QED BY <1>1, VMInvariance, PTL

(* Whatever the VM leaves dangling, no collection frees an object that the *)
(* roots lead to.                                                          *)
THEOREM SessionKeepsReachable == VMSpec => ReachableNeverFreed
<1>1. VMInv /\ [VMNext]_allVars => [(freed' \ freed) \cap Reachable = {}]_vars
  <2> SUFFICES ASSUME VMInv, [VMNext]_allVars
               PROVE  (freed' \ freed) \cap Reachable = {}
    OBVIOUS
  <2>1. CASE \E o \in Objects : SweepObject(o)
    <3>1. PICK o \in Objects : SweepObject(o)
      BY <2>1
    <3>2. (freed' \ freed) \cap Survivors = {}
      BY <3>1, SweepObjectKeeps DEF VMInv
    <3>3. Sweeping
      BY <3>1 DEF SweepObject, Sweeping
    <3>4. RootSet \subseteq Survivors /\ PointsInto(Survivors) /\ Survivors \in SUBSET Objects
      BY <3>3 DEF VMInv, CollectorInv, Closed, Stages, RootSet, Survivors, HeapTypeOK, TypeOK
    <3>5. Reachable \subseteq Survivors
      BY <3>4 DEF Reachable
    <3> QED BY <3>2, <3>5
  <2>2. CASE ~(\E o \in Objects : SweepObject(o))
    <3>1. freed' = freed
      BY <2>2 DEF VMNext, PushTable, InternMiss, NewObject, PushString, SetGlobal, GetGlobal,
             SetField, GetField, Pop, VMDeinit, Deinit, VMCollect, Collect, PushTableReturns,
             InternHit, InternFault, PoolPut, PushStringReturns, EntryFault, GetReturns,
             SetReturns, CollectorRuns, MarkObject, StartSweep, FinishCollect, MarkFault,
             allVars, vars, heapVars
    <3> QED BY <3>1
  <2> QED BY <2>1, <2>2
<1> QED BY <1>1, VMInvariance, PTL DEF VMSpec, ReachableNeverFreed

(* An entry holds a pair or nothing, and the two differ.                   *)
LEMMA EntryCases ==
  ASSUME HeapTypeOK, NEW a \in allocated, NEW b \in allocated
  PROVE  <<a, b>> # Nil
BY NilAssumption DEF HeapTypeOK, TypeOK

(* Names never get mixed up, whichever of them share a hash and whatever   *)
(* the string pool holds: a store changes the name it was given, in the    *)
(* table it was given, and a read returns what is stored there.            *)
THEOREM NamesApart == VMSpec => NamesKeptApart
<1>1. ASSUME VMInv, SetReturns, NEW u \in Tables
      PROVE  Shown(u)' = IF u = call.table
                           THEN [Shown(u) EXCEPT ![call.name] = call.value]
                           ELSE Shown(u)
  <2> DEFINE e == entries[call.table]
             p == IF call.value = Nil THEN Nil
                  ELSE <<IF e[call.name] = Nil THEN call.str ELSE e[call.name][1], call.value>>
  <2>1. /\ call.table \in Tables /\ call.name \in Texts /\ call.str \in allocated
        /\ text[call.str] = call.name /\ call.value \in Made /\ e \in [Texts -> Entry]
    BY <1>1, SetCall
  <2>2. entries \in [Tables -> [Texts -> Entry]]
    BY <1>1 DEF VMInv, SessionInv, StateTypeOK
  <2>3. entries' = [entries EXCEPT ![call.table] = [e EXCEPT ![call.name] = p]]
    BY <1>1, <2>1 DEF SetReturns, PutEntry
  <2>4. (IF p = Nil THEN Nil ELSE p[2]) = call.value
    <3>1. CASE call.value = Nil
      BY <3>1
    <3>2. CASE call.value # Nil
      <4> DEFINE a == IF e[call.name] = Nil THEN call.str ELSE e[call.name][1]
      <4>1. a \in allocated /\ call.value \in allocated
        <5>1. e[call.name] \in Entry
          BY <2>1
        <5> QED BY <2>1, <3>2, <5>1 DEF Entry, Made
      <4>2. p = <<a, call.value>>
        BY <3>2
      <4> HIDE DEF a, p
      <4>3. p # Nil
        BY <1>1, <4>1, <4>2, EntryCases DEF VMInv, CollectorInv
      <4> QED BY <4>2, <4>3
    <3> QED BY <3>1, <3>2
  <2> HIDE DEF e, p
  <2>5. CASE u = call.table
    <3>1. \A s \in Texts : entries'[u][s] = IF s = call.name THEN p ELSE entries[u][s]
      BY <2>1, <2>2, <2>3, <2>5 DEF e
    <3>2. \A s \in Texts : EntryValue(u, s)' = IF s = call.name THEN call.value
                                                               ELSE EntryValue(u, s)
      BY <2>4, <3>1 DEF EntryValue
    <3> QED BY <2>1, <2>5, <3>2 DEF Shown
  <2>6. CASE u # call.table
    <3>1. entries'[u] = entries[u]
      BY <2>1, <2>2, <2>3, <2>6
    <3> QED BY <2>6, <3>1 DEF Shown, EntryValue
  <2> QED BY <2>5, <2>6
<1>2. ASSUME VMInv, GetReturns, Len(stack) < StackSize
      PROVE  stack'[Len(stack')] = Shown(call.table)[call.name]
  <2>1. call \in NameCalls /\ call.op = "get" /\ call.at = "finish"
    BY <1>2, CallCases DEF VMInv, GetReturns, Inside, InternCalls
  <2>2. call.name \in Texts /\ text[call.str] = call.name
    BY <1>2, <2>1 DEF VMInv, SessionInv, CallInv, InternCalls, NameCalls
  <2>3. stack' = Append(stack, EntryValue(call.table, call.name)) /\ stack \in Seq(Made)
    BY <1>2, <2>2 DEF GetReturns, Push, VMInv, SessionInv, StateTypeOK
  <2>4. stack'[Len(stack')] = EntryValue(call.table, call.name)
    BY <2>3
  <2> QED BY <2>2, <2>4 DEF Shown
<1>3. VMInv =>
        /\ SetReturns =>
             \A u \in Tables : Shown(u)' =
               IF u = call.table
                 THEN [Shown(u) EXCEPT ![call.name] = call.value]
                 ELSE Shown(u)
        /\ GetReturns /\ Len(stack) < StackSize =>
             stack'[Len(stack')] = Shown(call.table)[call.name]
  BY <1>1, <1>2
<1> QED BY <1>3, VMInvariance, PTL DEF VMSpec, NamesKeptApart
=============================================================================
