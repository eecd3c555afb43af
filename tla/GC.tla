--------------------------------- MODULE GC ---------------------------------
(***************************************************************************)
(* The mark-and-sweep collector of gc.zig, together with the object        *)
(* constructors of object.zig that feed it (every `initWithGC' ends in     *)
(* addObject) and the owner's calls (setRoots, collect, deinit).           *)
(*                                                                         *)
(* The linked list GC.objects is the set `objects' of the objects on it:   *)
(* nothing depends on its order, so sweep visits the list in any order.    *)
(* The recursion of markObject is the set `pending' of the calls it has    *)
(* still to make.  The fields of an object that hold GC pointers (array,   *)
(* map, metatable, upvalues, proto, env, stack, closed value) are the set  *)
(* refs[o]; the kind of an object says which kinds those fields may hold.  *)
(*                                                                         *)
(* The mutator of this module is a client that keeps to the collector's    *)
(* contract: it only stores pointers to objects that have not been freed.  *)
(* The VM, which does not keep to it, is the subject of VMHeap.            *)
(***************************************************************************)
EXTENDS Integers, FiniteSets

(* A definition placed just before another with the same parameters and a  *)
(* name that says what it gets wrong is a deliberately faulty variant of   *)
(* it; no specification uses it.  It shows that a property would notice.   *)

CONSTANTS
  Objects,      (* identities of GCObjects; an address is never reused     *)
  Kind,         (* Kind[o]: the obj_type of object o                       *)
  Size,         (* Size[k]: @sizeOf the Zig type of kind k                 *)
  MinThreshold, (* 1024 in gc.zig                                          *)
  MaxRefs,      (* bound: how many references a client puts in one object  *)
  MaxCollect    (* bound: how many collections the client asks for itself  *)

Kinds == {"string", "table", "closure", "c_closure", "userdata", "thread",
          "upvalue", "proto"}

(* The kinds a Value can hold: the cases of markValue.                     *)
ValueKinds == {"string", "table", "closure", "c_closure", "userdata", "thread"}

(* RefKinds[k]: what the pointer fields of an object of kind k may hold;   *)
(* one case of the switch in markObject each.                              *)
RefKinds ==
  [string    |-> {},
   table     |-> ValueKinds,
   closure   |-> {"proto", "upvalue"},
   c_closure |-> ValueKinds,
   userdata  |-> {"table"},
   thread    |-> ValueKinds \cup {"upvalue"},
   upvalue   |-> ValueKinds,
   proto     |-> {"proto"}]

ASSUME KindAssumption == Kind \in [Objects -> Kinds]
ASSUME SizeAssumption == Size \in [Kinds -> Nat \ {0}]
ASSUME ObjectsAssumption == IsFiniteSet(Objects)
ASSUME BoundAssumption == /\ MinThreshold \in Nat
                          /\ MaxRefs \in Nat
                          /\ MaxCollect \in Nat

VARIABLES
  allocated,        (* every object ever created                           *)
  freed,            (* every object given back to the allocator            *)
  refs,             (* refs[o]: the objects o points to                    *)
  marked,           (* the objects whose `marked' byte is 1                *)
  objects,          (* GC.objects, the list of all collectable objects     *)
  num_objects, threshold, total_allocated, total_collected,
  collection_count, (* the counters of GC                                  *)
  roots,            (* GC.roots: unset, or the set of its non-null fields  *)
  phase,            (* what collect() is doing                             *)
  pending,          (* markObject calls still to be made                   *)
  unswept,          (* the part of the list from sweep's `current' on      *)
  collected,        (* sweep's local count                                 *)
  queued,           (* Closure.initWithGC: the proto it adds second        *)
  fresh             (* objects whose constructor has not returned yet      *)

heapVars == <<allocated, freed, refs>>
statVars == <<total_allocated, total_collected, collection_count>>
vars == <<heapVars, marked, objects, num_objects, threshold, statVars, roots,
          phase, pending, unswept, collected, queued, fresh>>

Unset == [set |-> FALSE, objs |-> {}]

Phases == {"idle", "mark", "sweep", "closing-mark", "closing-sweep", "closed"}

TypeOK ==
  /\ allocated \in SUBSET Objects
  /\ freed \in SUBSET Objects
  /\ refs \in [Objects -> SUBSET Objects]
  /\ marked \in SUBSET Objects
  /\ objects \in SUBSET Objects
  /\ num_objects \in Nat
  /\ threshold \in Nat
  /\ total_allocated \in Nat
  /\ total_collected \in Nat
  /\ collection_count \in Nat
  /\ roots \in [set : BOOLEAN, objs : SUBSET Objects]
  /\ phase \in Phases
  /\ pending \in SUBSET Objects
  /\ unswept \in SUBSET Objects
  /\ collected \in Nat
  /\ queued \in SUBSET Objects
  /\ fresh \in SUBSET Objects

(* GC.init: an empty list, no roots. *)
Init ==
  /\ allocated = {} /\ freed = {} /\ refs = [o \in Objects |-> {}]
  /\ marked = {} /\ objects = {}
  /\ num_objects = 0 /\ threshold = MinThreshold
  /\ total_allocated = 0 /\ total_collected = 0 /\ collection_count = 0
  /\ roots = Unset
  /\ phase = "idle"
  /\ pending = {} /\ unswept = {} /\ collected = 0
  /\ queued = {} /\ fresh = {}

-----------------------------------------------------------------------------
(* The collector.                                                          *)

(* markRoots: the first markObject calls.  Without roots the fallback      *)
(* marks the whole list.                                                   *)
RootsWithoutThread(R, list) ==
  IF R.set THEN {o \in R.objs : Kind[o] # "thread"} ELSE list
FallbackOnEmptyRoots(R, list) == IF R.objs # {} THEN R.objs ELSE list
MarkRoots(R, list) == IF R.set THEN R.objs ELSE list

(* The end of collect(): the threshold is the number of survivors times    *)
(* 1.5 + 1.5 * efficiency, floored, and never below the minimum.  With n   *)
(* survivors and c objects collected that factor is 3(n + 2c) / 2(n + c);  *)
(* with no survivor the product is 0 whatever the factor.                  *)
NewThreshold(n, c) ==
  LET scaled == IF n = 0 THEN 0 ELSE (3 * n * (n + 2 * c)) \div (2 * (n + c))
  IN  IF scaled < MinThreshold THEN MinThreshold ELSE scaled

(* Entering collect() with `list' on GC.objects. *)
StartCollect(R, list, markPhase) ==
  /\ phase' = markPhase
  /\ pending' = MarkRoots(R, list)

(* What markObject(o) recurses into: every pointer field of its kind. *)
SkipUpvalueClosed(o) == IF Kind[o] = "upvalue" THEN {} ELSE refs[o]
SkipTableValues(o) == IF Kind[o] = "table" THEN {} ELSE refs[o]
Children(o) == refs[o]

(* One call of markObject(o): return at once if o is marked, else mark it  *)
(* and call markObject on everything it points to.                         *)
MarkObjectUnchecked(o) ==
  /\ phase \in {"mark", "closing-mark"}
  /\ o \in pending
  /\ marked' = marked \cup {o}
  /\ pending' = (pending \ {o}) \cup Children(o)
  /\ UNCHANGED <<heapVars, objects, num_objects, threshold, statVars, roots,
                 phase, unswept, collected, queued, fresh>>

MarkObject(o) ==
  /\ phase \in {"mark", "closing-mark"}
  /\ o \in pending
  /\ IF o \in marked
       THEN /\ pending' = pending \ {o}
            /\ UNCHANGED marked
       ELSE /\ pending' = (pending \ {o}) \cup Children(o)
            /\ marked' = marked \cup {o}
  /\ UNCHANGED <<heapVars, objects, num_objects, threshold, statVars, roots,
                 phase, unswept, collected, queued, fresh>>

(* markRoots has returned; sweep starts at the head of the list. *)
StartSweep ==
  /\ phase \in {"mark", "closing-mark"}
  /\ pending = {}
  /\ phase' = IF phase = "mark" THEN "sweep" ELSE "closing-sweep"
  /\ unswept' = objects
  /\ collected' = 0
  /\ UNCHANGED <<heapVars, marked, objects, num_objects, threshold, statVars,
                 roots, pending, queued, fresh>>

(* One turn of sweep's loop at object o: unlink and free it if it is not   *)
(* marked, else clear its mark.  freeObject adds the object's size to      *)
(* total_collected.                                                        *)
SweepObject(o) ==
  /\ phase \in {"sweep", "closing-sweep"}
  /\ o \in unswept
  /\ unswept' = unswept \ {o}
  /\ IF o \in marked
       THEN /\ marked' = marked \ {o}
            /\ UNCHANGED <<objects, freed, num_objects, collected,
                           total_collected>>
       ELSE /\ objects' = objects \ {o}
            /\ freed' = freed \cup {o}
            /\ num_objects' = num_objects - 1
            /\ collected' = collected + 1
            /\ total_collected' = total_collected + Size[Kind[o]]
            /\ UNCHANGED marked
  /\ UNCHANGED <<allocated, refs, threshold, total_allocated,
                 collection_count, roots, phase, pending, queued, fresh>>

(* The rest of collect(): statistics and the new threshold.  It returns to *)
(* the constructor or the owner that called it.                            *)
FinishCollect ==
  /\ phase \in {"sweep", "closing-sweep"}
  /\ unswept = {}
  /\ collection_count' = collection_count + 1
  /\ total_collected' = total_collected + collected
  /\ threshold' = NewThreshold(num_objects, collected)
  /\ phase' = IF phase = "sweep" THEN "idle" ELSE "closed"
  /\ fresh' = IF queued = {} THEN {} ELSE fresh
  /\ UNCHANGED <<heapVars, marked, objects, num_objects, total_allocated,
                 roots, pending, unswept, collected, queued>>

-----------------------------------------------------------------------------
(* The client.                                                             *)

(* addObject(o), called when the counters stand as given: link, count, and *)
(* collect at once when the threshold is exceeded.                         *)
AddObject(o) ==
  /\ objects' = objects \cup {o}
  /\ num_objects' = num_objects + 1
  /\ total_allocated' = total_allocated + Size[Kind[o]]
  /\ IF num_objects + 1 > threshold
       THEN StartCollect(roots, objects \cup {o}, "mark")
       ELSE UNCHANGED <<phase, pending>>

(* String, Table, CClosure, UserData, Thread and UpValue constructors: the *)
(* new object points to nothing when it is added.                          *)
NewObject(o) ==
  /\ phase = "idle" /\ queued = {}
  /\ o \notin allocated
  /\ Kind[o] \notin {"closure", "proto"}
  /\ allocated' = allocated \cup {o}
  /\ AddObject(o)
  /\ fresh' = IF num_objects + 1 > threshold THEN {o} ELSE {}
  /\ UNCHANGED <<freed, refs, marked, threshold, total_collected,
                 collection_count, roots, unswept, collected, queued>>

(* Closure.initWithGC(proto): the closure points to its proto and is added *)
(* first; the proto, which compile() has just made, is added after that    *)
(* addObject has returned.                                                 *)
NewClosure(c, p) ==
  /\ phase = "idle" /\ queued = {} /\ roots.set
  /\ {c, p} \cap allocated = {}
  /\ Kind[c] = "closure" /\ Kind[p] = "proto"
  /\ allocated' = allocated \cup {c, p}
  /\ refs' = [refs EXCEPT ![c] = {p}]
  /\ AddObject(c)
  /\ queued' = {p}
  /\ fresh' = {c, p}
  /\ UNCHANGED <<freed, marked, threshold, total_collected, collection_count,
                 roots, unswept, collected>>

(* The second addObject of Closure.initWithGC. *)
AddProto(p) ==
  /\ phase = "idle"
  /\ p \in queued
  /\ AddObject(p)
  /\ queued' = {}
  /\ fresh' = IF num_objects + 1 > threshold THEN fresh ELSE {}
  /\ UNCHANGED <<heapVars, marked, threshold, total_collected,
                 collection_count, roots, unswept, collected>>

(* A client stores a pointer to v in a field of o (Table.set, setupval,    *)
(* UpValue.close, Thread.push ...), both still allocated.                  *)
Store(o, v) ==
  /\ phase = "idle" /\ queued = {}
  /\ {o, v} \subseteq objects
  /\ Kind[v] \in RefKinds[Kind[o]] \ {"proto"}
  /\ v \notin refs[o] /\ Cardinality(refs[o]) < MaxRefs
  /\ refs' = [refs EXCEPT ![o] = @ \cup {v}]
  /\ UNCHANGED <<allocated, freed, marked, objects, num_objects, threshold,
                 statVars, roots, phase, pending, unswept, collected, queued,
                 fresh>>

(* A client overwrites or removes such a pointer. *)
Drop(o, v) ==
  /\ phase = "idle" /\ queued = {}
  /\ o \in objects /\ v \in refs[o] /\ Kind[v] # "proto"
  /\ refs' = [refs EXCEPT ![o] = @ \ {v}]
  /\ UNCHANGED <<allocated, freed, marked, objects, num_objects, threshold,
                 statVars, roots, phase, pending, unswept, collected, queued,
                 fresh>>

(* setRoots, as LuaState.init calls it: once, with its globals, its        *)
(* registry and its thread.                                                *)
SetRoots(globals, registry, main_thread) ==
  /\ phase = "idle" /\ queued = {} /\ ~roots.set
  /\ {globals, registry, main_thread} \subseteq objects
  /\ Kind[globals] = "table" /\ Kind[registry] = "table" /\ globals # registry
  /\ Kind[main_thread] = "thread"
  /\ roots' = [set |-> TRUE, objs |-> {globals, registry, main_thread}]
  /\ UNCHANGED <<heapVars, marked, objects, num_objects, threshold, statVars,
                 phase, pending, unswept, collected, queued, fresh>>

(* collect() called by the owner: forceCollect, debugCollect. *)
Collect ==
  /\ phase = "idle" /\ queued = {}
  /\ collection_count < MaxCollect
  /\ StartCollect(roots, objects, "mark")
  /\ UNCHANGED <<heapVars, marked, objects, num_objects, threshold, statVars,
                 roots, unswept, collected, queued, fresh>>

(* LuaState.deinit: setRoots(.{}), which is a Roots whose fields are all   *)
(* null and not a null Roots, then collect().                              *)
Deinit ==
  /\ phase = "idle" /\ queued = {}
  /\ roots' = [set |-> TRUE, objs |-> {}]
  /\ StartCollect(roots', objects, "closing-mark")
  /\ UNCHANGED <<heapVars, marked, objects, num_objects, threshold, statVars,
                 unswept, collected, queued, fresh>>

Collector ==
  \/ \E o \in Objects : MarkObject(o)
  \/ StartSweep
  \/ \E o \in Objects : SweepObject(o)
  \/ FinishCollect
  \/ \E p \in Objects : AddProto(p)

Client ==
  \/ \E o \in Objects : NewObject(o)
  \/ \E c, p \in Objects : NewClosure(c, p)
  \/ \E o, v \in Objects : Store(o, v)
  \/ \E o, v \in Objects : Drop(o, v)
  \/ \E g, r, t \in Objects : SetRoots(g, r, t)
  \/ Collect
  \/ Deinit

Next == Collector \/ Client

(* A collection runs to its end before control returns to the client, so   *)
(* the collector's steps are fair; nothing obliges the client to act.      *)
Spec == Init /\ [][Next]_vars /\ WF_vars(Collector)

-----------------------------------------------------------------------------
(* Properties.                                                             *)

(* What a collection must keep: the roots, or everything if there are none. *)
RootSet == IF roots.set THEN roots.objs ELSE objects

PointsInto(S) == \A o \in S : refs[o] \subseteq S

(* The objects reachable from the roots: those in every set that contains  *)
(* the roots and all that its members point to.                            *)
Reachable ==
  {o \in Objects : \A S \in SUBSET Objects :
                     RootSet \subseteq S /\ PointsInto(S) => o \in S}

Marking  == phase \in {"mark", "closing-mark"}
Sweeping == phase \in {"sweep", "closing-sweep"}

(* What is left of the list when sweep is done. *)
Survivors == (objects \ unswept) \cup (objects \cap marked)

(* sweep spares exactly the objects reachable from the roots when collect  *)
(* was called: the recursion of markObject misses nothing, marks nothing   *)
(* else, and no mark of an earlier collection is left over to stop it.     *)
CollectExact == Sweeping => Survivors = Reachable

(* The counter, the list and the allocator agree after every step: what is *)
(* on the list (or about to be added by Closure.initWithGC) is exactly     *)
(* what is allocated and not freed, and num_objects counts it.             *)
ListAccounting ==
  /\ num_objects = Cardinality(objects)
  /\ objects \cap queued = {}
  /\ objects \cup queued = allocated \ freed
  /\ freed \subseteq allocated

(* While the client runs, no collectable object points to a freed one.     *)
NoDanglingRefs == phase = "idle" => \A o \in objects : refs[o] \cap freed = {}

(* When collect returns, the new threshold is not yet exceeded: adjusting  *)
(* it never leaves the collector in a state where the very next addObject  *)
(* of a heap that did not grow would collect again.                        *)
Headroom == phase = "idle" => num_objects <= threshold

(* setRoots(.{}) followed by collect() in deinit gives every object back:  *)
(* all-null roots mark nothing, unlike the absent roots of the fallback.   *)
DeinitFreesAll == phase = "closed" => objects = {} /\ freed = allocated

(* No step frees an object that is reachable from the roots. *)
ReachableNeverFreed == [][(freed' \ freed) \cap Reachable = {}]_vars

(* Every collection ends, also on cyclic object graphs, and control        *)
(* returns to the client (or deinit completes).                            *)
CollectionTerminates == (Marking \/ Sweeping) ~> (phase \in {"idle", "closed"})

-----------------------------------------------------------------------------
(* The inductive invariant behind the properties above.                    *)

(* Where the collector is, its working sets are; elsewhere they are empty. *)
StageInv ==
  /\ phase \in {"idle", "closed"} => marked = {} /\ pending = {} /\ unswept = {}
  /\ Marking => unswept = {}
  /\ Sweeping => pending = {} /\ unswept \subseteq objects /\ marked \subseteq unswept
  /\ phase = "idle" /\ queued = {} => fresh = {}
  /\ phase \in {"closing-mark", "closing-sweep", "closed"} =>
        roots = [set |-> TRUE, objs |-> {}] /\ queued = {}
  /\ ~roots.set => roots.objs = {}
  /\ \A o \in Objects \ allocated : refs[o] = {}
  /\ \A q \in queued : queued = {q} /\ refs[q] = {}

(* Pointers lead to objects on the list, or to the proto about to join it. *)
RefsInv ==
  ~Sweeping => /\ \A o \in objects : refs[o] \subseteq objects \cup queued
               /\ roots.objs \subseteq objects

(* Nothing leads to an object whose constructor has not returned.          *)
FreshInv ==
  /\ queued \subseteq fresh /\ fresh \subseteq allocated
  /\ queued # {} => roots.set
  /\ roots.set => /\ (roots.objs \cup marked \cup pending) \cap fresh = {}
                  /\ \A o \in objects \ fresh : refs[o] \cap fresh = {}

(* The marked objects are closed up to the calls still to be made, and     *)
(* every set that contains the roots and is closed contains them all.      *)
MarkInv ==
  Marking =>
    LET seen == marked \cup pending
    IN  /\ seen \subseteq objects
        /\ RootSet \subseteq seen
        /\ \A o \in marked : refs[o] \subseteq seen
        /\ \A S \in SUBSET Objects : RootSet \subseteq S /\ PointsInto(S) => seen \subseteq S

(* Sweeping does not change what will survive.                             *)
SweepInv ==
  Sweeping =>
    /\ RootSet \subseteq Survivors
    /\ PointsInto(Survivors)
    /\ \A S \in SUBSET Objects : RootSet \subseteq S /\ PointsInto(S) => Survivors \subseteq S

(* The invariant the proofs in GCProofs use.                               *)
IInv ==
  /\ TypeOK /\ ListAccounting
  /\ StageInv /\ RefsInv /\ FreshInv /\ MarkInv /\ SweepInv
=============================================================================
