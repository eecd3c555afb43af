----------------------------- MODULE LGCProofs ------------------------------
(***************************************************************************)
(* Proofs about LGC: that objects stay linked and typed, that the          *)
(* assertions of the barriers hold, that neither the program nor the       *)
(* collector ever leaves a reference to a freed object, that weak tables   *)
(* lose only the pairs they may lose, and that a cycle frees all that was  *)
(* garbage when it began, for every heap and every program that does       *)
(* without lua_setupvalue on shared upvalues and without collector steps   *)
(* in lua_close.                                                           *)
(*                                                                         *)
(* The parts of the inductive invariant are operators of the values they   *)
(* are about: K the kinds, r the references, op the open upvalues, c the   *)
(* colours.                                                                *)
(***************************************************************************)
EXTENDS LGC, IndexLemmas, FiniteSetTheorems, SequenceTheorems, TLAPS

Colors == {"free", "white", "dead", "gray", "black"}
Marking == {"propagate"} \cup Atomic
Sweeping == {"sweepstring", "sweep"}
Queue == {"table", "lclosure", "cclosure", "proto", "thread"}
Value == Obj \cup {Nil}

(* The type of the heap.                                                   *)
HeapType(K, r, op, c) ==
  /\ K \in [Obj -> Kinds] /\ K[Main] = "thread" /\ K[Registry] = "table"
  /\ r \in [Obj -> [Field -> Value]]
  /\ op \in [Obj -> {<<>>} \cup (Obj \X Slot)]
  /\ c \in [Obj -> Colors]

-----------------------------------------------------------------------------
(* The shape of the heap                                                   *)

FieldsOf(k) ==
  CASE k = "table" -> {"mt", "k", "v"}
    [] k = "userdata" -> {"mt", "env"}
    [] k = "lclosure" -> {"env", "p", "up"}
    [] k = "cclosure" -> {"env", "v"}
    [] k = "proto" -> {"k"}
    [] k = "upval" -> {"v"}
    [] k = "thread" -> {"env", "fin"} \cup Slot
    [] OTHER -> {}

(* x may be in field f of o.                                               *)
Fits(K, o, f, x) ==
  /\ f \in FieldsOf(K[o])
  /\ K[x] = "upval" <=> f = "up"
  /\ f \in {"mt", "env"} => K[x] = "table"
HeapFits(K, r) ==
  \A o \in Obj, f \in Field : r[o][f] # Nil => Fits(K, o, f, r[o][f])

(* A freed object is empty; a closure has an upvalue and a thread a table  *)
(* of globals.                                                             *)
Born(K, r, op, c) ==
  \A o \in Obj :
    /\ c[o] = "free" => r[o] = Empty /\ op[o] = <<>>
    /\ c[o] # "free" /\ K[o] = "lclosure" => r[o]["up"] # Nil
    /\ c[o] # "free" /\ K[o] = "thread" => r[o]["env"] # Nil
    /\ K[o] = "unused" => c[o] = "free"

(* An open upvalue points into the stack of a thread that has not been     *)
(* freed, and is never black.                                              *)
OpenFits(K, r, op, c) ==
  \A o \in Obj : op[o] # <<>> =>
    /\ K[o] = "upval" /\ K[op[o][1]] = "thread" /\ c[op[o][1]] # "free"
    /\ r[o]["v"] = Nil /\ c[o] # "black"

(* The colours that each kind may have.                                    *)
Tints(K, op, c) ==
  \A o \in Obj :
    /\ K[o] = "thread" => c[o] # "black"
    /\ K[o] = "userdata" => c[o] # "gray"
    /\ K[o] = "upval" /\ c[o] = "gray" => op[o] # <<>>

Heap(K, r, op, c) ==
  /\ HeapType(K, r, op, c)
  /\ HeapFits(K, r)
  /\ Born(K, r, op, c)
  /\ OpenFits(K, r, op, c)
  /\ Tints(K, op, c)

(* Each live userdata is in one place of one of the two lists.             *)
Ran(s) == {s[i] : i \in DOMAIN s}
Once(s) == \A i, j \in DOMAIN s : s[i] = s[j] => i = j
Listed(K, c, ud, tm) ==
  /\ ud \in Seq(Obj) /\ tm \in Seq(Obj)
  /\ Once(ud) /\ Once(tm)
  /\ Ran(ud) \cap Ran(tm) = {}
  /\ Ran(ud) \cup Ran(tm) = {u \in Obj : K[u] = "userdata" /\ c[u] # "free"}

-----------------------------------------------------------------------------
(* References                                                              *)

Ok(c, o) == c[o] \notin {"free", "dead"}
White(c, o) == c[o] \in {"white", "dead"}
Dark(c, o) == o = Nil \/ c[o] \in {"gray", "black"}

(* The value of an upvalue.                                                *)
Val(r, op, u) == IF op[u] = <<>> THEN r[u]["v"] ELSE r[op[u][1]][op[u][2]]

(* Field f of o refers to an object: the key of an empty entry does not.   *)
Refers(K, r, o, f) ==
  /\ r[o][f] # Nil
  /\ K[o] = "table" /\ f = "k" => r[o]["v"] # Nil

(* No object that is neither freed nor dead refers to one that is.         *)
Held(K, r, op, c) ==
  \A o \in Obj : Ok(c, o) =>
    /\ \A f \in Field : Refers(K, r, o, f) => Ok(c, r[o][f])
    /\ op[o] # <<>> => Val(r, op, o) = Nil \/ Ok(c, Val(r, op, o))

RootsOk(K, c, run, mt) ==
  /\ run \in Obj /\ K[run] = "thread" /\ Ok(c, run)
  /\ mt \in Value /\ (mt # Nil => K[mt] = "table" /\ Ok(c, mt))
  /\ Ok(c, Main) /\ Ok(c, Registry)

-----------------------------------------------------------------------------
(* The phases of the collector                                             *)

(* What a sweep has still to visit: every object that is not white, but    *)
(* for userdata that wait for their finalizer.                             *)
SweepInv(K, op, c, st, ss, sg, wait, fin) ==
  /\ st \notin Sweeping => sg = {}
  /\ st # "sweepstring" => ss = {}
  /\ \A o \in ss : o \in Obj /\ c[o] # "free" /\ K[o] = "string"
  /\ \A o \in sg : o \in Obj /\ c[o] # "free" /\ K[o] # "string" /\ op[o] = <<>>
  /\ \A o \in Obj : c[o] = "dead" =>
        st \in Sweeping /\ o \notin wait /\ (K[o] = "userdata" => o \in fin)
  /\ st \notin Marking =>
        \A o \in Obj : c[o] \in {"dead", "gray", "black"} =>
          \/ o \in ss \cup sg
          \/ op[o] # <<>> /\ op[o][1] \in sg
          \/ c[o] = "black" /\ o \in wait

(* The lists that share the field gclist.                                  *)
Lists(K, c, g, ga, w) ==
  /\ \A o \in g \cup ga \cup w : o \in Obj /\ c[o] = "gray" /\ K[o] \in Queue
  /\ \A o \in w : K[o] = "table"
  /\ \A o \in ga : K[o] \in {"table", "thread"}
  /\ g \cap ga = {} /\ g \cap w = {} /\ ga \cap w = {}

(* While marking: black objects refer to no white ones, and gray ones are  *)
(* on a list.                                                              *)
BlackDark(r, c, wait) ==
  \A o \in Obj : c[o] = "black" /\ o \notin wait => \A f \in Field : Dark(c, r[o][f])
GrayListed(K, c, g, ga, w) ==
  \A o \in Obj : c[o] = "gray" /\ K[o] \in Queue => o \in g \cup ga \cup w
Tri(K, r, c, g, ga, w, wait) ==
  /\ BlackDark(r, c, wait)
  /\ GrayListed(K, c, g, ga, w)
  /\ Dark(c, Main) /\ Dark(c, Registry)

(* What the atomic phase has established.                                  *)
OpenDark(K, r, op, c) ==
  \A u \in Obj : K[u] = "upval" /\ c[u] = "gray" => Dark(c, Val(r, op, u))
(* The values that a table h, weak in `mode', keeps alive                  *)
TableDark(r, c, h, mode) ==
  /\ Dark(c, r[h]["mt"])
  /\ r[h]["v"] # Nil => \A f \in {"k", "v"} \ mode : Dark(c, r[h][f])
ModeOf(ev, r, h) == (IF r[h]["mt"] = Nil THEN {} ELSE ev[r[h]["mt"]]) \cap {"k", "v"}
WeakDark(ev, r, c, w) == \A h \in w : TableDark(r, c, h, ModeOf(ev, r, h))
ThreadsDark(K, r, c, ga) ==
  \A t \in ga : K[t] = "thread" /\ \A f \in Field : Dark(c, r[t][f])
WaitDark(K, r, c, wait, fin) ==
  /\ \A u \in wait : c[u] = "black" /\ \A f \in Field : Dark(c, r[u][f])
  /\ \A u \in Obj : K[u] = "userdata" /\ White(c, u) => u \in fin
AtomicInv(K, ev, r, op, c, st, run, mt, ga, w, wait, fin) ==
  /\ st \in Atomic => OpenDark(K, r, op, c)
  /\ st \in {"remark_weak", "remark_again", "mark_tmu"} =>
        Dark(c, run) /\ Dark(c, mt) /\ WeakDark(ev, r, c, w)
  /\ st \in {"remark_again", "mark_tmu"} => ThreadsDark(K, r, c, ga)
  /\ st = "mark_tmu" => WaitDark(K, r, c, wait, fin)

-----------------------------------------------------------------------------
(* The inductive invariant                                                 *)

TopIs(cl, x) == cl # <<>> /\ Head(cl) = x
Ends(cl) == cl # <<>> /\ cl[Len(cl)] = "close"

(* lua_close has interrupted a mark phase, which only luaC_fullgc can end. *)
Abandoned(cl, st) == Ends(cl) /\ st = "propagate" /\ ~TopIs(cl, "collect")

CallsInv(cl, st) ==
  /\ cl \in Seq({"sweep", "collect", "finalizer", "close", "closed"})
  /\ \A i \in 2 .. Len(cl) : cl[i] \notin {"sweep", "closed"}
  /\ \A i \in 1 .. Len(cl) : cl[i] = "close" => i = Len(cl)
  /\ st \in Atomic => ~TopIs(cl, "close")
  /\ TopIs(cl, "sweep") => st \in Sweeping \cup {"finalize"}
  /\ Ends(cl) /\ TopIs(cl, "finalizer") /\ Len(cl) > 2 => st \in {"finalize", "pause"}

(* The program does without the two calls that break the collector's       *)
(* promises: lua_setupvalue on a Lua function, which has its barrier at    *)
(* the wrong object, and collector steps while lua_close runs finalizers.  *)
Plain == ~Makes("setupvalue") /\ ~Makes("step_in_close")

Basics ==
  /\ shape \in Shapes
  /\ Plain
  /\ gmt \in Value /\ running \in Obj
  /\ gcstate \in {"pause", "propagate", "sweepstring", "sweep", "finalize"} \cup Atomic
  /\ finalized \subseteq Obj /\ doomed \subseteq Obj
  /\ gray \subseteq Obj /\ grayagain \subseteq Obj /\ weak \subseteq Obj
  /\ sweepstr \subseteq Obj /\ sweepgc \subseteq Obj
  /\ failed \subseteq {"waiting"}

Marked ==
  /\ Tri(shape.kind, ref, color, gray, grayagain, weak, Ran(tmudata))
  /\ AtomicInv(shape.kind, shape.events, ref, open, color, gcstate, running, gmt,
               grayagain, weak, Ran(tmudata), finalized)

Core ==
  /\ Held(shape.kind, ref, open, color)
  /\ RootsOk(shape.kind, color, running, gmt)
  /\ SweepInv(shape.kind, open, color, gcstate, sweepstr, sweepgc, Ran(tmudata), finalized)
  /\ gcstate \in Marking => Lists(shape.kind, color, gray, grayagain, weak)
  /\ gcstate \in Marking /\ ~Abandoned(calls, gcstate) => Marked

(* luaC_freeall has freed everything but the main thread.                  *)
Apart == gray \cap grayagain = {} /\ gray \cap weak = {} /\ grayagain \cap weak = {}
Over ==
  /\ TopIs(calls, "closed")
  /\ \A o \in Obj \ {Main} : color[o] = "free"
  /\ gcstate \in Marking => Apart

IInv ==
  /\ Basics
  /\ CallsInv(calls, gcstate)
  /\ Heap(shape.kind, ref, open, color)
  /\ Listed(shape.kind, color, udata, tmudata)
  /\ Core \/ Over

-----------------------------------------------------------------------------
(* Sequences                                                               *)

(* Kept drops the elements that are not in S and nothing else.             *)
LEMMA KeptLemma ==
  ASSUME NEW T, NEW s \in Seq(T), Once(s), NEW S
  PROVE  /\ Kept(s, S) \in Seq(T) /\ Once(Kept(s, S))
         /\ Ran(Kept(s, S)) = Ran(s) \cap S
<1> DEFINE I == {i \in DOMAIN s : s[i] \in S}
           Upto(i) == {j \in I : j <= i}
           f == [i \in I |-> Cardinality(Upto(i))]
           n == Cardinality(I)
           At(k) == CHOOSE i \in I : Cardinality(Upto(i)) = k
<1>1. /\ DOMAIN s = 1 .. Len(s) /\ Len(s) \in Nat
      /\ \A i \in DOMAIN s : s[i] \in T
  BY LenProperties, ElementOfSeq
<1>2. IsFiniteSet(I) /\ n \in Nat
  <2>1. IsFiniteSet(1 .. Len(s)) BY <1>1, FS_Interval
  <2>2. I \in SUBSET (1 .. Len(s)) BY <1>1
  <2>3. IsFiniteSet(I) BY <2>1, <2>2, FS_Subset
  <2> QED BY <2>3, FS_CardinalityType
<1>3. \A i \in I : i \in Nat BY <1>1
<1>4. ASSUME NEW i \in I
      PROVE  /\ IsFiniteSet(Upto(i)) /\ Cardinality(Upto(i)) \in 1 .. n
  <2>1. Upto(i) \in SUBSET I /\ i \in Upto(i) BY <1>3
  <2>2. IsFiniteSet(Upto(i)) /\ Cardinality(Upto(i)) <= n BY <1>2, <2>1, FS_Subset
  <2>3. Cardinality(Upto(i)) \in Nat BY <2>2, FS_CardinalityType
  <2>4. Cardinality(Upto(i)) # 0 BY <2>1, <2>2, FS_EmptySet
  <2> HIDE DEF Upto, n
  <2> QED BY <1>2, <2>2, <2>3, <2>4
<1>5. ASSUME NEW i \in I, NEW k \in I, i < k
      PROVE  Cardinality(Upto(i)) # Cardinality(Upto(k))
  <2>1. Upto(i) \in SUBSET Upto(k) /\ k \in Upto(k) /\ k \notin Upto(i)
    <3>1. i \in Nat /\ k \in Nat BY <1>3
    <3>2. k <= k /\ ~(k <= i) BY <1>5, <3>1
    <3>3. \A j \in I : j <= i => j <= k
      <4>1. SUFFICES ASSUME NEW j \in I, j <= i PROVE j <= k OBVIOUS
      <4>2. j \in Nat BY <1>3
      <4> QED BY <3>1, <4>1, <4>2, <1>5
    <3> QED BY <3>2, <3>3
  <2>2. IsFiniteSet(Upto(k)) BY <1>4
  <2> HIDE DEF Upto
  <2> QED BY <2>1, <2>2, FS_Subset
<1>6. \A i \in I, k \in I : Cardinality(Upto(i)) = Cardinality(Upto(k)) => i = k
  <2>1. SUFFICES ASSUME NEW i \in I, NEW k \in I, i # k
                 PROVE  Cardinality(Upto(i)) # Cardinality(Upto(k))
    OBVIOUS
  <2>2. i < k \/ k < i BY <1>3, <2>1
  <2> HIDE DEF Upto
  <2> QED BY <1>5, <2>2
<1>7. f \in Surjection(I, 1 .. n)
  <2>1. f \in [I -> 1 .. n]
    <3> HIDE DEF Upto, n
    <3> QED BY <1>4
  <2>2. f \in Injection(I, 1 .. n)
    <3> HIDE DEF Upto, n
    <3>1. \A a, b \in I : f[a] = f[b] => a = b BY <1>6
    <3> HIDE DEF f
    <3> QED BY <2>1, <3>1 DEF Injection, IsInjective
  <2>3. IsFiniteSet(1 .. n) /\ Cardinality(1 .. n) = n
    <3> HIDE DEF n
    <3>1. Cardinality(1 .. n) = IF 1 > n THEN 0 ELSE n - 1 + 1 BY <1>2, FS_Interval
    <3>2. (IF 1 > n THEN 0 ELSE n - 1 + 1) = n BY <1>2
    <3> QED BY <1>2, <3>1, <3>2, FS_Interval
  <2> HIDE DEF f
  <2> QED BY <2>2, <2>3, FS_Injection
<1>8. ASSUME NEW k \in 1 .. n PROVE At(k) \in I /\ Cardinality(Upto(At(k))) = k
  <2>1. \E i \in I : f[i] = k BY <1>7 DEF Surjection
  <2>2. PICK i \in I : Cardinality(Upto(i)) = k
    <3> HIDE DEF Upto
    <3> QED BY <2>1
  <2> HIDE DEF Upto
  <2> QED BY <2>2
<1>9. Kept(s, S) = [k \in 1 .. n |-> s[At(k)]] BY DEF Kept
<1>10. \A i \in I : Cardinality(Upto(i)) \in 1 .. n /\ At(Cardinality(Upto(i))) = i
  <2>1. SUFFICES ASSUME NEW i \in I
                 PROVE  Cardinality(Upto(i)) \in 1 .. n /\ At(Cardinality(Upto(i))) = i
    OBVIOUS
  <2> DEFINE k == Cardinality(Upto(i))
  <2>2. k \in 1 .. n BY <1>4
  <2>3. At(k) \in I /\ Cardinality(Upto(At(k))) = k BY <1>8, <2>2
  <2> HIDE DEF Upto, At, n
  <2> QED BY <1>6, <2>2, <2>3
<1> HIDE DEF n, At, Upto, f
<1>11. \A k \in 1 .. n : At(k) \in I BY <1>8
<1>12. \A k \in 1 .. n : \A l \in 1 .. n : At(k) = At(l) => k = l
  <2>1. \A k \in 1 .. n : Cardinality(Upto(At(k))) = k BY <1>8
  <2> QED BY <2>1
<1>13. \A i \in I : i \in DOMAIN s /\ s[i] \in S /\ s[i] \in T BY <1>1
<1> HIDE DEF I
<1>14. Kept(s, S) \in Seq(T)
  <2>1. [k \in 1 .. n |-> s[At(k)]] \in [1 .. n -> T] BY <1>11, <1>13
  <2> QED BY <1>2, <1>9, <2>1, SeqDef
<1>15. Once(Kept(s, S))
  <2>1. \A k \in 1 .. n : \A l \in 1 .. n : s[At(k)] = s[At(l)] => At(k) = At(l)
    BY <1>11, <1>13 DEF Once
  <2> QED BY <1>9, <1>12, <2>1 DEF Once
<1>16. Ran(Kept(s, S)) = Ran(s) \cap S
  <2>1. \A x \in Ran(Kept(s, S)) : x \in Ran(s) \cap S
    BY <1>9, <1>11, <1>13 DEF Ran
  <2>2. ASSUME NEW x \in Ran(s) \cap S PROVE x \in Ran(Kept(s, S))
    <3>1. PICK i \in DOMAIN s : x = s[i] BY <2>2 DEF Ran
    <3>2. i \in I BY <2>2, <3>1 DEF I
    <3>3. PICK k \in 1 .. n : At(k) = i BY <1>10, <3>2
    <3>4. k \in DOMAIN Kept(s, S) /\ Kept(s, S)[k] = x BY <1>9, <3>1, <3>3
    <3> QED BY <3>4 DEF Ran
  <2> QED BY <2>1, <2>2
<1> QED BY <1>14, <1>15, <1>16

(* Ran and Once of the sequences that GCTM and luaC_separateudata build.   *)
LEMMA ConcatOnce ==
  ASSUME NEW T, NEW s \in Seq(T), NEW t \in Seq(T), Once(s), Once(t), Ran(s) \cap Ran(t) = {}
  PROVE  s \o t \in Seq(T) /\ Once(s \o t) /\ Ran(s \o t) = Ran(s) \cup Ran(t)
<1> DEFINE w == s \o t
           m == Len(s)
           n == Len(t)
<1>1. /\ m \in Nat /\ n \in Nat /\ DOMAIN s = 1 .. m /\ DOMAIN t = 1 .. n
      /\ w \in Seq(T) /\ Len(w) = m + n /\ DOMAIN w = 1 .. m + n
      /\ \A i \in 1 .. m + n : w[i] = IF i <= m THEN s[i] ELSE t[i - m]
  BY LenProperties, ConcatProperties
<1> HIDE DEF w, m, n
<1>2. \A i \in 1 .. m + n : \/ i \in 1 .. m /\ w[i] = s[i]
                            \/ i - m \in 1 .. n /\ w[i] = t[i - m] /\ i = (i - m) + m
  <2>1. SUFFICES ASSUME NEW i \in 1 .. m + n
                 PROVE  \/ i \in 1 .. m /\ w[i] = s[i]
                        \/ i - m \in 1 .. n /\ w[i] = t[i - m] /\ i = (i - m) + m
    OBVIOUS
  <2>2. CASE i <= m
    <3>1. i \in 1 .. m BY <1>1, <2>2
    <3> QED BY <1>1, <2>2, <3>1
  <2>3. CASE ~(i <= m)
    <3>1. i - m \in 1 .. n /\ i = (i - m) + m BY <1>1, <2>3
    <3> QED BY <1>1, <2>3, <3>1
  <2> QED BY <2>2, <2>3
<1>3. \A i \in 1 .. m : i \in 1 .. m + n /\ w[i] = s[i] BY <1>1
<1>4. \A i \in 1 .. n : m + i \in 1 .. m + n /\ w[m + i] = t[i]
  <2>1. SUFFICES ASSUME NEW i \in 1 .. n PROVE m + i \in 1 .. m + n /\ w[m + i] = t[i]
    OBVIOUS
  <2>2. m + i \in 1 .. m + n /\ ~(m + i <= m) /\ (m + i) - m = i BY <1>1
  <2>3. w[m + i] = t[(m + i) - m] BY <1>1, <2>2
  <2> QED BY <2>2, <2>3
<1>5. Ran(w) = Ran(s) \cup Ran(t)
  <2>1. \A x \in Ran(w) : x \in Ran(s) \cup Ran(t) BY <1>1, <1>2 DEF Ran
  <2>2. \A x \in Ran(s) : x \in Ran(w) BY <1>1, <1>3 DEF Ran
  <2>3. ASSUME NEW x \in Ran(t) PROVE x \in Ran(w)
    <3>1. PICK i \in 1 .. n : x = t[i] BY <1>1, <2>3 DEF Ran
    <3>2. m + i \in DOMAIN w /\ w[m + i] = x BY <1>1, <1>4, <3>1
    <3> QED BY <3>2 DEF Ran
  <2> QED BY <2>1, <2>2, <2>3
<1>6. Once(w)
  <2>1. SUFFICES ASSUME NEW i \in 1 .. m + n, NEW j \in 1 .. m + n, w[i] = w[j] PROVE i = j
    BY <1>1 DEF Once
  <2>2. \A k \in 1 .. m : s[k] \in Ran(s) BY <1>1 DEF Ran
  <2>3. \A k \in 1 .. n : t[k] \in Ran(t) BY <1>1 DEF Ran
  <2>4. \A k \in 1 .. m, l \in 1 .. n : s[k] # t[l] BY <2>2, <2>3
  <2>5. CASE i \in 1 .. m /\ w[i] = s[i] /\ j \in 1 .. m /\ w[j] = s[j]
    BY <1>1, <2>1, <2>5 DEF Once
  <2>6. CASE /\ i - m \in 1 .. n /\ w[i] = t[i - m] /\ i = (i - m) + m
             /\ j - m \in 1 .. n /\ w[j] = t[j - m] /\ j = (j - m) + m
    <3>1. i - m = j - m BY <1>1, <2>1, <2>6 DEF Once
    <3> QED BY <2>6, <3>1
  <2> QED BY <1>2, <2>1, <2>4, <2>5, <2>6
<1> QED BY <1>1, <1>5, <1>6 DEF w

(* GCTM takes the first userdata out of one list and puts it in the other. *)
LEMMA HeadMoves ==
  ASSUME NEW T, NEW s \in Seq(T), Once(s), s # <<>>
  PROVE  /\ Head(s) \in T /\ Head(s) \in Ran(s)
         /\ Tail(s) \in Seq(T) /\ Once(Tail(s)) /\ Ran(Tail(s)) = Ran(s) \ {Head(s)}
<1> DEFINE t == Tail(s)
           n == Len(s)
<1>1. /\ n \in Nat \ {0} /\ DOMAIN s = 1 .. n /\ \A i \in 1 .. n : s[i] \in T
      /\ Head(s) = s[1]
  BY LenProperties, ElementOfSeq, EmptySeq, HeadTailProperties
<1>2. /\ t \in Seq(T) /\ Len(t) = n - 1 /\ \A i \in 1 .. n - 1 : t[i] = s[i + 1]
  BY HeadTailProperties
<1>3. DOMAIN t = 1 .. n - 1 BY <1>2, LenProperties
<1> HIDE DEF t, n
<1>4. \A i \in 1 .. n - 1 : i + 1 \in 1 .. n /\ i + 1 # 1 BY <1>1
<1>5. 1 \in 1 .. n /\ \A i \in 1 .. n : i # 1 => i - 1 \in 1 .. n - 1 /\ (i - 1) + 1 = i
  BY <1>1
<1>6. Once(t)
  <2>1. SUFFICES ASSUME NEW i \in 1 .. n - 1, NEW j \in 1 .. n - 1, t[i] = t[j] PROVE i = j
    BY <1>3 DEF Once
  <2>2. s[i + 1] = s[j + 1] BY <1>2, <2>1
  <2>3. i + 1 = j + 1 BY <1>1, <1>4, <2>2 DEF Once
  <2> QED BY <2>3
<1>7. Ran(t) = Ran(s) \ {Head(s)}
  <2>1. ASSUME NEW x \in Ran(t) PROVE x \in Ran(s) \ {Head(s)}
    <3>1. PICK i \in 1 .. n - 1 : x = t[i] BY <1>3, <2>1 DEF Ran
    <3>2. x = s[i + 1] BY <1>2, <3>1
    <3>3. x # s[1] BY <1>1, <1>4, <1>5, <3>2 DEF Once
    <3> QED BY <1>1, <1>4, <3>2, <3>3 DEF Ran
  <2>2. ASSUME NEW x \in Ran(s) \ {Head(s)} PROVE x \in Ran(t)
    <3>1. PICK i \in 1 .. n : x = s[i] BY <1>1, <2>2 DEF Ran
    <3>2. i # 1 BY <1>1, <2>2, <3>1
    <3>3. i - 1 \in 1 .. n - 1 /\ t[i - 1] = x BY <1>2, <1>5, <3>1, <3>2
    <3> QED BY <1>3, <3>3 DEF Ran
  <2> QED BY <2>1, <2>2
<1>8. Head(s) \in T /\ Head(s) \in Ran(s) BY <1>1, <1>5 DEF Ran
<1> QED BY <1>2, <1>6, <1>7, <1>8 DEF t

(* luaS_newudata and GCTM put a userdata at the front of the list.         *)
LEMMA SingleOnce ==
  ASSUME NEW T, NEW x \in T
  PROVE  <<x>> \in Seq(T) /\ Once(<<x>>) /\ Ran(<<x>>) = {x}
BY DEF Once, Ran
(* An element that is not there yet, put in front of a sequence.           *)
LEMMA FrontOnce ==
  ASSUME NEW T, NEW s \in Seq(T), Once(s), NEW x \in T, x \notin Ran(s)
  PROVE  <<x>> \o s \in Seq(T) /\ Once(<<x>> \o s) /\ Ran(<<x>> \o s) = Ran(s) \cup {x}
<1> DEFINE t == <<x>>
<1>1. t \in Seq(T) /\ Once(t) /\ Ran(t) = {x} BY SingleOnce
<1> HIDE DEF t
<1>2. Ran(t) \cap Ran(s) = {} BY <1>1
<1>3. t \o s \in Seq(T) /\ Once(t \o s) /\ Ran(t \o s) = Ran(t) \cup Ran(s)
  BY <1>1, <1>2, ConcatOnce
<1> QED BY <1>1, <1>3 DEF t

-----------------------------------------------------------------------------
(* Basic facts about the heap                                              *)

(* An open upvalue points to a slot of a thread.                           *)
LEMMA OpenPair ==
  ASSUME NEW op \in [Obj -> {<<>>} \cup (Obj \X Slot)], NEW u \in Obj, op[u] # <<>>
  PROVE  /\ op[u][1] \in Obj /\ op[u][2] \in Slot
         /\ op[u] = <<op[u][1], op[u][2]>> /\ op[u][2] \in Field
<1>1. op[u] \in Obj \X Slot OBVIOUS
<1> QED BY <1>1 DEF Field

(* The named fields and the stack slots are different fields.              *)
LEMMA FieldNames ==
  /\ \A f \in {"mt", "env", "p", "up", "k", "v", "fin"} : f \in Field
  /\ \A s \in Slot : s \in Field /\ s \notin {"mt", "env", "p", "up", "k", "v", "fin"}
BY IdAssumption DEF Field

(* The value of an upvalue is an object or Nil, and never an upvalue.      *)
LEMMA ValType ==
  ASSUME NEW K, NEW r, NEW op, NEW c, Heap(K, r, op, c), NEW u \in Obj
  PROVE  /\ Val(r, op, u) \in Value
         /\ Val(r, op, u) # Nil => K[Val(r, op, u)] # "upval"
<1>1. r \in [Obj -> [Field -> Value]] /\ op \in [Obj -> {<<>>} \cup (Obj \X Slot)]
  BY DEF Heap, HeapType
<1>2. ASSUME NEW o \in Obj, NEW f \in Field, f # "up"
      PROVE  r[o][f] \in Value /\ (r[o][f] # Nil => K[r[o][f]] # "upval")
  <2>1. r[o][f] \in Value BY <1>1
  <2>2. r[o][f] # Nil => Fits(K, o, f, r[o][f]) BY DEF Heap, HeapFits
  <2> QED BY <1>2, <2>1, <2>2 DEF Fits
<1>3. CASE op[u] = <<>> BY <1>2, <1>3, FieldNames DEF Val
<1>4. CASE op[u] # <<>>
  <2>1. op[u][1] \in Obj /\ op[u][2] \in Slot BY <1>1, <1>4, OpenPair
  <2>2. op[u][2] \in Field /\ op[u][2] # "up" BY <2>1, FieldNames
  <2> QED BY <1>2, <1>4, <2>1, <2>2 DEF Val
<1> QED BY <1>3, <1>4

(* What a sound object refers to is sound.                                 *)
LEMMA ReadOk ==
  ASSUME NEW K, NEW r, NEW op, NEW c, Heap(K, r, op, c), Held(K, r, op, c),
         NEW o \in Obj, Ok(c, o), NEW f \in Field, Refers(K, r, o, f)
  PROVE  r[o][f] \in Obj /\ Ok(c, r[o][f]) /\ Fits(K, o, f, r[o][f])
<1>1. r[o][f] \in Value /\ r[o][f] # Nil BY DEF Heap, HeapType, Refers
<1> QED BY <1>1 DEF Value, Held, Heap, HeapFits, Refers
(* So is the value of a sound upvalue, open or closed.                     *)
LEMMA ReadUpval ==
  ASSUME NEW K, NEW r, NEW op, NEW c, Heap(K, r, op, c), Held(K, r, op, c),
         NEW u \in Obj, Ok(c, u), K[u] = "upval", Val(r, op, u) # Nil
  PROVE  Val(r, op, u) \in Obj /\ Ok(c, Val(r, op, u)) /\ K[Val(r, op, u)] # "upval"
<1>1. Val(r, op, u) \in Obj /\ K[Val(r, op, u)] # "upval" BY ValType DEF Value
<1>2. CASE op[u] # <<>> BY <1>1, <1>2 DEF Held
<1>3. CASE op[u] = <<>>
  <2>1. Val(r, op, u) = r[u]["v"] /\ "v" \in Field BY <1>3, FieldNames DEF Val
  <2>2. Refers(K, r, u, "v") BY <2>1 DEF Refers
  <2> QED BY <1>1, <2>1, <2>2, ReadOk
<1> QED BY <1>2, <1>3

-----------------------------------------------------------------------------
(* reallymarkobject                                                        *)

(* The colours c2 and the queue q result from marking the white objects of *)
(* S: each object that was painted refers only to dark ones, or is queued. *)
Paint(K, r, op, c, S, c2, q) ==
  /\ c2 \in [Obj -> Colors] /\ q \subseteq Obj
  /\ \A o \in Obj : ~White(c, o) => c2[o] = c[o]
  /\ \A o \in Obj : c2[o] # c[o] =>
       /\ White(c, o) /\ c2[o] \in {"gray", "black"}
       /\ c2[o] = "black" <=> K[o] = "userdata" \/ (K[o] = "upval" /\ op[o] = <<>>)
       /\ K[o] = "userdata" => Dark(c2, r[o]["mt"]) /\ Dark(c2, r[o]["env"])
       /\ K[o] = "upval" => Dark(c2, Val(r, op, o))
  /\ \A x \in S : Dark(c2, x)
  /\ \A o \in Obj : o \in q <=> White(c, o) /\ c2[o] = "gray" /\ K[o] \in Queue

(* Painted and Queued, which model reallymarkobject, are such a result.    *)
LEMMA Painting ==
  ASSUME Heap(shape.kind, ref, open, color), Held(shape.kind, ref, open, color),
         \A o \in Obj : color[o] # "dead", NEW S \in SUBSET Value,
         \A x \in S : x # Nil => Ok(color, x)
  PROVE  Paint(shape.kind, ref, open, color, S, Painted(S), Queued(S))
<1> DEFINE K == shape.kind
           M1 == Whites(S)
           M2 == WithUpvalues(M1)
           M3 == WithUserdata(M2)
           c2 == Painted(S)
<1>1. /\ ref \in [Obj -> [Field -> Value]] /\ open \in [Obj -> {<<>>} \cup (Obj \X Slot)]
      /\ color \in [Obj -> Colors] /\ K \in [Obj -> Kinds]
  BY DEF Heap, HeapType
<1>2. \A u \in Obj : UpvalValue(u) = Val(ref, open, u) BY DEF UpvalValue, Val
<1>3. \A x : Nil \notin Obj BY IdAssumption
<1>4. ASSUME NEW X \in SUBSET Value, NEW o
      PROVE  o \in Whites(X) <=> o \in X /\ o \in Obj /\ White(color, o)
  BY <1>3 DEF Whites, iswhite, White, Value
<1>0. \A o \in Obj : White(color, o) => Ok(color, o) BY DEF White, Ok
<1>5. M1 \subseteq Obj /\ \A o \in M1 : White(color, o) BY <1>4
<1>6. M1 \subseteq M2 /\ M2 \subseteq Obj /\ \A o \in M2 : White(color, o)
  <2> DEFINE X == {UpvalValue(u) : u \in M1 \cap Of("upval")}
  <2>1. X \in SUBSET Value BY <1>2, <1>5, ValType
  <2>2. M2 = M1 \cup Whites(X) BY DEF WithUpvalues
  <2> HIDE DEF X, M2, M1
  <2> QED BY <1>4, <1>5, <2>1, <2>2
<1>7. M2 \subseteq M3 /\ M3 \subseteq Obj /\ \A o \in M3 : White(color, o)
  <2> DEFINE X == {ref[u][f] : u \in M2 \cap Of("userdata"), f \in {"mt", "env"}}
  <2>1. X \in SUBSET Value BY <1>1, <1>6, FieldNames
  <2>2. M3 = M2 \cup Whites(X) BY DEF WithUserdata
  <2> HIDE DEF X, M2, M3
  <2> QED BY <1>4, <1>6, <2>1, <2>2
<1>8. c2 = [o \in Obj |-> IF o \in M3 THEN MarkedColor(o) ELSE color[o]]
  BY DEF Painted, Marks
<1>9. \A o \in Obj : MarkedColor(o) =
        IF K[o] = "userdata" \/ (K[o] = "upval" /\ open[o] = <<>>) THEN "black" ELSE "gray"
  BY DEF MarkedColor, kind
<1>10. Queued(S) = {o \in M3 : K[o] \in Queue} BY DEF Queued, Marks, kind, Queue
<1>11. \A u \in M1 : K[u] = "upval" => Dark(color, Val(ref, open, u)) \/ Val(ref, open, u) \in M2
  <2> DEFINE X == {UpvalValue(u) : u \in M1 \cap Of("upval")}
  <2>1. SUFFICES ASSUME NEW u \in M1, K[u] = "upval", Val(ref, open, u) # Nil,
                        White(color, Val(ref, open, u))
                 PROVE  Val(ref, open, u) \in M2
    <3>1. SUFFICES ASSUME NEW u \in M1, K[u] = "upval", Val(ref, open, u) # Nil
                   PROVE  White(color, Val(ref, open, u)) \/ Dark(color, Val(ref, open, u))
      BY DEF Dark
    <3>2. Val(ref, open, u) \in Obj /\ Ok(color, Val(ref, open, u))
      BY <1>0, <1>5, <3>1, ReadUpval
    <3> QED BY <1>1, <3>2 DEF White, Dark, Ok, Colors
  <2>2. u \in Of("upval") BY <1>5, <2>1 DEF Of, kind
  <2>3. Val(ref, open, u) \in X BY <1>2, <1>5, <2>2
  <2>4. X \in SUBSET Value BY <1>2, <1>5, ValType
  <2>5. M2 = M1 \cup Whites(X) BY DEF WithUpvalues
  <2>6. Val(ref, open, u) \in Obj BY <1>5, <2>1, ValType DEF Value
  <2> HIDE DEF X, M2, M1
  <2> QED BY <1>4, <2>1, <2>3, <2>4, <2>5, <2>6
<1>12. \A u \in M2, f \in {"mt", "env"} : K[u] = "userdata" =>
          Dark(color, ref[u][f]) \/ ref[u][f] \in M3
  <2> DEFINE X == {ref[u][f] : u \in M2 \cap Of("userdata"), f \in {"mt", "env"}}
  <2>1. SUFFICES ASSUME NEW u \in M2, NEW f \in {"mt", "env"}, K[u] = "userdata",
                        ref[u][f] # Nil, White(color, ref[u][f])
                 PROVE  ref[u][f] \in M3
    <3>1. SUFFICES ASSUME NEW u \in M2, NEW f \in {"mt", "env"}, K[u] = "userdata",
                          ref[u][f] # Nil
                   PROVE  White(color, ref[u][f]) \/ Dark(color, ref[u][f])
      BY DEF Dark
    <3>2. f \in Field /\ Refers(K, ref, u, f) BY <3>1, FieldNames DEF Refers
    <3>3. ref[u][f] \in Obj /\ Ok(color, ref[u][f]) BY <1>0, <1>6, <3>1, <3>2, ReadOk
    <3> QED BY <1>1, <3>3 DEF White, Dark, Ok, Colors
  <2>2. u \in Of("userdata") BY <1>6, <2>1 DEF Of, kind
  <2>3. ref[u][f] \in X BY <2>2
  <2>4. X \in SUBSET Value BY <1>1, <1>6, FieldNames
  <2>5. M3 = M2 \cup Whites(X) BY DEF WithUserdata
  <2>6. ref[u][f] \in Obj BY <1>1, <1>6, <2>1, FieldNames DEF Value
  <2> HIDE DEF X, M2, M3
  <2> QED BY <1>4, <2>1, <2>3, <2>4, <2>5, <2>6
(* What is marked late is never an upvalue, or never a userdata.           *)
<1>13. \A o \in M3 : K[o] = "upval" => o \in M1
  <2> DEFINE X == {UpvalValue(u) : u \in M1 \cap Of("upval")}
             Y == {ref[u][f] : u \in M2 \cap Of("userdata"), f \in {"mt", "env"}}
  <2>1. \A x \in X : x # Nil => K[x] # "upval" BY <1>2, <1>5, ValType
  <2>2. \A u \in Obj : \A f \in {"mt", "env"} : ref[u][f] # Nil => K[ref[u][f]] = "table"
    BY FieldNames DEF Heap, HeapFits, Fits
  <2>3. \A y \in Y : y # Nil => K[y] # "upval" BY <1>6, <2>2
  <2>4. M3 = M1 \cup Whites(X) \cup Whites(Y) BY DEF WithUserdata, WithUpvalues
  <2>5. \A o \in Whites(X) : o \in X /\ o # Nil BY DEF Whites
  <2>6. \A o \in Whites(Y) : o \in Y /\ o # Nil BY DEF Whites
  <2> HIDE DEF X, Y, M3, M1
  <2> QED BY <2>1, <2>3, <2>4, <2>5, <2>6
<1>14. \A o \in M3 : K[o] = "userdata" => o \in M2
  <2> DEFINE Y == {ref[u][f] : u \in M2 \cap Of("userdata"), f \in {"mt", "env"}}
  <2>1. \A u \in Obj : \A f \in {"mt", "env"} : ref[u][f] # Nil => K[ref[u][f]] = "table"
    BY FieldNames DEF Heap, HeapFits, Fits
  <2>2. \A y \in Y : y # Nil => K[y] # "userdata" BY <1>6, <2>1
  <2>3. M3 = M2 \cup Whites(Y) BY DEF WithUserdata
  <2>4. \A o \in Whites(Y) : o \in Y /\ o # Nil BY DEF Whites
  <2> HIDE DEF Y, M3, M2
  <2> QED BY <2>2, <2>3, <2>4
<1> HIDE DEF M1, M2, M3, c2
<1>15. \A o \in Obj : /\ c2[o] = IF o \in M3 THEN MarkedColor(o) ELSE color[o]
                      /\ o \in M3 => c2[o] \in {"gray", "black"}
  BY <1>8, <1>9
<1>16. c2 \in [Obj -> Colors] BY <1>1, <1>8, <1>9 DEF Colors
<1>17. \A o \in Obj : o \in M3 => White(color, o) BY <1>7
<1>18. \A x \in Value : Dark(color, x) \/ x \in M3 => Dark(c2, x)
  BY <1>15 DEF Dark, Value
<1>19. ASSUME NEW o \in Obj, c2[o] # color[o]
       PROVE  /\ White(color, o) /\ c2[o] \in {"gray", "black"}
              /\ c2[o] = "black" <=> K[o] = "userdata" \/ (K[o] = "upval" /\ open[o] = <<>>)
              /\ K[o] = "userdata" => Dark(c2, ref[o]["mt"]) /\ Dark(c2, ref[o]["env"])
              /\ K[o] = "upval" => Dark(c2, Val(ref, open, o))
  <2>1. o \in M3 BY <1>15, <1>19
  <2>2. White(color, o) /\ c2[o] \in {"gray", "black"} BY <1>15, <1>17, <2>1
  <2>3. c2[o] = "black" <=> K[o] = "userdata" \/ (K[o] = "upval" /\ open[o] = <<>>)
    BY <1>9, <1>15, <2>1
  <2>4. ASSUME K[o] = "userdata" PROVE Dark(c2, ref[o]["mt"]) /\ Dark(c2, ref[o]["env"])
    <3>1. o \in M2 BY <1>14, <2>1, <2>4
    <3>2. ref[o]["mt"] \in Value /\ ref[o]["env"] \in Value BY <1>1, FieldNames
    <3> QED BY <1>12, <1>18, <2>4, <3>1, <3>2
  <2>5. ASSUME K[o] = "upval" PROVE Dark(c2, Val(ref, open, o))
    <3>1. o \in M1 BY <1>13, <2>1, <2>5
    <3>2. Val(ref, open, o) \in Value BY ValType
    <3>3. Val(ref, open, o) \in M2 => Val(ref, open, o) \in M3 BY <1>7
    <3> QED BY <1>11, <1>18, <2>5, <3>1, <3>2, <3>3
  <2> QED BY <2>2, <2>3, <2>4, <2>5
<1>20. \A x \in S : Dark(c2, x)
  <2>1. \A x \in S : x \in Value /\ (Dark(color, x) \/ x \in M3)
    <3>1. SUFFICES ASSUME NEW x \in S, x # Nil, White(color, x) PROVE x \in M3
      BY <1>1 DEF Value, Dark, White, Ok, Colors
    <3>2. x \in Obj BY <3>1 DEF Value
    <3>3. x \in M1 BY <1>4, <3>1, <3>2 DEF M1
    <3> QED BY <1>6, <1>7, <3>3
  <2> QED BY <1>18, <2>1
<1>21. \A o \in Obj : ~White(color, o) => c2[o] = color[o] BY <1>15, <1>17
<1>22. Queued(S) \subseteq Obj /\
       \A o \in Obj : o \in Queued(S) <=> White(color, o) /\ c2[o] = "gray" /\ K[o] \in Queue
  <2>1. \A o \in Obj : K[o] \in Queue => K[o] # "userdata" /\ K[o] # "upval" BY DEF Queue
  <2>2. \A o \in Obj : White(color, o) => color[o] # "gray" BY DEF White
  <2> QED BY <1>7, <1>9, <1>10, <1>15, <1>17, <2>1, <2>2
<1> QED BY <1>16, <1>19, <1>20, <1>21, <1>22 DEF Paint, c2

-----------------------------------------------------------------------------
(* Changes of colour                                                       *)

(* Nothing is freed, born, condemned or saved.                             *)
SameLife(c, c2) ==
  /\ c2 \in [Obj -> Colors]
  /\ \A o \in Obj : (c2[o] = "free" <=> c[o] = "free") /\ (c2[o] = "dead" <=> c[o] = "dead")

(* A heap stays well formed under a change of colour alone.                *)
LEMMA RecolorHeap ==
  ASSUME NEW K, NEW r, NEW op, NEW c, NEW c2, Heap(K, r, op, c), SameLife(c, c2),
         Tints(K, op, c2), \A o \in Obj : op[o] # <<>> => c2[o] # "black"
  PROVE  Heap(K, r, op, c2)
<1>1. HeapType(K, r, op, c2) BY DEF Heap, HeapType, SameLife
<1>2. HeapFits(K, r) BY DEF Heap
<1>3. Born(K, r, op, c2) BY DEF Heap, Born, SameLife
<1>4. OpenFits(K, r, op, c2)
  <2>1. \A o \in Obj : op[o] # <<>> => op[o][1] \in Obj BY OpenPair DEF Heap, HeapType
  <2> QED BY <2>1 DEF Heap, OpenFits, SameLife
<1> QED BY <1>1, <1>2, <1>3, <1>4 DEF Heap

(* A change of colour alone makes no reference dangle.                     *)
LEMMA RecolorHeld ==
  ASSUME NEW K, NEW r, NEW op, NEW c, NEW c2, Heap(K, r, op, c), SameLife(c, c2),
         Held(K, r, op, c)
  PROVE  Held(K, r, op, c2)
<1>1. r \in [Obj -> [Field -> Value]] BY DEF Heap, HeapType
<1>2. \A o \in Obj : Ok(c2, o) <=> Ok(c, o) BY DEF SameLife, Ok
<1>3. SUFFICES ASSUME NEW o \in Obj, Ok(c, o)
               PROVE  /\ \A f \in Field : Refers(K, r, o, f) => Ok(c2, r[o][f])
                      /\ op[o] # <<>> => Val(r, op, o) = Nil \/ Ok(c2, Val(r, op, o))
  BY <1>2 DEF Held
<1>4. ASSUME NEW f \in Field, Refers(K, r, o, f) PROVE Ok(c2, r[o][f])
  <2>1. r[o][f] \in Obj BY <1>1, <1>4 DEF Refers, Value
  <2>2. Ok(c, r[o][f]) BY <1>3, <1>4 DEF Held
  <2> QED BY <1>2, <2>1, <2>2
<1>5. ASSUME op[o] # <<>>, Val(r, op, o) # Nil PROVE Ok(c2, Val(r, op, o))
  <2>1. Val(r, op, o) \in Obj BY <1>5, ValType DEF Value
  <2>2. Ok(c, Val(r, op, o)) BY <1>3, <1>5 DEF Held
  <2> QED BY <1>2, <2>1, <2>2
<1> QED BY <1>4, <1>5

(* A change of colour alone leaves the roots sound.                        *)
LEMMA RecolorRoots ==
  ASSUME NEW K, NEW c, NEW c2, NEW run, NEW mt, SameLife(c, c2), RootsOk(K, c, run, mt)
  PROVE  RootsOk(K, c2, run, mt)
BY DEF SameLife, RootsOk, Ok, Value, Obj

(* A change of colour alone leaves the lists of userdata right.            *)
LEMMA RecolorListed ==
  ASSUME NEW K, NEW c, NEW c2, NEW ud, NEW tm, SameLife(c, c2), Listed(K, c, ud, tm)
  PROVE  Listed(K, c2, ud, tm)
<1>1. {u \in Obj : K[u] = "userdata" /\ c2[u] # "free"}
        = {u \in Obj : K[u] = "userdata" /\ c[u] # "free"}
  BY DEF SameLife
<1> QED BY <1>1 DEF Listed

(* Painting neither frees nor saves, where nothing is dead.                *)
LEMMA PaintLife ==
  ASSUME NEW K, NEW r, NEW op, NEW c, NEW S, NEW c2, NEW q,
         Heap(K, r, op, c), Paint(K, r, op, c, S, c2, q), \A o \in Obj : c[o] # "dead"
  PROVE  /\ SameLife(c, c2) /\ Tints(K, op, c2)
         /\ \A o \in Obj : op[o] # <<>> => c2[o] # "black"
         /\ \A o \in Value : Dark(c, o) => Dark(c2, o)
<1>1. \A o \in Obj : c2[o] # c[o] =>
         /\ c[o] = "white" /\ c2[o] \in {"gray", "black"}
         /\ c2[o] = "black" <=> K[o] = "userdata" \/ (K[o] = "upval" /\ op[o] = <<>>)
  BY DEF Paint, White
<1>2. c2 \in [Obj -> Colors] BY DEF Paint
<1>3. SameLife(c, c2) BY <1>1, <1>2 DEF SameLife
<1>4. Tints(K, op, c2)
  <2>1. Tints(K, op, c) BY DEF Heap
  <2> QED BY <1>1, <2>1 DEF Tints
<1>5. ASSUME NEW o \in Obj, op[o] # <<>> PROVE c2[o] # "black"
  <2>1. K[o] = "upval" /\ c[o] # "black" BY <1>5 DEF Heap, OpenFits
  <2> QED BY <1>1, <1>5, <2>1
<1>6. \A o \in Value : Dark(c, o) => Dark(c2, o)
  BY DEF Paint, White, Dark, Value
<1> QED BY <1>3, <1>4, <1>5, <1>6

-----------------------------------------------------------------------------
(* Writing into an object                                                  *)

(* o gets the fields of `new', which holds what o held, or sound objects.  *)
Write(K, r, op, c, o, new) ==
  /\ o \in Obj /\ c[o] # "free" /\ new \in [Field -> Value]
  /\ \A f \in Field : \/ new[f] = r[o][f]
                      \/ new[f] = Nil
                      \/ Ok(c, new[f]) /\ Fits(K, o, f, new[f])
  /\ K[o] = "table" /\ new["v"] # Nil /\ new["k"] # Nil /\ Ok(c, o) => Ok(c, new["k"])
  /\ K[o] = "lclosure" => new["up"] # Nil
  /\ K[o] = "thread" => new["env"] # Nil
  /\ op[o] # <<>> => new["v"] = Nil

(* Such a write keeps the heap well formed.                                *)
LEMMA WriteHeap ==
  ASSUME NEW K, NEW r, NEW op, NEW c, NEW o, NEW new, Heap(K, r, op, c),
         Write(K, r, op, c, o, new)
  PROVE  Heap(K, [r EXCEPT ![o] = new], op, c)
<1> DEFINE r2 == [r EXCEPT ![o] = new]
<1>1. r \in [Obj -> [Field -> Value]] /\ new \in [Field -> Value] /\ o \in Obj /\ c[o] # "free"
  BY DEF Heap, HeapType, Write
<1>2. r2 \in [Obj -> [Field -> Value]] /\ r2[o] = new /\ \A x \in Obj : x # o => r2[x] = r[x]
  BY <1>1
<1> HIDE DEF r2
<1>3. HeapType(K, r2, op, c) BY <1>2 DEF Heap, HeapType
<1>4. HeapFits(K, r2)
  <2>1. SUFFICES ASSUME NEW x \in Obj, NEW f \in Field, r2[x][f] # Nil
                 PROVE  Fits(K, x, f, r2[x][f])
    BY DEF HeapFits
  <2>2. r[x][f] # Nil => Fits(K, x, f, r[x][f]) BY DEF Heap, HeapFits
  <2>3. CASE x # o BY <1>2, <2>1, <2>2, <2>3
  <2>4. CASE x = o
    <3>1. \/ new[f] = r[o][f] \/ new[f] = Nil \/ Fits(K, o, f, new[f]) BY DEF Write
    <3> QED BY <1>2, <2>1, <2>2, <2>4, <3>1
  <2> QED BY <2>3, <2>4
<1>5. Born(K, r2, op, c)
  <2>1. Born(K, r, op, c) BY DEF Heap
  <2>2. K[o] = "lclosure" => new["up"] # Nil BY DEF Write
  <2>3. K[o] = "thread" => new["env"] # Nil BY DEF Write
  <2> QED BY <1>1, <1>2, <2>1, <2>2, <2>3 DEF Born
<1>6. OpenFits(K, r2, op, c)
  <2>1. OpenFits(K, r, op, c) BY DEF Heap
  <2>2. op[o] # <<>> => new["v"] = Nil BY DEF Write
  <2> QED BY <1>2, <2>1, <2>2 DEF OpenFits
<1>7. Tints(K, op, c) BY DEF Heap
<1> QED BY <1>3, <1>4, <1>5, <1>6, <1>7 DEF Heap, r2

(* Such a write makes no reference dangle.                                 *)
LEMMA WriteHeld ==
  ASSUME NEW K, NEW r, NEW op, NEW c, NEW o, NEW new, Heap(K, r, op, c),
         Write(K, r, op, c, o, new), Held(K, r, op, c)
  PROVE  Held(K, [r EXCEPT ![o] = new], op, c)
<1> DEFINE r2 == [r EXCEPT ![o] = new]
<1>1. r \in [Obj -> [Field -> Value]] /\ new \in [Field -> Value] /\ o \in Obj
  BY DEF Heap, HeapType, Write
<1>2. r2[o] = new /\ \A x \in Obj : x # o => r2[x] = r[x] BY <1>1
<1> HIDE DEF r2
<1>3. SUFFICES ASSUME NEW x \in Obj, Ok(c, x)
               PROVE  /\ \A f \in Field : Refers(K, r2, x, f) => Ok(c, r2[x][f])
                      /\ op[x] # <<>> => Val(r2, op, x) = Nil \/ Ok(c, Val(r2, op, x))
  BY DEF Held, r2
<1>4. ASSUME NEW f \in Field, Refers(K, r2, x, f) PROVE Ok(c, r2[x][f])
  <2>1. Refers(K, r, x, f) => Ok(c, r[x][f]) BY <1>3 DEF Held
  <2>2. CASE x # o BY <1>2, <1>4, <2>1, <2>2 DEF Refers
  <2>3. CASE x = o /\ K[o] = "table" /\ f = "k"
    BY <1>2, <1>3, <1>4, <2>3 DEF Refers, Write
  <2>4. CASE x = o /\ ~(K[o] = "table" /\ f = "k")
    <3>1. new[f] # Nil BY <1>2, <1>4, <2>4 DEF Refers
    <3>2. new[f] = r[o][f] \/ Ok(c, new[f]) BY <3>1 DEF Write
    <3>3. new[f] = r[o][f] => Refers(K, r, o, f) BY <2>4, <3>1 DEF Refers
    <3> QED BY <1>2, <2>1, <2>4, <3>2, <3>3
  <2> QED BY <2>2, <2>3, <2>4
<1>5. ASSUME op[x] # <<>> PROVE Val(r2, op, x) = Nil \/ Ok(c, Val(r2, op, x))
  <2> DEFINE t == op[x][1]
             s == op[x][2]
  <2>1. t \in Obj /\ s \in Field BY <1>5, OpenPair DEF Heap, HeapType
  <2>2. Val(r2, op, x) = r2[t][s] /\ Val(r, op, x) = r[t][s] BY <1>5 DEF Val
  <2>3. Val(r, op, x) = Nil \/ Ok(c, Val(r, op, x)) BY <1>3, <1>5 DEF Held
  <2> HIDE DEF t, s
  <2>4. CASE t # o BY <1>2, <2>1, <2>2, <2>3, <2>4
  <2>5. CASE t = o
    <3>1. new[s] = r[o][s] \/ new[s] = Nil \/ Ok(c, new[s]) BY <2>1 DEF Write
    <3> QED BY <1>2, <2>2, <2>3, <2>5, <3>1
  <2> QED BY <2>4, <2>5
<1> QED BY <1>4, <1>5

-----------------------------------------------------------------------------
(* Write barriers                                                          *)

(* The colours and lists after `new' is stored in o, in phase st.          *)
Barred(K, r, op, c, st, o, new, c2, g, g2, ga, ga2) ==
  \/ /\ c2 = c /\ g2 = g /\ ga2 = ga
     /\ c[o] = "black" => \A f \in Field : new[f] = r[o][f] \/ Dark(c, new[f])
  \/ /\ c[o] = "black" /\ st = "propagate" /\ ga2 = ga
     /\ \E S \in SUBSET Value, q \in SUBSET Obj :
          /\ Paint(K, r, op, c, S, c2, q)
          /\ g2 = g \cup q
          /\ \A f \in Field : new[f] = r[o][f] \/ new[f] \in S
  \/ /\ c[o] = "black" /\ st # "propagate"
     /\ c2 = [c EXCEPT ![o] = "white"] /\ g2 = g /\ ga2 = ga
  \/ /\ c[o] = "black" /\ K[o] = "table"
     /\ c2 = [c EXCEPT ![o] = "gray"] /\ g2 = g /\ ga2 = ga \cup {o}

(* A barrier frees and condemns nothing.                                   *)
LEMMA BarredLife ==
  ASSUME NEW K, NEW r, NEW op, NEW c, NEW st, NEW o \in Obj, NEW new, NEW c2,
         NEW g, NEW g2, NEW ga, NEW ga2,
         Heap(K, r, op, c), Barred(K, r, op, c, st, o, new, c2, g, g2, ga, ga2),
         st = "propagate" => \A x \in Obj : c[x] # "dead"
  PROVE  /\ SameLife(c, c2) /\ Tints(K, op, c2)
         /\ \A x \in Obj : op[x] # <<>> => c2[x] # "black"
<1>1. /\ c \in [Obj -> Colors] /\ Tints(K, op, c)
      /\ \A x \in Obj : op[x] # <<>> => K[x] = "upval" /\ c[x] # "black"
  BY DEF Heap, HeapType, OpenFits
<1>2. CASE c2 = c BY <1>1, <1>2 DEF SameLife
<1>3. ASSUME st = "propagate", NEW S, NEW q, Paint(K, r, op, c, S, c2, q)
      PROVE  /\ SameLife(c, c2) /\ Tints(K, op, c2)
             /\ \A x \in Obj : op[x] # <<>> => c2[x] # "black"
  BY <1>3, PaintLife
<1>4. CASE c[o] = "black" /\ c2 = [c EXCEPT ![o] = "white"]
  <2>1. c2 \in [Obj -> Colors] /\ c2[o] = "white" /\ \A x \in Obj : x # o => c2[x] = c[x]
    BY <1>1, <1>4 DEF Colors
  <2> QED BY <1>1, <1>4, <2>1 DEF SameLife, Tints
<1>5. CASE c[o] = "black" /\ K[o] = "table" /\ c2 = [c EXCEPT ![o] = "gray"]
  <2>1. c2 \in [Obj -> Colors] /\ c2[o] = "gray" /\ \A x \in Obj : x # o => c2[x] = c[x]
    BY <1>1, <1>5 DEF Colors
  <2> QED BY <1>1, <1>5, <2>1 DEF SameLife, Tints
<1> QED BY <1>2, <1>3, <1>4, <1>5 DEF Barred

(* A barrier leaves the sweep under way everything it has to visit.        *)
LEMMA BarredSweep ==
  ASSUME NEW K, NEW r, NEW op, NEW c, NEW st, NEW o \in Obj, NEW new, NEW c2,
         NEW g, NEW g2, NEW ga, NEW ga2, NEW ss, NEW sg, NEW wait, NEW fin,
         Heap(K, r, op, c), Barred(K, r, op, c, st, o, new, c2, g, g2, ga, ga2),
         SweepInv(K, op, c, st, ss, sg, wait, fin), \A u \in wait : K[u] = "userdata"
  PROVE  SweepInv(K, op, c2, st, ss, sg, wait, fin)
<1>1. st = "propagate" => \A x \in Obj : c[x] # "dead" BY DEF SweepInv, Sweeping
<1>2. SameLife(c, c2) BY <1>1, BarredLife
<1>3. \A x \in Obj : st \notin Marking /\ c2[x] \in {"dead", "gray", "black"} =>
         \/ c2[x] = c[x]
         \/ x = o /\ c[x] = "black" /\ K[x] = "table"
  <2>1. c \in [Obj -> Colors] BY DEF Heap, HeapType
  <2>2. CASE c2 = c BY <2>2
  <2>3. CASE c2 = [c EXCEPT ![o] = "white"] BY <2>1, <2>3
  <2>4. CASE c[o] = "black" /\ K[o] = "table" /\ c2 = [c EXCEPT ![o] = "gray"]
    BY <2>1, <2>4
  <2>5. CASE st = "propagate" BY <2>5 DEF Marking
  <2> QED BY <2>2, <2>3, <2>4, <2>5 DEF Barred
<1>4. \A x \in Obj : st \notin Marking /\ c[x] \in {"dead", "gray", "black"} =>
          \/ x \in ss \cup sg
          \/ op[x] # <<>> /\ op[x][1] \in sg
          \/ c[x] = "black" /\ x \in wait
  BY DEF SweepInv
<1>5. ASSUME st \notin Marking, NEW x \in Obj, c2[x] \in {"dead", "gray", "black"}
      PROVE  \/ x \in ss \cup sg
             \/ op[x] # <<>> /\ op[x][1] \in sg
             \/ c2[x] = "black" /\ x \in wait
  <2>1. CASE c2[x] = c[x] BY <1>4, <1>5, <2>1
  <2>2. CASE c[x] = "black" /\ K[x] = "table" BY <1>4, <1>5, <2>2
  <2> QED BY <1>3, <1>5, <2>1, <2>2
<1> QED BY <1>2, <1>5 DEF SweepInv, SameLife

(* A barrier puts no object on two lists.                                  *)
LEMMA BarredLists ==
  ASSUME NEW K, NEW r, NEW op, NEW c, NEW o \in Obj, NEW new, NEW c2,
         NEW g, NEW g2, NEW ga, NEW ga2, NEW w,
         Heap(K, r, op, c), Barred(K, r, op, c, "propagate", o, new, c2, g, g2, ga, ga2),
         Lists(K, c, g, ga, w)
  PROVE  Lists(K, c2, g2, ga2, w)
<1>1. c \in [Obj -> Colors] BY DEF Heap, HeapType
<1>2. CASE c2 = c /\ g2 = g /\ ga2 = ga BY <1>2
<1>3. ASSUME NEW S, NEW q \in SUBSET Obj, Paint(K, r, op, c, S, c2, q), g2 = g \cup q, ga2 = ga
      PROVE  Lists(K, c2, g2, ga2, w)
  <2>1. \A x \in Obj : ~White(c, x) => c2[x] = c[x] BY <1>3 DEF Paint
  <2>2. \A x \in q : White(c, x) /\ c2[x] = "gray" /\ K[x] \in Queue BY <1>3 DEF Paint
  <2>3. \A x \in g \cup ga \cup w : x \in Obj /\ c[x] = "gray" /\ K[x] \in Queue BY DEF Lists
  <2>4. \A x \in g \cup ga \cup w : ~White(c, x) BY <2>3 DEF White
  <2>5. \A x \in g \cup ga \cup w : c2[x] = "gray" BY <2>1, <2>3, <2>4
  <2>6. \A x \in g2 \cup ga2 \cup w : x \in Obj /\ c2[x] = "gray" /\ K[x] \in Queue
    BY <1>3, <2>2, <2>3, <2>5
  <2>7. q \cap ga = {} /\ q \cap w = {} BY <2>2, <2>4
  <2> QED BY <1>3, <2>6, <2>7 DEF Lists
<1>4. CASE c[o] = "black" /\ K[o] = "table" /\ c2 = [c EXCEPT ![o] = "gray"] /\ g2 = g
           /\ ga2 = ga \cup {o}
  <2>1. c2[o] = "gray" /\ \A x \in Obj : x # o => c2[x] = c[x] BY <1>1, <1>4
  <2>2. \A x \in g \cup ga \cup w : x \in Obj /\ c[x] = "gray" /\ K[x] \in Queue BY DEF Lists
  <2>3. o \notin g \cup ga \cup w BY <1>4, <2>2
  <2>4. \A x \in g2 \cup ga2 \cup w : x \in Obj /\ c2[x] = "gray" /\ K[x] \in Queue
    BY <1>4, <2>1, <2>2 DEF Queue
  <2> QED BY <1>4, <2>3, <2>4 DEF Lists
<1> QED BY <1>2, <1>3, <1>4 DEF Barred

(* Marking keeps the invariant of the three colours.                       *)
LEMMA PaintDark ==
  ASSUME NEW K, NEW r, NEW op, NEW c, NEW S, NEW c2, NEW q, NEW g, NEW ga, NEW w, NEW wait,
         Heap(K, r, op, c), Paint(K, r, op, c, S, c2, q), \A x \in Obj : c[x] # "dead",
         BlackDark(r, c, wait), GrayListed(K, c, g, ga, w)
  PROVE  BlackDark(r, c2, wait) /\ GrayListed(K, c2, g \cup q, ga, w)
<1>1. r \in [Obj -> [Field -> Value]] /\ \A x \in Value : Dark(c, x) => Dark(c2, x)
  BY PaintLife DEF Heap, HeapType
<1>2. BlackDark(r, c2, wait)
  <2>1. SUFFICES ASSUME NEW x \in Obj, c2[x] = "black", x \notin wait, NEW f \in Field
                 PROVE  Dark(c2, r[x][f])
    BY DEF BlackDark
  <2>2. r[x][f] \in Value BY <1>1
  <2>3. CASE c[x] = "black"
    <3>1. Dark(c, r[x][f]) BY <2>1, <2>3 DEF BlackDark
    <3> QED BY <1>1, <2>2, <3>1
  <2>4. CASE c[x] # "black"
    <3>1. /\ K[x] = "userdata" \/ (K[x] = "upval" /\ op[x] = <<>>)
          /\ K[x] = "userdata" => Dark(c2, r[x]["mt"]) /\ Dark(c2, r[x]["env"])
          /\ K[x] = "upval" => Dark(c2, Val(r, op, x))
      BY <2>1, <2>4 DEF Paint
    <3>2. r[x][f] # Nil => f \in FieldsOf(K[x]) BY DEF Heap, HeapFits, Fits
    <3>3. r[x][f] = Nil => Dark(c2, r[x][f]) BY DEF Dark
    <3>4. CASE K[x] = "userdata"
      <4>1. FieldsOf(K[x]) = {"mt", "env"} BY <3>4 DEF FieldsOf
      <4> QED BY <3>1, <3>2, <3>3, <3>4, <4>1
    <3>5. CASE K[x] = "upval" /\ op[x] = <<>>
      <4>1. FieldsOf(K[x]) = {"v"} BY <3>5 DEF FieldsOf
      <4>2. Val(r, op, x) = r[x]["v"] BY <3>5 DEF Val
      <4> QED BY <3>1, <3>2, <3>3, <3>5, <4>1, <4>2
    <3> QED BY <3>1, <3>4, <3>5
  <2> QED BY <2>3, <2>4
<1>3. GrayListed(K, c2, g \cup q, ga, w)
  <2>1. SUFFICES ASSUME NEW x \in Obj, c2[x] = "gray", K[x] \in Queue
                 PROVE  x \in (g \cup q) \cup ga \cup w
    BY DEF GrayListed
  <2>2. CASE c2[x] = c[x] BY <2>1, <2>2 DEF GrayListed
  <2>3. CASE c2[x] # c[x] BY <2>1, <2>3 DEF Paint
  <2> QED BY <2>2, <2>3
<1> QED BY <1>2, <1>3
(* The same, with the roots.                                               *)
LEMMA PaintTri ==
  ASSUME NEW K, NEW r, NEW op, NEW c, NEW S, NEW c2, NEW q, NEW g, NEW ga, NEW w, NEW wait,
         Heap(K, r, op, c), Paint(K, r, op, c, S, c2, q), \A x \in Obj : c[x] # "dead",
         Tri(K, r, c, g, ga, w, wait)
  PROVE  Tri(K, r, c2, g \cup q, ga, w, wait)
<1>1. BlackDark(r, c2, wait) /\ GrayListed(K, c2, g \cup q, ga, w) BY PaintDark DEF Tri
<1>2. \A x \in Value : Dark(c, x) => Dark(c2, x) BY PaintLife
<1>3. Dark(c2, Main) /\ Dark(c2, Registry) BY <1>2 DEF Tri, Value, Obj
<1> QED BY <1>1, <1>3 DEF Tri

(* A store with its barrier leaves no black object with a white value.     *)
LEMMA BarredTri ==
  ASSUME NEW K, NEW r, NEW op, NEW c, NEW o \in Obj, NEW new \in [Field -> Value], NEW c2,
         NEW g, NEW g2, NEW ga, NEW ga2, NEW w, NEW wait,
         Heap(K, r, op, c), Barred(K, r, op, c, "propagate", o, new, c2, g, g2, ga, ga2),
         Tri(K, r, c, g, ga, w, wait), \A x \in Obj : c[x] # "dead",
         \A u \in wait : K[u] = "userdata"
  PROVE  Tri(K, [r EXCEPT ![o] = new], c2, g2, ga2, w, wait)
<1> DEFINE r2 == [r EXCEPT ![o] = new]
<1> SUFFICES Tri(K, r2, c2, g2, ga2, w, wait) OBVIOUS
<1>1. r \in [Obj -> [Field -> Value]] /\ c \in [Obj -> Colors] BY DEF Heap, HeapType
<1>2. r2[o] = new /\ \A x \in Obj : x # o => r2[x] = r[x] BY <1>1
<1> HIDE DEF r2
<1>3. \A x \in Obj : x # o => \A f \in Field : r2[x][f] = r[x][f] BY <1>2
<1>4. CASE c2 = c /\ g2 = g /\ ga2 = ga
           /\ (c[o] = "black" => \A f \in Field : new[f] = r[o][f] \/ Dark(c, new[f]))
  <2>1. BlackDark(r2, c, wait)
    <3>1. SUFFICES ASSUME NEW x \in Obj, c[x] = "black", x \notin wait, NEW f \in Field
                   PROVE  Dark(c, r2[x][f])
      BY DEF BlackDark
    <3>2. Dark(c, r[x][f]) BY <3>1 DEF Tri, BlackDark
    <3> QED BY <1>2, <1>3, <1>4, <3>1, <3>2
  <2> QED BY <1>4, <2>1 DEF Tri
<1>5. ASSUME c[o] = "black", ga2 = ga, NEW S \in SUBSET Value, NEW q \in SUBSET Obj,
             Paint(K, r, op, c, S, c2, q), g2 = g \cup q,
             \A f \in Field : new[f] = r[o][f] \/ new[f] \in S
      PROVE  Tri(K, r2, c2, g2, ga2, w, wait)
  <2>1. Tri(K, r, c2, g2, ga2, w, wait) BY <1>5, PaintTri
  <2>2. \A x \in S : Dark(c2, x) BY <1>5 DEF Paint
  <2>3. BlackDark(r2, c2, wait)
    <3>1. SUFFICES ASSUME NEW x \in Obj, c2[x] = "black", x \notin wait, NEW f \in Field
                   PROVE  Dark(c2, r2[x][f])
      BY DEF BlackDark
    <3>2. Dark(c2, r[x][f]) BY <2>1, <3>1 DEF Tri, BlackDark
    <3> QED BY <1>2, <1>3, <1>5, <2>2, <3>1, <3>2
  <2> QED BY <2>1, <2>3 DEF Tri
<1>6. CASE c[o] = "black" /\ K[o] = "table" /\ c2 = [c EXCEPT ![o] = "gray"] /\ g2 = g
           /\ ga2 = ga \cup {o}
  <2>1. c2[o] = "gray" /\ \A x \in Obj : x # o => c2[x] = c[x] BY <1>1, <1>6
  <2>2. \A x \in Value : Dark(c, x) => Dark(c2, x) BY <2>1 DEF Dark, Value
  <2>3. BlackDark(r2, c2, wait)
    <3>1. SUFFICES ASSUME NEW x \in Obj, c2[x] = "black", x \notin wait, NEW f \in Field
                   PROVE  Dark(c2, r2[x][f])
      BY DEF BlackDark
    <3>2. x # o /\ c[x] = "black" BY <2>1, <3>1
    <3>3. Dark(c, r[x][f]) BY <3>1, <3>2 DEF Tri, BlackDark
    <3>4. r[x][f] \in Value BY <1>1
    <3> QED BY <1>3, <2>2, <3>2, <3>3, <3>4
  <2>4. GrayListed(K, c2, g2, ga2, w) BY <1>6, <2>1 DEF Tri, GrayListed
  <2>5. Dark(c2, Main) /\ Dark(c2, Registry) BY <2>2 DEF Tri, Value, Obj
  <2> QED BY <2>3, <2>4, <2>5 DEF Tri
<1> QED BY <1>4, <1>5, <1>6 DEF Barred

-----------------------------------------------------------------------------
(* Steps of the program that write into one object                         *)

(* What waits for its finalizer is a userdata that is not freed.           *)
LEMMA WaitingUserdata ==
  ASSUME NEW K, NEW c, NEW ud, NEW tm, Listed(K, c, ud, tm)
  PROVE  \A u \in Ran(tm) : u \in Obj /\ K[u] = "userdata" /\ c[u] # "free"
BY DEF Listed

(* Outside sweeps no object is dead.                                       *)
LEMMA NoDead ==
  ASSUME NEW K, NEW op, NEW c, NEW st, NEW ss, NEW sg, NEW wait, NEW fin,
         SweepInv(K, op, c, st, ss, sg, wait, fin), st \notin Sweeping
  PROVE  \A o \in Obj : c[o] # "dead"
BY DEF SweepInv

(* A write with its barrier keeps the inductive invariant.                 *)
LEMMA WriteStep ==
  ASSUME IInv, ~TopIs(calls, "closed"), gcstate \notin Atomic,
         NEW o \in Obj, NEW new,
         Write(shape.kind, ref, open, color, o, new),
         Barred(shape.kind, ref, open, color, gcstate, o, new, color',
                gray, gray', grayagain, grayagain'),
         ref' = [ref EXCEPT ![o] = new], open' = open,
         RootsOk(shape.kind, color, running', gmt'),
         UNCHANGED <<shape, gcstate, weak, sweepstr, sweepgc, udata, tmudata, finalized>>,
         failed' \subseteq {"waiting"}, doomed' \subseteq Obj, CallsInv(calls', gcstate),
         gcstate = "propagate" /\ ~Abandoned(calls', gcstate) => ~Abandoned(calls, gcstate)
  PROVE  IInv'
<1> DEFINE K == shape.kind
<1>1. /\ Heap(K, ref, open, color) /\ Listed(K, color, udata, tmudata) /\ Basics
      /\ Held(K, ref, open, color)
      /\ SweepInv(K, open, color, gcstate, sweepstr, sweepgc, Ran(tmudata), finalized)
      /\ gcstate \in Marking => Lists(K, color, gray, grayagain, weak)
      /\ gcstate \in Marking /\ ~Abandoned(calls, gcstate) =>
           Tri(K, ref, color, gray, grayagain, weak, Ran(tmudata))
  BY DEF IInv, Over, Core, Marked
<1>2. gcstate = "propagate" => \A x \in Obj : color[x] # "dead"
  BY <1>1, NoDead DEF Sweeping
<1>3. \A u \in Ran(tmudata) : K[u] = "userdata" BY <1>1, WaitingUserdata
<1>4. SameLife(color, color') /\ Tints(K, open, color')
      /\ \A x \in Obj : open[x] # <<>> => color'[x] # "black"
  <2>1. /\ Heap(K, ref, open, color)
        /\ Barred(K, ref, open, color, gcstate, o, new, color', gray, gray',
                  grayagain, grayagain')
    BY <1>1
  <2> HIDE DEF K
  <2> QED BY <1>2, <2>1, BarredLife
<1>5. new \in [Field -> Value] BY DEF Write
<1>6. Heap(K, ref', open, color')
  <2>1. Heap(K, [ref EXCEPT ![o] = new], open, color) BY <1>1, WriteHeap
  <2> QED BY <1>4, <2>1, RecolorHeap
<1>7. Held(K, ref', open, color')
  <2>1. Heap(K, [ref EXCEPT ![o] = new], open, color) BY <1>1, WriteHeap
  <2>2. Held(K, [ref EXCEPT ![o] = new], open, color) BY <1>1, WriteHeld
  <2> QED BY <1>4, <2>1, <2>2, RecolorHeld
<1>8. RootsOk(K, color', running', gmt') BY <1>4, RecolorRoots
<1>9. Listed(K, color', udata, tmudata) BY <1>1, <1>4, RecolorListed
<1>10. SweepInv(K, open, color', gcstate, sweepstr, sweepgc, Ran(tmudata), finalized)
  BY <1>1, <1>3, BarredSweep
<1>11. gcstate \in Marking => gcstate = "propagate" BY DEF Marking
<1>12. ASSUME gcstate = "propagate"
       PROVE  Lists(K, color', gray', grayagain', weak)
  <2>1. Barred(K, ref, open, color, "propagate", o, new, color', gray, gray',
               grayagain, grayagain')
    BY <1>12
  <2>2. Lists(K, color, gray, grayagain, weak) BY <1>1, <1>12 DEF Marking
  <2> QED BY <1>1, <2>1, <2>2, BarredLists
<1>13. ASSUME gcstate = "propagate", ~Abandoned(calls', gcstate)
       PROVE  Tri(K, ref', color', gray', grayagain', weak, Ran(tmudata))
  <2>1. Barred(K, ref, open, color, "propagate", o, new, color', gray, gray',
               grayagain, grayagain')
    BY <1>13
  <2>2. Tri(K, ref, color, gray, grayagain, weak, Ran(tmudata)) BY <1>1, <1>13 DEF Marking
  <2>3. \A x \in Obj : color[x] # "dead" BY <1>2, <1>13
  <2> QED BY <1>1, <1>3, <1>5, <2>1, <2>2, <2>3, BarredTri
<1>14. gray' \subseteq Obj /\ grayagain' \subseteq Obj
  <2>1. gray \subseteq Obj /\ grayagain \subseteq Obj BY <1>1 DEF Basics
  <2> QED BY <2>1 DEF Barred
<1>15. Basics'
  <2>1. gmt' \in Value /\ running' \in Obj BY DEF RootsOk
  <2> QED BY <1>1, <1>14, <2>1 DEF Basics, Plain, Makes
<1>16. (gcstate \in Marking /\ ~Abandoned(calls, gcstate))' =>
         AtomicInv(K, shape.events, ref', open', color', gcstate, running', gmt',
                   grayagain', weak, Ran(tmudata), finalized)
  BY DEF AtomicInv, Atomic
<1>17. Core'
  BY <1>7, <1>8, <1>10, <1>11, <1>12, <1>13, <1>16 DEF Core, Marked
<1> QED BY <1>6, <1>9, <1>15, <1>17 DEF IInv

(* The facts of the invariant that steps of the program rest on.           *)
LEMMA ProgramFacts ==
  ASSUME IInv, Program
  PROVE  /\ ~TopIs(calls, "closed") /\ gcstate \notin Atomic /\ Core
         /\ HeapType(shape.kind, ref, open, color)
         /\ running \in Obj /\ shape.kind[running] = "thread" /\ Ok(color, running)
         /\ color[running] # "black" /\ color[running] # "free"
         /\ CallsInv(calls, gcstate) /\ Nil \notin Obj
         /\ failed \subseteq {"waiting"} /\ doomed \subseteq Obj
<1>1. ~TopIs(calls, "closed") /\ gcstate \notin Atomic BY DEF Program, Top, TopIs
<1>2. Core BY <1>1 DEF IInv, Over
<1>3. running \in Obj /\ shape.kind[running] = "thread" /\ Ok(color, running)
  BY <1>2 DEF Core, RootsOk
<1>4. color[running] # "black" BY <1>3 DEF IInv, Heap, Tints
<1> QED BY <1>1, <1>2, <1>3, <1>4, IdAssumption DEF IInv, Basics, Heap, Ok

(* The objects the program can operate on are sound.                       *)
LEMMA AccessOk ==
  ASSUME IInv, Program
  PROVE  /\ \A x \in Accessible : x \in Obj /\ Ok(color, x) /\ shape.kind[x] # "upval"
         /\ \A x \in Stack : x \in Obj /\ Ok(color, x) /\ shape.kind[x] # "upval"
         /\ \A x \in Operands : x \in Value /\ (x # Nil => Ok(color, x) /\ shape.kind[x] # "upval")
         /\ ref[running]["env"] \in Obj /\ shape.kind[ref[running]["env"]] = "table"
         /\ Ok(color, ref[running]["env"])
<1> DEFINE K == shape.kind
<1>1. /\ running \in Obj /\ K[running] = "thread" /\ Ok(color, running)
      /\ Heap(K, ref, open, color) /\ Held(K, ref, open, color)
      /\ ref \in [Obj -> [Field -> Value]] /\ color[running] # "free"
  BY ProgramFacts DEF IInv, Core, HeapType
<1>2. ASSUME NEW f \in Field, ref[running][f] # Nil
      PROVE  /\ ref[running][f] \in Obj /\ Ok(color, ref[running][f])
             /\ Fits(K, running, f, ref[running][f])
  <2>1. Refers(K, ref, running, f) BY <1>1, <1>2 DEF Refers
  <2> QED BY <1>1, <2>1, ReadOk
<1>3. \A x \in Stack : x \in Obj /\ Ok(color, x) /\ K[x] # "upval"
  <2>1. SUFFICES ASSUME NEW f \in Slot \cup {"fin"}, ref[running][f] # Nil
                 PROVE  /\ ref[running][f] \in Obj /\ Ok(color, ref[running][f])
                        /\ K[ref[running][f]] # "upval"
    BY DEF Stack
  <2>2. f \in Field /\ f # "up" BY FieldNames
  <2> QED BY <1>2, <2>1, <2>2 DEF Fits
<1>4. ref[running]["env"] # Nil BY <1>1 DEF Heap, Born
<1>5. /\ ref[running]["env"] \in Obj /\ K[ref[running]["env"]] = "table"
      /\ Ok(color, ref[running]["env"])
  BY <1>2, <1>4, FieldNames DEF Fits
<1> QED BY <1>3, <1>5 DEF Accessible, Operands, Value

-----------------------------------------------------------------------------
(* The barriers of the code                                                *)

(* A black object outside mark and sweep phases waits for its finalizer.   *)
LEMMA BlackWaits ==
  ASSUME IInv, Core, NEW o \in Obj, color[o] = "black", gcstate \in {"finalize", "pause"}
  PROVE  o \in Waiting /\ shape.kind[o] = "userdata"
<1>1. SweepInv(shape.kind, open, color, gcstate, sweepstr, sweepgc, Ran(tmudata), finalized)
  BY DEF Core
<1>2. sweepgc = {} /\ sweepstr = {} /\ gcstate \notin Marking
  BY <1>1 DEF SweepInv, Sweeping, Marking, Atomic
<1>3. o \in Ran(tmudata) BY <1>1, <1>2 DEF SweepInv
<1> QED BY <1>3, WaitingUserdata DEF IInv, Waiting, Ran

(* luaC_barrier and luaC_barrierf are a barrier, and their lua_asserts     *)
(* hold.                                                                   *)
LEMMA BarrierForward ==
  ASSUME IInv, Program, NEW o \in Obj, NEW v \in Value, NEW new \in [Field -> Value],
         Ok(color, o), v # Nil => Ok(color, v),
         \A f \in Field : new[f] = ref[o][f] \/ new[f] = v,
         luaC_barrier(o, v)
  PROVE  /\ Barred(shape.kind, ref, open, color, gcstate, o, new, color',
                   gray, gray', grayagain, grayagain')
         /\ failed' \subseteq {"waiting"}
<1>1. failed \subseteq {"waiting"} /\ Core /\ Nil \notin Obj BY ProgramFacts
<1>2. CASE v # Nil /\ iswhite(v) /\ isblack(o)
  <2>1. luaC_barrierf(o, v) BY <1>2 DEF luaC_barrier
  <2>2. ~isdead(o) /\ ~isdead(v) BY <1>2 DEF isdead, Ok
  <2>3. gcstate \in {"finalize", "pause"} => o \in Waiting
    BY <1>1, <1>2, BlackWaits DEF isblack
  <2>4. failed' \subseteq {"waiting"} BY <1>1, <2>1, <2>2, <2>3 DEF luaC_barrierf, Failing, InPhase
  <2>5. CASE gcstate = "propagate"
    <3>1. gray' = gray \cup Queued({v}) /\ color' = Painted({v}) /\ grayagain' = grayagain
      BY <2>1, <2>5 DEF luaC_barrierf
    <3>2. {v} \in SUBSET Value /\ \A x \in {v} : x # Nil => Ok(color, x) OBVIOUS
    <3>3. Paint(shape.kind, ref, open, color, {v}, Painted({v}), Queued({v}))
      <4>1. \A x \in Obj : color[x] # "dead" BY <1>1, <2>5, NoDead DEF Core, Sweeping
      <4> QED BY <1>1, <3>2, <4>1, Painting DEF IInv, Core
    <3>4. Queued({v}) \in SUBSET Obj BY <3>3 DEF Paint
    <3>5. \A f \in Field : new[f] = ref[o][f] \/ new[f] \in {v} OBVIOUS
    <3>6. color[o] = "black" BY <1>2 DEF isblack
    <3>7. Paint(shape.kind, ref, open, color, {v}, color', Queued({v})) BY <3>1, <3>3
    <3> QED BY <2>4, <2>5, <3>1, <3>2, <3>4, <3>5, <3>6, <3>7 DEF Barred
  <2>6. CASE gcstate # "propagate"
    <3>1. color' = [color EXCEPT ![o] = "white"] /\ gray' = gray /\ grayagain' = grayagain
      BY <2>1, <2>6 DEF luaC_barrierf
    <3>2. color[o] = "black" BY <1>2 DEF isblack
    <3> QED BY <2>4, <2>6, <3>1, <3>2 DEF Barred
  <2> QED BY <2>5, <2>6
<1>3. CASE ~(v # Nil /\ iswhite(v) /\ isblack(o))
  <2>1. color' = color /\ gray' = gray /\ grayagain' = grayagain /\ failed' = failed
    BY <1>3 DEF luaC_barrier
  <2>2. color \in [Obj -> Colors] BY DEF IInv, Heap, HeapType
  <2>3. color[o] = "black" => Dark(color, v)
    BY <1>3, <2>2 DEF iswhite, isblack, Dark, Ok, Colors, Value
  <2> QED BY <1>1, <2>1, <2>3 DEF Barred
<1> QED BY <1>2, <1>3

(* luaC_barriert and luaC_barrierback are a barrier, and their lua_assert  *)
(* holds.                                                                  *)
LEMMA BarrierBack ==
  ASSUME IInv, Program, NEW h \in Obj, NEW S \in SUBSET Value, NEW new \in [Field -> Value],
         Ok(color, h), shape.kind[h] = "table", \A x \in S : x # Nil => Ok(color, x),
         \A f \in Field : new[f] = ref[h][f] \/ new[f] \in S,
         luaC_barriert(h, S)
  PROVE  /\ Barred(shape.kind, ref, open, color, gcstate, h, new, color',
                   gray, gray', grayagain, grayagain')
         /\ failed' \subseteq {"waiting"}
<1>1. failed \subseteq {"waiting"} /\ Core /\ Nil \notin Obj BY ProgramFacts
<1>2. CASE isblack(h) /\ Whites(S) # {}
  <2>1. ~isdead(h) BY <1>2 DEF isdead, Ok
  <2>2. gcstate \notin {"finalize", "pause"} BY <1>1, <1>2, BlackWaits DEF isblack
  <2>3. failed' \subseteq {"waiting"} BY <1>1, <1>2, <2>1, <2>2 DEF luaC_barriert, Failing, InPhase
  <2> QED BY <1>2, <2>3 DEF luaC_barriert, Barred, isblack
<1>3. CASE ~(isblack(h) /\ Whites(S) # {})
  <2>1. color' = color /\ gray' = gray /\ grayagain' = grayagain /\ failed' = failed
    BY <1>3 DEF luaC_barriert
  <2>2. color \in [Obj -> Colors] BY DEF IInv, Heap, HeapType
  <2>3. color[h] = "black" => \A x \in S : Dark(color, x)
    BY <1>3, <2>2 DEF Whites, iswhite, isblack, Dark, Ok, Colors, Value
  <2> QED BY <1>1, <2>1, <2>3 DEF Barred
<1> QED BY <1>2, <1>3

(* No barrier is needed where the object is not black.                     *)
LEMMA NoBarrier ==
  ASSUME NEW o, NEW new, color[o] # "black", UNCHANGED <<color, gray, grayagain>>
  PROVE  Barred(shape.kind, ref, open, color, gcstate, o, new, color',
                gray, gray', grayagain, grayagain')
BY DEF Barred

(* One field of an object that is not a table's entry is assigned.         *)
LEMMA FieldWrite ==
  ASSUME NEW K, NEW r, NEW op, NEW c, Heap(K, r, op, c), Held(K, r, op, c),
         NEW o \in Obj, c[o] # "free", NEW f \in Field \ {"up"}, NEW v \in Value,
         v # Nil => Ok(c, v) /\ Fits(K, o, f, v),
         K[o] = "table" => f = "mt",
         K[o] = "thread" /\ f = "env" => v # Nil,
         op[o] # <<>> => f # "v"
  PROVE  /\ Write(K, r, op, c, o, [r[o] EXCEPT ![f] = v])
         /\ [r[o] EXCEPT ![f] = v] \in [Field -> Value]
         /\ \A x \in Field : [r[o] EXCEPT ![f] = v][x] = r[o][x] \/ [r[o] EXCEPT ![f] = v][x] = v
         /\ [r EXCEPT ![o][f] = v] = [r EXCEPT ![o] = [r[o] EXCEPT ![f] = v]]
<1> DEFINE new == [r[o] EXCEPT ![f] = v]
<1>1. r \in [Obj -> [Field -> Value]] /\ r[o] \in [Field -> Value] BY DEF Heap, HeapType
<1>2. new \in [Field -> Value] /\ new[f] = v /\ \A x \in Field : x # f => new[x] = r[o][x]
  BY <1>1
<1>3. [r EXCEPT ![o][f] = v] = [r EXCEPT ![o] = new] BY <1>1
<1> HIDE DEF new
<1>4. K[o] = "table" /\ new["v"] # Nil /\ new["k"] # Nil /\ Ok(c, o) => Ok(c, new["k"])
  <2>1. SUFFICES ASSUME K[o] = "table", new["v"] # Nil, new["k"] # Nil, Ok(c, o)
                 PROVE  Ok(c, new["k"])
    OBVIOUS
  <2>2. new["v"] = r[o]["v"] /\ new["k"] = r[o]["k"] /\ "k" \in Field
    BY <1>2, <2>1, FieldNames
  <2>3. Refers(K, r, o, "k") BY <2>1, <2>2 DEF Refers
  <2> QED BY <2>1, <2>2, <2>3, ReadOk
<1>5. K[o] = "lclosure" => new["up"] # Nil
  <2>1. K[o] = "lclosure" => r[o]["up"] # Nil BY DEF Heap, Born
  <2> QED BY <1>2, <2>1, FieldNames
<1>6. K[o] = "thread" => new["env"] # Nil
  <2>1. K[o] = "thread" => r[o]["env"] # Nil BY DEF Heap, Born
  <2> QED BY <1>2, <2>1, FieldNames
<1>7. op[o] # <<>> => new["v"] = Nil
  <2>1. op[o] # <<>> => r[o]["v"] = Nil BY DEF Heap, OpenFits
  <2> QED BY <1>2, <2>1, FieldNames
<1>8. Write(K, r, op, c, o, new) BY <1>2, <1>4, <1>5, <1>6, <1>7 DEF Write
<1> QED BY <1>2, <1>3, <1>8 DEF new

-----------------------------------------------------------------------------
(* The stores of the program                                               *)

(* What the program can read from an object it has is sound.               *)
LEMMA ReadableOk ==
  ASSUME IInv, Program, NEW o \in Accessible, NEW v \in Readable(o), v # Nil
  PROVE  v \in Obj /\ Ok(color, v) /\ shape.kind[v] # "upval"
<1> DEFINE K == shape.kind
<1>1. o \in Obj /\ Ok(color, o) BY AccessOk
<1>2. Heap(K, ref, open, color) /\ Held(K, ref, open, color) BY ProgramFacts DEF IInv, Core
<1>3. ASSUME NEW f \in Field, f # "up", v = ref[o][f],
             K[o] = "table" /\ f = "k" => ref[o]["v"] # Nil
      PROVE  v \in Obj /\ Ok(color, v) /\ K[v] # "upval"
  <2>1. Refers(K, ref, o, f) BY <1>3 DEF Refers
  <2> QED BY <1>1, <1>2, <1>3, <2>1, ReadOk DEF Fits
<1>4. CASE K[o] = "table"
  <2>1. v \in {ref[o]["mt"]} \cup (IF ref[o]["v"] = Nil THEN {} ELSE {ref[o]["k"], ref[o]["v"]})
    BY <1>4 DEF Readable, kind
  <2> QED BY <1>3, <2>1, FieldNames
<1>5. CASE K[o] = "userdata"
  <2>1. v \in {ref[o]["mt"], ref[o]["env"]} BY <1>5 DEF Readable, kind
  <2> QED BY <1>3, <1>5, <2>1, FieldNames
<1>6. CASE K[o] = "lclosure"
  <2>1. v \in {ref[o]["env"], UpvalValue(ref[o]["up"])} BY <1>6 DEF Readable, kind
  <2>2. CASE v = ref[o]["env"] BY <1>3, <1>6, <2>2, FieldNames
  <2>3. CASE v = UpvalValue(ref[o]["up"])
    <3>1. ref[o]["up"] # Nil /\ "up" \in Field BY <1>1, <1>2, <1>6, FieldNames DEF Heap, Born, Ok
    <3>2. Refers(K, ref, o, "up") BY <1>6, <3>1 DEF Refers
    <3>3. ref[o]["up"] \in Obj /\ Ok(color, ref[o]["up"]) /\ K[ref[o]["up"]] = "upval"
      BY <1>1, <1>2, <3>1, <3>2, ReadOk DEF Fits
    <3>4. v = Val(ref, open, ref[o]["up"]) BY <2>3 DEF UpvalValue, Val
    <3> QED BY <1>2, <3>3, <3>4, ReadUpval
  <2> QED BY <2>1, <2>2, <2>3
<1>7. CASE K[o] = "cclosure"
  <2>1. v \in {ref[o]["env"], ref[o]["v"]} BY <1>7 DEF Readable, kind
  <2> QED BY <1>3, <1>7, <2>1, FieldNames
<1>8. CASE K[o] = "thread"
  <2>1. v \in {ref[o][f] : f \in Slot \cup {"env"}} BY <1>8 DEF Readable, kind
  <2>2. PICK f \in Slot \cup {"env"} : v = ref[o][f] BY <2>1
  <2> QED BY <1>3, <1>8, <2>2, FieldNames
<1>9. CASE K[o] \notin {"table", "userdata", "lclosure", "cclosure", "thread"}
  BY <1>9 DEF Readable, kind
<1> QED BY <1>4, <1>5, <1>6, <1>7, <1>8, <1>9

(* Stores that leave roots, lists of userdata and calls alone, and mark    *)
(* through a barrier or write into an object that is never black.          *)
LEMMA StoreStep ==
  ASSUME IInv, StoreOnly, NEW o \in Obj, NEW new,
         Write(shape.kind, ref, open, color, o, new),
         Barred(shape.kind, ref, open, color, gcstate, o, new, color',
                gray, gray', grayagain, grayagain'),
         ref' = [ref EXCEPT ![o] = new], open' = open, gmt' = gmt, running' = running,
         failed' \subseteq {"waiting"}
  PROVE  IInv'
<1>1. Program /\ NoGC /\ UNCHANGED <<udataVars, doomed>> BY DEF StoreOnly
<1>2. /\ ~TopIs(calls, "closed") /\ gcstate \notin Atomic /\ Core
      /\ CallsInv(calls, gcstate) /\ doomed \subseteq Obj
  BY <1>1, ProgramFacts
<1>3. /\ UNCHANGED <<shape, gcstate, weak, sweepstr, sweepgc, udata, tmudata, finalized>>
      /\ calls' = calls /\ doomed' = doomed
  BY <1>1 DEF NoGC, sweepVars, udataVars
<1>4. RootsOk(shape.kind, color, running', gmt') BY <1>2 DEF Core
<1> QED BY <1>2, <1>3, <1>4, WriteStep

(* A field that is not part of an entry.                                   *)
LEMMA FieldStep ==
  ASSUME IInv, StoreOnly, NEW o \in Obj, NEW f \in Field \ {"up"}, NEW v \in Value,
         color[o] # "free",
         v # Nil => Ok(color, v) /\ Fits(shape.kind, o, f, v),
         shape.kind[o] = "table" => f = "mt",
         shape.kind[o] = "thread" /\ f = "env" => v # Nil,
         open[o] # <<>> => f # "v",
         ref' = [ref EXCEPT ![o][f] = v], open' = open, gmt' = gmt, running' = running,
         \/ Ok(color, o) /\ luaC_barrier(o, v)
         \/ Ok(color, o) /\ shape.kind[o] = "table" /\ luaC_barriert(o, {v})
         \/ color[o] # "black" /\ UNCHANGED <<color, gray, grayagain, failed>>
  PROVE  IInv'
<1> DEFINE new == [ref[o] EXCEPT ![f] = v]
<1>1. Program BY DEF StoreOnly
<1>2. Heap(shape.kind, ref, open, color) /\ Held(shape.kind, ref, open, color)
  BY <1>1, ProgramFacts DEF IInv, Core
<1>3. /\ Write(shape.kind, ref, open, color, o, new) /\ new \in [Field -> Value]
      /\ \A x \in Field : new[x] = ref[o][x] \/ new[x] = v
      /\ ref' = [ref EXCEPT ![o] = new]
  BY <1>2, FieldWrite
<1> HIDE DEF new
<1>4. /\ Barred(shape.kind, ref, open, color, gcstate, o, new, color',
                gray, gray', grayagain, grayagain')
      /\ failed' \subseteq {"waiting"}
  <2>1. CASE Ok(color, o) /\ luaC_barrier(o, v)
    <3>1. v # Nil => Ok(color, v) OBVIOUS
    <3> QED BY <1>1, <1>3, <2>1, <3>1, BarrierForward
  <2>2. CASE Ok(color, o) /\ shape.kind[o] = "table" /\ luaC_barriert(o, {v})
    <3>1. {v} \in SUBSET Value /\ \A x \in Field : new[x] = ref[o][x] \/ new[x] \in {v}
      BY <1>3
    <3> QED BY <1>1, <1>3, <2>2, <3>1, BarrierBack
  <2>3. CASE color[o] # "black" /\ UNCHANGED <<color, gray, grayagain, failed>>
    BY <1>1, <2>3, NoBarrier, ProgramFacts
  <2> QED BY <2>1, <2>2, <2>3
<1> QED BY <1>3, <1>4, StoreStep

(* Load: stacks are never black, and need no barrier.                      *)
LEMMA LoadInv ==
  ASSUME IInv, NEW s \in Slot, NEW v \in Obj \cup {Nil}, Load(s, v)
  PROVE  IInv'
<1>1. StoreOnly /\ Program BY DEF Load, StoreOnly
<1>2. running \in Obj /\ shape.kind[running] = "thread" /\ color[running] # "black"
      /\ color[running] # "free"
  BY <1>1, ProgramFacts
<1>3. s \in Field \ {"up"} /\ s \notin {"mt", "env", "v"} BY FieldNames
<1>4. v # Nil => Ok(color, v) /\ shape.kind[v] # "upval"
  <2>1. SUFFICES ASSUME v # Nil PROVE Ok(color, v) /\ shape.kind[v] # "upval" OBVIOUS
  <2>2. PICK o \in Accessible : v \in Readable(o) BY <2>1 DEF Load
  <2> QED BY <1>1, <2>1, <2>2, ReadableOk
<1>5. v # Nil => Fits(shape.kind, running, s, v)
  BY <1>2, <1>3, <1>4 DEF Fits, FieldsOf
<1>6. v \in Value BY DEF Value
<1>7. /\ ref' = [ref EXCEPT ![running][s] = v] /\ open' = open /\ gmt' = gmt
      /\ running' = running /\ UNCHANGED <<color, gray, grayagain, failed>>
  BY DEF Load
<1> QED BY <1>1, <1>2, <1>3, <1>4, <1>5, <1>6, <1>7, FieldStep

(* luaV_settable and lua_rawset: the barrier goes back to the table.       *)
LEMMA SettableInv ==
  ASSUME IInv, NEW h \in Accessible, NEW k \in Operands, NEW v \in Operands, luaV_settable(h, k, v)
  PROVE  IInv'
<1> DEFINE K == shape.kind
           new == [ref[h] EXCEPT !["k"] = k, !["v"] = v]
           S == IF ref[h]["k"] = k THEN {v} ELSE {k, v}
<1>1. StoreOnly /\ Program BY DEF luaV_settable, StoreOnly
<1>2. /\ h \in Obj /\ Ok(color, h) /\ K[h] = "table" /\ color[h] # "free"
      /\ k \in Value /\ (k # Nil => Ok(color, k) /\ K[k] # "upval")
      /\ v \in Value /\ (v # Nil => Ok(color, v) /\ K[v] # "upval")
  BY <1>1, AccessOk DEF luaV_settable, kind, Ok
<1>3. Heap(K, ref, open, color) /\ Held(K, ref, open, color) BY <1>1, ProgramFacts DEF IInv, Core
<1>4. ref \in [Obj -> [Field -> Value]] BY <1>3 DEF Heap, HeapType
<1>5. /\ new \in [Field -> Value] /\ new["k"] = k /\ new["v"] = v
      /\ \A f \in Field \ {"k", "v"} : new[f] = ref[h][f]
  BY <1>2, <1>4, FieldNames
<1>6. ref' = [ref EXCEPT ![h] = new]
  <2>1. ref' = [ref EXCEPT ![h]["k"] = k, ![h]["v"] = v] BY DEF luaV_settable
  <2> QED BY <1>2, <1>4, <2>1, FieldNames
<1>7. luaC_barriert(h, S) BY DEF luaV_settable
<1> HIDE DEF new
<1>8. /\ S \in SUBSET Value /\ \A f \in Field : new[f] = ref[h][f] \/ new[f] \in S
      /\ \A x \in S : x # Nil => Ok(color, x)
  BY <1>2, <1>5
<1> HIDE DEF S
<1>9. Fits(K, h, "k", k) \/ k = Nil BY <1>2 DEF Fits, FieldsOf
<1>10. Fits(K, h, "v", v) \/ v = Nil BY <1>2 DEF Fits, FieldsOf
<1>11. open[h] = <<>> BY <1>2, <1>3 DEF Heap, OpenFits
<1>12. Write(K, ref, open, color, h, new)
  BY <1>2, <1>5, <1>9, <1>10, <1>11 DEF Write
<1>13. /\ Barred(K, ref, open, color, gcstate, h, new, color', gray, gray', grayagain, grayagain')
       /\ failed' \subseteq {"waiting"}
  BY <1>1, <1>2, <1>5, <1>7, <1>8, BarrierBack
<1>14. open' = open /\ gmt' = gmt /\ running' = running BY DEF luaV_settable
<1> QED BY <1>1, <1>2, <1>6, <1>12, <1>13, <1>14, StoreStep

(* Only the roots change.                                                  *)
LEMMA RootStep ==
  ASSUME IInv, StoreOnly, RootsOk(shape.kind, color, running', gmt'),
         ref' = ref, open' = open, UNCHANGED <<color, gray, grayagain, failed>>
  PROVE  IInv'
<1> DEFINE new == ref[Main]
<1>1. Program /\ NoGC /\ UNCHANGED <<udataVars, doomed>> BY DEF StoreOnly
<1>2. /\ ~TopIs(calls, "closed") /\ gcstate \notin Atomic /\ Core
      /\ CallsInv(calls, gcstate) /\ doomed \subseteq Obj /\ failed \subseteq {"waiting"}
      /\ HeapType(shape.kind, ref, open, color)
  BY <1>1, ProgramFacts
<1>3. /\ UNCHANGED <<shape, gcstate, weak, sweepstr, sweepgc, udata, tmudata, finalized>>
      /\ calls' = calls /\ doomed' = doomed
  BY <1>1 DEF NoGC, sweepVars, udataVars
<1>4. Main \in Obj /\ ref[Main] \in [Field -> Value] /\ shape.kind[Main] = "thread"
  BY <1>2 DEF HeapType, Obj
<1>5. color[Main] # "free" /\ color[Main] # "black" /\ Ok(color, Main)
  BY <1>2, <1>4 DEF Core, RootsOk, Ok, IInv, Heap, Tints
<1>6. ref[Main]["env"] # Nil /\ open[Main] = <<>>
  BY <1>4, <1>5 DEF IInv, Heap, Born, OpenFits
<1>7. Write(shape.kind, ref, open, color, Main, new)
  BY <1>4, <1>5, <1>6 DEF Write
<1>8. ref' = [ref EXCEPT ![Main] = new] BY <1>2, <1>4 DEF HeapType
<1>9. Barred(shape.kind, ref, open, color, gcstate, Main, new, color',
             gray, gray', grayagain, grayagain')
  BY <1>5, NoBarrier
<1> HIDE DEF new
<1> QED BY <1>2, <1>3, <1>4, <1>7, <1>8, <1>9, WriteStep

(* lua_setmetatable: a barrier for tables and userdata, none for basic     *)
(* types.                                                                  *)
LEMMA SetmetatableInv ==
  ASSUME IInv, NEW o \in Accessible, NEW m \in Accessible \cup {Nil}, lua_setmetatable(o, m)
  PROVE  IInv'
<1> DEFINE K == shape.kind
<1>1. StoreOnly /\ Program /\ open' = open /\ running' = running
  BY DEF lua_setmetatable, StoreOnly
<1>2. o \in Obj /\ Ok(color, o) /\ color[o] # "free" /\ K[o] # "upval" BY <1>1, AccessOk DEF Ok
<1>3. m \in Value /\ (m # Nil => m \in Obj /\ Ok(color, m)) BY <1>1, AccessOk DEF Value
<1>4. m # Nil => K[m] = "table"
  <2>1. m # Nil => shape.events[m] # {} BY DEF lua_setmetatable, Events
  <2>2. shape \in Shapes BY DEF IInv, Basics
  <2> QED BY <1>3, <2>1, <2>2, ShapesAssumption
<1>5. "mt" \in Field \ {"up"} /\ "mt" # "env" /\ "mt" # "v" BY FieldNames
<1>6. CASE K[o] = "table"
  <2>1. ref' = [ref EXCEPT ![o]["mt"] = m] /\ luaC_barriert(o, {m}) /\ gmt' = gmt
    BY <1>6 DEF lua_setmetatable, kind
  <2>2. m # Nil => Fits(K, o, "mt", m) BY <1>4, <1>6 DEF Fits, FieldsOf
  <2> QED BY <1>1, <1>2, <1>3, <1>5, <1>6, <2>1, <2>2, FieldStep
<1>7. CASE K[o] = "userdata"
  <2>1. ref' = [ref EXCEPT ![o]["mt"] = m] /\ luaC_barrier(o, m) /\ gmt' = gmt
    BY <1>7 DEF lua_setmetatable, kind
  <2>2. m # Nil => Fits(K, o, "mt", m) BY <1>4, <1>7 DEF Fits, FieldsOf
  <2> QED BY <1>1, <1>2, <1>3, <1>5, <1>7, <2>1, <2>2, FieldStep
<1>8. CASE K[o] # "table" /\ K[o] # "userdata"
  <2>1. gmt' = m /\ UNCHANGED <<ref, color, gray, grayagain, failed>>
    BY <1>8 DEF lua_setmetatable, kind
  <2>2. RootsOk(K, color, running', gmt')
    BY <1>1, <1>3, <1>4, <2>1, ProgramFacts DEF Core, RootsOk
  <2> QED BY <1>1, <2>1, <2>2, RootStep
<1> QED BY <1>6, <1>7, <1>8

(* lua_setfenv.                                                            *)
LEMMA SetfenvInv ==
  ASSUME IInv, NEW o \in Accessible, NEW e \in Accessible, lua_setfenv(o, e)
  PROVE  IInv'
<1> DEFINE K == shape.kind
<1>1. /\ StoreOnly /\ Program /\ open' = open /\ running' = running /\ gmt' = gmt
      /\ ref' = [ref EXCEPT ![o]["env"] = e] /\ luaC_barrier(o, e)
      /\ K[o] \in {"lclosure", "cclosure", "userdata", "thread"} /\ K[e] = "table"
  BY DEF lua_setfenv, StoreOnly, kind
<1>2. o \in Obj /\ Ok(color, o) /\ color[o] # "free" BY <1>1, AccessOk DEF Ok
<1>3. e \in Obj /\ Ok(color, e) BY <1>1, AccessOk
<1>4. e \in Value /\ e # Nil BY <1>1, <1>3, ProgramFacts DEF Value
<1>5. "env" \in Field \ {"up"} /\ "env" # "v" BY FieldNames
<1>6. Fits(K, o, "env", e) BY <1>1 DEF Fits, FieldsOf
<1> QED BY <1>1, <1>2, <1>3, <1>4, <1>5, <1>6, FieldStep

(* OP_SETUPVAL, which writes into a stack while the upvalue is open.       *)
LEMMA SetupvalInv ==
  ASSUME IInv, NEW c \in Accessible, NEW v \in Operands, OP_SETUPVAL(c, v)
  PROVE  IInv'
<1> DEFINE K == shape.kind
           u == ref[c]["up"]
<1>1. /\ StoreOnly /\ Program /\ open' = open /\ running' = running /\ gmt' = gmt
      /\ SetUpval(u, v) /\ luaC_barrier(u, v) /\ K[c] = "lclosure"
  BY DEF OP_SETUPVAL, StoreOnly, kind
<1>2. /\ Heap(K, ref, open, color) /\ Held(K, ref, open, color)
      /\ open \in [Obj -> {<<>>} \cup (Obj \X Slot)]
  BY <1>1, ProgramFacts DEF IInv, Core, HeapType
<1>3. c \in Obj /\ Ok(color, c) /\ color[c] # "free" BY <1>1, AccessOk DEF Ok
<1>4. v \in Value /\ (v # Nil => Ok(color, v) /\ K[v] # "upval") BY <1>1, AccessOk
<1>5. u \in Obj /\ Ok(color, u) /\ K[u] = "upval"
  <2>1. u # Nil /\ "up" \in Field BY <1>1, <1>2, <1>3, FieldNames DEF Heap, Born
  <2>2. Refers(K, ref, c, "up") BY <1>1, <2>1 DEF Refers
  <2> QED BY <1>2, <1>3, <2>1, <2>2, ReadOk DEF Fits
<1> HIDE DEF u
<1>6. CASE open[u] = <<>>
  <2>1. ref' = [ref EXCEPT ![u]["v"] = v] BY <1>1, <1>6 DEF SetUpval
  <2>2. "v" \in Field \ {"up"} BY FieldNames
  <2>3. v # Nil => Fits(K, u, "v", v) BY <1>4, <1>5 DEF Fits, FieldsOf
  <2>4. color[u] # "free" BY <1>5 DEF Ok
  <2> QED BY <1>1, <1>4, <1>5, <1>6, <2>1, <2>2, <2>3, <2>4, FieldStep
<1>7. CASE open[u] # <<>>
  <2> DEFINE t == open[u][1]
             s == open[u][2]
  <2>1. t \in Obj /\ s \in Slot /\ s \in Field BY <1>2, <1>5, <1>7, OpenPair
  <2>2. K[t] = "thread" /\ color[t] # "free" /\ color[u] # "black"
    BY <1>2, <1>5, <1>7 DEF Heap, OpenFits
  <2>3. color[t] # "black" BY <1>2, <2>1, <2>2 DEF Heap, Tints
  <2>4. ref' = [ref EXCEPT ![t][s] = v] BY <1>1, <1>7 DEF SetUpval
  <2>5. UNCHANGED <<color, gray, grayagain, failed>>
    BY <1>1, <2>2 DEF luaC_barrier, isblack
  <2> HIDE DEF t, s
  <2>6. s \in Field \ {"up"} /\ s \notin {"mt", "env", "v"} BY <2>1, FieldNames
  <2>7. v # Nil => Fits(K, t, s, v) BY <1>4, <2>1, <2>2, <2>6 DEF Fits, FieldsOf
  <2> QED BY <1>1, <1>4, <2>1, <2>2, <2>3, <2>4, <2>5, <2>6, <2>7, FieldStep
<1> QED BY <1>6, <1>7

(* lua_setupvalue on a C function.                                         *)
LEMMA SetupvalueInv ==
  ASSUME IInv, NEW c \in Accessible, NEW v \in Operands, lua_setupvalue(c, v)
  PROVE  IInv'
<1> DEFINE K == shape.kind
<1>1. ~Makes("setupvalue") BY DEF IInv, Basics, Plain
<1>2. /\ StoreOnly /\ Program /\ open' = open /\ running' = running /\ gmt' = gmt
      /\ luaC_barrier(c, v) /\ K[c] = "cclosure" /\ ref' = [ref EXCEPT ![c]["v"] = v]
  BY <1>1 DEF lua_setupvalue, StoreOnly, kind
<1>3. c \in Obj /\ Ok(color, c) /\ color[c] # "free" BY <1>2, AccessOk DEF Ok
<1>4. v \in Value /\ (v # Nil => Ok(color, v) /\ K[v] # "upval") BY <1>2, AccessOk
<1>5. "v" \in Field \ {"up"} BY FieldNames
<1>6. v # Nil => Fits(K, c, "v", v) BY <1>2, <1>4 DEF Fits, FieldsOf
<1>7. open[c] = <<>> BY <1>2, <1>3 DEF IInv, Heap, OpenFits
<1> QED BY <1>2, <1>3, <1>4, <1>5, <1>6, <1>7, FieldStep

(* The parser adds a constant to a prototype.                              *)
LEMMA AddkInv ==
  ASSUME IInv, NEW p \in Accessible, NEW v \in Operands, addk(p, v)
  PROVE  IInv'
<1> DEFINE K == shape.kind
<1>1. /\ StoreOnly /\ Program /\ open' = open /\ running' = running /\ gmt' = gmt
      /\ luaC_barrier(p, v) /\ K[p] = "proto" /\ ref' = [ref EXCEPT ![p]["k"] = v]
  BY DEF addk, StoreOnly, kind
<1>2. p \in Obj /\ Ok(color, p) /\ color[p] # "free" BY <1>1, AccessOk DEF Ok
<1>3. v \in Value /\ (v # Nil => Ok(color, v) /\ K[v] # "upval") BY <1>1, AccessOk
<1>4. "k" \in Field \ {"up"} /\ "k" # "v" BY FieldNames
<1>5. v # Nil => Fits(K, p, "k", v) BY <1>1, <1>3 DEF Fits, FieldsOf
<1> QED BY <1>1, <1>2, <1>3, <1>4, <1>5, FieldStep

(* lua_xmove.                                                              *)
LEMMA XmoveInv ==
  ASSUME IInv, NEW to \in Accessible, NEW s \in Slot, NEW t \in Slot, lua_xmove(to, s, t)
  PROVE  IInv'
<1> DEFINE K == shape.kind
           v == ref[running][s]
<1>1. /\ StoreOnly /\ Program /\ open' = open /\ running' = running /\ gmt' = gmt
      /\ K[to] = "thread" /\ ref' = [ref EXCEPT ![to][t] = v]
      /\ UNCHANGED <<color, gray, grayagain, failed>>
  BY DEF lua_xmove, StoreOnly, kind
<1>2. to \in Obj /\ Ok(color, to) /\ color[to] # "free" BY <1>1, AccessOk DEF Ok
<1>3. v \in Value /\ (v # Nil => Ok(color, v) /\ K[v] # "upval")
  <2>1. v # Nil => v \in Stack BY DEF Stack
  <2> QED BY <1>1, <2>1, AccessOk DEF Value
<1> HIDE DEF v
<1>4. t \in Field \ {"up"} /\ t \notin {"mt", "env", "v"} BY FieldNames
<1>5. v # Nil => Fits(K, to, t, v) BY <1>1, <1>3, <1>4 DEF Fits, FieldsOf
<1>6. color[to] # "black" BY <1>1, <1>2 DEF IInv, Heap, Tints
<1> QED BY <1>1, <1>2, <1>3, <1>4, <1>5, <1>6, FieldStep

(* The running thread, a root, changes.                                    *)
LEMMA SwitchInv ==
  ASSUME IInv, NEW th \in Obj, Switch(th), shape.kind[th] = "thread", Ok(color, th)
  PROVE  IInv'
<1>1. /\ StoreOnly /\ Program /\ running' = th /\ ref' = ref /\ open' = open /\ gmt' = gmt
      /\ UNCHANGED <<color, gray, grayagain, failed>>
  BY DEF Switch, StoreOnly, heapVars
<1>2. RootsOk(shape.kind, color, running', gmt')
  BY <1>1, ProgramFacts DEF Core, RootsOk
<1> QED BY <1>1, <1>2, RootStep
(* lua_resume.                                                             *)
LEMMA ResumeInv ==
  ASSUME IInv, NEW co \in Accessible, lua_resume(co)
  PROVE  IInv'
<1>1. Program /\ Switch(co) /\ shape.kind[co] = "thread"
  BY DEF lua_resume, kind, Switch, StoreOnly
<1> QED BY <1>1, AccessOk, SwitchInv
(* lua_yield.                                                              *)
LEMMA YieldInv ==
  ASSUME IInv, lua_yield
  PROVE  IInv'
<1>1. Program /\ Switch(Main) BY DEF lua_yield, Switch, StoreOnly
<1>2. Core /\ HeapType(shape.kind, ref, open, color) BY <1>1, ProgramFacts
<1>3. Main \in Obj /\ shape.kind[Main] = "thread" /\ Ok(color, Main)
  BY <1>2 DEF Core, RootsOk, HeapType, Obj
<1> QED BY <1>1, <1>3, SwitchInv

(* A finalizer ends: it leaves the stack, and the C stack.                 *)
LEMMA TailCalls ==
  ASSUME CallsInv(calls, gcstate), calls # <<>>, gcstate \notin Atomic,
         TopIs(calls, "finalizer") \/ gcstate = "pause"
  PROVE  /\ CallsInv(Tail(calls), gcstate)
         /\ TopIs(calls, "finalizer") /\ Abandoned(calls, gcstate) => Abandoned(Tail(calls), gcstate)
         /\ TopIs(calls, "finalizer") /\ Abandoned(Tail(calls), gcstate) => Abandoned(calls, gcstate)
<1> DEFINE t == Tail(calls)
           n == Len(calls)
           Names == {"sweep", "collect", "finalizer", "close", "closed"}
<1>1. /\ calls \in Seq(Names) /\ n \in Nat \ {0}
      /\ t \in Seq(Names) /\ Len(t) = n - 1 /\ \A i \in 1 .. n - 1 : t[i] = calls[i + 1]
      /\ Head(calls) = calls[1]
  BY LenProperties, EmptySeq, HeadTailProperties DEF CallsInv
<1>2. \A i \in 2 .. n : calls[i] \notin {"sweep", "closed"} BY DEF CallsInv
<1>3. t = <<>> <=> n = 1 BY <1>1, EmptySeq
<1>4. t # <<>> => Head(t) = calls[2] /\ t[Len(t)] = calls[n] /\ n >= 2
  <2>1. SUFFICES ASSUME t # <<>> PROVE Head(t) = calls[2] /\ t[Len(t)] = calls[n] /\ n >= 2
    OBVIOUS
  <2>2. n >= 2 BY <1>1, <1>3, <2>1
  <2>3. Head(t) = t[1] BY <1>1, <2>1, HeadTailProperties
  <2>4. 1 \in 1 .. n - 1 /\ 1 + 1 = 2 BY <1>1, <2>2
  <2>5. n - 1 \in 1 .. n - 1 /\ (n - 1) + 1 = n BY <1>1, <2>2
  <2> QED BY <1>1, <2>2, <2>3, <2>4, <2>5
<1> HIDE DEF t, n
<1>5. \A i \in 2 .. Len(t) : t[i] \notin {"sweep", "closed"}
  <2>1. SUFFICES ASSUME NEW i \in 2 .. n - 1 PROVE t[i] \notin {"sweep", "closed"} BY <1>1
  <2>2. i \in 1 .. n - 1 /\ i + 1 \in 2 .. n BY <1>1
  <2> QED BY <1>1, <1>2, <2>2
<1>6. t # <<>> => calls[2] \notin {"sweep", "closed"}
  <2>1. t # <<>> => 2 \in 2 .. n BY <1>1, <1>4
  <2> QED BY <1>2, <2>1
<1>7. Ends(t) <=> t # <<>> /\ Ends(calls) BY <1>4 DEF Ends, n
<1>8. TopIs(calls, "finalizer") => (Ends(calls) => t # <<>>)
  <2>1. SUFFICES ASSUME TopIs(calls, "finalizer"), Ends(calls), t = <<>> PROVE FALSE OBVIOUS
  <2>2. n = 1 BY <1>3, <2>1
  <2>3. calls[1] = "finalizer" /\ calls[n] = "close" BY <1>1, <2>1 DEF TopIs, Ends, n
  <2> QED BY <2>2, <2>3
<1>9. TopIs(calls, "finalizer") /\ Ends(calls) /\ gcstate = "propagate" => ~TopIs(t, "collect")
  <2>1. SUFFICES ASSUME TopIs(calls, "finalizer"), Ends(calls), gcstate = "propagate",
                        TopIs(t, "collect")
                 PROVE  FALSE
    OBVIOUS
  <2>2. ~(Len(calls) > 2) BY <2>1 DEF CallsInv
  <2>3. t # <<>> /\ calls[2] = "collect" /\ calls[n] = "close" /\ n >= 2
    BY <1>4, <2>1 DEF TopIs, Ends, n
  <2>4. n = 2 BY <1>1, <2>2, <2>3 DEF n
  <2> QED BY <2>3, <2>4
<1>10. Ends(t) /\ TopIs(t, "finalizer") /\ Len(t) > 2 => gcstate \in {"finalize", "pause"}
  <2>1. SUFFICES ASSUME Ends(t), TopIs(t, "finalizer"), Len(t) > 2
                 PROVE  gcstate \in {"finalize", "pause"}
    OBVIOUS
  <2>2. Ends(calls) /\ Len(calls) > 2 BY <1>1, <1>7, <2>1 DEF n
  <2> QED BY <2>2 DEF CallsInv
<1>11. CallsInv(t, gcstate)
  <2>1. ~TopIs(t, "sweep") BY <1>4, <1>6 DEF TopIs
  <2>2. ASSUME NEW i \in 1 .. n - 1, t[i] = "close" PROVE i = n - 1
    <3>1. i + 1 \in 1 .. n /\ calls[i + 1] = "close" BY <1>1, <2>2
    <3>2. i + 1 = n BY <3>1 DEF CallsInv, n
    <3> QED BY <1>1, <3>2
  <2> QED BY <1>1, <1>5, <1>10, <2>1, <2>2 DEF CallsInv
<1>12. ~TopIs(calls, "collect") \/ ~TopIs(calls, "finalizer") BY DEF TopIs
<1> QED BY <1>7, <1>8, <1>9, <1>11, <1>12 DEF Abandoned, t

(* FinalizerEnds: the userdata leaves the stack, the call the C stack.     *)
LEMMA FinalizerEndsInv ==
  ASSUME IInv, FinalizerEnds
  PROVE  IInv'
<1> DEFINE K == shape.kind
           new == [ref[running] EXCEPT !["fin"] = Nil]
<1>1. /\ TopIs(calls, "finalizer") /\ Program /\ calls # <<>> /\ gcstate \notin Atomic
      /\ ref' = [ref EXCEPT ![running]["fin"] = Nil] /\ calls' = Tail(calls)
      /\ UNCHANGED <<shape, open, gmt, color, udata, tmudata, finalized, running, gcstate,
                     gray, grayagain, weak, sweepstr, sweepgc, failed, doomed>>
  BY DEF FinalizerEnds, Top, TopIs, Program, udataVars, listVars, sweepVars
<1>2. /\ ~TopIs(calls, "closed") /\ Core /\ HeapType(K, ref, open, color)
      /\ running \in Obj /\ K[running] = "thread" /\ color[running] # "black"
      /\ color[running] # "free" /\ CallsInv(calls, gcstate) /\ failed \subseteq {"waiting"}
      /\ doomed \subseteq Obj
  BY <1>1, ProgramFacts
<1>3. Heap(K, ref, open, color) /\ Held(K, ref, open, color) /\ RootsOk(K, color, running, gmt)
  BY <1>2 DEF IInv, Over, Core
<1>4. "fin" \in Field \ {"up"} /\ "fin" \notin {"mt", "env", "v"} /\ Nil \in Value
  BY FieldNames DEF Value
<1>5. Write(K, ref, open, color, running, new) /\ ref' = [ref EXCEPT ![running] = new]
  BY <1>1, <1>2, <1>3, <1>4, FieldWrite
<1> HIDE DEF new
<1>6. Barred(K, ref, open, color, gcstate, running, new, color',
             gray, gray', grayagain, grayagain')
  BY <1>1, <1>2, NoBarrier
<1>7. CallsInv(calls', gcstate) BY <1>1, <1>2, TailCalls
<1>8. ~Abandoned(calls', gcstate) => ~Abandoned(calls, gcstate) BY <1>1, <1>2, TailCalls
<1> QED BY <1>1, <1>2, <1>3, <1>5, <1>6, <1>7, <1>8, WriteStep

-----------------------------------------------------------------------------
(* Steps that change several objects, one change after the other           *)

(* Core, as far as it is about the heap r, op, c, the lists to sweep ss    *)
(* and sg, the finalized userdata and the gray list g.                     *)
World(r, op, c, ss, sg, fin, g) ==
  /\ Heap(shape.kind, r, op, c)
  /\ Held(shape.kind, r, op, c)
  /\ RootsOk(shape.kind, c, running, gmt)
  /\ SweepInv(shape.kind, op, c, gcstate, ss, sg, Ran(tmudata), fin)
  /\ gcstate \in Marking => Lists(shape.kind, c, g, grayagain, weak)
  /\ gcstate \in Marking /\ ~Abandoned(calls, gcstate) =>
       Tri(shape.kind, r, c, g, grayagain, weak, Ran(tmudata))

(* The invariant says this of the present heap ...                         *)
LEMMA WorldNow ==
  ASSUME IInv, ~TopIs(calls, "closed")
  PROVE  World(ref, open, color, sweepstr, sweepgc, finalized, gray)
BY DEF IInv, Over, Core, Marked, World

(* ... and follows from it for the next, when no barrier is involved.      *)
LEMMA WorldThen ==
  ASSUME IInv, gcstate \notin Atomic, ~TopIs(calls, "closed"),
         World(ref', open', color', sweepstr', sweepgc', finalized', gray'),
         Listed(shape.kind, color', udata', tmudata),
         UNCHANGED <<shape, running, gmt, gcstate, tmudata, grayagain, weak, calls>>,
         failed' \subseteq {"waiting"}, doomed' \subseteq Obj, gray' \subseteq Obj, finalized' \subseteq Obj
  PROVE  IInv'
<1>1. sweepstr' \subseteq Obj /\ sweepgc' \subseteq Obj BY DEF World, SweepInv
<1>2. Basics' BY <1>1 DEF IInv, Basics, Plain, Makes
<1>3. AtomicInv(shape.kind, shape.events, ref', open', color', gcstate, running, gmt,
                grayagain, weak, Ran(tmudata), finalized')
  BY DEF AtomicInv, Atomic
<1>4. Core' BY <1>3 DEF Core, Marked, World
<1> QED BY <1>2, <1>4 DEF IInv, World

(* A freed object o is allocated, with the fields `new'.                   *)
Birth(r, c, o, new) ==
  /\ o \in Obj /\ c[o] = "free" /\ shape.kind[o] # "unused" /\ new \in [Field -> Value]
  /\ \A f \in Field : new[f] # Nil => Ok(c, new[f]) /\ Fits(shape.kind, o, f, new[f])
  /\ shape.kind[o] = "lclosure" => new["up"] # Nil
  /\ shape.kind[o] = "thread" => new["env"] # Nil

(* The new object is sound, and on no list.                                *)
LEMMA BirthWorld ==
  ASSUME NEW r, NEW op, NEW c, NEW ss, NEW sg, NEW fin, NEW g, NEW o, NEW new,
         World(r, op, c, ss, sg, fin, g), Birth(r, c, o, new)
  PROVE  /\ World([r EXCEPT ![o] = new], op, [c EXCEPT ![o] = "white"], ss, sg, fin, g)
         /\ o \notin sg
<1> DEFINE K == shape.kind
           r2 == [r EXCEPT ![o] = new]
           c2 == [c EXCEPT ![o] = "white"]
<1>1. /\ K \in [Obj -> Kinds] /\ K[Main] = "thread" /\ K[Registry] = "table"
      /\ r \in [Obj -> [Field -> Value]] /\ c \in [Obj -> Colors]
      /\ op \in [Obj -> {<<>>} \cup (Obj \X Slot)]
      /\ o \in Obj /\ c[o] = "free" /\ new \in [Field -> Value]
  BY DEF World, Heap, HeapType, Birth
<1>2. r2 \in [Obj -> [Field -> Value]] /\ r2[o] = new /\ \A x \in Obj : x # o => r2[x] = r[x]
  BY <1>1
<1>3. c2 \in [Obj -> Colors] /\ c2[o] = "white" /\ \A x \in Obj : x # o => c2[x] = c[x]
  BY <1>1 DEF Colors
<1> HIDE DEF r2, c2
<1>4. op[o] = <<>> BY <1>1 DEF World, Heap, Born
<1>5. Heap(K, r2, op, c2)
  <2>1. HeapType(K, r2, op, c2) BY <1>1, <1>2, <1>3 DEF HeapType
  <2>2. HeapFits(K, r2)
    <3>1. SUFFICES ASSUME NEW x \in Obj, NEW f \in Field, r2[x][f] # Nil
                   PROVE  Fits(K, x, f, r2[x][f])
      BY DEF HeapFits
    <3>2. CASE x = o BY <1>2, <3>1, <3>2 DEF Birth
    <3>3. CASE x # o BY <1>2, <3>1, <3>3 DEF World, Heap, HeapFits
    <3> QED BY <3>2, <3>3
  <2>3. Born(K, r2, op, c2)
    <3>1. Born(K, r, op, c) BY DEF World, Heap
    <3> QED BY <1>2, <1>3, <3>1 DEF Born, Birth
  <2>4. OpenFits(K, r2, op, c2)
    <3>1. OpenFits(K, r, op, c) BY DEF World, Heap
    <3>2. \A x \in Obj : op[x] # <<>> => op[x][1] \in Obj BY <1>1, OpenPair
    <3> QED BY <1>2, <1>3, <1>4, <3>1, <3>2 DEF OpenFits
  <2>5. Tints(K, op, c2) BY <1>3 DEF World, Heap, Tints
  <2> QED BY <2>1, <2>2, <2>3, <2>4, <2>5 DEF Heap
<1>6. \A x \in Obj : Ok(c, x) => Ok(c2, x) BY <1>3 DEF Ok
<1>7. Held(K, r2, op, c2)
  <2>1. SUFFICES ASSUME NEW x \in Obj, Ok(c2, x)
                 PROVE  /\ \A f \in Field : Refers(K, r2, x, f) => Ok(c2, r2[x][f])
                        /\ op[x] # <<>> => Val(r2, op, x) = Nil \/ Ok(c2, Val(r2, op, x))
    BY DEF Held
  <2>2. CASE x = o
    <3>1. SUFFICES ASSUME NEW f \in Field, Refers(K, r2, x, f) PROVE Ok(c2, r2[x][f])
      BY <1>4, <2>2
    <3>2. new[f] # Nil /\ r2[x][f] = new[f] BY <1>2, <2>2, <3>1 DEF Refers
    <3>3. Ok(c, new[f]) /\ new[f] \in Obj BY <1>1, <3>2 DEF Birth, Value
    <3> QED BY <1>6, <3>2, <3>3
  <2>3. CASE x # o
    <3>1. Ok(c, x) /\ r2[x] = r[x] BY <1>2, <1>3, <2>1, <2>3 DEF Ok
    <3>2. ASSUME NEW f \in Field, Refers(K, r2, x, f) PROVE Ok(c2, r2[x][f])
      <4>1. Refers(K, r, x, f) BY <3>1, <3>2 DEF Refers
      <4> QED BY <1>6, <3>1, <4>1, ReadOk DEF World
    <3>3. ASSUME op[x] # <<>>, Val(r2, op, x) # Nil PROVE Ok(c2, Val(r2, op, x))
      <4>1. K[x] = "upval" /\ c[op[x][1]] # "free" BY <3>3 DEF World, Heap, OpenFits
      <4>2. op[x][1] \in Obj BY <1>1, <3>3, OpenPair
      <4>3. Val(r2, op, x) = Val(r, op, x) BY <1>1, <1>2, <3>3, <4>1, <4>2 DEF Val
      <4> QED BY <1>6, <3>1, <3>3, <4>1, <4>3, ReadUpval DEF World
    <3> QED BY <3>2, <3>3
  <2> QED BY <2>2, <2>3
<1>8. RootsOk(K, c2, running, gmt) BY <1>6 DEF World, RootsOk, Value, Obj
<1>9. SweepInv(K, op, c2, gcstate, ss, sg, Ran(tmudata), fin) /\ o \notin sg
  BY <1>1, <1>3 DEF World, SweepInv
<1>10. ASSUME gcstate \in Marking PROVE Lists(K, c2, g, grayagain, weak)
  BY <1>1, <1>3, <1>10 DEF World, Lists
<1>11. ASSUME gcstate \in Marking, ~Abandoned(calls, gcstate)
       PROVE  Tri(K, r2, c2, g, grayagain, weak, Ran(tmudata))
  <2>1. Tri(K, r, c, g, grayagain, weak, Ran(tmudata)) BY <1>11 DEF World
  <2>2. \A x \in Value : Dark(c, x) => Dark(c2, x) BY <1>1, <1>3 DEF Dark, Value
  <2>3. BlackDark(r2, c2, Ran(tmudata))
    <3>1. SUFFICES ASSUME NEW x \in Obj, c2[x] = "black", x \notin Ran(tmudata), NEW f \in Field
                   PROVE  Dark(c2, r2[x][f])
      BY DEF BlackDark
    <3>2. x # o /\ c[x] = "black" /\ r2[x] = r[x] BY <1>2, <1>3, <3>1
    <3>3. Dark(c, r[x][f]) /\ r[x][f] \in Value BY <1>1, <2>1, <3>1, <3>2 DEF Tri, BlackDark
    <3> QED BY <2>2, <3>2, <3>3
  <2>4. GrayListed(K, c2, g, grayagain, weak) BY <1>3, <2>1 DEF Tri, GrayListed
  <2>5. Dark(c2, Main) /\ Dark(c2, Registry) BY <2>1, <2>2 DEF Tri, Value, Obj
  <2> QED BY <2>3, <2>4, <2>5 DEF Tri
<1> QED BY <1>5, <1>7, <1>8, <1>9, <1>10, <1>11 DEF World, r2, c2

(* A dead object that is found again becomes white.                        *)
LEMMA RaiseWorld ==
  ASSUME NEW r, NEW op, NEW c, NEW ss, NEW sg, NEW fin, NEW g, NEW o \in Obj,
         World(r, op, c, ss, sg, fin, g), c[o] = "dead",
         \A f \in Field : Refers(shape.kind, r, o, f) => Ok(c, r[o][f]),
         op[o] # <<>> => Val(r, op, o) = Nil \/ Ok(c, Val(r, op, o))
  PROVE  World(r, op, [c EXCEPT ![o] = "white"], ss, sg, fin, g)
<1> DEFINE K == shape.kind
           c2 == [c EXCEPT ![o] = "white"]
<1>1. /\ r \in [Obj -> [Field -> Value]] /\ c \in [Obj -> Colors]
      /\ op \in [Obj -> {<<>>} \cup (Obj \X Slot)]
  BY DEF World, Heap, HeapType
<1>2. c2 \in [Obj -> Colors] /\ c2[o] = "white" /\ \A x \in Obj : x # o => c2[x] = c[x]
  BY <1>1 DEF Colors
<1> HIDE DEF c2
<1>3. gcstate \notin Marking BY DEF World, SweepInv, Sweeping, Marking, Atomic
<1>4. Heap(K, r, op, c2)
  <2>1. HeapType(K, r, op, c2) BY <1>2 DEF World, Heap, HeapType
  <2>2. Born(K, r, op, c2) BY <1>2 DEF World, Heap, Born
  <2>3. OpenFits(K, r, op, c2)
    <3>1. \A x \in Obj : op[x] # <<>> => op[x][1] \in Obj BY <1>1, OpenPair
    <3> QED BY <1>2, <3>1 DEF World, Heap, OpenFits
  <2>4. Tints(K, op, c2) BY <1>2 DEF World, Heap, Tints
  <2> QED BY <2>1, <2>2, <2>3, <2>4 DEF World, Heap
<1>5. \A x \in Obj : Ok(c, x) => Ok(c2, x) BY <1>2 DEF Ok
<1>6. Held(K, r, op, c2)
  <2>1. SUFFICES ASSUME NEW x \in Obj, Ok(c2, x)
                 PROVE  /\ \A f \in Field : Refers(K, r, x, f) => Ok(c2, r[x][f])
                        /\ op[x] # <<>> => Val(r, op, x) = Nil \/ Ok(c2, Val(r, op, x))
    BY DEF Held
  <2>2. /\ \A f \in Field : Refers(K, r, x, f) => Ok(c, r[x][f])
        /\ op[x] # <<>> => Val(r, op, x) = Nil \/ Ok(c, Val(r, op, x))
    <3>1. CASE x = o BY <3>1
    <3>2. CASE x # o
      <4>1. Ok(c, x) BY <1>2, <2>1, <3>2 DEF Ok
      <4> QED BY <4>1 DEF World, Held
    <3> QED BY <3>1, <3>2
  <2>3. \A f \in Field : Refers(K, r, x, f) => r[x][f] \in Obj BY <1>1 DEF Refers, Value
  <2>4. Val(r, op, x) \in Value BY ValType DEF World
  <2> QED BY <1>5, <2>2, <2>3, <2>4 DEF Value
<1>7. RootsOk(K, c2, running, gmt) BY <1>5 DEF World, RootsOk, Value, Obj
<1>8. SweepInv(K, op, c2, gcstate, ss, sg, Ran(tmudata), fin)
  BY <1>2 DEF World, SweepInv
<1> QED BY <1>3, <1>4, <1>6, <1>7, <1>8 DEF World, c2

(* luaF_findupval makes a new upvalue point to a slot of a thread.         *)
LEMMA OpenWorld ==
  ASSUME NEW r, NEW op, NEW c, NEW ss, NEW sg, NEW fin, NEW g,
         World(r, op, c, ss, sg, fin, g),
         NEW u \in Obj, shape.kind[u] = "upval", c[u] = "white", op[u] = <<>>, u \notin sg,
         r[u]["v"] = Nil,
         NEW t \in Obj, shape.kind[t] = "thread", Ok(c, t), NEW s \in Slot
  PROVE  World(r, [op EXCEPT ![u] = <<t, s>>], c, ss, sg, fin, g)
<1> DEFINE K == shape.kind
           p == <<t, s>>
           op2 == [op EXCEPT ![u] = p]
<1>1. /\ r \in [Obj -> [Field -> Value]] /\ c \in [Obj -> Colors]
      /\ op \in [Obj -> {<<>>} \cup (Obj \X Slot)]
  BY DEF World, Heap, HeapType
<1>2. p \in Obj \X Slot /\ p # <<>> /\ p[1] = t /\ p[2] = s OBVIOUS
<1> HIDE DEF p
<1>3. /\ op2 \in [Obj -> {<<>>} \cup (Obj \X Slot)] /\ op2[u] = p
      /\ \A x \in Obj : x # u => op2[x] = op[x]
  BY <1>1, <1>2
<1> HIDE DEF op2
<1>4. Heap(K, r, op2, c)
  <2>1. HeapType(K, r, op2, c) BY <1>3 DEF World, Heap, HeapType
  <2>2. Born(K, r, op2, c) BY <1>3 DEF World, Heap, Born
  <2>3. OpenFits(K, r, op2, c) BY <1>2, <1>3 DEF World, Heap, OpenFits, Ok
  <2>4. Tints(K, op2, c) BY <1>3 DEF World, Heap, Tints
  <2> QED BY <2>1, <2>2, <2>3, <2>4 DEF World, Heap
<1>5. Held(K, r, op2, c)
  <2>1. SUFFICES ASSUME NEW x \in Obj, Ok(c, x), op2[x] # <<>>, Val(r, op2, x) # Nil
                 PROVE  Ok(c, Val(r, op2, x))
    BY DEF World, Held
  <2>2. CASE x = u
    <3>1. Val(r, op2, x) = r[t][s] BY <1>2, <1>3, <2>2 DEF Val
    <3>2. s \in Field /\ Refers(K, r, t, s) BY <2>1, <3>1, FieldNames DEF Refers
    <3> QED BY <3>1, <3>2, ReadOk DEF World
  <2>3. CASE x # u
    <3>1. op2[x] = op[x] /\ Val(r, op2, x) = Val(r, op, x) BY <1>3, <2>3 DEF Val
    <3> QED BY <2>1, <3>1 DEF World, Held
  <2> QED BY <2>2, <2>3
<1>6. SweepInv(K, op2, c, gcstate, ss, sg, Ran(tmudata), fin)
  BY <1>3 DEF World, SweepInv
<1> QED BY <1>4, <1>5, <1>6 DEF World, op2, p

(* A write into an object that is not black.                               *)
LEMMA WriteWorld ==
  ASSUME NEW r, NEW op, NEW c, NEW ss, NEW sg, NEW fin, NEW g, NEW o, NEW new,
         World(r, op, c, ss, sg, fin, g), Write(shape.kind, r, op, c, o, new), c[o] # "black"
  PROVE  World([r EXCEPT ![o] = new], op, c, ss, sg, fin, g)
<1> DEFINE K == shape.kind
           r2 == [r EXCEPT ![o] = new]
<1>1. Heap(K, r2, op, c) BY WriteHeap DEF World
<1>2. Held(K, r2, op, c) BY WriteHeld DEF World
<1>3. r \in [Obj -> [Field -> Value]] /\ o \in Obj BY DEF World, Heap, HeapType, Write
<1>4. \A x \in Obj : x # o => r2[x] = r[x] BY <1>3
<1> HIDE DEF r2
<1>5. ASSUME gcstate \in Marking, ~Abandoned(calls, gcstate)
      PROVE  Tri(K, r2, c, g, grayagain, weak, Ran(tmudata))
  <2>1. Tri(K, r, c, g, grayagain, weak, Ran(tmudata)) BY <1>5 DEF World
  <2>2. BlackDark(r2, c, Ran(tmudata)) BY <1>4, <2>1 DEF Tri, BlackDark
  <2> QED BY <2>1, <2>2 DEF Tri
<1> QED BY <1>1, <1>2, <1>5 DEF World, r2

(* A value is left in a slot, or in the frame of a finalizer.              *)
LEMMA SlotWorld ==
  ASSUME NEW r, NEW op, NEW c, NEW ss, NEW sg, NEW fin, NEW g,
         World(r, op, c, ss, sg, fin, g),
         NEW s \in Slot \cup {"fin"}, NEW v \in Value,
         v # Nil => Ok(c, v) /\ shape.kind[v] # "upval"
  PROVE  World([r EXCEPT ![running][s] = v], op, c, ss, sg, fin, g)
<1> DEFINE K == shape.kind
           new == [r[running] EXCEPT ![s] = v]
<1>1. running \in Obj /\ K[running] = "thread" /\ Ok(c, running) BY DEF World, RootsOk
<1>3. c[running] # "free" /\ c[running] # "black" BY <1>1 DEF Ok, World, Heap, Tints
<1>4. s \in Field \ {"up"} /\ s \notin {"mt", "env", "v"} BY FieldNames
<1>5. v # Nil => Ok(c, v) /\ Fits(K, running, s, v) BY <1>1, <1>4 DEF Fits, FieldsOf
<1>6. /\ Write(K, r, op, c, running, new)
      /\ [r EXCEPT ![running][s] = v] = [r EXCEPT ![running] = new]
  BY <1>1, <1>3, <1>4, <1>5, FieldWrite DEF World
<1> HIDE DEF new
<1> QED BY <1>3, <1>6, WriteWorld

-----------------------------------------------------------------------------
(* Allocation                                                              *)

(* The lists of userdata when o, which is not a userdata, is born.         *)
LEMMA SameListed ==
  ASSUME NEW K, NEW c, NEW c2, NEW ud, NEW tm, Listed(K, c, ud, tm),
         \A o \in Obj : K[o] = "userdata" => (c2[o] = "free" <=> c[o] = "free")
  PROVE  Listed(K, c2, ud, tm)
<1>1. {u \in Obj : K[u] = "userdata" /\ c2[u] # "free"}
        = {u \in Obj : K[u] = "userdata" /\ c[u] # "free"}
  OBVIOUS
<1> QED BY <1>1 DEF Listed

(* Create, whatever the fields the new object begins with.                 *)
LEMMA CreateInv ==
  ASSUME IInv, NEW o \in Id, NEW s \in Slot, NEW fields, Create(o, s, fields), NEW new,
         new = [f \in Field |-> IF f \in DOMAIN fields THEN fields[f] ELSE Nil],
         shape.kind[o] \notin {"upval", "unused"},
         \A f \in Field : new[f] # Nil =>
            new[f] \in Obj /\ Ok(color, new[f]) /\ Fits(shape.kind, o, f, new[f]),
         shape.kind[o] = "lclosure" => new["up"] # Nil,
         shape.kind[o] = "thread" => new["env"] # Nil,
         \/ udata' = udata /\ shape.kind[o] # "userdata"
         \/ udata' = <<o>> \o udata /\ shape.kind[o] = "userdata"
  PROVE  IInv'
<1> DEFINE K == shape.kind
           r1 == [ref EXCEPT ![o] = new]
           c1 == [color EXCEPT ![o] = "white"]
<1>1. /\ Program /\ color[o] = "free" /\ color' = c1 /\ ref' = [r1 EXCEPT ![running][s] = o]
      /\ UNCHANGED <<shape, running, gmt, gcstate, tmudata, grayagain, weak, calls, open,
                     sweepstr, sweepgc, finalized, gray, failed, doomed>>
  BY DEF Create, Live, NoGC, sweepVars
<1>2. /\ gcstate \notin Atomic /\ ~TopIs(calls, "closed") /\ failed \subseteq {"waiting"}
      /\ doomed \subseteq Obj /\ color \in [Obj -> Colors]
  BY <1>1, ProgramFacts DEF HeapType
<1>3. World(ref, open, color, sweepstr, sweepgc, finalized, gray) BY <1>2, WorldNow
<1>4. o \in Obj BY DEF Obj
<1>5. Birth(ref, color, o, new)
  <2>1. new \in [Field -> Value] BY DEF Value
  <2> QED BY <1>1, <1>4, <2>1 DEF Birth
<1>6. c1[o] = "white" /\ \A x \in Obj : x # o => c1[x] = color[x] BY <1>2, <1>4
<1> HIDE DEF r1, c1
<1>7. World(r1, open, c1, sweepstr, sweepgc, finalized, gray)
  BY <1>3, <1>5, BirthWorld DEF r1, c1
<1>8. World(ref', open, c1, sweepstr, sweepgc, finalized, gray)
  <2>1. o \in Value /\ Ok(c1, o) /\ s \in Slot \cup {"fin"} BY <1>4, <1>6 DEF Value, Ok
  <2> QED BY <1>1, <1>7, <2>1, SlotWorld
<1>9. Listed(K, c1, udata', tmudata)
  <2>1. Listed(K, color, udata, tmudata) BY DEF IInv
  <2>2. CASE udata' = udata /\ K[o] # "userdata"
    BY <1>4, <1>6, <2>1, <2>2, SameListed
  <2>3. CASE udata' = <<o>> \o udata /\ K[o] = "userdata"
    <3>1. o \notin Ran(udata) /\ o \notin Ran(tmudata) BY <1>1, <2>1 DEF Listed
    <3>2. /\ udata' \in Seq(Obj) /\ Once(udata') /\ Ran(udata') = Ran(udata) \cup {o}
      BY <1>4, <2>1, <2>3, <3>1, FrontOnce DEF Listed
    <3>3. {u \in Obj : K[u] = "userdata" /\ c1[u] # "free"}
            = {u \in Obj : K[u] = "userdata" /\ color[u] # "free"} \cup {o}
      BY <1>4, <1>6, <2>3
    <3> QED BY <2>1, <3>1, <3>2, <3>3 DEF Listed
  <2> QED BY <2>2, <2>3
<1>10. gray \subseteq Obj /\ finalized \subseteq Obj BY DEF IInv, Basics
<1> QED BY <1>1, <1>2, <1>8, <1>9, <1>10, WorldThen

(* luaH_new, luaF_newproto, luaE_newthread, luaS_newudata and              *)
(* lua_pushcclosure.                                                       *)
LEMMA NewInv ==
  ASSUME IInv, NEW o \in Id, NEW s \in Slot,
         \/ luaH_new(o, s)
         \/ luaF_newproto(o, s)
         \/ luaE_newthread(o, s)
         \/ luaS_newudata(o, s)
         \/ lua_pushcclosure(o, s)
  PROVE  IInv'
<1> DEFINE K == shape.kind
           env == ref[running]["env"]
<1>1. Program BY DEF luaH_new, luaF_newproto, luaE_newthread, luaS_newudata, lua_pushcclosure, Create
<1>2. env \in Obj /\ K[env] = "table" /\ Ok(color, env) /\ Nil \notin Obj
  BY <1>1, AccessOk, ProgramFacts
<1> HIDE DEF env
<1>3. CASE luaH_new(o, s) \/ luaF_newproto(o, s)
  <2> DEFINE new == [f \in Field |-> IF f \in DOMAIN <<>> THEN <<>>[f] ELSE Nil]
  <2>1. Create(o, s, <<>>) /\ udata' = udata /\ K[o] \in {"table", "proto"}
    BY <1>3 DEF luaH_new, luaF_newproto, kind
  <2>2. \A f \in Field : new[f] = Nil OBVIOUS
  <2>3. \E w : w = new OBVIOUS
  <2>4. PICK w : w = new BY <2>3
  <2>5. \A f \in Field : w[f] = Nil BY <2>2, <2>4
  <2> QED BY <2>1, <2>4, <2>5, CreateInv, ZenonT(30)
<1>4. CASE luaE_newthread(o, s) \/ luaS_newudata(o, s)
  <2> DEFINE fs == [env |-> env]
             new == [f \in Field |-> IF f \in DOMAIN fs THEN fs[f] ELSE Nil]
  <2>1. /\ Create(o, s, fs)
        /\ \/ K[o] = "thread" /\ udata' = udata
           \/ K[o] = "userdata" /\ udata' = <<o>> \o udata
    BY <1>4 DEF luaE_newthread, luaS_newudata, kind, env
  <2>2. new["env"] = env /\ \A f \in Field : f # "env" => new[f] = Nil BY FieldNames
  <2>3. Fits(K, o, "env", env) BY <1>2, <2>1 DEF Fits, FieldsOf
  <2>4. PICK w : w = new OBVIOUS
  <2>5. PICK fields : fields = fs OBVIOUS
  <2> HIDE DEF fs
  <2>6. w = [f \in Field |-> IF f \in DOMAIN fields THEN fields[f] ELSE Nil] BY <2>4, <2>5
  <2>7. w["env"] = env /\ \A f \in Field : f # "env" => w[f] = Nil BY <2>2, <2>4
  <2>8. \A f \in Field : w[f] # Nil => w[f] \in Obj /\ Ok(color, w[f]) /\ Fits(K, o, f, w[f])
    BY <1>2, <2>3, <2>7
  <2> HIDE DEF new
  <2> QED BY <1>2, <2>1, <2>5, <2>6, <2>7, <2>8, CreateInv
<1>5. CASE lua_pushcclosure(o, s)
  <2>1. PICK v \in Operands : Create(o, s, [env |-> env, v |-> v])
    BY <1>5 DEF lua_pushcclosure, env
  <2> DEFINE fs == [env |-> env, v |-> v]
             new == [f \in Field |-> IF f \in DOMAIN fs THEN fs[f] ELSE Nil]
  <2>2. K[o] = "cclosure" /\ udata' = udata BY <1>5 DEF lua_pushcclosure, kind
  <2>3. /\ new["env"] = env /\ new["v"] = v
        /\ \A f \in Field : f # "env" /\ f # "v" => new[f] = Nil
    BY FieldNames
  <2>4. v # Nil => v \in Obj /\ Ok(color, v) /\ K[v] # "upval" BY <1>1, AccessOk DEF Value
  <2>5. Fits(K, o, "env", env) BY <1>2, <2>2 DEF Fits, FieldsOf
  <2>6. v # Nil => Fits(K, o, "v", v) BY <2>2, <2>4 DEF Fits, FieldsOf
  <2>7. PICK w : w = new OBVIOUS
  <2>8. PICK fields : fields = fs OBVIOUS
  <2>9. Create(o, s, fields) BY <2>1, <2>8
  <2> HIDE DEF fs
  <2>10. w = [f \in Field |-> IF f \in DOMAIN fields THEN fields[f] ELSE Nil] BY <2>7, <2>8
  <2>11. \A f \in Field : w[f] # Nil => w[f] \in Obj /\ Ok(color, w[f]) /\ Fits(K, o, f, w[f])
    BY <1>2, <2>3, <2>4, <2>5, <2>6, <2>7
  <2> HIDE DEF new
  <2> QED BY <2>2, <2>9, <2>10, <2>11, CreateInv
<1> QED BY <1>3, <1>4, <1>5

(* luaS_newlstr: a new string, or one that exists.                         *)
LEMMA NewlstrInv ==
  ASSUME IInv, NEW o \in Id, NEW s \in Slot, luaS_newlstr(o, s)
  PROVE  IInv'
<1> DEFINE K == shape.kind
<1>1. K[o] = "string" /\ o \in Obj BY DEF luaS_newlstr, kind, Obj
<1>2. CASE Create(o, s, <<>>) /\ udata' = udata
  <2> DEFINE new == [f \in Field |-> IF f \in DOMAIN <<>> THEN <<>>[f] ELSE Nil]
  <2>1. \A f \in Field : new[f] = Nil OBVIOUS
  <2>2. PICK w : w = new OBVIOUS
  <2>3. \A f \in Field : w[f] = Nil BY <2>1, <2>2
  <2> QED BY <1>1, <1>2, <2>2, <2>3, CreateInv
<1>3. CASE /\ Program /\ Live(o) /\ ref[running][s] = Nil
           /\ color' = [color EXCEPT ![o] = IF isdead(o) THEN "white" ELSE @]
           /\ ref' = [ref EXCEPT ![running][s] = o]
           /\ doomed' = doomed \ {o}
           /\ NoGC
           /\ UNCHANGED <<open, gmt, udataVars, running, gray, grayagain, failed>>
  <2>1. UNCHANGED <<shape, running, gmt, gcstate, tmudata, udata, grayagain, weak, calls, open,
                    sweepstr, sweepgc, finalized, gray, failed>>
    BY <1>3 DEF NoGC, sweepVars, udataVars
  <2>2. /\ gcstate \notin Atomic /\ ~TopIs(calls, "closed") /\ failed \subseteq {"waiting"}
        /\ doomed \subseteq Obj /\ HeapType(K, ref, open, color)
    BY <1>3, ProgramFacts
  <2>3. /\ color \in [Obj -> Colors] /\ K[Main] = "thread" /\ gray \subseteq Obj
        /\ finalized \subseteq Obj
    BY <2>2 DEF HeapType, IInv, Basics
  <2>4. World(ref, open, color, sweepstr, sweepgc, finalized, gray) BY <2>2, WorldNow
  <2>5. World(ref, open, color', sweepstr, sweepgc, finalized, gray)
    <3>1. CASE ~isdead(o)
      <4>1. color' = color BY <1>1, <1>3, <2>3, <3>1
      <4> QED BY <2>4, <4>1
    <3>2. CASE isdead(o)
      <4>1. color[o] = "dead" /\ color' = [color EXCEPT ![o] = "white"]
        BY <1>3, <3>2 DEF isdead
      <4>2. \A f \in Field : ref[o][f] = Nil
        BY <1>1 DEF IInv, Heap, HeapFits, Fits, FieldsOf
      <4>3. open[o] = <<>> BY <1>1 DEF IInv, Heap, OpenFits
      <4>4. \A f \in Field : ~Refers(K, ref, o, f) BY <4>2 DEF Refers
      <4> QED BY <1>1, <2>4, <4>1, <4>3, <4>4, RaiseWorld
    <3> QED BY <3>1, <3>2
  <2>6. Ok(color', o) /\ o # Main BY <1>1, <1>3, <2>3 DEF Ok, isdead, Live
  <2>7. World(ref', open, color', sweepstr, sweepgc, finalized, gray)
    <3>1. o \in Value /\ s \in Slot \cup {"fin"} BY <1>1 DEF Value
    <3> QED BY <1>1, <1>3, <2>5, <2>6, <3>1, SlotWorld
  <2>8. Listed(K, color', udata, tmudata)
    <3>1. \A x \in Obj : x # o => color'[x] = color[x] BY <1>1, <1>3, <2>3
    <3> QED BY <1>1, <3>1, SameListed DEF IInv
  <2>9. doomed' \subseteq Obj BY <1>3, <2>2
  <2> QED BY <2>1, <2>2, <2>3, <2>7, <2>8, <2>9, WorldThen
<1> QED BY <1>2, <1>3 DEF luaS_newlstr

(* OP_CLOSURE, once its upvalue u is there: op1 and c1 are the open        *)
(* upvalues and the colours by then.                                       *)
LEMMA NewClosureInv ==
  ASSUME IInv, NEW c \in Id, NEW s \in Slot, NEW p \in Operands, NEW u \in Obj,
         NewClosure(c, s, p, u), NEW op1, NEW c1 \in [Obj -> Colors],
         World(ref, op1, c1, sweepstr, sweepgc, finalized, gray),
         shape.kind[u] = "upval", Ok(c1, u),
         \A x \in Obj : Ok(color, x) => Ok(c1, x),
         \A x \in Obj : shape.kind[x] # "upval" => c1[x] = color[x],
         open' = op1, color' = [c1 EXCEPT ![c] = "white"], doomed' \subseteq Obj
  PROVE  IInv'
<1> DEFINE K == shape.kind
           env == ref[running]["env"]
           new == [Empty EXCEPT !["env"] = env, !["p"] = p, !["up"] = u]
           r1 == [ref EXCEPT ![c] = new]
           c2 == [c1 EXCEPT ![c] = "white"]
<1>1. /\ Program /\ K[c] = "lclosure" /\ color[c] = "free" /\ (p # Nil => K[p] = "proto")
      /\ ref' = [r1 EXCEPT ![running][s] = c]
      /\ UNCHANGED <<shape, running, gmt, gcstate, tmudata, udata, grayagain, weak, calls,
                     sweepstr, sweepgc, finalized, gray, failed>>
  BY DEF NewClosure, Live, NoGC, sweepVars, udataVars, kind
<1>2. /\ gcstate \notin Atomic /\ ~TopIs(calls, "closed") /\ failed \subseteq {"waiting"}
  BY <1>1, ProgramFacts
<1>3. c \in Obj BY DEF Obj
<1>4. env \in Obj /\ K[env] = "table" /\ Ok(color, env) /\ p \in Value /\ (p # Nil => Ok(color, p))
  BY <1>1, AccessOk
<1> HIDE DEF env
<1>5. /\ new \in [Field -> Value] /\ new["env"] = env /\ new["p"] = p /\ new["up"] = u
      /\ \A f \in Field \ {"env", "p", "up"} : new[f] = Nil
  BY <1>4, FieldNames DEF Empty, Value
<1> HIDE DEF new
<1>6. Birth(ref, c1, c, new)
  <2>1. ASSUME NEW f \in Field, new[f] # Nil PROVE Ok(c1, new[f]) /\ Fits(K, c, f, new[f])
    <3>1. f \in {"env", "p", "up"} BY <1>5, <2>1
    <3>2. CASE f = "env" BY <1>1, <1>4, <1>5, <3>2 DEF Fits, FieldsOf
    <3>3. CASE f = "p"
      <4>1. p # Nil /\ p \in Obj BY <1>4, <1>5, <2>1, <3>3 DEF Value
      <4> QED BY <1>1, <1>4, <1>5, <3>3, <4>1 DEF Fits, FieldsOf
    <3>4. CASE f = "up" BY <1>1, <1>5, <3>4 DEF Fits, FieldsOf
    <3> QED BY <3>1, <3>2, <3>3, <3>4
  <2>2. u # Nil BY IdAssumption
  <2>3. c1[c] = "free" BY <1>1, <1>3
  <2> QED BY <1>1, <1>3, <1>5, <2>1, <2>2, <2>3 DEF Birth
<1>7. c2[c] = "white" /\ \A x \in Obj : x # c => c2[x] = c1[x] BY <1>3
<1> HIDE DEF r1, c2
<1>8. World(r1, op1, c2, sweepstr, sweepgc, finalized, gray)
  BY <1>6, BirthWorld DEF r1, c2
<1>9. World(ref', op1, c2, sweepstr, sweepgc, finalized, gray)
  <2>1. c \in Value /\ Ok(c2, c) /\ s \in Slot \cup {"fin"} BY <1>3, <1>7 DEF Value, Ok
  <2> QED BY <1>1, <1>8, <2>1, SlotWorld
<1>10. Listed(K, c2, udata, tmudata)
  <2>1. \A x \in Obj : K[x] = "userdata" => c2[x] = color[x] BY <1>1, <1>7
  <2> QED BY <2>1, SameListed DEF IInv
<1>11. gray \subseteq Obj /\ finalized \subseteq Obj BY DEF IInv, Basics
<1>12. color' = c2 BY DEF c2
<1> QED BY <1>1, <1>2, <1>9, <1>10, <1>11, <1>12, WorldThen

(* OP_CLOSURE sharing the upvalue of the enclosing function.               *)
LEMMA ClosureSharesInv ==
  ASSUME IInv, NEW c \in Id, NEW s \in Slot, NEW p \in Operands, NEW u \in Of("upval"),
         ClosureShares(c, s, p, u)
  PROVE  IInv'
<1> DEFINE K == shape.kind
<1>1. /\ NewClosure(c, s, p, u) /\ Program /\ color' = [color EXCEPT ![c] = "white"]
      /\ open' = open /\ doomed' = doomed
  BY DEF ClosureShares, NewClosure
<1>2. PICK f \in Stack : K[f] = "lclosure" /\ ref[f]["up"] = u BY DEF ClosureShares, kind
<1>3. u \in Obj /\ K[u] = "upval" /\ u # Nil BY IdAssumption DEF Of, kind
<1>4. f \in Obj /\ Ok(color, f) BY <1>1, AccessOk
<1>5. /\ ~TopIs(calls, "closed") /\ doomed \subseteq Obj /\ color \in [Obj -> Colors] /\ Core
  BY <1>1, ProgramFacts DEF HeapType
<1>6. Ok(color, u)
  <2>1. "up" \in Field /\ Refers(K, ref, f, "up") BY <1>2, <1>3, FieldNames DEF Refers
  <2> QED BY <1>2, <1>4, <1>5, <2>1, ReadOk DEF IInv, Core
<1>7. World(ref, open, color, sweepstr, sweepgc, finalized, gray) BY <1>5, WorldNow
<1> QED BY <1>1, <1>3, <1>5, <1>6, <1>7, NewClosureInv

(* OP_CLOSURE capturing a local: the upvalue is found, raised or made.     *)
LEMMA ClosureCapturesInv ==
  ASSUME IInv, NEW c \in Id, NEW s \in Slot, NEW p \in Operands, NEW u \in Of("upval"),
         NEW t \in Slot, ClosureCaptures(c, s, p, u, t)
  PROVE  IInv'
<1> DEFINE K == shape.kind
           op1 == [open EXCEPT ![u] = <<running, t>>]
           c1 == [color EXCEPT ![u] = IF ~Live(u) \/ isdead(u) THEN "white" ELSE @]
<1>1. /\ NewClosure(c, s, p, u) /\ Program /\ luaF_findupval(u, t)
      /\ color' = [color EXCEPT ![c] = "white",
                                ![u] = IF ~Live(u) \/ isdead(u) THEN "white" ELSE @]
      /\ open' = op1 /\ doomed' = doomed \ {u} /\ K[c] = "lclosure"
  BY DEF ClosureCaptures, NewClosure, kind
<1>2. u \in Obj /\ K[u] = "upval" /\ c \in Obj BY DEF Of, kind, Obj
<1>3. /\ ~TopIs(calls, "closed") /\ doomed \subseteq Obj /\ Core
      /\ color \in [Obj -> Colors] /\ open \in [Obj -> {<<>>} \cup (Obj \X Slot)]
      /\ ref \in [Obj -> [Field -> Value]] /\ K[Main] = "thread"
      /\ running \in Obj /\ K[running] = "thread" /\ Ok(color, running)
  BY <1>1, ProgramFacts DEF HeapType
<1>4. World(ref, open, color, sweepstr, sweepgc, finalized, gray) BY <1>3, WorldNow
<1>5. isdead(u) <=> color[u] = "dead" BY <1>2, <1>3 DEF isdead
<1>6. /\ c1 \in [Obj -> Colors] /\ \A x \in Obj : x # u => c1[x] = color[x]
      /\ c1[u] = IF color[u] \in {"free", "dead"} THEN "white" ELSE color[u]
  BY <1>2, <1>3, <1>5 DEF Colors, Live
<1>7. Ok(c1, u) /\ (\A x \in Obj : Ok(color, x) => Ok(c1, x))
      /\ \A x \in Obj : K[x] # "upval" => c1[x] = color[x]
  BY <1>2, <1>6 DEF Ok
<1>8. color' = [c1 EXCEPT ![c] = "white"]
  <2>1. c # u BY <1>1, <1>2
  <2> QED BY <1>1, <1>2, <1>3, <2>1
<1>9. World(ref, op1, c1, sweepstr, sweepgc, finalized, gray)
  <2>1. CASE Found(u, t)
    <3>0. open[u] = <<running, t>> BY <2>1 DEF Found
    <3>1. open[u] = <<running, t>> /\ open[u] # <<>> /\ op1 = open
      <4>1. open[u] # <<>> BY <3>0
      <4>2. op1 = [open EXCEPT ![u] = open[u]] BY <3>0
      <4>3. [open EXCEPT ![u] = open[u]] = open BY <1>2, <1>3
      <4> QED BY <3>0, <4>1, <4>2, <4>3
    <3>2. color[u] # "free" /\ ref[u]["v"] = Nil
      BY <1>2, <3>1 DEF IInv, Heap, Born, OpenFits
    <3>3. CASE color[u] # "dead"
      <4>1. c1 = color BY <1>2, <1>3, <1>5, <3>2, <3>3 DEF Live
      <4> QED BY <1>4, <3>1, <4>1
    <3>4. CASE color[u] = "dead"
      <4>1. c1 = [color EXCEPT ![u] = "white"] BY <1>5, <3>4
      <4>2. \A f \in Field : ~Refers(K, ref, u, f)
        BY <1>2, <3>2 DEF Refers, IInv, Heap, HeapFits, Fits, FieldsOf
      <4>3. Val(ref, open, u) = ref[running][t] BY <3>1 DEF Val
      <4>4. ref[running][t] = Nil \/ Ok(color, ref[running][t])
        <5>1. SUFFICES ASSUME ref[running][t] # Nil PROVE Ok(color, ref[running][t]) OBVIOUS
        <5>2. t \in Field /\ Refers(K, ref, running, t) BY <1>3, <5>1, FieldNames DEF Refers
        <5> QED BY <1>3, <5>2, ReadOk DEF IInv, Core
      <4>5. World(ref, open, [color EXCEPT ![u] = "white"], sweepstr, sweepgc, finalized, gray)
        BY <1>2, <1>4, <3>4, <4>2, <4>3, <4>4, RaiseWorld
      <4> QED BY <3>1, <4>1, <4>5
    <3> QED BY <3>3, <3>4
  <2>2. CASE ~Live(u)
    <3>1. color[u] = "free" /\ c1 = [color EXCEPT ![u] = "white"] BY <2>2 DEF Live
    <3>2. ref[u] = Empty /\ open[u] = <<>> BY <1>2, <3>1 DEF IInv, Heap, Born
    <3>3. Birth(ref, color, u, Empty)
      <4>1. Empty \in [Field -> Value] /\ \A f \in Field : Empty[f] = Nil BY DEF Empty, Value
      <4> QED BY <1>2, <3>1, <4>1 DEF Birth
    <3>4. [ref EXCEPT ![u] = Empty] = ref BY <1>2, <1>3, <3>2
    <3>5. World(ref, open, c1, sweepstr, sweepgc, finalized, gray) /\ u \notin sweepgc
      BY <1>4, <3>1, <3>3, <3>4, BirthWorld
    <3>6. ref[u]["v"] = Nil BY <3>2, FieldNames DEF Empty
    <3>7. c1[u] = "white" /\ Ok(c1, running) BY <1>3, <1>6, <1>7, <3>1
    <3> HIDE DEF c1
    <3> QED BY <1>2, <1>3, <3>2, <3>5, <3>6, <3>7, OpenWorld
  <2> QED BY <1>1, <2>1, <2>2 DEF luaF_findupval
<1>10. doomed' \subseteq Obj BY <1>1, <1>3
<1>11. NewClosure(c, s, p, u) /\ open' = op1 BY <1>1
<1>12. c1 \in [Obj -> Colors] BY <1>6
<1>13. u \in Obj /\ shape.kind[u] = "upval" BY <1>2
<1>14. /\ Ok(c1, u) /\ \A x \in Obj : Ok(color, x) => Ok(c1, x)
       /\ \A x \in Obj : shape.kind[x] # "upval" => c1[x] = color[x]
  BY <1>7
<1> HIDE DEF c1, op1, K
<1> QED BY <1>8, <1>9, <1>10, <1>11, <1>12, <1>13, <1>14, NewClosureInv

-----------------------------------------------------------------------------
(* luaF_close                                                              *)

(* Marking in the middle of a program's step.                              *)
LEMMA PaintWorld ==
  ASSUME NEW r, NEW op, NEW c, NEW ss, NEW sg, NEW fin, NEW g, NEW S, NEW c2, NEW q \in SUBSET Obj,
         World(r, op, c, ss, sg, fin, g), gcstate \in Marking,
         Paint(shape.kind, r, op, c, S, c2, q)
  PROVE  World(r, op, c2, ss, sg, fin, g \cup q)
<1> DEFINE K == shape.kind
<1>1. \A o \in Obj : c[o] # "dead" BY DEF World, SweepInv, Sweeping, Marking, Atomic
<1>2. /\ SameLife(c, c2) /\ Tints(K, op, c2) /\ \A o \in Obj : op[o] # <<>> => c2[o] # "black"
      /\ \A o \in Value : Dark(c, o) => Dark(c2, o)
  BY <1>1, PaintLife DEF World
<1>3. Heap(K, r, op, c2) BY <1>2, RecolorHeap DEF World
<1>4. Held(K, r, op, c2) BY <1>2, RecolorHeld DEF World
<1>5. RootsOk(K, c2, running, gmt) BY <1>2, RecolorRoots DEF World
<1>6. SweepInv(K, op, c2, gcstate, ss, sg, Ran(tmudata), fin)
  BY <1>1, <1>2 DEF World, SweepInv, SameLife
<1>7. Lists(K, c2, g \cup q, grayagain, weak)
  <2>1. Lists(K, c, g, grayagain, weak) BY DEF World
  <2>2. \A x \in Obj : ~White(c, x) => c2[x] = c[x] BY DEF Paint
  <2>3. \A x \in q : White(c, x) /\ c2[x] = "gray" /\ K[x] \in Queue BY DEF Paint
  <2>4. \A x \in g \cup grayagain \cup weak : x \in Obj /\ c[x] = "gray" /\ K[x] \in Queue
    BY <2>1 DEF Lists
  <2>5. \A x \in g \cup grayagain \cup weak : ~White(c, x) BY <2>4 DEF White
  <2>6. \A x \in g \cup grayagain \cup weak : c2[x] = "gray" BY <2>2, <2>4, <2>5
  <2>7. \A x \in (g \cup q) \cup grayagain \cup weak :
           x \in Obj /\ c2[x] = "gray" /\ K[x] \in Queue
    BY <2>3, <2>4, <2>6
  <2>8. q \cap grayagain = {} /\ q \cap weak = {} BY <2>3, <2>5
  <2> QED BY <2>1, <2>7, <2>8 DEF Lists
<1>8. ASSUME ~Abandoned(calls, gcstate)
      PROVE  Tri(K, r, c2, g \cup q, grayagain, weak, Ran(tmudata))
  BY <1>1, <1>8, PaintTri DEF World
<1> QED BY <1>3, <1>4, <1>5, <1>6, <1>7, <1>8 DEF World

(* An open upvalue becomes closed and gets the colour x.                   *)
LEMMA CloseWorld ==
  ASSUME NEW r, NEW op, NEW c, NEW ss, NEW sg, NEW fin, NEW g,
         World(r, op, c, ss, sg, fin, g), gcstate \notin Atomic,
         NEW u \in Obj, op[u] # <<>>, Ok(c, u), NEW x \in {"white", "black"},
         \/ x = c[u]
         \/ gcstate \notin Marking /\ x = "white"
         \/ x = "black" /\ gcstate \in Marking /\ Dark(c, Val(r, op, u))
  PROVE  World([r EXCEPT ![u]["v"] = Val(r, op, u)], [op EXCEPT ![u] = <<>>],
               [c EXCEPT ![u] = x], ss, sg, fin, g)
<1> DEFINE K == shape.kind
           v == Val(r, op, u)
           r2 == [r EXCEPT ![u]["v"] = v]
           op2 == [op EXCEPT ![u] = <<>>]
           c2 == [c EXCEPT ![u] = x]
<1>1. /\ r \in [Obj -> [Field -> Value]] /\ c \in [Obj -> Colors]
      /\ op \in [Obj -> {<<>>} \cup (Obj \X Slot)] /\ K \in [Obj -> Kinds]
      /\ Heap(K, r, op, c) /\ Held(K, r, op, c)
  BY DEF World, Heap, HeapType
<1>2. /\ K[u] = "upval" /\ r[u]["v"] = Nil /\ c[u] # "black" /\ c[u] # "free" /\ c[u] # "dead"
  BY <1>1 DEF Heap, OpenFits, Ok
<1>3. v \in Value /\ (v # Nil => Ok(c, v) /\ K[v] # "upval") /\ v # u
  BY <1>1, <1>2, ValType, ReadUpval, IdAssumption
<1> HIDE DEF v
<1>4. /\ r2 \in [Obj -> [Field -> Value]] /\ r2[u]["v"] = v
      /\ \A f \in Field : f # "v" => r2[u][f] = r[u][f]
      /\ \A y \in Obj : y # u => r2[y] = r[y]
  BY <1>1, <1>3, FieldNames
<1>5. /\ c2 \in [Obj -> Colors] /\ c2[u] = x /\ \A y \in Obj : y # u => c2[y] = c[y]
  BY <1>1 DEF Colors
<1>6. /\ op2 \in [Obj -> {<<>>} \cup (Obj \X Slot)] /\ op2[u] = <<>>
      /\ \A y \in Obj : y # u => op2[y] = op[y]
  BY <1>1
<1> HIDE DEF r2, c2, op2
<1>7. \A f \in Field : f # "v" => r[u][f] = Nil
  BY <1>1, <1>2 DEF Heap, HeapFits, Fits, FieldsOf
<1>8. \A y \in Obj : op[y] # <<>> => op[y][1] \in Obj /\ op[y][1] # u /\ K[y] = "upval"
  <2>1. SUFFICES ASSUME NEW y \in Obj, op[y] # <<>>
                 PROVE  op[y][1] \in Obj /\ op[y][1] # u /\ K[y] = "upval"
    OBVIOUS
  <2>2. op[y][1] \in Obj BY <1>1, <2>1, OpenPair
  <2>3. K[op[y][1]] = "thread" /\ K[y] = "upval" BY <1>1, <2>1 DEF Heap, OpenFits
  <2> QED BY <1>2, <2>2, <2>3
<1>9. \A y \in Obj : (Ok(c, y) <=> Ok(c2, y)) /\ (c[y] = "free" <=> c2[y] = "free")
  BY <1>2, <1>5 DEF Ok
<1>10. Heap(K, r2, op2, c2)
  <2>1. HeapType(K, r2, op2, c2) BY <1>1, <1>4, <1>5, <1>6 DEF Heap, HeapType
  <2>2. HeapFits(K, r2)
    <3>1. SUFFICES ASSUME NEW y \in Obj, NEW f \in Field, r2[y][f] # Nil
                   PROVE  Fits(K, y, f, r2[y][f])
      BY DEF HeapFits
    <3>2. CASE y # u BY <1>1, <1>4, <3>1, <3>2 DEF Heap, HeapFits
    <3>3. CASE y = u
      <4>1. f = "v" /\ v # Nil BY <1>4, <1>7, <3>1, <3>3
      <4> QED BY <1>2, <1>3, <1>4, <3>3, <4>1 DEF Fits, FieldsOf
    <3> QED BY <3>2, <3>3
  <2>3. Born(K, r2, op2, c2)
    <3>1. SUFFICES ASSUME NEW y \in Obj, y # u PROVE
                   /\ c2[y] = "free" => r2[y] = Empty /\ op2[y] = <<>>
                   /\ c2[y] # "free" /\ K[y] = "lclosure" => r2[y]["up"] # Nil
                   /\ c2[y] # "free" /\ K[y] = "thread" => r2[y]["env"] # Nil
                   /\ K[y] = "unused" => c2[y] = "free"
      BY <1>2, <1>9 DEF Born
    <3> QED BY <1>1, <1>4, <1>5, <1>6, <3>1 DEF Heap, Born
  <2>4. OpenFits(K, r2, op2, c2)
    <3>1. SUFFICES ASSUME NEW y \in Obj, op2[y] # <<>>
                   PROVE  /\ K[y] = "upval" /\ K[op2[y][1]] = "thread" /\ c2[op2[y][1]] # "free"
                          /\ r2[y]["v"] = Nil /\ c2[y] # "black"
      BY DEF OpenFits
    <3>2. y # u /\ op2[y] = op[y] /\ r2[y] = r[y] /\ c2[y] = c[y]
      BY <1>4, <1>5, <1>6, <3>1
    <3>3. /\ K[y] = "upval" /\ K[op[y][1]] = "thread" /\ c[op[y][1]] # "free"
          /\ r[y]["v"] = Nil /\ c[y] # "black"
      BY <1>1, <3>1, <3>2 DEF Heap, OpenFits
    <3>4. op[y][1] \in Obj BY <1>8, <3>1, <3>2
    <3> QED BY <1>9, <3>2, <3>3, <3>4
  <2>5. Tints(K, op2, c2) BY <1>1, <1>2, <1>5, <1>6 DEF Heap, Tints
  <2> QED BY <2>1, <2>2, <2>3, <2>4, <2>5 DEF Heap
<1>11. Held(K, r2, op2, c2)
  <2>1. SUFFICES ASSUME NEW y \in Obj, Ok(c, y)
                 PROVE  /\ \A f \in Field : Refers(K, r2, y, f) => Ok(c2, r2[y][f])
                        /\ op2[y] # <<>> => Val(r2, op2, y) = Nil \/ Ok(c2, Val(r2, op2, y))
    BY <1>9 DEF Held
  <2>2. CASE y = u
    <3>1. SUFFICES ASSUME NEW f \in Field, Refers(K, r2, y, f) PROVE Ok(c2, r2[y][f])
      BY <1>6, <2>2
    <3>2. f = "v" /\ v # Nil BY <1>4, <1>7, <2>2, <3>1 DEF Refers
    <3> QED BY <1>3, <1>4, <1>9, <2>2, <3>2 DEF Value
  <2>3. CASE y # u
    <3>1. op2[y] = op[y] /\ r2[y] = r[y] BY <1>4, <1>6, <2>3
    <3>2. ASSUME NEW f \in Field, Refers(K, r2, y, f) PROVE Ok(c2, r2[y][f])
      <4>1. Refers(K, r, y, f) BY <3>1, <3>2 DEF Refers
      <4> QED BY <1>1, <1>9, <2>1, <3>1, <4>1, ReadOk
    <3>3. ASSUME op2[y] # <<>>, Val(r2, op2, y) # Nil PROVE Ok(c2, Val(r2, op2, y))
      <4>1. op[y][1] \in Obj /\ op[y][1] # u /\ K[y] = "upval" BY <1>8, <3>1, <3>3
      <4>2. Val(r2, op2, y) = Val(r, op, y) BY <1>4, <3>1, <3>3, <4>1 DEF Val
      <4> QED BY <1>1, <1>9, <2>1, <3>3, <4>1, <4>2, ReadUpval
    <3> QED BY <3>2, <3>3
  <2> QED BY <2>2, <2>3
<1>12. RootsOk(K, c2, running, gmt) BY <1>9 DEF World, RootsOk, Value, Obj
<1>13. SweepInv(K, op2, c2, gcstate, ss, sg, Ran(tmudata), fin)
  <2>1. SweepInv(K, op, c, gcstate, ss, sg, Ran(tmudata), fin) BY DEF World
  <2>2. gcstate \notin Marking => x = "white" BY <1>2
  <2> QED BY <1>5, <1>6, <1>9, <2>1, <2>2 DEF SweepInv
<1>14. ASSUME gcstate \in Marking PROVE Lists(K, c2, g, grayagain, weak)
  <2>1. Lists(K, c, g, grayagain, weak) BY <1>14 DEF World
  <2>2. u \notin g \cup grayagain \cup weak BY <1>2, <2>1 DEF Lists, Queue
  <2> QED BY <1>5, <2>1, <2>2 DEF Lists
<1>15. ASSUME gcstate \in Marking, ~Abandoned(calls, gcstate)
       PROVE  Tri(K, r2, c2, g, grayagain, weak, Ran(tmudata))
  <2>1. Tri(K, r, c, g, grayagain, weak, Ran(tmudata)) BY <1>15 DEF World
  <2>2. x = c[u] \/ (x = "black" /\ Dark(c, v)) BY <1>15 DEF v
  <2>3. \A y \in Value : Dark(c, y) => Dark(c2, y) BY <1>5, <2>2 DEF Dark, Value
  <2>4. BlackDark(r2, c2, Ran(tmudata))
    <3>1. SUFFICES ASSUME NEW y \in Obj, c2[y] = "black", y \notin Ran(tmudata), NEW f \in Field
                   PROVE  Dark(c2, r2[y][f])
      BY DEF BlackDark
    <3>2. CASE y = u
      <4>1. Dark(c, v) BY <1>2, <1>5, <2>2, <3>1, <3>2
      <4>2. r2[y][f] = v \/ r2[y][f] = Nil BY <1>4, <1>7, <3>2
      <4> QED BY <1>3, <2>3, <4>1, <4>2 DEF Dark
    <3>3. CASE y # u
      <4>1. c[y] = "black" /\ r2[y] = r[y] BY <1>4, <1>5, <3>1, <3>3
      <4>2. Dark(c, r[y][f]) /\ r[y][f] \in Value BY <1>1, <2>1, <3>1, <4>1 DEF Tri, BlackDark
      <4> QED BY <2>3, <4>1, <4>2
    <3> QED BY <3>2, <3>3
  <2>5. GrayListed(K, c2, g, grayagain, weak)
    BY <1>2, <1>5, <2>1 DEF Tri, GrayListed, Queue
  <2>6. Dark(c2, Main) /\ Dark(c2, Registry) BY <2>1, <2>3 DEF Tri, Value, Obj
  <2> QED BY <2>4, <2>5, <2>6 DEF Tri
<1> QED BY <1>10, <1>11, <1>12, <1>13, <1>14, <1>15 DEF World, r2, op2, c2, v

(* A dead object that is not a thread is freed, by luaF_close or a sweep.  *)
LEMMA BuryWorld ==
  ASSUME NEW r, NEW op, NEW c, NEW ss, NEW sg, NEW fin, NEW g,
         World(r, op, c, ss, sg, fin, g), NEW u \in Obj, c[u] = "dead", shape.kind[u] # "thread"
  PROVE  World([r EXCEPT ![u] = Empty], [op EXCEPT ![u] = <<>>], [c EXCEPT ![u] = "free"],
               ss \ {u}, sg \ {u}, fin \ {u}, g)
<1> DEFINE K == shape.kind
           r2 == [r EXCEPT ![u] = Empty]
           op2 == [op EXCEPT ![u] = <<>>]
           c2 == [c EXCEPT ![u] = "free"]
<1>1. /\ r \in [Obj -> [Field -> Value]] /\ c \in [Obj -> Colors]
      /\ op \in [Obj -> {<<>>} \cup (Obj \X Slot)] /\ K \in [Obj -> Kinds]
      /\ Heap(K, r, op, c) /\ Held(K, r, op, c)
      /\ Empty \in [Field -> Value] /\ \A f \in Field : Empty[f] = Nil
  BY DEF World, Heap, HeapType, Empty, Value
<1>2. gcstate \in Sweeping /\ gcstate \notin Marking
  BY DEF World, SweepInv, Sweeping, Marking, Atomic
<1>4. /\ r2 \in [Obj -> [Field -> Value]] /\ r2[u] = Empty
      /\ \A y \in Obj : y # u => r2[y] = r[y]
  BY <1>1
<1>5. /\ c2 \in [Obj -> Colors] /\ c2[u] = "free" /\ \A y \in Obj : y # u => c2[y] = c[y]
  BY <1>1 DEF Colors
<1>6. /\ op2 \in [Obj -> {<<>>} \cup (Obj \X Slot)] /\ op2[u] = <<>>
      /\ \A y \in Obj : y # u => op2[y] = op[y]
  BY <1>1
<1> HIDE DEF r2, c2, op2
<1>8. \A y \in Obj : op[y] # <<>> => op[y][1] \in Obj /\ op[y][1] # u /\ K[y] = "upval"
  <2>1. SUFFICES ASSUME NEW y \in Obj, op[y] # <<>>
                 PROVE  op[y][1] \in Obj /\ op[y][1] # u /\ K[y] = "upval"
    OBVIOUS
  <2>2. op[y][1] \in Obj BY <1>1, <2>1, OpenPair
  <2>3. K[op[y][1]] = "thread" /\ K[y] = "upval" BY <1>1, <2>1 DEF Heap, OpenFits
  <2> QED BY <2>2, <2>3
<1>9. \A y \in Obj : Ok(c, y) <=> Ok(c2, y) BY <1>5 DEF Ok
<1>10. Heap(K, r2, op2, c2)
  <2>1. HeapType(K, r2, op2, c2) BY <1>1, <1>4, <1>5, <1>6 DEF Heap, HeapType
  <2>2. HeapFits(K, r2) BY <1>1, <1>4 DEF Heap, HeapFits
  <2>3. Born(K, r2, op2, c2) BY <1>1, <1>4, <1>5, <1>6 DEF Heap, Born
  <2>4. OpenFits(K, r2, op2, c2)
    <3>1. SUFFICES ASSUME NEW y \in Obj, op2[y] # <<>>
                   PROVE  /\ K[y] = "upval" /\ K[op2[y][1]] = "thread" /\ c2[op2[y][1]] # "free"
                          /\ r2[y]["v"] = Nil /\ c2[y] # "black"
      BY DEF OpenFits
    <3>2. y # u /\ op2[y] = op[y] /\ r2[y] = r[y] /\ c2[y] = c[y]
      BY <1>4, <1>5, <1>6, <3>1
    <3>3. /\ K[y] = "upval" /\ K[op[y][1]] = "thread" /\ c[op[y][1]] # "free"
          /\ r[y]["v"] = Nil /\ c[y] # "black"
      BY <1>1, <3>1, <3>2 DEF Heap, OpenFits
    <3>4. op[y][1] \in Obj /\ op[y][1] # u BY <1>8, <3>1, <3>2
    <3> QED BY <1>5, <3>2, <3>3, <3>4
  <2>5. Tints(K, op2, c2) BY <1>1, <1>5, <1>6 DEF Heap, Tints
  <2> QED BY <2>1, <2>2, <2>3, <2>4, <2>5 DEF Heap
<1>11. Held(K, r2, op2, c2)
  <2>1. SUFFICES ASSUME NEW y \in Obj, Ok(c, y)
                 PROVE  /\ \A f \in Field : Refers(K, r2, y, f) => Ok(c2, r2[y][f])
                        /\ op2[y] # <<>> => Val(r2, op2, y) = Nil \/ Ok(c2, Val(r2, op2, y))
    BY <1>9 DEF Held
  <2>2. y # u BY <2>1 DEF Ok
  <2>3. op2[y] = op[y] /\ r2[y] = r[y] BY <1>4, <1>6, <2>2
  <2>4. ASSUME NEW f \in Field, Refers(K, r2, y, f) PROVE Ok(c2, r2[y][f])
    <3>1. Refers(K, r, y, f) BY <2>3, <2>4 DEF Refers
    <3> QED BY <1>1, <1>9, <2>1, <2>3, <3>1, ReadOk
  <2>5. ASSUME op2[y] # <<>>, Val(r2, op2, y) # Nil PROVE Ok(c2, Val(r2, op2, y))
    <3>1. op[y][1] \in Obj /\ op[y][1] # u /\ K[y] = "upval" BY <1>8, <2>3, <2>5
    <3>2. Val(r2, op2, y) = Val(r, op, y) BY <1>4, <2>3, <2>5, <3>1 DEF Val
    <3> QED BY <1>1, <1>9, <2>1, <2>5, <3>1, <3>2, ReadUpval
  <2> QED BY <2>4, <2>5
<1>12. RootsOk(K, c2, running, gmt) BY <1>9 DEF World, RootsOk, Value, Obj
<1>13. SweepInv(K, op2, c2, gcstate, ss \ {u}, sg \ {u}, Ran(tmudata), fin \ {u})
  <2>1. SweepInv(K, op, c, gcstate, ss, sg, Ran(tmudata), fin) BY DEF World
  <2>2. ASSUME NEW y \in Obj, c2[y] \in {"dead", "gray", "black"}
        PROVE  \/ y \in (ss \ {u}) \cup (sg \ {u})
               \/ op2[y] # <<>> /\ op2[y][1] \in sg \ {u}
               \/ c2[y] = "black" /\ y \in Ran(tmudata)
    <3>1. y # u /\ c2[y] = c[y] /\ op2[y] = op[y] BY <1>5, <1>6, <2>2
    <3>2. \/ y \in ss \cup sg
          \/ op[y] # <<>> /\ op[y][1] \in sg
          \/ c[y] = "black" /\ y \in Ran(tmudata)
      BY <1>2, <2>1, <2>2, <3>1 DEF SweepInv
    <3> QED BY <1>8, <3>1, <3>2
  <2> QED BY <1>5, <1>6, <2>1, <2>2 DEF SweepInv
<1> QED BY <1>2, <1>10, <1>11, <1>12, <1>13 DEF World, r2, op2, c2

(* luaF_close: the upvalue gets its own value, or is freed if it is dead.  *)
LEMMA CloseInv ==
  ASSUME IInv, NEW u \in Of("upval"), luaF_close(u)
  PROVE  IInv'
<1> DEFINE K == shape.kind
           s == open[u][2]
           v == Val(ref, open, u)
           out == [ref EXCEPT ![running][s] = Nil]
<1>1. /\ Program /\ open[u] # <<>> /\ open[u][1] = running /\ open' = [open EXCEPT ![u] = <<>>]
      /\ UNCHANGED <<shape, running, gmt, gcstate, tmudata, udata, grayagain, weak, calls,
                     sweepstr, sweepgc, finalized>>
  BY DEF luaF_close, NoGC, sweepVars, udataVars
<1>2. u \in Obj /\ K[u] = "upval" BY DEF Of, kind
<1>3. /\ gcstate \notin Atomic /\ ~TopIs(calls, "closed") /\ failed \subseteq {"waiting"}
      /\ doomed \subseteq Obj /\ Core
      /\ color \in [Obj -> Colors] /\ open \in [Obj -> {<<>>} \cup (Obj \X Slot)]
      /\ ref \in [Obj -> [Field -> Value]] /\ K[Main] = "thread"
      /\ running \in Obj /\ K[running] = "thread" /\ Ok(color, running)
  BY <1>1, ProgramFacts DEF HeapType
<1>4. World(ref, open, color, sweepstr, sweepgc, finalized, gray) BY <1>3, WorldNow
<1>5. isdead(u) <=> color[u] = "dead" BY <1>2, <1>3 DEF isdead
<1>6. color[u] # "free" /\ color[u] # "black" BY <1>1, <1>2 DEF IInv, Heap, Born, OpenFits
<1>7. s \in Slot /\ s \in Field /\ Nil \in Value /\ u # running
  BY <1>1, <1>2, <1>3, OpenPair DEF Value
<1>8. gray \subseteq Obj /\ finalized \subseteq Obj BY DEF IInv, Basics
<1>9. UpvalValue(u) = v BY DEF UpvalValue, Val
<1>10. Failing("open", ~isblack(u)) = {} BY <1>6 DEF Failing, isblack
<1>11. CASE isdead(u)
  <2>1. /\ color' = [color EXCEPT ![u] = "free"] /\ ref' = [out EXCEPT ![u] = Empty]
        /\ doomed' = doomed \ {u} /\ gray' = gray /\ failed' = failed
    BY <1>10, <1>11 DEF luaF_close
  <2>2. World(out, open, color, sweepstr, sweepgc, finalized, gray)
    BY <1>4, <1>7, SlotWorld
  <2>3. World(ref', open', color', sweepstr \ {u}, sweepgc \ {u}, finalized \ {u}, gray)
    BY <1>1, <1>2, <1>5, <1>11, <2>1, <2>2, BuryWorld
  <2>4. u \notin sweepstr /\ u \notin sweepgc BY <1>1, <1>2, <1>4 DEF World, SweepInv
  <2>5. World(ref', open', color', sweepstr, sweepgc, finalized, gray)
    <3>1. sweepstr \ {u} = sweepstr /\ sweepgc \ {u} = sweepgc BY <2>4
    <3>2. World(ref', open', color', sweepstr, sweepgc, finalized \ {u}, gray) BY <2>3, <3>1
    <3> QED BY <3>2 DEF World, SweepInv
  <2>6. Listed(K, color', udata, tmudata)
    <3>1. \A x \in Obj : K[x] = "userdata" => color'[x] = color[x] BY <1>2, <1>3, <2>1
    <3> QED BY <3>1, SameListed DEF IInv
  <2>7. doomed' \subseteq Obj BY <1>3, <2>1
  <2> QED BY <1>1, <1>3, <1>8, <2>1, <2>5, <2>6, <2>7, WorldThen
<1>12. CASE ~isdead(u)
  <2> DEFINE r1 == [ref EXCEPT ![u]["v"] = v]
  <2>1. /\ ref' = [out EXCEPT ![u]["v"] = v] /\ luaC_linkupval(u, {}) /\ doomed' = doomed
    BY <1>9, <1>10, <1>12 DEF luaF_close
  <2>2. ref' = [r1 EXCEPT ![running][s] = Nil] BY <1>2, <1>3, <1>7, <2>1
  <2>3. Ok(color, u) BY <1>5, <1>6, <1>12 DEF Ok
  <2>4. v \in Value /\ (v # Nil => Ok(color, v) /\ K[v] # "upval")
    BY <1>2, <1>3, <2>3, ReadUpval, ValType DEF IInv, Core
  <2> HIDE DEF v
  <2>5. /\ World(r1, open', color', sweepstr, sweepgc, finalized, gray')
        /\ failed' \subseteq {"waiting"} /\ gray' \subseteq Obj
        /\ \A x \in Obj : K[x] = "userdata" => (color'[x] = "free" <=> color[x] = "free")
    <3>1. CASE ~isgray(u)
      <4>1. color' = color /\ gray' = gray /\ failed' = failed BY <2>1, <3>1 DEF luaC_linkupval
      <4>2. color[u] = "white" BY <1>2, <1>3, <1>5, <1>6, <1>12, <3>1 DEF isgray, Colors
      <4>3. color = [color EXCEPT ![u] = "white"] BY <1>2, <1>3, <4>2
      <4>4. World(r1, [open EXCEPT ![u] = <<>>], [color EXCEPT ![u] = "white"],
                  sweepstr, sweepgc, finalized, gray)
        BY <1>1, <1>2, <1>3, <1>4, <2>3, <4>2, CloseWorld DEF v
      <4> QED BY <1>1, <1>3, <1>8, <4>1, <4>3, <4>4
    <3>2. CASE isgray(u) /\ gcstate = "propagate"
      <4> DEFINE c1 == Painted({v})
                 q == Queued({v})
      <4>1. /\ color' = [c1 EXCEPT ![u] = "black"] /\ gray' = gray \cup q
            /\ failed' = failed \cup Failing("dead", \A o \in Whites({v}) : ~isdead(o))
        BY <1>9, <2>1, <3>2 DEF luaC_linkupval, v
      <4>2. \A o \in Obj : color[o] # "dead" BY <1>4, <3>2 DEF World, SweepInv, Sweeping
      <4>3. \A o \in Whites({v}) : ~isdead(o)
        <5>1. \A o \in Whites({v}) : o \in Obj BY <2>4 DEF Whites, Value
        <5> QED BY <4>2, <5>1 DEF isdead
      <4>4. Paint(K, ref, open, color, {v}, c1, q)
        <5>1. {v} \in SUBSET Value /\ \A x \in {v} : x # Nil => Ok(color, x) BY <2>4
        <5> QED BY <1>4, <4>2, <5>1, Painting DEF World
      <4>5. q \subseteq Obj /\ c1 \in [Obj -> Colors] /\ gcstate \in Marking
        BY <3>2, <4>4 DEF Paint, Marking
      <4> HIDE DEF c1, q
      <4>6. World(ref, open, c1, sweepstr, sweepgc, finalized, gray \cup q)
        BY <1>4, <4>4, <4>5, PaintWorld
      <4>7. SameLife(color, c1) BY <1>4, <4>2, <4>4, PaintLife DEF World
      <4>8. Ok(c1, u) /\ Dark(c1, v) BY <1>2, <2>3, <4>4, <4>7 DEF Ok, SameLife, Paint
      <4>9. World(r1, [open EXCEPT ![u] = <<>>], [c1 EXCEPT ![u] = "black"],
                  sweepstr, sweepgc, finalized, gray \cup q)
        BY <1>1, <1>2, <1>3, <4>5, <4>6, <4>8, CloseWorld DEF v
      <4>10. \A x \in Obj : K[x] = "userdata" => (color'[x] = "free" <=> color[x] = "free")
        BY <1>2, <4>1, <4>5, <4>7 DEF SameLife
      <4>11. failed' \subseteq {"waiting"} BY <1>3, <4>1, <4>3 DEF Failing
      <4> QED BY <1>1, <1>3, <1>8, <4>1, <4>5, <4>9, <4>10, <4>11
    <3>3. CASE isgray(u) /\ gcstate # "propagate"
      <4>1. /\ color' = [color EXCEPT ![u] = "white"] /\ gray' = gray
            /\ failed' = failed \cup Failing("phase", gcstate \notin {"finalize", "pause"})
        BY <2>1, <3>3 DEF luaC_linkupval, InPhase
      <4>2. gcstate \notin Marking BY <1>3, <3>3 DEF Marking
      <4>3. gcstate \notin {"finalize", "pause"}
        <5>1. color[u] = "gray" BY <3>3 DEF isgray
        <5>2. sweepstr \cup sweepgc # {} BY <1>2, <1>4, <4>2, <5>1 DEF World, SweepInv
        <5> QED BY <1>4, <5>2 DEF World, SweepInv, Sweeping
      <4>4. World(r1, [open EXCEPT ![u] = <<>>], [color EXCEPT ![u] = "white"],
                  sweepstr, sweepgc, finalized, gray)
        BY <1>1, <1>2, <1>3, <1>4, <2>3, <4>2, CloseWorld DEF v
      <4>5. failed' \subseteq {"waiting"} BY <1>3, <4>1, <4>3 DEF Failing
      <4> QED BY <1>1, <1>2, <1>3, <1>8, <4>1, <4>4, <4>5
    <3> QED BY <3>1, <3>2, <3>3
  <2> HIDE DEF r1
  <2>6. World(ref', open', color', sweepstr, sweepgc, finalized, gray')
    BY <1>7, <2>2, <2>5, SlotWorld
  <2>7. Listed(K, color', udata, tmudata) BY <2>5, SameListed DEF IInv
  <2> QED BY <1>1, <1>3, <1>8, <2>1, <2>5, <2>6, <2>7, WorldThen
<1> QED BY <1>11, <1>12

-----------------------------------------------------------------------------
(* Steps of the collector                                                  *)

(* The parts of the invariant, put together after a step of the collector. *)
LEMMA CoreThen ==
  ASSUME IInv, UNCHANGED <<shape, running, gmt, failed>>, CallsInv(calls', gcstate'),
         gcstate' \in {"pause", "propagate", "sweepstring", "sweep", "finalize"} \cup Atomic,
         Heap(shape.kind, ref', open', color'), Listed(shape.kind, color', udata', tmudata'),
         Held(shape.kind, ref', open', color'), RootsOk(shape.kind, color', running, gmt),
         SweepInv(shape.kind, open', color', gcstate', sweepstr', sweepgc',
                  Ran(tmudata'), finalized'),
         gcstate' \in Marking => Lists(shape.kind, color', gray', grayagain', weak'),
         gcstate' \in Marking /\ ~Abandoned(calls', gcstate') =>
           /\ Tri(shape.kind, ref', color', gray', grayagain', weak', Ran(tmudata'))
           /\ AtomicInv(shape.kind, shape.events, ref', open', color', gcstate', running, gmt,
                        grayagain', weak', Ran(tmudata'), finalized'),
         gray' \subseteq Obj, grayagain' \subseteq Obj, weak' \subseteq Obj,
         finalized' \subseteq Obj, doomed' \subseteq Obj
  PROVE  IInv'
<1>1. sweepstr' \subseteq Obj /\ sweepgc' \subseteq Obj BY DEF SweepInv
<1>2. Basics' BY <1>1 DEF IInv, Basics, Plain, Makes
<1>3. Core' BY DEF Core, Marked
<1> QED BY <1>2, <1>3 DEF IInv

(* Where singlestep may run.                                               *)
LEMMA StepFacts ==
  ASSUME IInv, MaySweep \/ (Top("sweep") /\ gcstate # "finalize")
  PROVE  /\ ~TopIs(calls, "closed") /\ ~TopIs(calls, "close") /\ Core
         /\ ~Abandoned(calls, gcstate)
         /\ ~(Ends(calls) /\ TopIs(calls, "finalizer") /\ Len(calls) > 2)
         /\ TopIs(calls, "sweep") => gcstate \in Sweeping \cup {"finalize"}
<1>1. CallsInv(calls, gcstate) /\ ~Makes("step_in_close") BY DEF IInv, Basics, Plain
<1>2. \A x : Top(x) <=> TopIs(calls, x) BY DEF Top, TopIs
<1>3. Closing <=> Ends(calls) BY DEF Closing, Ends
<1>4. \/ calls = <<>>
      \/ TopIs(calls, "finalizer") /\ (gcstate \in Atomic \/ ~Ends(calls))
      \/ TopIs(calls, "collect") /\ gcstate # "pause"
      \/ TopIs(calls, "sweep")
  BY <1>1, <1>2, <1>3 DEF MaySweep
<1>5. ~TopIs(calls, "closed") /\ ~TopIs(calls, "close") BY <1>4 DEF TopIs
<1>6. TopIs(calls, "sweep") => gcstate \in Sweeping \cup {"finalize"} BY <1>1 DEF CallsInv
<1>7. ~Abandoned(calls, gcstate)
  <2>1. "propagate" \notin Atomic /\ "propagate" \notin Sweeping \cup {"finalize"}
    BY DEF Atomic, Sweeping
  <2> QED BY <1>4, <1>6, <2>1 DEF Abandoned, Ends
<1>8. ~(Ends(calls) /\ TopIs(calls, "finalizer") /\ Len(calls) > 2)
  <2>1. SUFFICES ASSUME Ends(calls), TopIs(calls, "finalizer"), Len(calls) > 2 PROVE FALSE
    OBVIOUS
  <2>2. gcstate \in {"finalize", "pause"} BY <1>1, <2>1 DEF CallsInv
  <2>3. gcstate \in Atomic BY <1>4, <2>1 DEF TopIs, Ends
  <2> QED BY <2>2, <2>3 DEF Atomic
<1>9. Core BY <1>5 DEF IInv, Over
<1> QED BY <1>5, <1>6, <1>7, <1>8, <1>9

(* A step that calls nothing keeps the C stack in order.                   *)
LEMMA StepCalls ==
  ASSUME IInv, MaySweep \/ (Top("sweep") /\ gcstate # "finalize"), NEW st,
         TopIs(calls, "sweep") => st \in Sweeping \cup {"finalize"}
  PROVE  CallsInv(calls, st)
BY StepFacts DEF IInv, CallsInv

(* The parts of the invariant that steps of the collector rest on.         *)
LEMMA StepParts ==
  ASSUME IInv, Core
  PROVE  /\ Heap(shape.kind, ref, open, color) /\ Held(shape.kind, ref, open, color)
         /\ Listed(shape.kind, color, udata, tmudata)
         /\ RootsOk(shape.kind, color, running, gmt)
         /\ SweepInv(shape.kind, open, color, gcstate, sweepstr, sweepgc, Ran(tmudata), finalized)
         /\ gcstate \in Marking => Lists(shape.kind, color, gray, grayagain, weak)
         /\ ref \in [Obj -> [Field -> Value]] /\ color \in [Obj -> Colors]
         /\ open \in [Obj -> {<<>>} \cup (Obj \X Slot)]
         /\ shape.kind \in [Obj -> Kinds] /\ shape.kind[Main] = "thread"
         /\ shape.kind[Registry] = "table"
         /\ gray \subseteq Obj /\ grayagain \subseteq Obj /\ weak \subseteq Obj
         /\ finalized \subseteq Obj /\ doomed \subseteq Obj
BY DEF IInv, Core, Basics, Heap, HeapType

(* markroot begins a mark phase: nothing is gray, and nothing black but    *)
(* userdata that wait for their finalizers.                                *)
LEMMA MarkrootInv ==
  ASSUME IInv, Core, gcstate \in {"pause", "finalize"}, markroot,
         CallsInv(calls', "propagate"), UNCHANGED <<shape, running, failed>>
  PROVE  IInv'
<1> DEFINE K == shape.kind
           S == {Main, ref[Main]["env"], Registry, gmt}
           q == Queued(S)
<1>1. /\ gray' = q /\ color' = Painted(S) /\ grayagain' = {} /\ weak' = {}
      /\ gcstate' = "propagate" /\ doomed' \subseteq Obj
      /\ UNCHANGED <<ref, open, gmt, udata, tmudata, finalized, sweepstr, sweepgc>>
  BY DEF markroot, heapVars, udataVars, sweepVars
<1>2. /\ Heap(K, ref, open, color) /\ Held(K, ref, open, color) /\ K[Main] = "thread"
      /\ Listed(K, color, udata, tmudata) /\ RootsOk(K, color, running, gmt)
      /\ SweepInv(K, open, color, gcstate, sweepstr, sweepgc, Ran(tmudata), finalized)
      /\ finalized \subseteq Obj
  BY StepParts
<1>3. gcstate \notin Sweeping /\ gcstate \notin Marking BY DEF Sweeping, Marking, Atomic
<1>4. \A o \in Obj : color[o] # "dead" BY <1>2, <1>3, NoDead
<1>5. sweepstr = {} /\ sweepgc = {} BY <1>2, <1>3 DEF SweepInv, Sweeping
<1>6. \A o \in Obj : color[o] \in {"gray", "black"} => color[o] = "black" /\ o \in Ran(tmudata)
  BY <1>2, <1>3, <1>5 DEF SweepInv
<1>7. Main \in Obj /\ Registry \in Obj BY DEF Obj
<1>8. S \in SUBSET Value /\ \A x \in S : x # Nil => Ok(color, x)
  <2>1. Ok(color, Main) /\ Ok(color, Registry) /\ gmt \in Value /\ (gmt # Nil => Ok(color, gmt))
    BY <1>2 DEF RootsOk
  <2>2. "env" \in Field BY FieldNames
  <2>3. ref[Main]["env"] # Nil => ref[Main]["env"] \in Obj /\ Ok(color, ref[Main]["env"])
    <3>1. SUFFICES ASSUME ref[Main]["env"] # Nil
                   PROVE  ref[Main]["env"] \in Obj /\ Ok(color, ref[Main]["env"])
      OBVIOUS
    <3>2. Refers(K, ref, Main, "env") BY <1>2, <3>1 DEF Refers
    <3> QED BY <1>2, <1>7, <2>1, <2>2, <3>2, ReadOk
  <2> QED BY <1>7, <2>1, <2>3 DEF Value
<1>9. Paint(K, ref, open, color, S, color', q) BY <1>1, <1>2, <1>4, <1>8, Painting
<1> HIDE DEF S, q
<1>10. /\ SameLife(color, color') /\ Tints(K, open, color')
       /\ \A o \in Obj : open[o] # <<>> => color'[o] # "black"
  BY <1>2, <1>4, <1>9, PaintLife
<1>11. Heap(K, ref', open', color') BY <1>1, <1>2, <1>10, RecolorHeap
<1>12. Held(K, ref', open', color') BY <1>1, <1>2, <1>10, RecolorHeld
<1>13. RootsOk(K, color', running, gmt) BY <1>2, <1>10, RecolorRoots
<1>14. Listed(K, color', udata', tmudata') BY <1>1, <1>2, <1>10, RecolorListed
<1>15. SweepInv(K, open', color', "propagate", sweepstr', sweepgc', Ran(tmudata'), finalized')
  BY <1>1, <1>4, <1>5, <1>10 DEF SweepInv, SameLife, Sweeping, Marking
<1>16. Lists(K, color', gray', grayagain', weak') BY <1>1, <1>9 DEF Lists, Paint
<1>17. Tri(K, ref', color', gray', grayagain', weak', Ran(tmudata'))
  <2>1. BlackDark(ref, color, Ran(tmudata)) BY <1>6 DEF BlackDark
  <2>2. GrayListed(K, color, {}, {}, {}) BY <1>6 DEF GrayListed
  <2>3. BlackDark(ref, color', Ran(tmudata)) /\ GrayListed(K, color', {} \cup q, {}, {})
    BY <1>2, <1>4, <1>9, <2>1, <2>2, PaintDark
  <2>4. {} \cup q = q OBVIOUS
  <2>5. Dark(color', Main) /\ Dark(color', Registry) BY <1>9 DEF Paint, S
  <2> QED BY <1>1, <2>3, <2>4, <2>5 DEF Tri
<1>18. AtomicInv(K, shape.events, ref', open', color', "propagate", running, gmt,
                 grayagain', weak', Ran(tmudata'), finalized')
  BY DEF AtomicInv, Atomic
<1>19. gray' \subseteq Obj /\ grayagain' \subseteq Obj /\ weak' \subseteq Obj
  BY <1>1, <1>9 DEF Paint
<1> QED BY <1>1, <1>2, <1>11, <1>12, <1>13, <1>14, <1>15, <1>16, <1>17, <1>18, <1>19, CoreThen

(* What is dark stays dark, and what is painted keeps nothing white.       *)
LEMMA PaintAtomic ==
  ASSUME NEW K, NEW ev, NEW r, NEW op, NEW c, NEW S, NEW c2, NEW q, NEW st,
         NEW run \in Value, NEW mt \in Value, NEW ga \in SUBSET Obj, NEW w \in SUBSET Obj,
         NEW wait \in SUBSET Obj, NEW fin,
         Heap(K, r, op, c), Paint(K, r, op, c, S, c2, q), \A x \in Obj : c[x] # "dead",
         AtomicInv(K, ev, r, op, c, st, run, mt, ga, w, wait, fin)
  PROVE  AtomicInv(K, ev, r, op, c2, st, run, mt, ga, w, wait, fin)
<1>1. r \in [Obj -> [Field -> Value]] /\ \A x \in Value : Dark(c, x) => Dark(c2, x)
  BY PaintLife DEF Heap, HeapType
<1>2. ASSUME st \in Atomic PROVE OpenDark(K, r, op, c2)
  <2>1. SUFFICES ASSUME NEW u \in Obj, K[u] = "upval", c2[u] = "gray"
                 PROVE  Dark(c2, Val(r, op, u))
    BY DEF OpenDark
  <2>2. CASE c2[u] # c[u] BY <2>1, <2>2 DEF Paint
  <2>3. CASE c2[u] = c[u]
    <3>1. Dark(c, Val(r, op, u)) BY <1>2, <2>1, <2>3 DEF AtomicInv, OpenDark
    <3> QED BY <1>1, <3>1, ValType
  <2> QED BY <2>2, <2>3
<1>3. WeakDark(ev, r, c, w) => WeakDark(ev, r, c2, w)
  <2>1. SUFFICES ASSUME NEW h \in w, NEW mode, TableDark(r, c, h, mode)
                 PROVE  TableDark(r, c2, h, mode)
    BY DEF WeakDark
  <2>2. h \in Obj /\ \A f \in {"mt", "k", "v"} : r[h][f] \in Value BY <1>1, FieldNames
  <2> QED BY <1>1, <2>1, <2>2 DEF TableDark
<1>4. ThreadsDark(K, r, c, ga) => ThreadsDark(K, r, c2, ga) BY <1>1 DEF ThreadsDark
<1>5. WaitDark(K, r, c, wait, fin) => WaitDark(K, r, c2, wait, fin)
  <2>1. SUFFICES ASSUME WaitDark(K, r, c, wait, fin) PROVE WaitDark(K, r, c2, wait, fin) OBVIOUS
  <2>2. ASSUME NEW u \in wait PROVE c2[u] = "black" /\ \A f \in Field : Dark(c2, r[u][f])
    <3>1. u \in Obj /\ c[u] = "black" /\ \A f \in Field : Dark(c, r[u][f])
      BY <2>1 DEF WaitDark
    <3>2. c2[u] = "black" BY <3>1 DEF Paint, White
    <3> QED BY <1>1, <3>1, <3>2
  <2>3. ASSUME NEW u \in Obj, K[u] = "userdata", White(c2, u) PROVE u \in fin
    <3>1. White(c, u) BY <2>3 DEF Paint, White
    <3> QED BY <2>1, <2>3, <3>1 DEF WaitDark
  <2> QED BY <2>2, <2>3 DEF WaitDark
<1>6. /\ Dark(c, run) => Dark(c2, run)
      /\ Dark(c, mt) => Dark(c2, mt)
  BY <1>1
<1> QED BY <1>2, <1>3, <1>4, <1>5, <1>6 DEF AtomicInv

(* Everything that painting keeps, in a mark phase.                        *)
LEMMA PaintParts ==
  ASSUME IInv, Core, gcstate \in Marking, NEW S, NEW c2, NEW q,
         Paint(shape.kind, ref, open, color, S, c2, q)
  PROVE  /\ Heap(shape.kind, ref, open, c2) /\ Held(shape.kind, ref, open, c2)
         /\ Listed(shape.kind, c2, udata, tmudata) /\ RootsOk(shape.kind, c2, running, gmt)
         /\ \A st \in Marking : \A fin, wait :
               SweepInv(shape.kind, open, c2, st, sweepstr, sweepgc, wait, fin)
         /\ Lists(shape.kind, c2, gray \cup q, grayagain, weak)
         /\ Marked => /\ Tri(shape.kind, ref, c2, gray \cup q, grayagain, weak, Ran(tmudata))
                      /\ AtomicInv(shape.kind, shape.events, ref, open, c2, gcstate, running,
                                   gmt, grayagain, weak, Ran(tmudata), finalized)
         /\ SameLife(color, c2) /\ \A x \in Obj : color[x] # "dead" /\ c2[x] # "dead"
         /\ \A x \in Value : Dark(color, x) => Dark(c2, x)
         /\ sweepstr = {} /\ sweepgc = {} /\ q \subseteq Obj /\ c2 \in [Obj -> Colors]
<1> DEFINE K == shape.kind
<1>1. /\ Heap(K, ref, open, color) /\ Held(K, ref, open, color)
      /\ Listed(K, color, udata, tmudata) /\ RootsOk(K, color, running, gmt)
      /\ SweepInv(K, open, color, gcstate, sweepstr, sweepgc, Ran(tmudata), finalized)
      /\ Lists(K, color, gray, grayagain, weak) /\ grayagain \subseteq Obj /\ weak \subseteq Obj
  BY StepParts
<1>2. \A st \in Marking : st \notin Sweeping BY DEF Sweeping, Marking, Atomic
<1>3. \A x \in Obj : color[x] # "dead" BY <1>1, <1>2, NoDead
<1>4. sweepstr = {} /\ sweepgc = {} BY <1>1, <1>2 DEF SweepInv, Sweeping
<1>5. /\ SameLife(color, c2) /\ Tints(K, open, c2)
      /\ \A x \in Obj : open[x] # <<>> => c2[x] # "black"
      /\ \A x \in Value : Dark(color, x) => Dark(c2, x)
  BY <1>1, <1>3, PaintLife
<1>6. Heap(K, ref, open, c2) BY <1>1, <1>5, RecolorHeap
<1>7. Held(K, ref, open, c2) BY <1>1, <1>5, RecolorHeld
<1>8. RootsOk(K, c2, running, gmt) BY <1>1, <1>5, RecolorRoots
<1>9. Listed(K, c2, udata, tmudata) BY <1>1, <1>5, RecolorListed
<1>10. \A x \in Obj : c2[x] # "dead" BY <1>3, <1>5 DEF SameLife
<1>11. \A st \in Marking : \A fin, wait :
          SweepInv(K, open, c2, st, sweepstr, sweepgc, wait, fin)
  BY <1>2, <1>4, <1>10 DEF SweepInv
<1>12. Lists(K, c2, gray \cup q, grayagain, weak)
  <2>2. \A x \in Obj : ~White(color, x) => c2[x] = color[x] BY DEF Paint
  <2>3. \A x \in q : x \in Obj /\ White(color, x) /\ c2[x] = "gray" /\ K[x] \in Queue BY DEF Paint
  <2>4. \A x \in gray \cup grayagain \cup weak : x \in Obj /\ color[x] = "gray" /\ K[x] \in Queue
    BY <1>1 DEF Lists
  <2>5. \A x \in gray \cup grayagain \cup weak : ~White(color, x) BY <2>4 DEF White
  <2>6. \A x \in gray \cup grayagain \cup weak : c2[x] = "gray" BY <2>2, <2>4, <2>5
  <2>7. \A x \in (gray \cup q) \cup grayagain \cup weak :
           x \in Obj /\ c2[x] = "gray" /\ K[x] \in Queue
    BY <2>3, <2>4, <2>6
  <2>8. q \cap grayagain = {} /\ q \cap weak = {} BY <2>3, <2>5
  <2> QED BY <1>1, <2>7, <2>8 DEF Lists
<1>13. ASSUME Marked
       PROVE  /\ Tri(K, ref, c2, gray \cup q, grayagain, weak, Ran(tmudata))
              /\ AtomicInv(K, shape.events, ref, open, c2, gcstate, running,
                           gmt, grayagain, weak, Ran(tmudata), finalized)
  <2>1. Tri(K, ref, c2, gray \cup q, grayagain, weak, Ran(tmudata))
    BY <1>1, <1>3, <1>13, PaintTri DEF Marked
  <2>2. running \in Value /\ gmt \in Value BY <1>1 DEF RootsOk, Value
  <2>3. Ran(tmudata) \in SUBSET Obj BY <1>1, WaitingUserdata
  <2> QED BY <1>1, <1>3, <1>13, <2>1, <2>2, <2>3, PaintAtomic DEF Marked
<1>14. q \subseteq Obj /\ c2 \in [Obj -> Colors] BY DEF Paint
<1> QED BY <1>3, <1>4, <1>5, <1>6, <1>7, <1>8, <1>9, <1>10, <1>11, <1>12, <1>13, <1>14

(* remarkupvals: the values of gray upvalues are marked.                   *)
LEMMA RemarkUpvalsInv ==
  ASSUME IInv, MaySweep \/ (Top("sweep") /\ gcstate # "finalize"), gcstate = "propagate",
         gray = {}, remarkupvals, UNCHANGED <<shape, running, failed, calls>>
  PROVE  IInv'
<1> DEFINE K == shape.kind
           U == {u \in Of("upval") : open[u] # <<>> /\ isgray(u)}
           S == {UpvalValue(u) : u \in U}
           q == Queued(S)
<1>1. /\ gray' = gray \cup q /\ color' = Painted(S) /\ gcstate' = "remark_upvals"
      /\ UNCHANGED <<ref, open, gmt, udata, tmudata, finalized, sweepstr, sweepgc, doomed,
                     grayagain, weak>>
  BY DEF remarkupvals, AtomicBegins, heapVars, udataVars, sweepVars
<1>2. /\ Core /\ ~Abandoned(calls, gcstate) /\ ~TopIs(calls, "sweep") BY StepFacts DEF Sweeping
<1>3. /\ Heap(K, ref, open, color) /\ Held(K, ref, open, color)
      /\ SweepInv(K, open, color, gcstate, sweepstr, sweepgc, Ran(tmudata), finalized)
      /\ grayagain \subseteq Obj /\ weak \subseteq Obj /\ gray \subseteq Obj
      /\ finalized \subseteq Obj /\ doomed \subseteq Obj
  BY <1>2, StepParts
<1>4. gcstate \in Marking /\ gcstate \notin Sweeping BY DEF Marking, Sweeping
<1>5. \A x \in Obj : color[x] # "dead" BY <1>3, <1>4, NoDead
<1>6. Marked BY <1>2, <1>4 DEF Core
<1>7. S \in SUBSET Value /\ \A x \in S : x # Nil => Ok(color, x)
  <2>1. SUFFICES ASSUME NEW u \in U
                 PROVE  /\ UpvalValue(u) \in Value
                        /\ UpvalValue(u) # Nil => Ok(color, UpvalValue(u))
    OBVIOUS
  <2>2. u \in Obj /\ K[u] = "upval" /\ Ok(color, u) BY DEF Of, kind, isgray, Ok
  <2>3. UpvalValue(u) = Val(ref, open, u) BY DEF UpvalValue, Val
  <2> QED BY <1>3, <2>2, <2>3, ValType, ReadUpval
<1>8. Paint(K, ref, open, color, S, color', q) BY <1>1, <1>3, <1>5, <1>7, Painting
<1>9. \A u \in Obj : K[u] = "upval" /\ color[u] = "gray" => Val(ref, open, u) \in S
  <2>1. SUFFICES ASSUME NEW u \in Obj, K[u] = "upval", color[u] = "gray"
                 PROVE  Val(ref, open, u) \in S
    OBVIOUS
  <2>2. open[u] # <<>> BY <1>3, <2>1 DEF Heap, Tints
  <2>3. u \in U BY <2>1, <2>2 DEF Of, kind, isgray
  <2>4. UpvalValue(u) = Val(ref, open, u) BY DEF UpvalValue, Val
  <2> QED BY <2>3, <2>4
<1> HIDE DEF S, q
<1>10. /\ Heap(K, ref, open, color') /\ Held(K, ref, open, color')
       /\ Listed(K, color', udata, tmudata) /\ RootsOk(K, color', running, gmt)
       /\ \A st \in Marking : \A fin, wait :
             SweepInv(K, open, color', st, sweepstr, sweepgc, wait, fin)
       /\ Lists(K, color', gray \cup q, grayagain, weak) /\ q \subseteq Obj
       /\ Tri(K, ref, color', gray \cup q, grayagain, weak, Ran(tmudata))
  BY <1>2, <1>4, <1>6, <1>8, PaintParts
<1>11. "remark_upvals" \in Marking /\ "remark_upvals" \in Atomic BY DEF Marking, Atomic
<1>12. SweepInv(K, open, color', "remark_upvals", sweepstr, sweepgc, Ran(tmudata), finalized)
  BY <1>10, <1>11
<1>13. AtomicInv(K, shape.events, ref, open, color', "remark_upvals", running, gmt,
                 grayagain, weak, Ran(tmudata), finalized)
  <2>1. OpenDark(K, ref, open, color')
    <3>1. SUFFICES ASSUME NEW u \in Obj, K[u] = "upval", color'[u] = "gray"
                   PROVE  Dark(color', Val(ref, open, u))
      BY DEF OpenDark
    <3>2. CASE color'[u] = color[u] BY <1>8, <1>9, <3>1, <3>2 DEF Paint
    <3>3. CASE color'[u] # color[u] BY <1>8, <3>1, <3>3 DEF Paint
    <3> QED BY <3>2, <3>3
  <2> QED BY <2>1 DEF AtomicInv
<1>14. CallsInv(calls, "remark_upvals") BY <1>2, StepCalls
<1> QED BY <1>1, <1>3, <1>10, <1>11, <1>12, <1>13, <1>14, CoreThen

(* The weak tables become gray again, and the running thread is marked.    *)
LEMMA RemarkWeakInv ==
  ASSUME IInv, MaySweep \/ (Top("sweep") /\ gcstate # "finalize"), gcstate = "remark_upvals",
         gray = {}, RemarkWeak, UNCHANGED <<shape, running, failed, calls>>
  PROVE  IInv'
<1> DEFINE K == shape.kind
           S == {running, gmt}
           q == Queued(S)
<1>1. /\ gray' = weak \cup q /\ color' = Painted(S) /\ gcstate' = "remark_weak" /\ weak' = {}
      /\ UNCHANGED <<ref, open, gmt, udata, tmudata, finalized, sweepstr, sweepgc, doomed,
                     grayagain>>
  BY DEF RemarkWeak, heapVars, udataVars, sweepVars
<1>2. gcstate \in Marking /\ gcstate \notin Sweeping /\ gcstate \in Atomic /\ gcstate # "finalize"
  BY DEF Marking, Sweeping, Atomic
<1>3. Core /\ ~Abandoned(calls, gcstate) /\ ~TopIs(calls, "sweep") BY <1>2, StepFacts
<1>4. /\ Heap(K, ref, open, color) /\ Held(K, ref, open, color) /\ RootsOk(K, color, running, gmt)
      /\ SweepInv(K, open, color, gcstate, sweepstr, sweepgc, Ran(tmudata), finalized)
      /\ grayagain \subseteq Obj /\ weak \subseteq Obj /\ finalized \subseteq Obj
      /\ doomed \subseteq Obj
  BY <1>3, StepParts
<1>5. \A x \in Obj : color[x] # "dead" BY <1>2, <1>4, NoDead
<1>6. Marked BY <1>2, <1>3 DEF Core
<1>7. S \in SUBSET Value /\ \A x \in S : x # Nil => Ok(color, x)
  BY <1>4 DEF RootsOk, Value
<1>8. Paint(K, ref, open, color, S, color', q) BY <1>1, <1>4, <1>5, <1>7, Painting
<1>9. Dark(color', running) /\ Dark(color', gmt) BY <1>8 DEF Paint
<1> HIDE DEF S, q
<1>10. /\ Heap(K, ref, open, color') /\ Held(K, ref, open, color')
       /\ Listed(K, color', udata, tmudata) /\ RootsOk(K, color', running, gmt)
       /\ \A st \in Marking : \A fin, wait :
             SweepInv(K, open, color', st, sweepstr, sweepgc, wait, fin)
       /\ Lists(K, color', gray \cup q, grayagain, weak) /\ q \subseteq Obj
       /\ Tri(K, ref, color', gray \cup q, grayagain, weak, Ran(tmudata))
       /\ AtomicInv(K, shape.events, ref, open, color', gcstate, running,
                    gmt, grayagain, weak, Ran(tmudata), finalized)
  BY <1>2, <1>3, <1>6, <1>8, PaintParts
<1>11. "remark_weak" \in Marking /\ "remark_weak" \in Atomic BY DEF Marking, Atomic
<1>12. SweepInv(K, open, color', "remark_weak", sweepstr, sweepgc, Ran(tmudata), finalized)
  BY <1>10, <1>11
<1>13. Lists(K, color', gray', grayagain, {}) BY <1>1, <1>10 DEF Lists
<1>14. Tri(K, ref, color', gray', grayagain, {}, Ran(tmudata))
  BY <1>1, <1>10 DEF Tri, GrayListed
<1>15. AtomicInv(K, shape.events, ref, open, color', "remark_weak", running, gmt,
                 grayagain, {}, Ran(tmudata), finalized)
  <2>1. OpenDark(K, ref, open, color') BY <1>2, <1>10 DEF AtomicInv
  <2> QED BY <1>9, <2>1 DEF AtomicInv, WeakDark
<1>16. CallsInv(calls, "remark_weak") BY <1>3, StepCalls
<1>17. gray' \subseteq Obj BY <1>1, <1>4, <1>10
<1> QED BY <1>1, <1>4, <1>10, <1>11, <1>12, <1>13, <1>14, <1>15, <1>16, <1>17, CoreThen

(* The threads and tables that were put aside become gray again.           *)
LEMMA RemarkAgainInv ==
  ASSUME IInv, MaySweep \/ (Top("sweep") /\ gcstate # "finalize"), gcstate = "remark_weak",
         gray = {}, RemarkAgain, UNCHANGED <<shape, running, failed, calls>>
  PROVE  IInv'
<1> DEFINE K == shape.kind
<1>1. /\ gray' = grayagain /\ grayagain' = {} /\ gcstate' = "remark_again"
      /\ UNCHANGED <<ref, open, gmt, color, udata, tmudata, finalized, sweepstr, sweepgc, doomed,
                     weak>>
  BY DEF RemarkAgain, heapVars, udataVars, sweepVars
<1>2. gcstate \in Marking /\ gcstate \notin Sweeping /\ gcstate \in Atomic /\ gcstate # "finalize"
  BY DEF Marking, Sweeping, Atomic
<1>3. Core /\ ~Abandoned(calls, gcstate) /\ ~TopIs(calls, "sweep") BY <1>2, StepFacts
<1>4. /\ Heap(K, ref, open, color) /\ Held(K, ref, open, color) /\ RootsOk(K, color, running, gmt)
      /\ SweepInv(K, open, color, gcstate, sweepstr, sweepgc, Ran(tmudata), finalized)
      /\ grayagain \subseteq Obj /\ weak \subseteq Obj /\ finalized \subseteq Obj
      /\ doomed \subseteq Obj /\ Lists(K, color, gray, grayagain, weak)
      /\ Listed(K, color, udata, tmudata)
  BY <1>2, <1>3, StepParts
<1>5. Marked BY <1>2, <1>3 DEF Core
<1>6. "remark_again" \in Marking /\ "remark_again" \in Atomic /\ "remark_again" \notin Sweeping
  BY DEF Marking, Atomic, Sweeping
<1>7. SweepInv(K, open, color, "remark_again", sweepstr, sweepgc, Ran(tmudata), finalized)
  BY <1>2, <1>4, <1>6 DEF SweepInv, Sweeping
<1>8. Lists(K, color, gray', {}, weak) BY <1>1, <1>4 DEF Lists
<1>9. Tri(K, ref, color, gray', {}, weak, Ran(tmudata))
  BY <1>1, <1>5 DEF Marked, Tri, GrayListed
<1>10. AtomicInv(K, shape.events, ref, open, color, "remark_again", running, gmt,
                 {}, weak, Ran(tmudata), finalized)
  BY <1>2, <1>5 DEF Marked, AtomicInv, ThreadsDark
<1>11. CallsInv(calls, "remark_again") BY <1>3, StepCalls
<1> QED BY <1>1, <1>4, <1>6, <1>7, <1>8, <1>9, <1>10, <1>11, CoreThen

(* luaC_separateudata moves userdata from one list to the other.           *)
LEMMA SeparateListed ==
  ASSUME NEW K, NEW all \in BOOLEAN, Listed(K, color, udata, tmudata), luaC_separateudata(all),
         finalized \subseteq Obj
  PROVE  /\ Listed(K, color, udata', tmudata')
         /\ Ran(tmudata') = Ran(tmudata) \cup (Ran(udata) \cap Separated(all))
         /\ finalized \subseteq finalized' /\ finalized' \subseteq Obj
         /\ \A u \in Ran(udata) : u \in Separable(all) => u \in finalized'
<1> DEFINE s == Separated(all)
           a == Kept(udata, Obj \ s)
           b == Kept(udata, s)
<1>1. /\ udata \in Seq(Obj) /\ tmudata \in Seq(Obj) /\ Once(udata) /\ Once(tmudata)
      /\ Ran(udata) \cap Ran(tmudata) = {}
      /\ Ran(udata) \cup Ran(tmudata) = {u \in Obj : K[u] = "userdata" /\ color[u] # "free"}
  BY DEF Listed
<1>2. udata' = a /\ tmudata' = tmudata \o b
  BY DEF luaC_separateudata
<1>3. a \in Seq(Obj) /\ Once(a) /\ Ran(a) = Ran(udata) \cap (Obj \ s) BY <1>1, KeptLemma
<1>4. b \in Seq(Obj) /\ Once(b) /\ Ran(b) = Ran(udata) \cap s BY <1>1, KeptLemma
<1> HIDE DEF a, b, s
<1>5. Ran(tmudata) \cap Ran(b) = {} BY <1>1, <1>4
<1>6. /\ tmudata \o b \in Seq(Obj) /\ Once(tmudata \o b)
      /\ Ran(tmudata \o b) = Ran(tmudata) \cup Ran(b)
  BY <1>1, <1>4, <1>5, ConcatOnce
<1>7. Ran(udata) \subseteq Obj BY <1>1
<1>8. Ran(a) \cap Ran(tmudata \o b) = {} BY <1>1, <1>3, <1>4, <1>6
<1>9. Ran(a) \cup Ran(tmudata \o b) = Ran(udata) \cup Ran(tmudata) BY <1>3, <1>4, <1>6, <1>7
<1>10. Listed(K, color, udata', tmudata')
  <2>1. /\ udata' \in Seq(Obj) /\ tmudata' \in Seq(Obj) /\ Once(udata') /\ Once(tmudata')
        /\ Ran(udata') \cap Ran(tmudata') = {}
    BY <1>2, <1>3, <1>6, <1>8
  <2>2. Ran(udata') \cup Ran(tmudata') = {u \in Obj : K[u] = "userdata" /\ color[u] # "free"}
    BY <1>1, <1>2, <1>9
  <2> QED BY <2>1, <2>2 DEF Listed
<1>11. finalized' = finalized \cup {u \in Separable(all) : InUdata(u)} BY DEF luaC_separateudata
<1>12. \A u : u \in Ran(udata) => InUdata(u) BY DEF Ran, InUdata
<1>13. Separable(all) \subseteq Obj BY DEF Separable, Of
<1>14. Ran(tmudata') = Ran(tmudata) \cup (Ran(udata) \cap s) BY <1>2, <1>4, <1>6
<1> QED BY <1>10, <1>11, <1>12, <1>13, <1>14 DEF s

(* marktmu: what waits for its finalizer is black, and all it needs dark.  *)
LEMMA MarkTmuInv ==
  ASSUME IInv, MaySweep \/ (Top("sweep") /\ gcstate # "finalize"), gcstate = "remark_again",
         gray = {}, MarkTmu, UNCHANGED <<shape, running, failed, calls>>
  PROVE  IInv'
<1> DEFINE K == shape.kind
           us == Ran(tmudata')
           S == UNION {{ref[u]["mt"], ref[u]["env"]} : u \in us}
           q == Queued(S)
           c1 == Painted(S)
           c2 == [o \in Obj |-> IF o \in us THEN "black" ELSE c1[o]]
<1>1. /\ gray' = q /\ color' = c2 /\ gcstate' = "mark_tmu" /\ luaC_separateudata(FALSE)
      /\ UNCHANGED <<ref, open, gmt, sweepstr, sweepgc, doomed, grayagain, weak>>
  BY DEF MarkTmu, heapVars, sweepVars, Ran
<1>2. gcstate \in Marking /\ gcstate \notin Sweeping /\ gcstate \in Atomic /\ gcstate # "finalize"
  BY DEF Marking, Sweeping, Atomic
<1>3. Core /\ ~Abandoned(calls, gcstate) /\ ~TopIs(calls, "sweep") BY <1>2, StepFacts
<1>4. /\ Heap(K, ref, open, color) /\ Held(K, ref, open, color) /\ RootsOk(K, color, running, gmt)
      /\ SweepInv(K, open, color, gcstate, sweepstr, sweepgc, Ran(tmudata), finalized)
      /\ grayagain \subseteq Obj /\ weak \subseteq Obj /\ finalized \subseteq Obj
      /\ doomed \subseteq Obj /\ Listed(K, color, udata, tmudata)
      /\ ref \in [Obj -> [Field -> Value]] /\ K \in [Obj -> Kinds]
  BY <1>3, StepParts
<1>5. \A x \in Obj : color[x] # "dead" BY <1>2, <1>4, NoDead
<1>6. Marked BY <1>2, <1>3 DEF Core
<1>7. /\ Listed(K, color, udata', tmudata')
      /\ Ran(tmudata) \subseteq us
      /\ finalized' \subseteq Obj
      /\ \A u \in Ran(udata) : u \in Separable(FALSE) => u \in finalized'
      /\ finalized \subseteq finalized'
  BY <1>1, <1>4, SeparateListed
<1>8. \A u \in us : u \in Obj /\ K[u] = "userdata" /\ color[u] # "free" BY <1>7, WaitingUserdata
<1> HIDE DEF us
<1>9. S \in SUBSET Value /\ \A x \in S : x # Nil => Ok(color, x)
  <2>1. SUFFICES ASSUME NEW u \in us, NEW f \in {"mt", "env"}
                 PROVE  /\ ref[u][f] \in Value
                        /\ ref[u][f] # Nil => Ok(color, ref[u][f])
    OBVIOUS
  <2>2. u \in Obj /\ K[u] = "userdata" /\ Ok(color, u) /\ f \in Field
    BY <1>5, <1>8, FieldNames DEF Ok
  <2>3. ref[u][f] # Nil => Refers(K, ref, u, f) BY <2>2 DEF Refers
  <2> QED BY <1>4, <2>2, <2>3, ReadOk
<1>10. Paint(K, ref, open, color, S, c1, q) BY <1>4, <1>5, <1>9, Painting
<1>11. \A u \in us : Dark(c1, ref[u]["mt"]) /\ Dark(c1, ref[u]["env"])
  <2>1. \A x \in S : Dark(c1, x) BY <1>10 DEF Paint
  <2>2. \A u \in us : ref[u]["mt"] \in S /\ ref[u]["env"] \in S OBVIOUS
  <2> HIDE DEF S, c1
  <2> QED BY <2>1, <2>2
<1> HIDE DEF S, q, c1
<1>12. /\ Heap(K, ref, open, c1) /\ Held(K, ref, open, c1)
       /\ RootsOk(K, c1, running, gmt)
       /\ Lists(K, c1, gray \cup q, grayagain, weak) /\ q \subseteq Obj
       /\ Tri(K, ref, c1, gray \cup q, grayagain, weak, Ran(tmudata))
       /\ AtomicInv(K, shape.events, ref, open, c1, gcstate, running,
                    gmt, grayagain, weak, Ran(tmudata), finalized)
       /\ SameLife(color, c1) /\ (\A x \in Obj : c1[x] # "dead")
       /\ sweepstr = {} /\ sweepgc = {} /\ c1 \in [Obj -> Colors]
  BY <1>2, <1>3, <1>6, <1>10, PaintParts
<1>13. /\ c2 \in [Obj -> Colors] /\ (\A x \in us : c2[x] = "black")
       /\ \A x \in Obj : x \notin us => c2[x] = c1[x]
  BY <1>8, <1>12 DEF Colors
<1> HIDE DEF c2
<1>14. SameLife(c1, c2) /\ SameLife(color, c2) BY <1>8, <1>12, <1>13 DEF SameLife
<1>15. \A x \in Value : Dark(c1, x) => Dark(c2, x) BY <1>13 DEF Dark, Value
<1>16. Heap(K, ref, open, c2)
  <2>1. \A x \in Obj : open[x] # <<>> => K[x] = "upval" BY <1>4 DEF Heap, OpenFits
  <2>2. \A x \in Obj : open[x] # <<>> => c1[x] # "black" BY <1>12 DEF Heap, OpenFits
  <2>3. \A x \in Obj : open[x] # <<>> => c2[x] # "black" BY <1>8, <1>13, <2>1, <2>2
  <2>4. Tints(K, open, c2) BY <1>8, <1>12, <1>13 DEF Heap, Tints
  <2> QED BY <1>12, <1>14, <2>3, <2>4, RecolorHeap
<1>17. Held(K, ref, open, c2) BY <1>12, <1>14, RecolorHeld
<1>18. RootsOk(K, c2, running, gmt) BY <1>12, <1>14, RecolorRoots
<1>19. Listed(K, c2, udata', tmudata') BY <1>7, <1>14, RecolorListed
<1>20. SweepInv(K, open, c2, "mark_tmu", sweepstr, sweepgc, us, finalized')
  <2>1. \A x \in Obj : c2[x] # "dead" BY <1>12, <1>14 DEF SameLife
  <2> QED BY <1>12, <2>1 DEF SweepInv, Sweeping, Marking, Atomic
<1>21. gray \cup q = q OBVIOUS
<1>22. Lists(K, c2, q, grayagain, weak)
  <2>1. Lists(K, c1, q, grayagain, weak) BY <1>12, <1>21
  <2>2. \A x \in q \cup grayagain \cup weak : x \notin us BY <1>8, <2>1 DEF Lists, Queue
  <2> QED BY <1>13, <2>1, <2>2 DEF Lists
<1>23. Tri(K, ref, c2, q, grayagain, weak, us)
  <2>1. Tri(K, ref, c1, q, grayagain, weak, Ran(tmudata)) BY <1>12, <1>21
  <2>2. BlackDark(ref, c2, us)
    <3>1. SUFFICES ASSUME NEW x \in Obj, c2[x] = "black", x \notin us, NEW f \in Field
                   PROVE  Dark(c2, ref[x][f])
      BY DEF BlackDark
    <3>2. c1[x] = "black" /\ x \notin Ran(tmudata) BY <1>7, <1>13, <3>1
    <3>3. Dark(c1, ref[x][f]) /\ ref[x][f] \in Value BY <1>4, <2>1, <3>2 DEF Tri, BlackDark
    <3> QED BY <1>15, <3>3
  <2>3. GrayListed(K, c2, q, grayagain, weak)
    BY <1>8, <1>13, <2>1 DEF Tri, GrayListed
  <2>4. Dark(c2, Main) /\ Dark(c2, Registry) BY <1>15, <2>1 DEF Tri, Value, Obj
  <2> QED BY <2>2, <2>3, <2>4 DEF Tri
<1>24. AtomicInv(K, shape.events, ref, open, c2, "mark_tmu", running, gmt,
                 grayagain, weak, us, finalized')
  <2>1. /\ OpenDark(K, ref, open, c1) /\ Dark(c1, running) /\ Dark(c1, gmt)
        /\ WeakDark(shape.events, ref, c1, weak) /\ ThreadsDark(K, ref, c1, grayagain)
    BY <1>2, <1>12 DEF AtomicInv
  <2>2. OpenDark(K, ref, open, c2)
    <3>1. SUFFICES ASSUME NEW u \in Obj, K[u] = "upval", c2[u] = "gray"
                   PROVE  Dark(c2, Val(ref, open, u))
      BY DEF OpenDark
    <3>2. c1[u] = "gray" BY <1>8, <1>13, <3>1
    <3>3. Dark(c1, Val(ref, open, u)) BY <2>1, <3>1, <3>2 DEF OpenDark
    <3> QED BY <1>4, <1>15, <3>3, ValType
  <2>3. Dark(c2, running) /\ Dark(c2, gmt) BY <1>4, <1>15, <2>1 DEF RootsOk, Value
  <2>4. WeakDark(shape.events, ref, c2, weak)
    <3>1. SUFFICES ASSUME NEW h \in weak, NEW mode, TableDark(ref, c1, h, mode)
                   PROVE  TableDark(ref, c2, h, mode)
      BY <2>1 DEF WeakDark
    <3>2. h \in Obj /\ \A f \in {"mt", "k", "v"} : ref[h][f] \in Value BY <1>4, FieldNames
    <3> QED BY <1>15, <3>1, <3>2 DEF TableDark
  <2>5. ThreadsDark(K, ref, c2, grayagain) BY <1>4, <1>15, <2>1 DEF ThreadsDark
  <2>6. WaitDark(K, ref, c2, us, finalized')
    <3>1. ASSUME NEW u \in us, NEW f \in Field PROVE Dark(c2, ref[u][f])
      <4>1. u \in Obj /\ K[u] = "userdata" /\ ref[u][f] \in Value BY <1>4, <1>8
      <4>2. ref[u][f] # Nil => f \in {"mt", "env"}
        BY <1>4, <4>1 DEF Heap, HeapFits, Fits, FieldsOf
      <4>3. Dark(c1, ref[u][f]) BY <1>11, <4>2 DEF Dark
      <4> QED BY <1>15, <4>1, <4>3
    <3>2. ASSUME NEW u \in Obj, K[u] = "userdata", White(c2, u) PROVE u \in finalized'
      <4>1. u \notin us /\ White(c1, u) BY <1>13, <3>2 DEF White
      <4>2. White(color, u) BY <1>10, <4>1 DEF Paint, White
      <4>3. color[u] # "free" /\ iswhite(u) BY <4>2 DEF White, iswhite
      <4>4. u \in Ran(udata) BY <1>4, <1>7, <3>2, <4>1, <4>3 DEF Listed
      <4>5. u \in finalized \/ u \in Separable(FALSE)
        BY <3>2, <4>3 DEF Separable, Of, kind, Live
      <4> QED BY <1>7, <4>4, <4>5
    <3> QED BY <1>13, <3>1, <3>2 DEF WaitDark
  <2> QED BY <2>2, <2>3, <2>4, <2>5, <2>6 DEF AtomicInv
<1>25. CallsInv(calls, "mark_tmu") BY <1>3, StepCalls
<1>26. "mark_tmu" \in Atomic BY DEF Atomic
<1> QED BY <1>1, <1>4, <1>7, <1>12, <1>16, <1>17, <1>18, <1>19, <1>20, <1>22, <1>23, <1>24,
           <1>25, <1>26, CoreThen DEF us

(* What traversing o marks, by the kind of o.                              *)
LEMMA ChildrenOf ==
  ASSUME IInv, NEW o \in Obj, shape.kind[o] \in Queue
  PROVE  /\ \A x \in Children(o) : \E f \in Field :
               x = ref[o][f] /\ (x # Nil => Refers(shape.kind, ref, o, f))
         /\ shape.kind[o] # "table" => \A f \in Field : ref[o][f] # Nil => ref[o][f] \in Children(o)
         /\ shape.kind[o] = "table" =>
               /\ ref[o]["mt"] \in Children(o)
               /\ ref[o]["v"] # Nil => \A f \in {"k", "v"} \ WeakMode(o) : ref[o][f] \in Children(o)
               /\ \A f \in Field : ref[o][f] # Nil => f \in {"mt", "k", "v"}
         /\ WeakMode(o) = ModeOf(shape.events, ref, o)
<1> DEFINE K == shape.kind
<1>1. \A f \in Field : ref[o][f] # Nil => f \in FieldsOf(K[o]) BY DEF IInv, Heap, HeapFits, Fits
<1>2. \A f \in {"mt", "env", "p", "up", "k", "v", "fin"} \cup Slot : f \in Field BY FieldNames
<1>3. WeakMode(o) = ModeOf(shape.events, ref, o) BY DEF WeakMode, ModeOf, Events
<1>4. CASE K[o] = "table"
  <2>1. Children(o) = TableChildren(o) BY <1>4 DEF Children, kind
  <2>2. ASSUME NEW x \in TableChildren(o)
        PROVE  \E f \in Field : x = ref[o][f] /\ (x # Nil => Refers(K, ref, o, f))
    <3>1. CASE x = ref[o]["mt"] BY <1>2, <3>1 DEF Refers
    <3>2. CASE x # ref[o]["mt"]
      <4>1. ref[o]["v"] # Nil /\ \E f \in {"k", "v"} : x = ref[o][f]
        BY <2>2, <3>2 DEF TableChildren
      <4> QED BY <1>2, <4>1 DEF Refers
    <3> QED BY <3>1, <3>2
  <2>3. /\ ref[o]["mt"] \in TableChildren(o)
        /\ ref[o]["v"] # Nil => \A f \in {"k", "v"} \ WeakMode(o) : ref[o][f] \in TableChildren(o)
    BY DEF TableChildren
  <2>4. \A f \in Field : ref[o][f] # Nil => f \in {"mt", "k", "v"} BY <1>1, <1>4 DEF FieldsOf
  <2> QED BY <1>3, <1>4, <2>1, <2>2, <2>3, <2>4
<1>5. CASE K[o] = "lclosure"
  <2>1. Children(o) = {ref[o][f] : f \in {"env", "p", "up"}} BY <1>5 DEF Children, kind
  <2>2. FieldsOf(K[o]) = {"env", "p", "up"} BY <1>5 DEF FieldsOf
  <2> QED BY <1>1, <1>2, <1>3, <1>5, <2>1, <2>2 DEF Refers
<1>6. CASE K[o] = "cclosure"
  <2>1. Children(o) = {ref[o][f] : f \in {"env", "v"}} BY <1>6 DEF Children, kind
  <2>2. FieldsOf(K[o]) = {"env", "v"} BY <1>6 DEF FieldsOf
  <2> QED BY <1>1, <1>2, <1>3, <1>6, <2>1, <2>2 DEF Refers
<1>7. CASE K[o] = "proto"
  <2>1. Children(o) = {ref[o]["k"]} BY <1>7 DEF Children, kind
  <2>2. FieldsOf(K[o]) = {"k"} BY <1>7 DEF FieldsOf
  <2> QED BY <1>1, <1>2, <1>3, <1>7, <2>1, <2>2 DEF Refers
<1>8. CASE K[o] = "thread"
  <2>1. Children(o) = {ref[o][f] : f \in {"env", "fin"} \cup Slot} BY <1>8 DEF Children, kind
  <2>2. FieldsOf(K[o]) = {"env", "fin"} \cup Slot BY <1>8 DEF FieldsOf
  <2> QED BY <1>1, <1>2, <1>3, <1>8, <2>1, <2>2 DEF Refers
<1> QED BY <1>4, <1>5, <1>6, <1>7, <1>8 DEF Queue

(* The object o has been traversed, and leaves the gray list: a thread or  *)
(* a weak table for another list, any other object turns black.            *)
Traversed(K, ev, r, op, c, o, r2, c2, ga, ga2, w, w2) ==
  /\ Heap(K, r, op, c) /\ Held(K, r, op, c) /\ c[o] = "gray" /\ K[o] \in Queue
  /\ \/ r2 = r
     \/ K[o] = "table" /\ r[o]["v"] = Nil /\ r2 = [r EXCEPT ![o]["k"] = Nil]
  /\ \/ /\ K[o] = "thread" /\ c2 = c /\ ga2 = ga \cup {o} /\ w2 = w
        /\ \A f \in Field : Dark(c, r2[o][f])
     \/ /\ K[o] = "table" /\ c2 = c /\ ga2 = ga /\ w2 = w \cup {o}
        /\ TableDark(r, c, o, ModeOf(ev, r, o))
     \/ /\ K[o] # "thread" /\ c2 = [c EXCEPT ![o] = "black"] /\ ga2 = ga /\ w2 = w
        /\ \A f \in Field : Dark(c, r2[o][f])

(* Nothing else has changed.                                               *)
Darker(K, r, op, c, o, r2, c2) ==
  /\ \A x \in Value : Dark(c, x) => Dark(c2, x)
  /\ \A x \in Obj : x # o => r2[x] = r[x] /\ c2[x] = c[x]
  /\ \A u \in Obj : K[u] = "upval" => Val(r2, op, u) = Val(r, op, u)
  /\ r2[o]["mt"] = r[o]["mt"] /\ r2[o]["v"] = r[o]["v"]
  /\ r2[o]["v"] # Nil => r2[o] = r[o]
  /\ r2 \in [Obj -> [Field -> Value]]

(* Traversing one object keeps the heap well formed and its references     *)
(* sound.                                                                  *)
LEMMA TraversedHeap ==
  ASSUME NEW K, NEW ev, NEW r, NEW op, NEW c, NEW o \in Obj, NEW r2, NEW c2,
         NEW ga, NEW ga2, NEW w, NEW w2,
         Traversed(K, ev, r, op, c, o, r2, c2, ga, ga2, w, w2)
  PROVE  /\ Heap(K, r2, op, c2) /\ Held(K, r2, op, c2) /\ SameLife(c, c2)
         /\ Darker(K, r, op, c, o, r2, c2)
<1>0. Heap(K, r, op, c) /\ Held(K, r, op, c) /\ c[o] = "gray" /\ K[o] \in Queue BY DEF Traversed
<1>1. /\ r \in [Obj -> [Field -> Value]] /\ c \in [Obj -> Colors] /\ K \in [Obj -> Kinds]
      /\ op \in [Obj -> {<<>>} \cup (Obj \X Slot)]
  BY <1>0 DEF Heap, HeapType
<1>2. "k" \in Field /\ "v" \in Field /\ "mt" \in Field /\ "k" # "v" /\ "k" # "mt"
  BY FieldNames
<1>3. \/ r2 = r
      \/ K[o] = "table" /\ r[o]["v"] = Nil /\ r2 = [r EXCEPT ![o]["k"] = Nil]
  BY DEF Traversed
<1>4. /\ r2 \in [Obj -> [Field -> Value]]
      /\ \A x \in Obj : x # o => r2[x] = r[x]
      /\ \A f \in Field : r2[o][f] = r[o][f] \/ r2[o][f] = Nil
      /\ \A f \in Field : f # "k" => r2[o][f] = r[o][f]
      /\ r2[o]["v"] # Nil => r2[o] = r[o]
      /\ K[o] # "table" => r2[o] = r[o]
  <2>1. CASE r2 = r BY <1>0, <1>1, <2>1
  <2>2. CASE K[o] = "table" /\ r[o]["v"] = Nil /\ r2 = [r EXCEPT ![o]["k"] = Nil]
    <3>1. /\ r2[o] = [r[o] EXCEPT !["k"] = Nil] /\ r2[o] \in [Field -> Value]
          /\ \A x \in Obj : x # o => r2[x] = r[x]
      BY <1>0, <1>1, <2>2 DEF Value
    <3>2. r2 \in [Obj -> [Field -> Value]] BY <1>0, <1>1, <2>2, <3>1
    <3>3. \A f \in Field : r2[o][f] = IF f = "k" THEN Nil ELSE r[o][f] BY <1>0, <1>1, <3>1
    <3> QED BY <1>0, <1>2, <2>2, <3>1, <3>2, <3>3
  <2> QED BY <1>0, <1>3, <2>1, <2>2
<1>5. r2 = [r EXCEPT ![o] = r2[o]] BY <1>0, <1>1, <1>4
<1>6. K[o] # "upval" /\ K[o] # "userdata" BY <1>0 DEF Queue
<1>7. op[o] = <<>> BY <1>0, <1>6 DEF Heap, OpenFits
<1>8. Ok(c, o) BY <1>0 DEF Ok
<1>9. Write(K, r, op, c, o, r2[o])
  <2>1. ASSUME K[o] = "table", r2[o]["v"] # Nil, r2[o]["k"] # Nil PROVE Ok(c, r2[o]["k"])
    <3>1. r2[o] = r[o] BY <1>0, <1>4, <2>1
    <3>2. Refers(K, r, o, "k") BY <1>0, <2>1, <3>1 DEF Refers
    <3> QED BY <1>0, <1>2, <1>8, <3>1, <3>2, ReadOk
  <2>2. /\ K[o] = "lclosure" => r[o]["up"] # Nil
        /\ K[o] = "thread" => r[o]["env"] # Nil
    BY <1>0 DEF Heap, Born
  <2>3. /\ K[o] = "lclosure" => r2[o]["up"] # Nil
        /\ K[o] = "thread" => r2[o]["env"] # Nil
    BY <1>0, <1>4, <2>2
  <2> QED BY <1>0, <1>4, <1>7, <2>1, <2>3 DEF Write
<1>10. Heap(K, r2, op, c) BY <1>0, <1>5, <1>9, WriteHeap
<1>11. Held(K, r2, op, c) BY <1>0, <1>5, <1>9, WriteHeld
<1>12. c2 = c \/ (K[o] # "thread" /\ c2 = [c EXCEPT ![o] = "black"]) BY DEF Traversed
<1>13. SameLife(c, c2) BY <1>0, <1>1, <1>12 DEF SameLife, Colors
<1>14. \A x \in Obj : x # o => c2[x] = c[x] BY <1>0, <1>1, <1>12
<1>15. c2[o] \in {"gray", "black"} /\ (K[o] = "thread" => c2[o] # "black") BY <1>0, <1>1, <1>12
<1>16. Tints(K, op, c2) BY <1>0, <1>6, <1>14, <1>15 DEF Heap, Tints
<1>17. \A x \in Obj : op[x] # <<>> => c2[x] # "black" BY <1>0, <1>7, <1>14 DEF Heap, OpenFits
<1>18. Heap(K, r2, op, c2) BY <1>0, <1>10, <1>13, <1>16, <1>17, RecolorHeap
<1>19. Held(K, r2, op, c2) BY <1>0, <1>10, <1>11, <1>13, RecolorHeld
<1>20. \A x \in Value : Dark(c, x) => Dark(c2, x) BY <1>0, <1>14, <1>15 DEF Dark, Value
<1>21. ASSUME NEW u \in Obj, K[u] = "upval" PROVE Val(r2, op, u) = Val(r, op, u)
  <2>1. u # o BY <1>0, <1>6, <1>21
  <2>2. CASE op[u] = <<>> BY <1>0, <1>4, <2>1, <2>2 DEF Val
  <2>3. CASE op[u] # <<>>
    <3>1. op[u][1] \in Obj /\ op[u][2] \in Field BY <1>0, <1>1, <2>3, OpenPair
    <3>2. K[op[u][1]] = "thread" BY <1>0, <2>3 DEF Heap, OpenFits
    <3>3. r2[op[u][1]] = r[op[u][1]] BY <1>0, <1>4, <3>1, <3>2
    <3> QED BY <1>0, <2>3, <3>3 DEF Val
  <2> QED BY <1>0, <2>2, <2>3
<1>22. r2[o]["mt"] = r[o]["mt"] /\ r2[o]["v"] = r[o]["v"] BY <1>0, <1>2, <1>4
<1> QED BY <1>4, <1>13, <1>14, <1>18, <1>19, <1>20, <1>21, <1>22 DEF Darker

(* Traversing an object keeps what the mark phase relies on.               *)
LEMMA TraversedMarks ==
  ASSUME NEW K, NEW ev, NEW r, NEW op, NEW c, NEW o \in Obj, NEW r2, NEW c2, NEW st,
         NEW run \in Value, NEW mt \in Value,
         NEW g \in SUBSET Obj, NEW ga \in SUBSET Obj, NEW ga2, NEW w \in SUBSET Obj, NEW w2,
         NEW wait \in SUBSET Obj, NEW fin,
         o \in g, \A u \in wait : K[u] = "userdata",
         Lists(K, c, g, ga, w), Tri(K, r, c, g, ga, w, wait),
         AtomicInv(K, ev, r, op, c, st, run, mt, ga, w, wait, fin),
         Traversed(K, ev, r, op, c, o, r2, c2, ga, ga2, w, w2)
  PROVE  /\ Lists(K, c2, g \ {o}, ga2, w2)
         /\ Tri(K, r2, c2, g \ {o}, ga2, w2, wait)
         /\ AtomicInv(K, ev, r2, op, c2, st, run, mt, ga2, w2, wait, fin)
<1>0. Heap(K, r, op, c) BY DEF Traversed
<1>1. /\ c[o] = "gray" /\ K[o] \in Queue /\ o \notin ga /\ o \notin w BY DEF Lists
<1>2. /\ r \in [Obj -> [Field -> Value]] BY <1>0 DEF Heap, HeapType
<1>a. Heap(K, r2, op, c2) /\ SameLife(c, c2) /\ Darker(K, r, op, c, o, r2, c2)
  BY TraversedHeap
<1>3. /\ Heap(K, r2, op, c2) /\ SameLife(c, c2)
      /\ \A x \in Value : Dark(c, x) => Dark(c2, x)
      /\ \A x \in Obj : x # o => r2[x] = r[x] /\ c2[x] = c[x]
      /\ \A u \in Obj : K[u] = "upval" => Val(r2, op, u) = Val(r, op, u)
      /\ r2[o]["mt"] = r[o]["mt"] /\ r2[o]["v"] = r[o]["v"]
      /\ r2[o]["v"] # Nil => r2[o] = r[o]
      /\ r2 \in [Obj -> [Field -> Value]]
  BY <1>a DEF Darker
<1> DEFINE A == /\ K[o] = "thread" /\ c2 = c /\ ga2 = ga \cup {o} /\ w2 = w
                /\ \A f \in Field : Dark(c, r2[o][f])
           B == /\ K[o] = "table" /\ c2 = c /\ ga2 = ga /\ w2 = w \cup {o}
                /\ TableDark(r, c, o, ModeOf(ev, r, o))
           C == /\ K[o] # "thread" /\ c2 = [c EXCEPT ![o] = "black"] /\ ga2 = ga /\ w2 = w
                /\ \A f \in Field : Dark(c, r2[o][f])
<1>4. A \/ B \/ C BY DEF Traversed
<1>5. c2[o] = IF C THEN "black" ELSE "gray"
  <2>1. c \in [Obj -> Colors] BY <1>0 DEF Heap, HeapType
  <2>2. CASE C BY <2>1, <2>2
  <2>3. CASE ~C BY <1>1, <1>4, <2>3
  <2> QED BY <2>2, <2>3
<1>6. K[o] # "userdata" /\ K[o] # "upval" BY <1>1 DEF Queue
<1>7. Lists(K, c2, g \ {o}, ga2, w2)
  <2>1. /\ \A x \in g \cup ga \cup w : x \in Obj /\ c[x] = "gray" /\ K[x] \in Queue
        /\ \A x \in w : K[x] = "table"
        /\ \A x \in ga : K[x] \in {"table", "thread"}
        /\ g \cap ga = {} /\ g \cap w = {} /\ ga \cap w = {}
    BY DEF Lists
  <2>2. \A x \in (g \ {o}) \cup ga \cup w : c2[x] = "gray" BY <1>1, <1>3, <2>1
  <2>3. CASE A
    <3>1. c2[o] = "gray" BY <1>1, <2>3
    <3> QED BY <1>1, <2>1, <2>2, <2>3, <3>1 DEF Lists
  <2>4. CASE B
    <3>1. c2[o] = "gray" BY <1>1, <2>4
    <3> QED BY <1>1, <2>1, <2>2, <2>4, <3>1 DEF Lists
  <2>5. CASE C BY <2>1, <2>2, <2>5 DEF Lists
  <2> QED BY <1>4, <2>3, <2>4, <2>5
<1>8. Tri(K, r2, c2, g \ {o}, ga2, w2, wait)
  <2>1. BlackDark(r2, c2, wait)
    <3>1. SUFFICES ASSUME NEW x \in Obj, c2[x] = "black", x \notin wait, NEW f \in Field
                   PROVE  Dark(c2, r2[x][f])
      BY DEF BlackDark
    <3>2. CASE x = o
      <4>1. C BY <1>5, <3>1, <3>2
      <4>2. Dark(c, r2[o][f]) BY <4>1
      <4> HIDE DEF C
      <4> QED BY <1>3, <3>2, <4>2
    <3>3. CASE x # o
      <4>1. c[x] = "black" /\ r2[x] = r[x] BY <1>3, <3>1, <3>3
      <4>2. Dark(c, r[x][f]) /\ r[x][f] \in Value BY <1>2, <3>1, <4>1 DEF Tri, BlackDark
      <4> QED BY <1>3, <4>1, <4>2
    <3> QED BY <3>2, <3>3
  <2>2. GrayListed(K, c2, g \ {o}, ga2, w2)
    <3>1. SUFFICES ASSUME NEW x \in Obj, c2[x] = "gray", K[x] \in Queue
                   PROVE  x \in (g \ {o}) \cup ga2 \cup w2
      BY DEF GrayListed
    <3>2. CASE x = o
      <4>1. ~C BY <1>5, <3>1, <3>2
      <4> QED BY <1>4, <3>2, <4>1
    <3>3. CASE x # o
      <4>1. x \in g \cup ga \cup w BY <1>3, <3>1, <3>3 DEF Tri, GrayListed
      <4>2. ga \subseteq ga2 /\ w \subseteq w2 BY <1>4
      <4> QED BY <3>3, <4>1, <4>2
    <3> QED BY <3>2, <3>3
  <2>3. Dark(c2, Main) /\ Dark(c2, Registry) BY <1>3 DEF Tri, Value, Obj
  <2> QED BY <2>1, <2>2, <2>3 DEF Tri
<1>9. OpenDark(K, r, op, c) => OpenDark(K, r2, op, c2)
  <2>1. SUFFICES ASSUME OpenDark(K, r, op, c), NEW u \in Obj, K[u] = "upval", c2[u] = "gray"
                 PROVE  Dark(c2, Val(r2, op, u))
    BY DEF OpenDark
  <2>2. u # o /\ c[u] = "gray" BY <1>3, <1>6, <2>1
  <2>3. Dark(c, Val(r, op, u)) /\ Val(r, op, u) \in Value BY <1>0, <2>1, <2>2, ValType DEF OpenDark
  <2> QED BY <1>3, <2>1, <2>3
<1>10. WeakDark(ev, r, c, w) => WeakDark(ev, r2, c2, w2)
  <2>1. SUFFICES ASSUME WeakDark(ev, r, c, w), NEW h \in w2
                 PROVE  TableDark(r2, c2, h, ModeOf(ev, r2, h))
    BY DEF WeakDark
  <2>2. CASE h = o
    <3>1. TableDark(r, c, o, ModeOf(ev, r, o)) /\ c2 = c BY <1>1, <1>4, <2>1, <2>2
    <3>2. ModeOf(ev, r2, o) = ModeOf(ev, r, o) BY <1>3 DEF ModeOf
    <3> QED BY <1>3, <2>2, <3>1, <3>2 DEF TableDark
  <2>3. CASE h # o
    <3>1. h \in w /\ h \in Obj BY <1>4, <2>1, <2>3
    <3>2. r2[h] = r[h] BY <1>3, <2>3, <3>1
    <3>3. TableDark(r, c, h, ModeOf(ev, r, h)) BY <2>1, <3>1 DEF WeakDark
    <3>4. ModeOf(ev, r2, h) = ModeOf(ev, r, h) BY <3>2 DEF ModeOf
    <3>5. \A f \in {"mt", "k", "v"} : r[h][f] \in Value BY <1>2, <3>1, FieldNames
    <3> QED BY <1>3, <3>2, <3>3, <3>4, <3>5 DEF TableDark
  <2> QED BY <2>2, <2>3
<1>11. ThreadsDark(K, r, c, ga) => ThreadsDark(K, r2, c2, ga2)
  <2>1. SUFFICES ASSUME ThreadsDark(K, r, c, ga), NEW t \in ga2
                 PROVE  K[t] = "thread" /\ \A f \in Field : Dark(c2, r2[t][f])
    BY DEF ThreadsDark
  <2>2. CASE t = o
    <3>1. A BY <1>1, <1>4, <2>1, <2>2
    <3>2. K[o] = "thread" /\ \A f \in Field : Dark(c, r2[o][f]) BY <3>1
    <3> QED BY <1>3, <2>2, <3>2
  <2>3. CASE t # o
    <3>1. t \in ga /\ t \in Obj BY <1>4, <2>1, <2>3
    <3>2. r2[t] = r[t] BY <1>3, <2>3, <3>1
    <3>3. K[t] = "thread" /\ \A f \in Field : Dark(c, r[t][f]) /\ r[t][f] \in Value
      BY <1>2, <2>1, <3>1 DEF ThreadsDark
    <3> QED BY <1>3, <3>2, <3>3
  <2> QED BY <2>2, <2>3
<1>12. WaitDark(K, r, c, wait, fin) => WaitDark(K, r2, c2, wait, fin)
  <2>1. SUFFICES ASSUME WaitDark(K, r, c, wait, fin) PROVE WaitDark(K, r2, c2, wait, fin) OBVIOUS
  <2>2. ASSUME NEW u \in wait PROVE c2[u] = "black" /\ \A f \in Field : Dark(c2, r2[u][f])
    <3>1. u \in Obj /\ u # o BY <1>6
    <3>2. c[u] = "black" /\ \A f \in Field : Dark(c, r[u][f]) /\ r[u][f] \in Value
      BY <1>2, <2>1, <3>1 DEF WaitDark
    <3> QED BY <1>3, <3>1, <3>2
  <2>3. ASSUME NEW u \in Obj, K[u] = "userdata", White(c2, u) PROVE u \in fin
    <3>1. White(c, u) BY <1>3, <1>6, <2>3 DEF White
    <3> QED BY <2>1, <2>3, <3>1 DEF WaitDark
  <2> QED BY <2>2, <2>3 DEF WaitDark
<1>13. /\ Dark(c, run) => Dark(c2, run)
       /\ Dark(c, mt) => Dark(c2, mt)
  BY <1>3
<1> HIDE DEF A, B, C
<1>14. AtomicInv(K, ev, r2, op, c2, st, run, mt, ga2, w2, wait, fin)
  BY <1>9, <1>10, <1>11, <1>12, <1>13 DEF AtomicInv
<1> QED BY <1>7, <1>8, <1>14

(* propagatemark: one gray object is traversed.                            *)
LEMMA PropagateInv ==
  ASSUME IInv, MaySweep \/ (Top("sweep") /\ gcstate # "finalize"), gcstate \in Marking,
         NEW o \in gray, propagatemark(o), UNCHANGED <<shape, running, failed, calls>>
  PROVE  IInv'
<1> DEFINE K == shape.kind
           S == Children(o)
           q == Queued(S)
           c1 == Painted(S)
           g1 == gray \cup q
<1>1. /\ gray' = (gray \ {o}) \cup q
      /\ color' = [c1 EXCEPT ![o] = IF StaysGray(o) THEN "gray" ELSE "black"]
      /\ grayagain' = grayagain \cup ({o} \cap Of("thread"))
      /\ weak' = IF StaysGray(o) /\ kind(o) = "table" THEN weak \cup {o} ELSE weak
      /\ ref' = Cleaned(o)
      /\ UNCHANGED <<open, gmt, udata, tmudata, finalized, gcstate, sweepstr, sweepgc, doomed>>
  BY DEF propagatemark, udataVars, sweepVars
<1>2. gcstate \notin Sweeping /\ gcstate # "finalize" BY DEF Marking, Sweeping, Atomic
<1>3. Core /\ ~Abandoned(calls, gcstate) BY <1>2, StepFacts
<1>4. /\ Heap(K, ref, open, color) /\ Held(K, ref, open, color) /\ RootsOk(K, color, running, gmt)
      /\ SweepInv(K, open, color, gcstate, sweepstr, sweepgc, Ran(tmudata), finalized)
      /\ grayagain \subseteq Obj /\ weak \subseteq Obj /\ finalized \subseteq Obj
      /\ doomed \subseteq Obj /\ gray \subseteq Obj /\ Lists(K, color, gray, grayagain, weak)
      /\ Listed(K, color, udata, tmudata) /\ ref \in [Obj -> [Field -> Value]]
  BY <1>3, StepParts
<1>5. \A x \in Obj : color[x] # "dead" BY <1>2, <1>4, NoDead
<1>6. Marked BY <1>2, <1>3 DEF Core
<1>7. o \in Obj /\ color[o] = "gray" /\ K[o] \in Queue /\ Ok(color, o) BY <1>4 DEF Lists, Ok
<1>8. /\ \A x \in S : \E f \in Field : x = ref[o][f] /\ (x # Nil => Refers(K, ref, o, f))
      /\ K[o] # "table" => \A f \in Field : ref[o][f] # Nil => ref[o][f] \in S
      /\ K[o] = "table" =>
            /\ ref[o]["mt"] \in S
            /\ ref[o]["v"] # Nil => \A f \in {"k", "v"} \ WeakMode(o) : ref[o][f] \in S
            /\ \A f \in Field : ref[o][f] # Nil => f \in {"mt", "k", "v"}
      /\ WeakMode(o) = ModeOf(shape.events, ref, o)
  BY <1>7, ChildrenOf
<1> HIDE DEF S
<1>9. S \in SUBSET Value /\ \A x \in S : x # Nil => Ok(color, x)
  <2>1. SUFFICES ASSUME NEW x \in S PROVE x \in Value /\ (x # Nil => Ok(color, x)) OBVIOUS
  <2>2. PICK f \in Field : x = ref[o][f] /\ (x # Nil => Refers(K, ref, o, f)) BY <1>8, <2>1
  <2> QED BY <1>4, <1>7, <2>2, ReadOk
<1>10. Paint(K, ref, open, color, S, c1, q) BY <1>4, <1>5, <1>9, Painting
<1> HIDE DEF q, c1
<1>11. /\ Heap(K, ref, open, c1) /\ Held(K, ref, open, c1)
       /\ Listed(K, c1, udata, tmudata) /\ RootsOk(K, c1, running, gmt)
       /\ Lists(K, c1, g1, grayagain, weak) /\ q \subseteq Obj
       /\ Tri(K, ref, c1, g1, grayagain, weak, Ran(tmudata))
       /\ AtomicInv(K, shape.events, ref, open, c1, gcstate, running,
                    gmt, grayagain, weak, Ran(tmudata), finalized)
       /\ sweepstr = {} /\ sweepgc = {} /\ c1 \in [Obj -> Colors]
       /\ \A x \in Obj : c1[x] # "dead"
  BY <1>2, <1>3, <1>6, <1>10, PaintParts
<1>12. c1[o] = "gray" /\ o \notin q BY <1>7, <1>10 DEF Paint, White
<1>13. \A x \in S : Dark(c1, x) BY <1>10 DEF Paint
<1>14. Traversed(K, shape.events, ref, open, c1, o, ref', color', grayagain, grayagain', weak, weak')
  <2>1. CASE K[o] = "thread"
    <3>1. StaysGray(o) /\ o \in Of("thread") /\ kind(o) # "table" BY <1>7, <2>1 DEF StaysGray, kind, Of
    <3>2. ref' = ref BY <1>1, <3>1 DEF Cleaned
    <3>3. color' = c1 BY <1>1, <1>7, <1>11, <1>12, <3>1
    <3>4. grayagain' = grayagain \cup {o} /\ weak' = weak BY <1>1, <3>1
    <3>5. \A f \in Field : Dark(c1, ref[o][f]) BY <1>8, <1>13, <2>1 DEF Dark
    <3> QED BY <1>7, <1>11, <1>12, <2>1, <3>2, <3>3, <3>4, <3>5 DEF Traversed
  <2>2. CASE K[o] = "table"
    <3>1. o \notin Of("thread") /\ kind(o) = "table" BY <2>2 DEF Of, kind
    <3>2. grayagain' = grayagain BY <1>1, <3>1
    <3>3. \/ ref' = ref
          \/ K[o] = "table" /\ ref[o]["v"] = Nil /\ ref' = [ref EXCEPT ![o]["k"] = Nil]
      BY <1>1, <2>2 DEF Cleaned
    <3>4. CASE WeakMode(o) # {}
      <4>1. StaysGray(o) BY <3>1, <3>4 DEF StaysGray
      <4>2. color' = c1 /\ weak' = weak \cup {o} BY <1>1, <1>7, <1>11, <1>12, <3>1, <4>1
      <4>3. TableDark(ref, c1, o, ModeOf(shape.events, ref, o))
        BY <1>8, <1>13, <2>2 DEF TableDark
      <4> QED BY <1>7, <1>11, <1>12, <2>2, <3>2, <3>3, <4>2, <4>3 DEF Traversed
    <3>5. CASE WeakMode(o) = {}
      <4>1. ~StaysGray(o) BY <3>1, <3>5 DEF StaysGray
      <4>2. color' = [c1 EXCEPT ![o] = "black"] /\ weak' = weak BY <1>1, <4>1
      <4>3. ASSUME NEW f \in Field PROVE Dark(c1, ref'[o][f])
        <5>1. CASE ref[o]["v"] = Nil
          <6>1. WeakMode(o) # {"k", "v"} BY <3>5
          <6>2. ref' = [ref EXCEPT ![o]["k"] = Nil] BY <1>1, <3>1, <5>1, <6>1 DEF Cleaned
          <6>3. ref'[o] = [ref[o] EXCEPT !["k"] = Nil] BY <1>4, <1>7, <6>2
          <6>4. ref'[o][f] = IF f = "k" THEN Nil ELSE ref[o][f] BY <1>4, <1>7, <6>3
          <6>5. ref'[o][f] # Nil => f = "mt" /\ ref'[o][f] = ref[o]["mt"]
            BY <1>8, <2>2, <5>1, <6>4
          <6> QED BY <1>8, <1>13, <2>2, <6>5 DEF Dark
        <5>2. CASE ref[o]["v"] # Nil
          <6>1. ref' = ref BY <3>3, <5>2
          <6>2. \A x \in {"k", "v"} : ref[o][x] \in S BY <1>8, <2>2, <3>5, <5>2
          <6>3. ref[o][f] # Nil => ref[o][f] \in S BY <1>8, <2>2, <6>2
          <6> QED BY <1>13, <6>1, <6>3 DEF Dark
        <5> QED BY <5>1, <5>2
      <4> QED BY <1>7, <1>11, <1>12, <2>2, <3>2, <3>3, <4>2, <4>3 DEF Traversed
    <3> QED BY <3>4, <3>5
  <2>3. CASE K[o] \notin {"table", "thread"}
    <3>1. ~StaysGray(o) /\ o \notin Of("thread") /\ kind(o) # "table"
      BY <2>3 DEF StaysGray, kind, Of
    <3>2. ref' = ref BY <1>1, <3>1 DEF Cleaned
    <3>3. color' = [c1 EXCEPT ![o] = "black"] /\ weak' = weak /\ grayagain' = grayagain
      BY <1>1, <3>1
    <3>4. \A f \in Field : Dark(c1, ref[o][f]) BY <1>8, <1>13, <2>3 DEF Dark
    <3> QED BY <1>7, <1>11, <1>12, <2>3, <3>2, <3>3, <3>4 DEF Traversed
  <2> QED BY <2>1, <2>2, <2>3
<1>15. /\ Heap(K, ref', open, color') /\ Held(K, ref', open, color') /\ SameLife(c1, color')
  BY <1>7, <1>11, <1>12, <1>14, TraversedHeap
<1>16. g1 \ {o} = gray' BY <1>1, <1>12
<1>17. /\ o \in g1 /\ g1 \in SUBSET Obj /\ running \in Value /\ gmt \in Value
       /\ Ran(tmudata) \in SUBSET Obj /\ \A u \in Ran(tmudata) : K[u] = "userdata"
  BY <1>4, <1>11, WaitingUserdata DEF RootsOk, Value
<1> HIDE DEF g1
<1>b. /\ Lists(K, color', g1 \ {o}, grayagain', weak')
      /\ Tri(K, ref', color', g1 \ {o}, grayagain', weak', Ran(tmudata))
      /\ AtomicInv(K, shape.events, ref', open, color', gcstate, running, gmt,
                   grayagain', weak', Ran(tmudata), finalized)
  <2> DEFINE wait == Ran(tmudata)
  <2>1. wait \in SUBSET Obj /\ \A u \in wait : K[u] = "userdata" BY <1>17
  <2>2. /\ Lists(K, c1, g1, grayagain, weak)
        /\ Tri(K, ref, c1, g1, grayagain, weak, wait)
        /\ AtomicInv(K, shape.events, ref, open, c1, gcstate, running,
                     gmt, grayagain, weak, wait, finalized)
    BY <1>11 DEF g1
  <2> HIDE DEF wait, K
  <2>3. /\ Lists(K, color', g1 \ {o}, grayagain', weak')
        /\ Tri(K, ref', color', g1 \ {o}, grayagain', weak', wait)
        /\ AtomicInv(K, shape.events, ref', open, color', gcstate, running, gmt,
                     grayagain', weak', wait, finalized)
    BY <1>4, <1>7, <1>14, <1>17, <2>1, <2>2, TraversedMarks
  <2> QED BY <2>3 DEF wait
<1>18. /\ Lists(K, color', gray', grayagain', weak')
       /\ Tri(K, ref', color', gray', grayagain', weak', Ran(tmudata))
       /\ AtomicInv(K, shape.events, ref', open, color', gcstate, running, gmt,
                    grayagain', weak', Ran(tmudata), finalized)
  BY <1>16, <1>b
<1>19. RootsOk(K, color', running, gmt) BY <1>11, <1>15, RecolorRoots
<1>20. Listed(K, color', udata, tmudata) BY <1>11, <1>15, RecolorListed
<1>21. SweepInv(K, open, color', gcstate, sweepstr, sweepgc, Ran(tmudata), finalized)
  <2>1. \A x \in Obj : color'[x] # "dead" BY <1>11, <1>15 DEF SameLife
  <2> QED BY <1>2, <1>11, <2>1 DEF SweepInv
<1>22. gray' \subseteq Obj /\ grayagain' \subseteq Obj /\ weak' \subseteq Obj
  BY <1>18 DEF Lists
<1>23. CallsInv(calls', gcstate') /\ gcstate \in Marking BY <1>1 DEF IInv
<1>24. gcstate \in {"pause", "propagate", "sweepstring", "sweep", "finalize"} \cup Atomic
  BY DEF Marking
<1> QED BY <1>1, <1>4, <1>15, <1>18, <1>19, <1>20, <1>21, <1>22, <1>23, <1>24, CoreThen

(* The end of atomic: what is not dark is dead, but for strings in weak    *)
(* tables, and no dark object refers to it, for weak tables are cleared.   *)
LEMMA FinishAtomicInv ==
  ASSUME IInv, MaySweep \/ (Top("sweep") /\ gcstate # "finalize"), gcstate = "mark_tmu",
         gray = {}, FinishAtomic, UNCHANGED <<shape, running, failed, calls>>
  PROVE  IInv'
<1> DEFINE K == shape.kind
           wait == Ran(tmudata)
           spared == UNION {Spared(h) : h \in weak}
<1>1. /\ ref' = [o \in Obj |-> IF o \in weak /\ Clears(o)
                               THEN [ref[o] EXCEPT !["k"] = Nil, !["v"] = Nil] ELSE ref[o]]
      /\ color' = [o \in Obj |-> IF ~iswhite(o) THEN color[o]
                                 ELSE IF o \in spared THEN "gray"
                                 ELSE IF color[o] = "white" THEN "dead" ELSE "white"]
      /\ sweepstr' = AllStrings /\ sweepgc' = RootList /\ gcstate' = "sweepstring"
      /\ UNCHANGED <<open, gmt, udata, tmudata, finalized, gray, grayagain, weak, doomed>>
  BY DEF FinishAtomic, udataVars, listVars
<1>2. gcstate \in Marking /\ gcstate \notin Sweeping /\ gcstate \in Atomic /\ gcstate # "finalize"
  BY DEF Marking, Sweeping, Atomic
<1>3. Core /\ ~Abandoned(calls, gcstate) BY <1>2, StepFacts
<1>4. /\ Heap(K, ref, open, color) /\ Held(K, ref, open, color) /\ RootsOk(K, color, running, gmt)
      /\ SweepInv(K, open, color, gcstate, sweepstr, sweepgc, wait, finalized)
      /\ grayagain \subseteq Obj /\ weak \subseteq Obj /\ finalized \subseteq Obj
      /\ gray \subseteq Obj /\ doomed \subseteq Obj /\ Lists(K, color, gray, grayagain, weak)
      /\ Listed(K, color, udata, tmudata)
      /\ ref \in [Obj -> [Field -> Value]] /\ K \in [Obj -> Kinds] /\ color \in [Obj -> Colors]
      /\ open \in [Obj -> {<<>>} \cup (Obj \X Slot)]
      /\ K[Main] = "thread" /\ K[Registry] = "table"
  BY <1>2, <1>3, StepParts
<1>5. \A x \in Obj : color[x] # "dead" BY <1>2, <1>4, NoDead
<1>6. /\ BlackDark(ref, color, wait) /\ GrayListed(K, color, gray, grayagain, weak)
      /\ Dark(color, Main) /\ Dark(color, Registry) /\ OpenDark(K, ref, open, color)
      /\ Dark(color, running) /\ Dark(color, gmt)
      /\ WeakDark(shape.events, ref, color, weak)
      /\ ThreadsDark(K, ref, color, grayagain) /\ WaitDark(K, ref, color, wait, finalized)
  BY <1>2, <1>3 DEF Core, Marked, Tri, AtomicInv
<1>7. wait = Waiting /\ \A u \in wait : u \in Obj /\ K[u] = "userdata" /\ color[u] = "black"
  BY <1>4, <1>6, WaitingUserdata DEF Waiting, Ran, WaitDark
<1>8. \A h \in weak : h \in Obj /\ K[h] = "table" /\ color[h] = "gray" BY <1>4 DEF Lists
<1>9. \A x \in spared : x \in Obj /\ K[x] = "string" BY DEF Spared, Of, kind
<1> HIDE DEF spared, wait
<1>10. ASSUME NEW x \in Obj
       PROVE  /\ color[x] = "white" => color'[x] = (IF x \in spared THEN "gray" ELSE "dead")
              /\ color[x] # "white" => color'[x] = color[x]
  BY <1>1, <1>5 DEF iswhite
<1>11. \A x \in Obj : color'[x] \in Colors BY <1>4, <1>10 DEF Colors
<1>12. color' \in [Obj -> Colors]
  <2> DEFINE e(o) == IF ~iswhite(o) THEN color[o]
                     ELSE IF o \in spared THEN "gray"
                     ELSE IF color[o] = "white" THEN "dead" ELSE "white"
  <2>1. color' = [o \in Obj |-> e(o)] BY <1>1
  <2> HIDE DEF e
  <2> QED BY <1>11, <2>1
<1>13. /\ \A x \in Value : x # Nil /\ Dark(color, x) => Ok(color', x)
       /\ \A x \in Obj : x \in spared /\ Ok(color, x) => Ok(color', x)
       /\ \A x \in Obj : Ok(color', x) => color[x] \in {"gray", "black"} \/ x \in spared
       /\ \A x \in Obj : color'[x] = "free" <=> color[x] = "free"
       /\ \A x \in Obj : color'[x] = "black" <=> color[x] = "black"
       /\ \A x \in Obj : color'[x] = "gray" => color[x] = "gray" \/ x \in spared
       /\ \A x \in Obj : color'[x] = "dead" => color[x] = "white"
  BY <1>4, <1>5, <1>10 DEF Dark, Ok, Value, Colors
<1>14. ASSUME NEW x \in Obj
       PROVE  /\ ref'[x] \in [Field -> Value]
              /\ \A f \in Field : ref'[x][f] = ref[x][f] \/ ref'[x][f] = Nil
              /\ x \notin weak => ref'[x] = ref[x]
              /\ x \in weak => /\ ref'[x]["mt"] = ref[x]["mt"]
                               /\ ref'[x]["v"] # Nil => ref'[x] = ref[x] /\ ~Clears(x)
  <2>0. ref[x] \in [Field -> Value] BY <1>4
  <2>1. CASE x \in weak /\ Clears(x)
    <3>1. ref'[x] = [ref[x] EXCEPT !["k"] = Nil, !["v"] = Nil] BY <1>1, <2>1
    <3>2. "k" \in Field /\ "v" \in Field /\ "mt" \in Field BY FieldNames
    <3> QED BY <2>0, <2>1, <3>1, <3>2 DEF Value
  <2>2. CASE ~(x \in weak /\ Clears(x))
    <3>1. ref'[x] = ref[x] BY <1>1, <2>2
    <3> QED BY <2>0, <2>2, <3>1
  <2> QED BY <2>1, <2>2
<1>15. ref' \in [Obj -> [Field -> Value]]
  <2> DEFINE e(o) == IF o \in weak /\ Clears(o)
                     THEN [ref[o] EXCEPT !["k"] = Nil, !["v"] = Nil] ELSE ref[o]
  <2>1. ref' = [o \in Obj |-> e(o)] BY <1>1
  <2> HIDE DEF e
  <2> QED BY <1>14, <2>1
<1>16. \A x \in Obj : K[x] # "table" => ref'[x] = ref[x] BY <1>8, <1>14
<1>17. Heap(K, ref', open, color')
  <2>1. HeapType(K, ref', open, color') BY <1>4, <1>12, <1>15 DEF HeapType
  <2>2. HeapFits(K, ref')
    <3>1. SUFFICES ASSUME NEW x \in Obj, NEW f \in Field, ref'[x][f] # Nil
                   PROVE  Fits(K, x, f, ref'[x][f])
      BY DEF HeapFits
    <3>2. ref'[x][f] = ref[x][f] BY <1>14, <3>1
    <3> QED BY <1>4, <3>1, <3>2 DEF Heap, HeapFits
  <2>3. Born(K, ref', open, color')
    <3>1. \A x \in Obj : color[x] = "free" => ref'[x] = ref[x] BY <1>8, <1>14
    <3> QED BY <1>4, <1>13, <1>16, <3>1 DEF Heap, Born
  <2>4. OpenFits(K, ref', open, color')
    <3>1. SUFFICES ASSUME NEW x \in Obj, open[x] # <<>>
                   PROVE  /\ K[x] = "upval" /\ K[open[x][1]] = "thread"
                          /\ color'[open[x][1]] # "free"
                          /\ ref'[x]["v"] = Nil /\ color'[x] # "black"
      BY DEF OpenFits
    <3>2. /\ K[x] = "upval" /\ K[open[x][1]] = "thread" /\ color[open[x][1]] # "free"
          /\ ref[x]["v"] = Nil /\ color[x] # "black"
      BY <1>4, <3>1 DEF Heap, OpenFits
    <3>3. open[x][1] \in Obj BY <1>4, <3>1, OpenPair
    <3> QED BY <1>13, <1>16, <3>2, <3>3
  <2>5. Tints(K, open, color') BY <1>4, <1>9, <1>13 DEF Heap, Tints
  <2> QED BY <2>1, <2>2, <2>3, <2>4, <2>5 DEF Heap
<1>18. Held(K, ref', open, color')
  <2>1. SUFFICES ASSUME NEW x \in Obj, Ok(color', x)
                 PROVE  /\ \A f \in Field : Refers(K, ref', x, f) => Ok(color', ref'[x][f])
                        /\ open[x] # <<>> => \/ Val(ref', open, x) = Nil
                                             \/ Ok(color', Val(ref', open, x))
    BY DEF Held
  <2>2. color[x] \in {"gray", "black"} \/ x \in spared BY <1>13, <2>1
  <2>3. \A f \in Field : ref[x][f] # Nil => f \in FieldsOf(K[x])
    BY <1>4 DEF Heap, HeapFits, Fits
  <2>4. ASSUME NEW f \in Field, Refers(K, ref', x, f) PROVE Ok(color', ref'[x][f])
    <3>1. ref'[x][f] # Nil /\ ref'[x][f] = ref[x][f] /\ ref[x][f] \in Value
      BY <1>4, <1>14, <2>4 DEF Refers
    <3>2. SUFFICES Dark(color, ref[x][f]) \/ (ref[x][f] \in spared /\ Ok(color, ref[x][f]))
      BY <1>9, <1>13, <3>1
    <3>3. CASE color[x] = "black"
      BY <1>6, <3>3 DEF BlackDark, WaitDark
    <3>4. CASE x \in spared
      <4>1. K[x] = "string" BY <1>9, <3>4
      <4> QED BY <2>3, <3>1, <4>1 DEF FieldsOf
    <3>5. CASE color[x] = "gray" /\ K[x] \in Queue
      <4>1. x \in grayagain \/ x \in weak BY <1>6, <3>5 DEF GrayListed
      <4>2. CASE x \in grayagain BY <1>6, <4>2 DEF ThreadsDark
      <4>3. CASE x \in weak
        <5>1. K[x] = "table" BY <1>8, <4>3
        <5>2. f \in {"mt", "k", "v"} BY <2>3, <3>1, <5>1 DEF FieldsOf
        <5>3. CASE f = "mt" BY <1>6, <4>3, <5>3 DEF WeakDark, TableDark
        <5>4. CASE f \in {"k", "v"}
          <6>1. ref'[x]["v"] # Nil BY <2>4, <5>1, <5>4 DEF Refers
          <6>2. ref'[x] = ref[x] /\ ~Clears(x) /\ ref[x]["v"] # Nil BY <1>14, <4>3, <6>1
          <6>3. ~iscleared(ref[x]["k"], TRUE) /\ ~iscleared(ref[x]["v"], FALSE)
            BY <6>2 DEF Clears
          <6>4. ref[x][f] \in Obj /\ Ok(color, ref[x][f])
            <7>1. Refers(K, ref, x, f) BY <3>1, <6>2 DEF Refers
            <7>2. Ok(color, x) BY <3>5 DEF Ok
            <7> QED BY <1>4, <7>1, <7>2, ReadOk
          <6>5. CASE K[ref[x][f]] = "string"
            <7>1. ref[x][f] \in Of("string") BY <6>4, <6>5 DEF Of, kind
            <7>2. ref[x][f] \in Spared(x) BY <5>4, <6>2, <6>3, <7>1 DEF Spared
            <7> QED BY <4>3, <6>4, <7>2 DEF spared
          <6>6. CASE K[ref[x][f]] # "string"
            <7>1. ~iswhite(ref[x][f]) BY <3>1, <5>4, <6>3, <6>6 DEF iscleared, kind
            <7> QED BY <1>4, <6>4, <7>1 DEF iswhite, Ok, Dark, Colors
          <6> QED BY <6>5, <6>6
        <5> QED BY <5>2, <5>3, <5>4
      <4> QED BY <4>1, <4>2, <4>3
    <3>6. CASE color[x] = "gray" /\ K[x] \notin Queue
      <4>1. K[x] # "userdata" BY <1>4, <3>6 DEF Heap, Tints
      <4>2. f \in FieldsOf(K[x]) BY <2>3, <3>1
      <4>3. K[x] = "upval" /\ f = "v"
        <5>1. K[x] \in {"string", "upval", "unused"} BY <1>4, <3>6, <4>1 DEF Queue, Kinds
        <5>2. FieldsOf("string") = {} /\ FieldsOf("unused") = {} /\ FieldsOf("upval") = {"v"}
          BY DEF FieldsOf
        <5> QED BY <4>2, <5>1, <5>2
      <4>4. open[x] # <<>> BY <1>4, <3>6, <4>3 DEF Heap, Tints
      <4>5. ref[x]["v"] = Nil BY <1>4, <4>4 DEF Heap, OpenFits
      <4> QED BY <3>1, <4>3, <4>5
    <3> QED BY <2>2, <3>3, <3>4, <3>5, <3>6
  <2>5. ASSUME open[x] # <<>> PROVE Val(ref', open, x) = Nil \/ Ok(color', Val(ref', open, x))
    <3>1. /\ K[x] = "upval" /\ K[open[x][1]] = "thread" /\ color[x] # "black"
          /\ open[x][1] \in Obj
      BY <1>4, <2>5, OpenPair DEF Heap, OpenFits
    <3>2. color[x] = "gray" BY <1>9, <2>2, <3>1
    <3>3. Val(ref', open, x) = Val(ref, open, x)
      <4>1. ref'[open[x][1]] = ref[open[x][1]] BY <1>16, <3>1
      <4> QED BY <2>5, <4>1 DEF Val
    <3>4. Dark(color, Val(ref, open, x)) /\ Val(ref, open, x) \in Value
      BY <1>4, <1>6, <3>1, <3>2, ValType DEF OpenDark
    <3> QED BY <1>13, <3>3, <3>4
  <2> QED BY <2>4, <2>5
<1>19. RootsOk(K, color', running, gmt)
  <2>1. /\ running \in Obj /\ K[running] = "thread" /\ gmt \in Value
        /\ gmt # Nil => K[gmt] = "table"
    BY <1>4 DEF RootsOk
  <2>2. Main \in Obj /\ Registry \in Obj /\ Nil \notin Obj BY IdAssumption DEF Obj
  <2> QED BY <1>6, <1>13, <2>1, <2>2 DEF RootsOk, Value
<1>20. Listed(K, color', udata, tmudata) BY <1>4, <1>13, SameListed
<1>21. SweepInv(K, open, color', "sweepstring", AllStrings, RootList, wait, finalized)
  <2>1. /\ \A x \in Obj : x \in AllStrings <=> K[x] = "string" /\ color[x] # "free"
        /\ \A x \in Obj : x \in RootList <=> /\ color[x] # "free" /\ K[x] # "string"
                                             /\ open[x] = <<>> /\ x \notin wait
        /\ AllStrings \subseteq Obj /\ RootList \subseteq Obj
    BY <1>7 DEF AllStrings, RootList, Of, kind, Live
  <2>2. ASSUME NEW x \in Obj, color'[x] = "dead"
        PROVE  x \notin wait /\ (K[x] = "userdata" => x \in finalized)
    <3>1. color[x] = "white" BY <1>13, <2>2
    <3> QED BY <1>6, <1>7, <3>1 DEF WaitDark, White
  <2>3. ASSUME NEW x \in Obj, color'[x] \in {"dead", "gray", "black"}
        PROVE  \/ x \in AllStrings \cup RootList
               \/ open[x] # <<>> /\ open[x][1] \in RootList
               \/ color'[x] = "black" /\ x \in wait
    <3>1. color[x] # "free" BY <1>13, <2>3
    <3>2. CASE x \in wait BY <1>7, <1>13, <3>2
    <3>3. CASE open[x] # <<>>
      <4>1. open[x][1] \in Obj /\ K[open[x][1]] = "thread" /\ color[open[x][1]] # "free"
        BY <1>4, <3>3, OpenPair DEF Heap, OpenFits
      <4>2. open[open[x][1]] = <<>> BY <1>4, <4>1 DEF Heap, OpenFits
      <4>3. open[x][1] \notin wait BY <1>7, <4>1
      <4> QED BY <2>1, <3>3, <4>1, <4>2, <4>3
    <3> QED BY <2>1, <3>1, <3>2, <3>3
  <2>4. "sweepstring" \in Sweeping BY DEF Sweeping
  <2> QED BY <1>13, <2>1, <2>2, <2>3, <2>4 DEF SweepInv
<1>22. CallsInv(calls, "sweepstring") BY StepCalls DEF Sweeping
<1>23. "sweepstring" \notin Marking BY DEF Marking, Atomic
<1> QED BY <1>1, <1>4, <1>17, <1>18, <1>19, <1>20, <1>21, <1>22, <1>23, CoreThen DEF wait

(* Sweeping a group G of objects that has the open upvalues of its threads *)
(* frees the dead ones, F, and whitens the rest; the upvalues of a thread  *)
(* that is freed are closed.                                               *)
Group(G, F, closed) ==
  /\ \A x \in G : x \in Obj /\ color[x] # "free"
  /\ \A x \in Obj : open[x] # <<>> /\ open[x][1] \in G => x \in G
  /\ \A x \in Obj : x \in F <=> x \in G /\ color[x] = "dead"
  /\ \A x \in Obj : x \in closed <=> x \in G \ F /\ open[x] # <<>> /\ open[x][1] \in F
  /\ F \subseteq Obj /\ closed \subseteq Obj

(* A step that sweeps such a group.                                        *)
Swept(G, F, closed) ==
  /\ Group(G, F, closed)
  /\ color' \in [Obj -> Colors] /\ ref' \in [Obj -> [Field -> Value]]
  /\ open' \in [Obj -> {<<>>} \cup (Obj \X Slot)]
  /\ \A x \in Obj : color'[x] = IF x \in F THEN "free"
                                 ELSE IF x \in G THEN "white" ELSE color[x]
  /\ \A x \in Obj : ref'[x] = IF x \in F THEN Empty
                               ELSE IF x \in closed
                                    THEN [ref[x] EXCEPT !["v"] = UpvalValue(x)] ELSE ref[x]
  /\ \A x \in Obj : open'[x] = IF x \in F \cup closed THEN <<>> ELSE open[x]
  /\ sweepstr' = sweepstr \ G /\ sweepgc' = sweepgc \ G
  /\ doomed' = doomed \ F /\ udata' = Kept(udata, Obj \ F) /\ finalized' = finalized \ F
  /\ UNCHANGED <<gmt, tmudata, gcstate, gray, grayagain, weak>>

(* Sweeping such a group keeps the inductive invariant.                    *)
LEMMA SweptInv ==
  ASSUME IInv, Core, gcstate \in Sweeping, NEW G, NEW F, NEW closed, Swept(G, F, closed),
         UNCHANGED <<shape, running, failed, calls>>
  PROVE  IInv'
<1> DEFINE K == shape.kind
<1> USE DEF Swept
<1>1. /\ Heap(K, ref, open, color) /\ Held(K, ref, open, color) /\ RootsOk(K, color, running, gmt)
      /\ SweepInv(K, open, color, gcstate, sweepstr, sweepgc, Ran(tmudata), finalized)
      /\ grayagain \subseteq Obj /\ weak \subseteq Obj /\ finalized \subseteq Obj
      /\ gray \subseteq Obj /\ doomed \subseteq Obj /\ Listed(K, color, udata, tmudata)
      /\ ref \in [Obj -> [Field -> Value]] /\ K \in [Obj -> Kinds] /\ color \in [Obj -> Colors]
      /\ open \in [Obj -> {<<>>} \cup (Obj \X Slot)]
      /\ K[Main] = "thread" /\ K[Registry] = "table"
  BY StepParts
<1>2. /\ \A x \in G : x \in Obj /\ color[x] # "free"
      /\ \A x \in Obj : open[x] # <<>> /\ open[x][1] \in G => x \in G
      /\ \A x \in Obj : x \in F <=> x \in G /\ color[x] = "dead"
      /\ \A x \in Obj : x \in closed <=> x \in G \ F /\ open[x] # <<>> /\ open[x][1] \in F
      /\ F \subseteq Obj /\ closed \subseteq Obj
  BY DEF Group
<1>3. ASSUME NEW x \in Obj, open[x] # <<>>
      PROVE  /\ open[x][1] \in Obj /\ open[x][2] \in Field /\ K[x] = "upval"
             /\ K[open[x][1]] = "thread" /\ color[open[x][1]] # "free"
             /\ ref[x]["v"] = Nil /\ color[x] # "black" /\ open[x][1] \notin closed
  <2>1. /\ K[x] = "upval" /\ K[open[x][1]] = "thread" /\ color[open[x][1]] # "free"
        /\ ref[x]["v"] = Nil /\ color[x] # "black"
    BY <1>1, <1>3 DEF Heap, OpenFits
  <2>2. open[x][1] \in Obj /\ open[x][2] \in Field BY <1>1, <1>3, OpenPair
  <2>3. \A y \in closed : K[y] = "upval" BY <1>1, <1>2 DEF Heap, OpenFits
  <2> QED BY <2>1, <2>2, <2>3
<1>4. ASSUME NEW x \in closed
      PROVE  /\ x \in Obj /\ K[x] = "upval" /\ Ok(color, x) /\ UpvalValue(x) = Val(ref, open, x)
             /\ \A f \in Field : ref'[x][f] = IF f = "v" THEN Val(ref, open, x) ELSE ref[x][f]
  <2>1. x \in Obj /\ K[x] = "upval" /\ x \in G /\ x \notin F BY <1>2, <1>3
  <2>2. Ok(color, x) BY <1>2, <2>1 DEF Ok
  <2>3. UpvalValue(x) = Val(ref, open, x) BY DEF UpvalValue, Val
  <2>4. ref'[x] = [ref[x] EXCEPT !["v"] = Val(ref, open, x)] /\ ref[x] \in [Field -> Value]
    BY <1>1, <2>1, <2>3
  <2> QED BY <2>1, <2>2, <2>3, <2>4
<1>5. \A x \in Obj : x \notin F /\ x \notin closed => ref'[x] = ref[x] /\ open'[x] = open[x]
  OBVIOUS
<1>6. \A x \in Obj : Ok(color', x) <=> Ok(color, x) BY <1>2 DEF Ok
<1>7. \A x \in Obj : color'[x] = "free" <=> color[x] = "free" \/ x \in F BY <1>2
<1>8. \A x \in Obj : color'[x] \in {"dead", "gray", "black"} => x \notin G /\ color'[x] = color[x]
  BY <1>2
<1>9. ASSUME NEW x \in Obj, open'[x] # <<>>
      PROVE  /\ open'[x] = open[x] /\ x \notin F /\ x \notin closed
             /\ open[x][1] \notin F /\ open[x][1] \notin closed
             /\ ref'[open[x][1]] = ref[open[x][1]]
  <2>1. open'[x] = open[x] /\ x \notin F /\ x \notin closed BY <1>9
  <2>2. open[x] # <<>> BY <1>9, <2>1
  <2>3. open[x][1] \in Obj /\ open[x][1] \notin closed BY <1>3, <2>2
  <2>4. open[x][1] \notin F BY <1>2, <2>1, <2>2, <2>3
  <2> QED BY <1>5, <2>1, <2>3, <2>4
<1>10. Heap(K, ref', open', color')
  <2>1. HeapType(K, ref', open', color') BY <1>1 DEF HeapType
  <2>2. HeapFits(K, ref')
    <3>1. SUFFICES ASSUME NEW x \in Obj, NEW f \in Field, ref'[x][f] # Nil
                   PROVE  Fits(K, x, f, ref'[x][f])
      BY DEF HeapFits
    <3>2. CASE x \in F BY <3>1, <3>2 DEF Empty
    <3>3. CASE x \in closed
      <4>1. CASE f = "v"
        <5>1. ref'[x][f] = Val(ref, open, x) BY <1>4, <3>3, <4>1
        <5>2. K[ref'[x][f]] # "upval" BY <1>1, <3>1, <5>1, ValType
        <5> QED BY <1>4, <3>3, <4>1, <5>2 DEF Fits, FieldsOf
      <4>2. CASE f # "v"
        <5>1. ref'[x][f] = ref[x][f] BY <1>4, <3>3, <4>2
        <5> QED BY <1>1, <3>1, <5>1 DEF Heap, HeapFits
      <4> QED BY <4>1, <4>2
    <3>4. CASE x \notin F /\ x \notin closed BY <1>1, <1>5, <3>1, <3>4 DEF Heap, HeapFits
    <3> QED BY <3>2, <3>3, <3>4
  <2>3. Born(K, ref', open', color')
    <3>1. SUFFICES ASSUME NEW x \in Obj
                   PROVE  /\ color'[x] = "free" => ref'[x] = Empty /\ open'[x] = <<>>
                          /\ color'[x] # "free" /\ K[x] = "lclosure" => ref'[x]["up"] # Nil
                          /\ color'[x] # "free" /\ K[x] = "thread" => ref'[x]["env"] # Nil
                          /\ K[x] = "unused" => color'[x] = "free"
      BY DEF Born
    <3>2. CASE x \in F BY <1>7, <3>2
    <3>3. CASE x \in closed BY <1>2, <1>4, <1>7, <3>3
    <3>4. CASE x \notin F /\ x \notin closed
      <4>1. ref'[x] = ref[x] /\ open'[x] = open[x] /\ (color'[x] = "free" <=> color[x] = "free")
        BY <1>5, <1>7, <3>4
      <4> QED BY <1>1, <4>1 DEF Heap, Born
    <3> QED BY <3>2, <3>3, <3>4
  <2>4. OpenFits(K, ref', open', color')
    <3>1. SUFFICES ASSUME NEW x \in Obj, open'[x] # <<>>
                   PROVE  /\ K[x] = "upval" /\ K[open'[x][1]] = "thread"
                          /\ color'[open'[x][1]] # "free"
                          /\ ref'[x]["v"] = Nil /\ color'[x] # "black"
      BY DEF OpenFits
    <3>2. /\ open'[x] = open[x] /\ x \notin F /\ x \notin closed /\ open[x][1] \notin F
      BY <1>9, <3>1
    <3>3. /\ open[x][1] \in Obj /\ K[x] = "upval" /\ K[open[x][1]] = "thread"
          /\ color[open[x][1]] # "free" /\ ref[x]["v"] = Nil /\ color[x] # "black"
      BY <1>3, <3>1, <3>2
    <3> QED BY <1>5, <1>7, <1>8, <3>2, <3>3
  <2>5. Tints(K, open', color')
    <3>1. SUFFICES ASSUME NEW x \in Obj, color'[x] \in {"gray", "black"}
                   PROVE  /\ K[x] = "thread" => color'[x] # "black"
                          /\ K[x] = "userdata" => color'[x] # "gray"
                          /\ K[x] = "upval" /\ color'[x] = "gray" => open'[x] # <<>>
      BY DEF Tints
    <3>2. x \notin F /\ x \notin closed /\ color'[x] = color[x] BY <1>2, <1>8, <3>1
    <3> QED BY <1>1, <1>5, <3>1, <3>2 DEF Heap, Tints
  <2> QED BY <2>1, <2>2, <2>3, <2>4, <2>5 DEF Heap
<1>11. Held(K, ref', open', color')
  <2>1. SUFFICES ASSUME NEW x \in Obj, Ok(color, x)
                 PROVE  /\ \A f \in Field : Refers(K, ref', x, f) => Ok(color', ref'[x][f])
                        /\ open'[x] # <<>> => \/ Val(ref', open', x) = Nil
                                              \/ Ok(color', Val(ref', open', x))
    BY <1>6 DEF Held
  <2>2. x \notin F BY <1>2, <2>1 DEF Ok
  <2>3. ASSUME NEW f \in Field, Refers(K, ref', x, f) PROVE Ok(color', ref'[x][f])
    <3>1. ref'[x][f] # Nil BY <2>3 DEF Refers
    <3>2. CASE x \in closed
      <4>1. CASE f = "v"
        <5>1. ref'[x][f] = Val(ref, open, x) BY <1>4, <3>2, <4>1
        <5>2. ref'[x][f] \in Obj /\ Ok(color, ref'[x][f])
          BY <1>1, <1>4, <3>1, <3>2, <5>1, ReadUpval
        <5> QED BY <1>6, <5>2
      <4>2. CASE f # "v"
        <5>1. ref'[x][f] = ref[x][f] /\ Refers(K, ref, x, f)
          BY <1>4, <3>1, <3>2, <4>2 DEF Refers
        <5> QED BY <1>1, <1>6, <2>1, <5>1, ReadOk
      <4> QED BY <4>1, <4>2
    <3>3. CASE x \notin closed
      <4>1. ref'[x] = ref[x] BY <1>5, <2>2, <3>3
      <4>2. Refers(K, ref, x, f) BY <2>3, <4>1 DEF Refers
      <4> QED BY <1>1, <1>6, <2>1, <4>1, <4>2, ReadOk
    <3> QED BY <3>2, <3>3
  <2>4. ASSUME open'[x] # <<>>, Val(ref', open', x) # Nil PROVE Ok(color', Val(ref', open', x))
    <3>1. open'[x] = open[x] /\ ref'[open[x][1]] = ref[open[x][1]] BY <1>9, <2>4
    <3>2. Val(ref', open', x) = Val(ref, open, x) BY <2>4, <3>1 DEF Val
    <3>3. K[x] = "upval" BY <1>3, <2>4, <3>1
    <3> QED BY <1>1, <1>6, <2>1, <2>4, <3>2, <3>3, ReadUpval
  <2> QED BY <2>3, <2>4
<1>12. RootsOk(K, color', running, gmt) BY <1>1, <1>6 DEF RootsOk, Value, Obj
<1>13. Listed(K, color', udata', tmudata')
  <2>1. /\ udata \in Seq(Obj) /\ tmudata \in Seq(Obj) /\ Once(udata) /\ Once(tmudata)
        /\ Ran(udata) \cap Ran(tmudata) = {}
        /\ Ran(udata) \cup Ran(tmudata) = {u \in Obj : K[u] = "userdata" /\ color[u] # "free"}
    BY <1>1 DEF Listed
  <2>2. /\ udata' \in Seq(Obj) /\ Once(udata') /\ Ran(udata') = Ran(udata) \cap (Obj \ F)
    BY <2>1, KeptLemma
  <2>3. \A x \in F : x \notin Ran(tmudata) BY <1>1, <1>2 DEF SweepInv
  <2>4. Ran(udata') \cup Ran(tmudata) = {u \in Obj : K[u] = "userdata" /\ color'[u] # "free"}
    BY <1>7, <2>1, <2>2, <2>3
  <2>5. Ran(udata') \cap Ran(tmudata) = {} BY <2>1, <2>2
  <2> QED BY <2>1, <2>2, <2>4, <2>5 DEF Listed
<1>14. SweepInv(K, open', color', gcstate, sweepstr', sweepgc', Ran(tmudata), finalized')
  <2>1. ASSUME NEW x \in Obj, color'[x] \in {"dead", "gray", "black"}
        PROVE  \/ x \in sweepstr' \cup sweepgc'
               \/ open'[x] # <<>> /\ open'[x][1] \in sweepgc'
               \/ color'[x] = "black" /\ x \in Ran(tmudata)
    <3>1. x \notin G /\ color'[x] = color[x] BY <1>8, <2>1
    <3>2. x \notin F /\ x \notin closed BY <1>2, <3>1
    <3>3. \/ x \in sweepstr \cup sweepgc
          \/ open[x] # <<>> /\ open[x][1] \in sweepgc
          \/ color[x] = "black" /\ x \in Ran(tmudata)
      BY <1>1, <2>1, <3>1 DEF SweepInv, Sweeping, Marking, Atomic
    <3>4. open[x] # <<>> => open[x][1] \notin G BY <1>2, <3>1
    <3>5. open'[x] = open[x] BY <1>5, <3>2
    <3> QED BY <3>1, <3>3, <3>4, <3>5
  <2>2. \A x \in Obj : color'[x] = "dead" => /\ x \notin Ran(tmudata)
                                             /\ K[x] = "userdata" => x \in finalized'
    BY <1>1, <1>2, <1>8 DEF SweepInv
  <2>3. \A x \in sweepstr' : x \in Obj /\ color'[x] # "free" /\ K[x] = "string"
    BY <1>1, <1>2, <1>7 DEF SweepInv
  <2>4. \A x \in sweepgc' : x \in Obj /\ color'[x] # "free" /\ K[x] # "string" /\ open'[x] = <<>>
    BY <1>1, <1>2, <1>7 DEF SweepInv
  <2>5. gcstate # "sweepstring" => sweepstr' = {} BY <1>1 DEF SweepInv
  <2> QED BY <2>1, <2>2, <2>3, <2>4, <2>5 DEF SweepInv
<1>15. gcstate \notin Marking BY DEF Sweeping, Marking, Atomic
<1>16. CallsInv(calls', gcstate') BY DEF IInv
<1>17. gcstate \in {"pause", "propagate", "sweepstring", "sweep", "finalize"} \cup Atomic
  BY DEF Sweeping
<1>18. finalized' \subseteq Obj /\ doomed' \subseteq Obj BY <1>1
<1> QED BY <1>1, <1>10, <1>11, <1>12, <1>13, <1>14, <1>15, <1>16, <1>17, <1>18, CoreThen

(* sweepstring sweeps one string.                                          *)
LEMMA SweepStringSwept ==
  ASSUME IInv, MaySweep \/ (Top("sweep") /\ gcstate # "finalize"), gcstate = "sweepstring",
         NEW o \in sweepstr, SweepString(o)
  PROVE  Core /\ gcstate \in Sweeping /\ \E H, E, C : Swept(H, E, C)
<1> DEFINE K == shape.kind
           F == {o} \cap {s \in Obj : isdead(s)}
<1>1. /\ sweepstr' = sweepstr \ {o}
      /\ color' = [color EXCEPT ![o] = IF isdead(o) THEN "free" ELSE "white"]
      /\ ref' = [x \in Obj |-> IF x \in F THEN Empty ELSE ref[x]]
      /\ open' = [x \in Obj |-> IF x \in F THEN <<>> ELSE open[x]]
      /\ doomed' = doomed \ F /\ udata' = Kept(udata, Obj \ F) /\ finalized' = finalized \ F
      /\ UNCHANGED <<gmt, tmudata, gcstate, gray, grayagain, weak, sweepgc>>
  BY DEF SweepString, Freed, listVars
<1>2. Core /\ gcstate \in Sweeping BY StepFacts DEF Sweeping
<1>3. /\ SweepInv(K, open, color, gcstate, sweepstr, sweepgc, Ran(tmudata), finalized)
      /\ ref \in [Obj -> [Field -> Value]] /\ color \in [Obj -> Colors]
      /\ open \in [Obj -> {<<>>} \cup (Obj \X Slot)] /\ K[Main] = "thread"
      /\ Heap(K, ref, open, color)
  BY <1>2, StepParts
<1>4. o \in Obj /\ color[o] # "free" /\ K[o] = "string" /\ o \notin sweepgc
  BY <1>3 DEF SweepInv
<1>5. \A x \in Obj : x \in F <=> x = o /\ color[x] = "dead" BY <1>3, <1>4 DEF isdead
<1>6. F \subseteq Obj OBVIOUS
<1>7. isdead(o) <=> o \in F BY <1>4
<1> HIDE DEF F
<1>8. Group({o}, F, {})
  <2>1. \A x \in Obj : open[x] # <<>> => K[open[x][1]] = "thread" BY <1>3 DEF Heap, OpenFits
  <2>2. \A x \in Obj : open[x] # <<>> => open[x][1] # o /\ open[x][1] \notin F
    BY <1>4, <1>5, <1>6, <2>1
  <2> QED BY <1>4, <1>5, <1>6, <2>2 DEF Group
<1>9. \A x \in Obj : color'[x] = IF x \in F THEN "free" ELSE IF x \in {o} THEN "white" ELSE color[x]
  BY <1>1, <1>3, <1>4, <1>5, <1>7
<1>10. color' \in [Obj -> Colors] BY <1>1, <1>3 DEF Colors
<1>11. Empty \in [Field -> Value] BY DEF Empty, Value
<1>12. ref' \in [Obj -> [Field -> Value]] BY <1>1, <1>3, <1>11
<1>13. open' \in [Obj -> {<<>>} \cup (Obj \X Slot)] BY <1>1, <1>3
<1>14. sweepgc' = sweepgc \ {o} BY <1>1, <1>4
<1>15. \A x \in Obj : ref'[x] = IF x \in F THEN Empty
                                ELSE IF x \in {}
                                     THEN [ref[x] EXCEPT !["v"] = UpvalValue(x)] ELSE ref[x]
  BY <1>1
<1>16. \A x \in Obj : open'[x] = IF x \in F \cup {} THEN <<>> ELSE open[x] BY <1>1
<1>17. Swept({o}, F, {})
  BY <1>1, <1>8, <1>9, <1>10, <1>12, <1>13, <1>14, <1>15, <1>16 DEF Swept
<1> QED BY <1>2, <1>17

(* sweeplist: one object, with its open upvalues if it is a thread.        *)
LEMMA SweepObjectSwept ==
  ASSUME IInv, MaySweep \/ (Top("sweep") /\ gcstate # "finalize"), gcstate = "sweep",
         NEW o \in sweepgc, SweepObject(o)
  PROVE  Core /\ gcstate \in Sweeping /\ \E H, E, C : Swept(H, E, C)
<1> DEFINE K == shape.kind
           G == {o} \cup OpenOf(o)
           F == {x \in G : isdead(x)}
           closed == IF isdead(o) THEN OpenOf(o) \ F ELSE {}
<1>1. /\ sweepgc' = sweepgc \ {o}
      /\ color' = [x \in Obj |-> IF x \in F THEN "free"
                                 ELSE IF x \in G THEN "white" ELSE color[x]]
      /\ ref' = [x \in Obj |-> IF x \in F THEN Empty
                               ELSE IF x \in closed THEN [ref[x] EXCEPT !["v"] = UpvalValue(x)]
                               ELSE ref[x]]
      /\ open' = [x \in Obj |-> IF x \in F \cup closed THEN <<>> ELSE open[x]]
      /\ doomed' = doomed \ F /\ udata' = Kept(udata, Obj \ F) /\ finalized' = finalized \ F
      /\ UNCHANGED <<gmt, tmudata, gcstate, gray, grayagain, weak, sweepstr>>
  BY DEF SweepObject, listVars
<1>2. Core /\ gcstate \in Sweeping BY StepFacts DEF Sweeping
<1>3. /\ SweepInv(K, open, color, gcstate, sweepstr, sweepgc, Ran(tmudata), finalized)
      /\ ref \in [Obj -> [Field -> Value]] /\ color \in [Obj -> Colors]
      /\ open \in [Obj -> {<<>>} \cup (Obj \X Slot)] /\ K[Main] = "thread"
      /\ Heap(K, ref, open, color) /\ RootsOk(K, color, running, gmt)
  BY <1>2, StepParts
<1>4. o \in Obj /\ color[o] # "free" /\ open[o] = <<>> /\ sweepstr = {}
  BY <1>3 DEF SweepInv
<1>5. \A x \in Obj : isdead(x) <=> color[x] = "dead"
  BY <1>3 DEF isdead, RootsOk, Ok
<1>6. \A x \in Obj : x \in OpenOf(o) <=> open[x] # <<>> /\ open[x][1] = o
  BY <1>3 DEF OpenOf, Of, kind, Heap, OpenFits
<1>7. OpenOf(o) \subseteq Obj BY DEF OpenOf, Of
<1>8. \A x \in Obj : open[x] # <<>> => /\ K[x] = "upval" /\ K[open[x][1]] = "thread"
                                       /\ color[x] # "free"
  BY <1>3 DEF Heap, OpenFits, Born
<1>9. Group(G, F, closed)
  <2>1. \A x \in G : x \in Obj /\ color[x] # "free" BY <1>4, <1>6, <1>7, <1>8
  <2>2. ASSUME NEW x \in Obj, open[x] # <<>>, open[x][1] \in G PROVE open[x][1] = o /\ x \in G
    <3>1. open[x][1] \in OpenOf(o) => K[open[x][1]] = "upval" BY <1>6, <1>7, <1>8
    <3>2. open[x][1] = o BY <1>8, <2>2, <3>1
    <3> QED BY <1>6, <2>2, <3>2
  <2>3. \A x \in Obj : x \in F <=> x \in G /\ color[x] = "dead" BY <1>5
  <2>4. F \subseteq Obj /\ closed \subseteq Obj BY <1>7, <2>1
  <2>5. ASSUME NEW x \in Obj
        PROVE  x \in closed <=> x \in G \ F /\ open[x] # <<>> /\ open[x][1] \in F
    <3>1. CASE isdead(o)
      <4>1. x \in closed <=> x \in OpenOf(o) /\ x \notin F BY <3>1
      <4>2. o \in F BY <3>1
      <4> HIDE DEF F, closed
      <4> QED BY <1>6, <2>2, <2>3, <4>1, <4>2
    <3>2. CASE ~isdead(o)
      <4>1. closed = {} /\ o \notin F BY <3>2
      <4> HIDE DEF F, closed
      <4> QED BY <2>2, <2>3, <2>4, <4>1
    <3> QED BY <3>1, <3>2
  <2> HIDE DEF G, F, closed
  <2> QED BY <2>1, <2>2, <2>3, <2>4, <2>5 DEF Group
<1>10. sweepgc' = sweepgc \ G /\ sweepstr' = sweepstr \ G
  <2>1. \A x \in sweepgc : x \in Obj /\ open[x] = <<>> BY <1>3 DEF SweepInv
  <2> QED BY <1>1, <1>4, <1>6, <2>1
<1>11. closed \subseteq Obj /\ F \subseteq Obj BY <1>9 DEF Group
<1> HIDE DEF G, F, closed
<1>12. color' \in [Obj -> Colors] BY <1>1, <1>3 DEF Colors
<1>13. Empty \in [Field -> Value] BY DEF Empty, Value
<1>14. ref' \in [Obj -> [Field -> Value]]
  <2>1. ASSUME NEW x \in Obj
        PROVE  [ref[x] EXCEPT !["v"] = UpvalValue(x)] \in [Field -> Value]
    <3>1. Val(ref, open, x) \in Value BY <1>3, ValType
    <3>2. UpvalValue(x) \in Value BY <3>1 DEF UpvalValue, Val
    <3> QED BY <1>3, <3>2
  <2> DEFINE e(x) == [ref[x] EXCEPT !["v"] = UpvalValue(x)]
  <2>2. \A x \in Obj : e(x) \in [Field -> Value] BY <2>1
  <2>3. ref' = [x \in Obj |-> IF x \in F THEN Empty ELSE IF x \in closed THEN e(x) ELSE ref[x]]
    BY <1>1
  <2> HIDE DEF e
  <2> QED BY <1>3, <1>13, <2>2, <2>3
<1>15. open' \in [Obj -> {<<>>} \cup (Obj \X Slot)] BY <1>1, <1>3
<1>16. /\ \A x \in Obj : color'[x] = IF x \in F THEN "free"
                                     ELSE IF x \in G THEN "white" ELSE color[x]
       /\ \A x \in Obj : ref'[x] = IF x \in F THEN Empty
                                   ELSE IF x \in closed
                                        THEN [ref[x] EXCEPT !["v"] = UpvalValue(x)] ELSE ref[x]
       /\ \A x \in Obj : open'[x] = IF x \in F \cup closed THEN <<>> ELSE open[x]
  BY <1>1
<1>17. Swept(G, F, closed)
  BY <1>1, <1>9, <1>10, <1>12, <1>14, <1>15, <1>16 DEF Swept
<1> QED BY <1>2, <1>17

(* The ends of the sweep phases and of the cycle.                          *)
LEMMA GoToInv ==
  ASSUME IInv, MaySweep \/ (Top("sweep") /\ gcstate # "finalize"), NEW st, GoTo(st),
         \/ gcstate = "sweepstring" /\ sweepstr = {} /\ st = "sweep"
         \/ gcstate = "sweep" /\ sweepgc = {} /\ st = "finalize"
         \/ gcstate = "finalize" /\ st = "pause" /\ MaySweep,
         UNCHANGED <<shape, running, failed, calls>>
  PROVE  IInv'
<1> DEFINE K == shape.kind
<1>1. /\ gcstate' = st
      /\ UNCHANGED <<ref, open, gmt, color, udata, tmudata, finalized, gray, grayagain, weak,
                     sweepstr, sweepgc, doomed>>
  BY DEF GoTo, heapVars, udataVars, listVars, sweepVars
<1>2. Core BY StepFacts
<1>3. /\ Heap(K, ref, open, color) /\ Held(K, ref, open, color) /\ RootsOk(K, color, running, gmt)
      /\ SweepInv(K, open, color, gcstate, sweepstr, sweepgc, Ran(tmudata), finalized)
      /\ grayagain \subseteq Obj /\ weak \subseteq Obj /\ finalized \subseteq Obj
      /\ gray \subseteq Obj /\ doomed \subseteq Obj /\ Listed(K, color, udata, tmudata)
  BY <1>2, StepParts
<1>4. /\ st \notin Marking /\ gcstate \notin Marking
      /\ st \in {"pause", "propagate", "sweepstring", "sweep", "finalize"} \cup Atomic
  BY DEF Marking, Atomic
<1>5. SweepInv(K, open, color, st, sweepstr, sweepgc, Ran(tmudata), finalized)
  <2>1. CASE gcstate = "sweepstring" /\ sweepstr = {} /\ st = "sweep"
    BY <1>3, <2>1 DEF SweepInv, Sweeping, Marking, Atomic
  <2>2. CASE gcstate = "sweep" /\ sweepgc = {} /\ st = "finalize"
    <3>1. sweepstr = {} BY <1>3, <2>2 DEF SweepInv
    <3>2. \A x \in Obj : color[x] \in {"dead", "gray", "black"} =>
                           color[x] = "black" /\ x \in Ran(tmudata)
      BY <1>3, <1>4, <2>2, <3>1 DEF SweepInv
    <3> QED BY <2>2, <3>1, <3>2 DEF SweepInv
  <2>3. CASE gcstate = "finalize" /\ st = "pause"
    BY <1>3, <2>3 DEF SweepInv, Sweeping, Marking, Atomic
  <2> QED BY <2>1, <2>2, <2>3
<1>6. CallsInv(calls, st)
  <2>1. TopIs(calls, "sweep") => st \in Sweeping \cup {"finalize"}
    <3>1. MaySweep => ~TopIs(calls, "sweep") BY DEF MaySweep, Top, TopIs
    <3> QED BY <3>1 DEF Sweeping
  <2> QED BY <2>1, StepCalls
<1> QED BY <1>1, <1>3, <1>4, <1>5, <1>6, CoreThen

-----------------------------------------------------------------------------
(* The C stack of collector calls                                          *)

(* A call on top of the others.                                            *)
LEMMA PushCalls ==
  ASSUME CallsInv(calls, gcstate), ~TopIs(calls, "sweep"), ~TopIs(calls, "closed"),
         NEW x \in {"sweep", "finalizer", "collect"}, NEW p, p = <<x>> \o calls
  PROVE  /\ p \in Seq({"sweep", "collect", "finalizer", "close", "closed"})
         /\ p # <<>> /\ Head(p) = x /\ Len(p) = Len(calls) + 1
         /\ \A i \in 2 .. Len(p) : p[i] \notin {"sweep", "closed"}
         /\ \A i \in 1 .. Len(p) : p[i] = "close" => i = Len(p)
         /\ Ends(p) <=> Ends(calls)
<1> DEFINE Names == {"sweep", "collect", "finalizer", "close", "closed"}
           n == Len(calls)
           a == <<x>>
<1>1. calls \in Seq(Names) /\ n \in Nat BY LenProperties DEF CallsInv
<1>2. a \in Seq(Names) /\ Len(a) = 1 /\ a[1] = x OBVIOUS
<1> HIDE DEF a
<1>3. /\ p \in Seq(Names) /\ Len(p) = 1 + n
      /\ \A i \in 1 .. 1 + n : p[i] = IF i <= 1 THEN a[i] ELSE calls[i - 1]
  <2>1. a \o calls = p BY DEF a
  <2> QED BY <1>1, <1>2, <2>1, ConcatProperties
<1>4. p[1] = x /\ Len(p) # 0
  <2>1. 1 \in 1 .. 1 + n BY <1>1
  <2> QED BY <1>1, <1>2, <1>3, <2>1
<1>5. p # <<>> /\ Head(p) = x BY <1>3, <1>4, EmptySeq, HeadTailProperties
<1>6. ASSUME NEW i \in 2 .. 1 + n PROVE p[i] = calls[i - 1] /\ i - 1 \in 1 .. n
  <2>1. i \in 1 .. 1 + n /\ ~(i <= 1) /\ i - 1 \in 1 .. n BY <1>1
  <2> QED BY <1>3, <2>1
<1>7. n > 0 => calls # <<>> /\ calls[1] \notin {"sweep", "closed"}
  <2>1. SUFFICES ASSUME n > 0 PROVE calls # <<>> /\ calls[1] \notin {"sweep", "closed"} OBVIOUS
  <2>2. calls # <<>> BY <1>1, <2>1, EmptySeq
  <2>3. Head(calls) = calls[1] BY <1>1, <2>2, HeadTailProperties
  <2> QED BY <2>2, <2>3 DEF TopIs
<1>8. ASSUME NEW i \in 2 .. 1 + n PROVE p[i] \notin {"sweep", "closed"}
  <2>1. CASE i = 2 BY <1>1, <1>6, <1>7, <2>1
  <2>2. CASE i # 2
    <3>1. i - 1 \in 2 .. n BY <1>1, <2>2
    <3>2. calls[i - 1] \notin {"sweep", "closed"} BY <3>1 DEF CallsInv
    <3> QED BY <1>6, <3>2
  <2> QED BY <2>1, <2>2
<1>9. ASSUME NEW i \in 1 .. 1 + n, p[i] = "close" PROVE i = 1 + n
  <2>1. i # 1 BY <1>4, <1>9
  <2>2. i \in 2 .. 1 + n BY <1>1, <2>1
  <2>3. calls[i - 1] = "close" /\ i - 1 \in 1 .. n BY <1>6, <1>9, <2>2
  <2>4. i - 1 = n BY <2>3 DEF CallsInv
  <2> QED BY <1>1, <2>4
<1>10. Ends(p) <=> Ends(calls)
  <2>1. CASE n = 0
    <3>1. calls = <<>> BY <1>1, <2>1, EmptySeq
    <3>2. p[Len(p)] = x BY <1>3, <1>4, <2>1
    <3> QED BY <3>1, <3>2 DEF Ends
  <2>2. CASE n # 0
    <3>1. 1 + n \in 2 .. 1 + n /\ (1 + n) - 1 = n BY <1>1, <2>2
    <3>2. p[1 + n] = calls[n] BY <1>6, <3>1
    <3>3. calls # <<>> BY <1>1, <1>7, <2>2
    <3> QED BY <1>3, <1>5, <3>2, <3>3 DEF Ends
  <2> QED BY <2>1, <2>2
<1> QED BY <1>1, <1>3, <1>5, <1>8, <1>9, <1>10

(* lua_close is the only call, when it is on top.                          *)
LEMMA CloseAlone ==
  ASSUME CallsInv(calls, gcstate), TopIs(calls, "close")
  PROVE  /\ Len(calls) = 1 /\ Ends(calls) /\ gcstate \notin Atomic
         /\ gcstate = "propagate" => Abandoned(calls, gcstate)
<1> DEFINE n == Len(calls)
<1>1. calls # <<>> /\ calls[1] = "close" /\ n \in Nat \ {0}
  <2>1. calls \in Seq({"sweep", "collect", "finalizer", "close", "closed"}) /\ calls # <<>>
    BY DEF CallsInv, TopIs
  <2>2. Head(calls) = calls[1] /\ n \in Nat /\ n # 0
    BY <2>1, LenProperties, EmptySeq, HeadTailProperties
  <2> QED BY <2>1, <2>2 DEF TopIs
<1>2. 1 \in 1 .. n BY <1>1
<1>3. n = 1 BY <1>1, <1>2 DEF CallsInv
<1>4. Ends(calls) BY <1>1, <1>3 DEF Ends
<1>5. gcstate \notin Atomic BY DEF CallsInv
<1> QED BY <1>3, <1>4, <1>5 DEF Abandoned, TopIs

(* GCTM calls one finalizer.                                               *)
LEMMA GCTMInv ==
  ASSUME IInv, tmudata # <<>>, GCTM, UNCHANGED <<shape, running, failed>>,
         (MaySweep /\ gcstate = "finalize") \/ TopIs(calls, "close")
  PROVE  IInv'
<1> DEFINE K == shape.kind
           u == Head(tmudata)
           wait == Ran(tmudata)
<1>1. /\ tmudata' = Tail(tmudata) /\ udata' = <<u>> \o udata
      /\ color' = [color EXCEPT ![u] = "white"]
      /\ \/ ref' = [ref EXCEPT ![running]["fin"] = u] /\ calls' = <<"finalizer">> \o calls
         \/ ref' = ref /\ calls' = calls
      /\ UNCHANGED <<open, gmt, finalized, gcstate, gray, grayagain, weak, sweepstr, sweepgc, doomed>>
  BY DEF GCTM, Push, listVars, sweepVars
<1>2. CallsInv(calls, gcstate) BY DEF IInv
<1>3. Core /\ ~TopIs(calls, "closed") /\ ~TopIs(calls, "sweep")
  <2>1. CASE MaySweep
    <3>1. ~TopIs(calls, "sweep") BY <2>1 DEF MaySweep, Top, TopIs
    <3> QED BY <2>1, <3>1, StepFacts
  <2>2. CASE TopIs(calls, "close")
    <3>1. ~TopIs(calls, "closed") /\ ~TopIs(calls, "sweep") BY <2>2 DEF TopIs
    <3> QED BY <3>1 DEF IInv, Over
  <2> QED BY <2>1, <2>2
<1>4. /\ Heap(K, ref, open, color) /\ Held(K, ref, open, color) /\ RootsOk(K, color, running, gmt)
      /\ SweepInv(K, open, color, gcstate, sweepstr, sweepgc, wait, finalized)
      /\ grayagain \subseteq Obj /\ weak \subseteq Obj /\ finalized \subseteq Obj
      /\ gray \subseteq Obj /\ doomed \subseteq Obj /\ Listed(K, color, udata, tmudata)
      /\ gcstate \in Marking => Lists(K, color, gray, grayagain, weak)
      /\ ref \in [Obj -> [Field -> Value]] /\ color \in [Obj -> Colors]
  BY <1>3, StepParts
<1>5. /\ udata \in Seq(Obj) /\ tmudata \in Seq(Obj) /\ Once(udata) /\ Once(tmudata)
      /\ Ran(udata) \cap Ran(tmudata) = {}
      /\ Ran(udata) \cup Ran(tmudata) = {x \in Obj : K[x] = "userdata" /\ color[x] # "free"}
  BY <1>4 DEF Listed
<1>6. /\ u \in Obj /\ u \in wait
      /\ tmudata' \in Seq(Obj) /\ Once(tmudata') /\ Ran(tmudata') = wait \ {u}
  BY <1>1, <1>5, HeadMoves
<1>7. udata' \in Seq(Obj) /\ Once(udata') /\ Ran(udata') = Ran(udata) \cup {u}
  BY <1>1, <1>5, <1>6, FrontOnce
<1>8. K[u] = "userdata" /\ color[u] # "free" /\ color[u] # "dead" /\ Ok(color, u)
  BY <1>4, <1>5, <1>6 DEF SweepInv, Ok
<1> HIDE DEF u, wait
<1>9. /\ color' \in [Obj -> Colors] /\ color'[u] = "white"
      /\ \A x \in Obj : x # u => color'[x] = color[x]
  BY <1>1, <1>4, <1>6 DEF Colors
<1>10. SameLife(color, color') BY <1>8, <1>9 DEF SameLife
<1>11. Tints(K, open, color') /\ \A x \in Obj : open[x] # <<>> => color'[x] # "black"
  BY <1>4, <1>9 DEF Heap, Tints, OpenFits
<1>12. Heap(K, ref, open, color') BY <1>4, <1>10, <1>11, RecolorHeap
<1>13. Held(K, ref, open, color') BY <1>4, <1>10, RecolorHeld
<1>14. RootsOk(K, color', running, gmt) BY <1>4, <1>10, RecolorRoots
<1>15. Heap(K, ref', open, color') /\ Held(K, ref', open, color')
  <2>1. CASE ref' = ref BY <1>12, <1>13, <2>1
  <2>2. CASE ref' = [ref EXCEPT ![running]["fin"] = u]
    <3> DEFINE new == [ref[running] EXCEPT !["fin"] = u]
    <3>1. running \in Obj /\ K[running] = "thread" /\ color'[running] # "free"
      BY <1>14 DEF RootsOk, Ok
    <3>2. "fin" \in Field \ {"up"} /\ "fin" \notin {"mt", "env", "v"} BY FieldNames
    <3>3. u \in Value /\ Ok(color', u) /\ Fits(K, running, "fin", u)
      BY <1>6, <1>8, <1>9, <3>1 DEF Value, Ok, Fits, FieldsOf
    <3>4. Write(K, ref, open, color', running, new) /\ ref' = [ref EXCEPT ![running] = new]
      BY <1>12, <1>13, <2>2, <3>1, <3>2, <3>3, FieldWrite
    <3> HIDE DEF new
    <3> QED BY <1>12, <1>13, <3>4, WriteHeap, WriteHeld
  <2> QED BY <1>1, <2>1, <2>2
<1>16. Listed(K, color', udata', tmudata')
  <2>1. Ran(udata') \cap Ran(tmudata') = {} BY <1>5, <1>6, <1>7 DEF wait
  <2>2. \A x \in Obj : color'[x] # "free" <=> color[x] # "free" BY <1>10 DEF SameLife
  <2>3. Ran(udata') \cup Ran(tmudata') = {x \in Obj : K[x] = "userdata" /\ color'[x] # "free"}
    BY <1>5, <1>6, <1>7, <2>2 DEF wait
  <2> QED BY <1>6, <1>7, <2>1, <2>3 DEF Listed
<1>17. SweepInv(K, open, color', gcstate, sweepstr, sweepgc, Ran(tmudata'), finalized)
  BY <1>4, <1>6, <1>8, <1>9 DEF SweepInv
<1>18. ASSUME gcstate \in Marking PROVE Lists(K, color', gray, grayagain, weak)
  <2>1. u \notin gray \cup grayagain \cup weak BY <1>4, <1>8, <1>18 DEF Lists, Queue
  <2> QED BY <1>4, <1>9, <1>18, <2>1 DEF Lists
<1>19. /\ CallsInv(calls', gcstate)
       /\ gcstate \in Marking => Abandoned(calls', gcstate)
  <2>1. gcstate \in Marking => Abandoned(calls, gcstate)
    BY <1>2, CloseAlone DEF Marking, Atomic
  <2>2. CASE calls' = calls BY <1>2, <2>1, <2>2
  <2>3. CASE calls' = <<"finalizer">> \o calls
    <3>1. /\ calls' \in Seq({"sweep", "collect", "finalizer", "close", "closed"})
          /\ calls' # <<>> /\ Head(calls') = "finalizer" /\ Len(calls') = Len(calls) + 1
          /\ \A i \in 2 .. Len(calls') : calls'[i] \notin {"sweep", "closed"}
          /\ \A i \in 1 .. Len(calls') : calls'[i] = "close" => i = Len(calls')
          /\ Ends(calls') <=> Ends(calls)
      BY <1>2, <1>3, <2>3, PushCalls
    <3>2. TopIs(calls', "finalizer") /\ ~TopIs(calls', "close") /\ ~TopIs(calls', "sweep")
          /\ ~TopIs(calls', "collect")
      BY <3>1 DEF TopIs
    <3>3. Len(calls') > 2 => gcstate \in {"finalize", "pause"}
      <4>1. CASE gcstate = "finalize" BY <4>1
      <4>2. CASE TopIs(calls, "close")
        <5>1. Len(calls) = 1 BY <1>2, <4>2, CloseAlone
        <5> QED BY <3>1, <5>1
      <4> QED BY <4>1, <4>2
    <3>4. CallsInv(calls', gcstate) BY <3>1, <3>2, <3>3 DEF CallsInv
    <3> QED BY <2>1, <3>1, <3>2, <3>4 DEF Abandoned
  <2> QED BY <1>1, <2>2, <2>3
<1>20. gcstate \in {"pause", "propagate", "sweepstring", "sweep", "finalize"} \cup Atomic
  BY DEF IInv, Basics
<1> QED BY <1>1, <1>4, <1>14, <1>15, <1>16, <1>17, <1>18, <1>19, <1>20, CoreThen

(* luaC_fullgc: everything that is not white is to be swept.               *)
LEMMA FullgcInv ==
  ASSUME IInv, luaC_fullgc
  PROVE  IInv'
<1> DEFINE K == shape.kind
           wait == Ran(tmudata)
<1>1. /\ Program /\ calls' = <<"sweep">> \o calls
      /\ \/ /\ gcstate \in {"pause", "propagate"}
            /\ sweepstr' = AllStrings /\ sweepgc' = RootList
            /\ gray' = {} /\ grayagain' = {} /\ weak' = {} /\ gcstate' = "sweepstring"
         \/ /\ gcstate \notin {"pause", "propagate"}
            /\ UNCHANGED <<sweepstr, sweepgc, gray, grayagain, weak, gcstate>>
      /\ UNCHANGED <<shape, ref, open, gmt, color, udata, tmudata, finalized, running, failed, doomed>>
  BY DEF luaC_fullgc, Push, heapVars, udataVars, listVars, sweepVars
<1>2. /\ Core /\ ~TopIs(calls, "closed") /\ gcstate \notin Atomic /\ CallsInv(calls, gcstate)
  BY <1>1, ProgramFacts
<1>3. /\ Heap(K, ref, open, color) /\ Held(K, ref, open, color) /\ RootsOk(K, color, running, gmt)
      /\ SweepInv(K, open, color, gcstate, sweepstr, sweepgc, wait, finalized)
      /\ grayagain \subseteq Obj /\ weak \subseteq Obj /\ finalized \subseteq Obj
      /\ gray \subseteq Obj /\ doomed \subseteq Obj /\ Listed(K, color, udata, tmudata)
      /\ open \in [Obj -> {<<>>} \cup (Obj \X Slot)]
  BY <1>2, StepParts
<1>4. wait = Waiting /\ \A u \in wait : u \in Obj /\ K[u] = "userdata"
  BY <1>3, WaitingUserdata DEF Waiting, Ran
<1>5. gcstate \in {"pause", "propagate", "sweepstring", "sweep", "finalize"}
  BY <1>2 DEF IInv, Basics
<1>6. /\ gcstate' \in Sweeping \cup {"finalize"} /\ gcstate' \notin Marking
      /\ gcstate' \in {"pause", "propagate", "sweepstring", "sweep", "finalize"} \cup Atomic
  BY <1>1, <1>5 DEF Sweeping, Marking, Atomic
<1>7. CallsInv(calls', gcstate')
  <2>1. ~TopIs(calls, "sweep") BY <1>1 DEF Program, Top, TopIs
  <2>2. /\ calls' \in Seq({"sweep", "collect", "finalizer", "close", "closed"})
        /\ calls' # <<>> /\ Head(calls') = "sweep"
        /\ \A i \in 2 .. Len(calls') : calls'[i] \notin {"sweep", "closed"}
        /\ \A i \in 1 .. Len(calls') : calls'[i] = "close" => i = Len(calls')
    BY <1>1, <1>2, <2>1, PushCalls
  <2>3. ~TopIs(calls', "close") /\ ~TopIs(calls', "finalizer") BY <2>2 DEF TopIs
  <2> QED BY <1>6, <2>2, <2>3 DEF CallsInv
<1> HIDE DEF wait
<1>8. SweepInv(K, open, color, gcstate', sweepstr', sweepgc', wait, finalized)
  <2>1. CASE gcstate \notin {"pause", "propagate"} BY <1>1, <1>3, <2>1
  <2>2. CASE gcstate \in {"pause", "propagate"}
    <3>1. \A x \in Obj : color[x] # "dead" BY <1>3, <2>2 DEF SweepInv, Sweeping
    <3>2. /\ \A x \in Obj : x \in AllStrings <=> K[x] = "string" /\ color[x] # "free"
          /\ \A x \in Obj : x \in RootList <=> /\ color[x] # "free" /\ K[x] # "string"
                                               /\ open[x] = <<>> /\ x \notin wait
          /\ AllStrings \subseteq Obj /\ RootList \subseteq Obj
      BY <1>4 DEF AllStrings, RootList, Of, kind, Live
    <3>3. ASSUME NEW x \in Obj, color[x] \in {"gray", "black"}
          PROVE  \/ x \in AllStrings \cup RootList
                 \/ open[x] # <<>> /\ open[x][1] \in RootList
                 \/ color[x] = "black" /\ x \in wait
      <4>1. CASE x \in wait
        <5>1. color[x] # "gray" BY <1>3, <1>4, <4>1 DEF Heap, Tints
        <5> QED BY <3>3, <4>1, <5>1
      <4>2. CASE open[x] # <<>>
        <5>1. open[x][1] \in Obj /\ K[open[x][1]] = "thread" /\ color[open[x][1]] # "free"
          BY <1>3, <4>2, OpenPair DEF Heap, OpenFits
        <5>2. open[open[x][1]] = <<>> BY <1>3, <5>1 DEF Heap, OpenFits
        <5>3. open[x][1] \notin wait BY <1>4, <5>1
        <5> QED BY <3>2, <4>2, <5>1, <5>2, <5>3
      <4> QED BY <3>2, <3>3, <4>1, <4>2
    <3>4. gcstate' = "sweepstring" /\ sweepstr' = AllStrings /\ sweepgc' = RootList
      BY <1>1, <2>2
    <3> QED BY <3>1, <3>2, <3>3, <3>4 DEF SweepInv, Sweeping
  <2> QED BY <2>1, <2>2
<1>9. gray' \subseteq Obj /\ grayagain' \subseteq Obj /\ weak' \subseteq Obj BY <1>1, <1>3
<1> QED BY <1>1, <1>3, <1>6, <1>7, <1>8, <1>9, CoreThen DEF wait

(* The second half of luaC_fullgc begins with markroot.                    *)
LEMMA FullMarksInv ==
  ASSUME IInv, FullMarks
  PROVE  IInv'
<1> DEFINE n == Len(calls)
           p == <<"collect">> \o Tail(calls)
           Names == {"sweep", "collect", "finalizer", "close", "closed"}
<1>1. /\ TopIs(calls, "sweep") /\ gcstate = "finalize" /\ markroot /\ calls' = p
      /\ UNCHANGED <<shape, running, failed>>
  BY DEF FullMarks, Top, TopIs
<1>2. CallsInv(calls, gcstate) /\ Core BY <1>1 DEF IInv, Over, TopIs
<1>3. /\ calls \in Seq(Names) /\ calls # <<>> /\ n \in Nat \ {0}
      /\ Tail(calls) \in Seq(Names) /\ Len(Tail(calls)) = n - 1
      /\ \A i \in 1 .. n - 1 : Tail(calls)[i] = calls[i + 1]
  BY <1>1, <1>2, LenProperties, EmptySeq, HeadTailProperties DEF CallsInv, TopIs
<1>4. p \in Seq(Names) /\ Len(p) = n /\ p # <<>> /\ Head(p) = "collect" /\ p[1] = "collect"
      /\ \A i \in 2 .. n : p[i] = calls[i]
  <2> DEFINE a == <<"collect">>
             t == Tail(calls)
  <2>1. a \in Seq(Names) /\ Len(a) = 1 /\ a[1] = "collect" OBVIOUS
  <2>2. p = a \o t OBVIOUS
  <2>0. t \in Seq(Names) /\ Len(t) = n - 1 BY <1>3
  <2> HIDE DEF a, t, p, n, Names
  <2>3. /\ p \in Seq(Names) /\ Len(p) = 1 + (n - 1)
        /\ \A i \in 1 .. 1 + (n - 1) : p[i] = IF i <= 1 THEN a[i] ELSE t[i - 1]
    <3>1. /\ p \in Seq(Names) /\ Len(p) = Len(a) + Len(t)
          /\ \A i \in 1 .. Len(a) + Len(t) : p[i] = IF i <= Len(a) THEN a[i] ELSE t[i - Len(a)]
      BY <2>0, <2>1, <2>2, ConcatProperties
    <3> QED BY <2>0, <2>1, <3>1
  <2>4. Len(p) = n /\ 1 + (n - 1) = n BY <1>3, <2>3
  <2>5. p[1] = "collect"
    <3>1. 1 \in 1 .. n BY <1>3
    <3> QED BY <2>1, <2>3, <2>4, <3>1
  <2>6. p # <<>> /\ Head(p) = p[1] BY <1>3, <2>3, <2>4, EmptySeq, HeadTailProperties
  <2>7. ASSUME NEW i \in 2 .. n PROVE p[i] = calls[i]
    <3>1. i \in 1 .. n /\ ~(i <= 1) /\ i - 1 \in 1 .. n - 1 /\ (i - 1) + 1 = i BY <1>3
    <3>2. p[i] = t[i - 1] BY <2>3, <2>4, <3>1
    <3> QED BY <1>3, <3>1, <3>2 DEF t
  <2> QED BY <2>3, <2>4, <2>5, <2>6, <2>7
<1> HIDE DEF p
<1>5. CallsInv(p, "propagate")
  <2>1. \A i \in 2 .. n : p[i] \notin {"sweep", "closed"} BY <1>2, <1>4 DEF CallsInv
  <2>2. ASSUME NEW i \in 1 .. n, p[i] = "close" PROVE i = n
    <3>1. i # 1 BY <1>4, <2>2
    <3>2. i \in 2 .. n BY <1>3, <3>1
    <3>3. calls[i] = "close" BY <1>4, <2>2, <3>2
    <3> QED BY <1>2, <3>3 DEF CallsInv
  <2>3. ~TopIs(p, "close") /\ ~TopIs(p, "sweep") /\ ~TopIs(p, "finalizer") BY <1>4 DEF TopIs
  <2> HIDE DEF n
  <2> QED BY <1>4, <2>1, <2>2, <2>3 DEF CallsInv
<1> QED BY <1>1, <1>2, <1>5, MarkrootInv

(* luaC_fullgc returns.                                                    *)
LEMMA FullEndsInv ==
  ASSUME IInv, FullEnds
  PROVE  IInv'
<1>1. /\ TopIs(calls, "collect") /\ gcstate = "pause" /\ calls' = Tail(calls)
      /\ UNCHANGED <<shape, ref, open, gmt, color, udata, tmudata, finalized, running, gcstate,
                     gray, grayagain, weak, sweepstr, sweepgc, failed, doomed>>
  BY DEF FullEnds, Top, TopIs, heapVars, udataVars, listVars, sweepVars
<1>2. CallsInv(calls, gcstate) /\ calls # <<>> /\ ~TopIs(calls, "closed") BY <1>1 DEF IInv, TopIs
<1>3. gcstate \notin Atomic /\ gcstate \notin Marking BY <1>1 DEF Atomic, Marking
<1>4. CallsInv(calls', gcstate) BY <1>1, <1>2, <1>3, TailCalls
<1>5. Basics' BY <1>1 DEF IInv, Basics, Plain, Makes
<1>6. Core' BY <1>1, <1>2, <1>3 DEF IInv, Over, Core
<1> QED BY <1>1, <1>4, <1>5, <1>6 DEF IInv

-----------------------------------------------------------------------------
(* lua_close                                                               *)

(* lua_close leaves a mark phase unfinished: Abandoned.                    *)
LEMMA LuaCloseInv ==
  ASSUME IInv, lua_close
  PROVE  IInv'
<1> DEFINE K == shape.kind
           new == [f \in Field |-> IF f \in Slot THEN Nil ELSE ref[Main][f]]
           wait == Ran(tmudata)
<1>1. /\ Program /\ calls = <<>> /\ luaC_separateudata(TRUE)
      /\ ref' = [ref EXCEPT ![Main] = new] /\ calls' = <<"close">> \o calls
      /\ UNCHANGED <<shape, open, gmt, color, running, gcstate, gray, grayagain, weak,
                     sweepstr, sweepgc, failed, doomed>>
  BY DEF lua_close, Push, listVars, sweepVars
<1>2. Core /\ gcstate \notin Atomic BY <1>1, ProgramFacts
<1>3. /\ Heap(K, ref, open, color) /\ Held(K, ref, open, color) /\ RootsOk(K, color, running, gmt)
      /\ SweepInv(K, open, color, gcstate, sweepstr, sweepgc, wait, finalized)
      /\ grayagain \subseteq Obj /\ weak \subseteq Obj /\ finalized \subseteq Obj
      /\ gray \subseteq Obj /\ doomed \subseteq Obj /\ Listed(K, color, udata, tmudata)
      /\ gcstate \in Marking => Lists(K, color, gray, grayagain, weak)
      /\ ref \in [Obj -> [Field -> Value]] /\ K[Main] = "thread"
  BY <1>2, StepParts
<1>4. /\ Listed(K, color, udata', tmudata')
      /\ Ran(tmudata') = wait \cup (Ran(udata) \cap Separated(TRUE))
      /\ finalized \subseteq finalized' /\ finalized' \subseteq Obj
  BY <1>1, <1>3, SeparateListed
<1>5. Main \in Obj /\ Ok(color, Main) /\ color[Main] # "free" BY <1>3 DEF RootsOk, Obj, Ok
<1>6. Write(K, ref, open, color, Main, new)
  <2>1. new \in [Field -> Value] /\ \A f \in Field : new[f] = ref[Main][f] \/ new[f] = Nil
    BY <1>3, <1>5 DEF Value
  <2>2. new["env"] = ref[Main]["env"] /\ ref[Main]["env"] # Nil
    BY <1>3, <1>5, FieldNames DEF Heap, Born
  <2>3. open[Main] = <<>> BY <1>3, <1>5 DEF Heap, OpenFits
  <2> HIDE DEF new
  <2> QED BY <1>3, <1>5, <2>1, <2>2, <2>3 DEF Write
<1> HIDE DEF new
<1>7. Heap(K, ref', open, color) /\ Held(K, ref', open, color)
  BY <1>1, <1>3, <1>6, WriteHeap, WriteHeld
<1>8. SweepInv(K, open, color, gcstate, sweepstr, sweepgc, Ran(tmudata'), finalized')
  <2>1. \A x \in Separated(TRUE) : K[x] = "userdata" /\ x \notin finalized
    BY DEF Separated, Separable, Of, kind
  <2>2. ASSUME NEW x \in Obj, color[x] = "dead"
        PROVE  gcstate \in Sweeping /\ x \notin Ran(tmudata') /\ (K[x] = "userdata" => x \in finalized')
    <3>1. gcstate \in Sweeping /\ x \notin wait /\ (K[x] = "userdata" => x \in finalized)
      BY <1>3, <2>2 DEF SweepInv
    <3> QED BY <1>4, <2>1, <3>1
  <2>3. wait \subseteq Ran(tmudata') BY <1>4
  <2> HIDE DEF wait
  <2> QED BY <1>3, <2>2, <2>3 DEF SweepInv
<1>9. calls' = <<"close">> BY <1>1
<1>10. CallsInv(calls', gcstate) /\ (gcstate \in Marking => Abandoned(calls', gcstate))
  <2>1. /\ calls' \in Seq({"sweep", "collect", "finalizer", "close", "closed"})
        /\ Len(calls') = 1 /\ Head(calls') = "close" /\ calls'[1] = "close" /\ calls' # <<>>
    BY <1>9
  <2>2. \A i \in 1 .. Len(calls') : i = Len(calls') BY <2>1
  <2>3. 2 .. Len(calls') = {} BY <2>1
  <2>4. CallsInv(calls', gcstate) BY <1>2, <2>1, <2>2, <2>3 DEF CallsInv, TopIs
  <2>5. gcstate \in Marking => gcstate = "propagate" BY <1>2 DEF Marking
  <2> QED BY <2>1, <2>4, <2>5 DEF Abandoned, Ends, TopIs
<1>11. gcstate \in {"pause", "propagate", "sweepstring", "sweep", "finalize"} \cup Atomic
  BY DEF IInv, Basics
<1> QED BY <1>1, <1>3, <1>4, <1>7, <1>8, <1>10, <1>11, CoreThen

(* luaC_freeall leaves the main thread alone.                              *)
LEMMA FreeallInv ==
  ASSUME IInv, luaC_freeall
  PROVE  IInv'
<1> DEFINE K == shape.kind
           F == Obj \ {Main}
<1>1. /\ tmudata = <<>> /\ color' = [o \in Obj |-> IF o = Main THEN color[o] ELSE "free"]
      /\ ref' = [o \in Obj |-> IF o \in F THEN Empty ELSE ref[o]]
      /\ open' = [o \in Obj |-> IF o \in F THEN <<>> ELSE open[o]]
      /\ doomed' = doomed \ F /\ udata' = Kept(udata, Obj \ F) /\ finalized' = finalized \ F
      /\ sweepstr' = {} /\ sweepgc' = {} /\ calls' = <<"closed">>
      /\ UNCHANGED <<shape, gmt, tmudata, running, gcstate, gray, grayagain, weak, failed>>
  BY DEF luaC_freeall, Freed, listVars
<1>2. /\ Heap(K, ref, open, color) /\ Listed(K, color, udata, tmudata) BY DEF IInv
<1>3. /\ K \in [Obj -> Kinds] /\ K[Main] = "thread" /\ K[Registry] = "table"
      /\ ref \in [Obj -> [Field -> Value]] /\ color \in [Obj -> Colors]
      /\ open \in [Obj -> {<<>>} \cup (Obj \X Slot)]
  BY <1>2 DEF Heap, HeapType
<1>4. Main \in Obj BY DEF Obj
<1>5. Empty \in [Field -> Value] /\ \A f \in Field : Empty[f] = Nil BY DEF Empty, Value
<1>6. \A x \in Obj : /\ x # Main => color'[x] = "free" /\ ref'[x] = Empty /\ open'[x] = <<>>
                     /\ x = Main => color'[x] = color[x] /\ ref'[x] = ref[x] /\ open'[x] = <<>>
  <2>1. open[Main] = <<>> BY <1>2, <1>3, <1>4 DEF Heap, OpenFits
  <2> QED BY <1>1, <2>1
<1>7. Heap(K, ref', open', color')
  <2>1. HeapType(K, ref', open', color')
    <3>1. color' \in [Obj -> Colors] BY <1>1, <1>3 DEF Colors
    <3>2. ref' \in [Obj -> [Field -> Value]] BY <1>1, <1>3, <1>5
    <3>3. open' \in [Obj -> {<<>>} \cup (Obj \X Slot)] BY <1>1, <1>3
    <3> QED BY <1>3, <3>1, <3>2, <3>3 DEF HeapType
  <2>2. HeapFits(K, ref') BY <1>2, <1>5, <1>6 DEF Heap, HeapFits
  <2>3. Born(K, ref', open', color') BY <1>2, <1>3, <1>6 DEF Heap, Born
  <2>4. OpenFits(K, ref', open', color') BY <1>6 DEF OpenFits
  <2>5. Tints(K, open', color') BY <1>2, <1>3, <1>6 DEF Heap, Tints
  <2> QED BY <2>1, <2>2, <2>3, <2>4, <2>5 DEF Heap
<1>8. Listed(K, color', udata', tmudata')
  <2>1. /\ udata \in Seq(Obj) /\ tmudata \in Seq(Obj) /\ Once(udata) /\ Once(tmudata)
        /\ Ran(udata) \cup Ran(tmudata) = {u \in Obj : K[u] = "userdata" /\ color[u] # "free"}
    BY <1>2 DEF Listed
  <2>2. /\ udata' \in Seq(Obj) /\ Once(udata') /\ Ran(udata') = Ran(udata) \cap (Obj \ F)
    BY <1>1, <2>1, KeptLemma
  <2>3. Ran(udata') = {} BY <1>3, <2>1, <2>2
  <2>4. Ran(tmudata) = {} BY <1>1 DEF Ran
  <2>5. {u \in Obj : K[u] = "userdata" /\ color'[u] # "free"} = {} BY <1>3, <1>6
  <2> QED BY <1>1, <2>1, <2>2, <2>3, <2>4, <2>5 DEF Listed
<1>9. CallsInv(calls', gcstate') /\ TopIs(calls', "closed")
  <2>1. /\ calls' \in Seq({"sweep", "collect", "finalizer", "close", "closed"})
        /\ Len(calls') = 1 /\ Head(calls') = "closed" /\ calls'[1] = "closed" /\ calls' # <<>>
    BY <1>1
  <2>2. \A i \in 1 .. Len(calls') : i = Len(calls') BY <2>1
  <2>3. 2 .. Len(calls') = {} BY <2>1
  <2> QED BY <2>1, <2>2, <2>3 DEF CallsInv, TopIs
<1>10. Basics' BY <1>1 DEF IInv, Basics, Plain, Makes
<1>11. Over'
  <2>1. gcstate \in Marking => Apart BY DEF IInv, Core, Lists, Over, Apart
  <2> QED BY <1>1, <1>6, <1>9, <2>1 DEF Over, Apart
<1> QED BY <1>1, <1>7, <1>8, <1>9, <1>10, <1>11 DEF IInv

-----------------------------------------------------------------------------
(* Every step keeps the invariant                                          *)

(* Nothing has been created but the main thread and its globals.           *)
LEMMA InitInv ==
  ASSUME Init, Plain
  PROVE  IInv
<1> DEFINE K == shape.kind
<1>1. /\ shape \in Shapes
      /\ ref = [o \in Obj |-> IF o = Main THEN [Empty EXCEPT !["env"] = Registry] ELSE Empty]
      /\ open = [o \in Obj |-> <<>>]
      /\ color = [o \in Obj |-> IF o \in Id THEN "free" ELSE "white"]
      /\ gmt = Nil /\ udata = <<>> /\ tmudata = <<>> /\ finalized = {} /\ running = Main
      /\ gcstate = "pause" /\ gray = {} /\ grayagain = {} /\ weak = {}
      /\ sweepstr = {} /\ sweepgc = {} /\ calls = <<>> /\ failed = {} /\ doomed = {}
  BY DEF Init
<1>2. /\ K \in [Obj -> Kinds] /\ K[Main] = "thread" /\ K[Registry] = "table"
  BY <1>1, ShapesAssumption
<1>3. /\ Main \in Obj /\ Registry \in Obj /\ Main # Registry /\ Main \notin Id /\ Registry \notin Id
      /\ Nil \notin Obj /\ \A o \in Obj : o \in Id \/ o = Main \/ o = Registry
  BY IdAssumption DEF Obj
<1>4. Empty \in [Field -> Value] /\ \A f \in Field : Empty[f] = Nil BY DEF Empty, Value
<1>5. /\ ref \in [Obj -> [Field -> Value]]
      /\ \A o \in Obj : o # Main => ref[o] = Empty
      /\ \A f \in Field : ref[Main][f] = IF f = "env" THEN Registry ELSE Nil
  <2>1. [Empty EXCEPT !["env"] = Registry] \in [Field -> Value]
    BY <1>3, <1>4 DEF Value
  <2> QED BY <1>1, <1>3, <1>4, <2>1
<1>6. /\ color \in [Obj -> Colors] /\ color[Main] = "white" /\ color[Registry] = "white"
      /\ \A o \in Obj : color[o] \in {"free", "white"} /\ (color[o] = "free" <=> o \in Id)
  BY <1>1, <1>3 DEF Colors
<1>7. \A o \in Obj : open[o] = <<>> BY <1>1
<1>8. "env" \in Field BY FieldNames
<1>9. Heap(K, ref, open, color)
  <2>1. HeapType(K, ref, open, color) BY <1>1, <1>2, <1>5, <1>6 DEF HeapType
  <2>2. HeapFits(K, ref)
    <3>1. Fits(K, Main, "env", Registry) BY <1>2 DEF Fits, FieldsOf
    <3>2. ASSUME NEW o \in Obj, NEW f \in Field, ref[o][f] # Nil
          PROVE  o = Main /\ f = "env" /\ ref[o][f] = Registry
      BY <1>4, <1>5, <3>2
    <3> QED BY <3>1, <3>2 DEF HeapFits
  <2>3. Born(K, ref, open, color)
    <3>1. \A o \in Obj : o \in Id => ref[o] = Empty BY <1>3, <1>5
    <3>2. ref[Main]["env"] # Nil BY <1>3, <1>5, <1>8
    <3> QED BY <1>2, <1>3, <1>6, <1>7, <3>1, <3>2 DEF Born
  <2>4. OpenFits(K, ref, open, color) BY <1>7 DEF OpenFits
  <2>5. Tints(K, open, color) BY <1>6 DEF Tints
  <2> QED BY <2>1, <2>2, <2>3, <2>4, <2>5 DEF Heap
<1>10. Ran(udata) = {} /\ Ran(tmudata) = {} BY <1>1 DEF Ran
<1>11. Listed(K, color, udata, tmudata)
  <2>1. {u \in Obj : K[u] = "userdata" /\ color[u] # "free"} = {} BY <1>2, <1>3, <1>6
  <2>2. udata \in Seq(Obj) /\ tmudata \in Seq(Obj) /\ Once(udata) /\ Once(tmudata)
    BY <1>1 DEF Once
  <2> QED BY <1>10, <2>1, <2>2 DEF Listed
<1>12. Held(K, ref, open, color)
  <2>1. ASSUME NEW o \in Obj, NEW f \in Field, Refers(K, ref, o, f) PROVE Ok(color, ref[o][f])
    <3>1. ref[o][f] = Registry BY <1>4, <1>5, <2>1 DEF Refers
    <3> QED BY <1>6, <3>1 DEF Ok
  <2> QED BY <1>7, <2>1 DEF Held
<1>13. RootsOk(K, color, running, gmt) BY <1>1, <1>2, <1>3, <1>6 DEF RootsOk, Ok, Value
<1>14. SweepInv(K, open, color, gcstate, sweepstr, sweepgc, Ran(tmudata), finalized)
  BY <1>1, <1>6 DEF SweepInv
<1>15. gcstate \notin Marking BY <1>1 DEF Marking, Atomic
<1>16. CallsInv(calls, gcstate)
  <2>1. calls \in Seq({"sweep", "collect", "finalizer", "close", "closed"}) /\ Len(calls) = 0
    BY <1>1
  <2>2. ~TopIs(calls, "close") /\ ~TopIs(calls, "sweep") /\ ~TopIs(calls, "finalizer")
    BY <1>1 DEF TopIs
  <2> QED BY <2>1, <2>2 DEF CallsInv
<1>17. Basics BY <1>1, <1>3 DEF Basics, Value
<1> QED BY <1>9, <1>11, <1>12, <1>13, <1>14, <1>15, <1>16, <1>17 DEF IInv, Core

(* Steps that create an object.                                            *)
LEMMA AllocateInv ==
  ASSUME IInv, Allocate
  PROVE  IInv'
<1>1. PICK o \in Id, s \in Slot :
        \/ luaH_new(o, s)
        \/ luaF_newproto(o, s)
        \/ luaE_newthread(o, s)
        \/ luaS_newudata(o, s)
        \/ lua_pushcclosure(o, s)
        \/ luaS_newlstr(o, s)
        \/ \E p \in Operands, u \in Of("upval") :
              \/ ClosureShares(o, s, p, u)
              \/ \E t \in Slot \ {s} : ClosureCaptures(o, s, p, u, t)
  BY DEF Allocate
<1>2. CASE \/ luaH_new(o, s) \/ luaF_newproto(o, s) \/ luaE_newthread(o, s)
           \/ luaS_newudata(o, s) \/ lua_pushcclosure(o, s)
  BY <1>2, NewInv
<1>3. CASE luaS_newlstr(o, s) BY <1>3, NewlstrInv
<1>4. ASSUME NEW p \in Operands, NEW u \in Of("upval"), ClosureShares(o, s, p, u) PROVE IInv'
  BY <1>4, ClosureSharesInv
<1>5. ASSUME NEW p \in Operands, NEW u \in Of("upval"), NEW t \in Slot \ {s},
             ClosureCaptures(o, s, p, u, t)
      PROVE  IInv'
  BY <1>5, ClosureCapturesInv
<1> QED BY <1>1, <1>2, <1>3, <1>4, <1>5

(* Steps that assign a reference, or change the running thread.            *)
LEMMA StoreInv ==
  ASSUME IInv, Store
  PROVE  IInv'
<1>1. ASSUME NEW s \in Slot, NEW v \in Obj \cup {Nil}, Load(s, v) PROVE IInv'
  BY <1>1, LoadInv
<1>2. ASSUME NEW o \in Accessible,
             \/ \E k \in Operands, v \in Operands : luaV_settable(o, k, v)
             \/ \E mt \in Accessible \cup {Nil} : lua_setmetatable(o, mt)
             \/ \E v \in Operands : OP_SETUPVAL(o, v) \/ lua_setupvalue(o, v) \/ addk(o, v)
             \/ \E e \in Accessible : lua_setfenv(o, e)
             \/ \E s \in Slot, t \in Slot : lua_xmove(o, s, t)
             \/ lua_resume(o)
      PROVE  IInv'
  <2>1. ASSUME NEW k \in Operands, NEW v \in Operands, luaV_settable(o, k, v) PROVE IInv'
    BY <2>1, SettableInv
  <2>2. ASSUME NEW mt \in Accessible \cup {Nil}, lua_setmetatable(o, mt) PROVE IInv'
    BY <2>2, SetmetatableInv
  <2>3. ASSUME NEW v \in Operands, OP_SETUPVAL(o, v) PROVE IInv'
    BY <2>3, SetupvalInv
  <2>4. ASSUME NEW v \in Operands, lua_setupvalue(o, v) PROVE IInv'
    BY <2>4, SetupvalueInv
  <2>5. ASSUME NEW v \in Operands, addk(o, v) PROVE IInv'
    BY <2>5, AddkInv
  <2>6. ASSUME NEW e \in Accessible, lua_setfenv(o, e) PROVE IInv'
    BY <2>6, SetfenvInv
  <2>7. ASSUME NEW s \in Slot, NEW t \in Slot, lua_xmove(o, s, t) PROVE IInv'
    BY <2>7, XmoveInv
  <2>8. CASE lua_resume(o) BY <2>8, ResumeInv
  <2> QED BY <1>2, <2>1, <2>2, <2>3, <2>4, <2>5, <2>6, <2>7, <2>8
<1>3. CASE lua_yield BY <1>3, YieldInv
<1>4. ASSUME NEW u \in Of("upval"), luaF_close(u) PROVE IInv'
  BY <1>4, CloseInv
<1> QED BY <1>1, <1>2, <1>3, <1>4 DEF Store

(* singlestep, in whichever phase the collector is.                        *)
LEMMA SinglestepInv ==
  ASSUME IInv, singlestep
  PROVE  IInv'
<1>1. UNCHANGED <<shape, running, failed>> BY DEF singlestep
<1>2. ASSUME MaySweep \/ (Top("sweep") /\ gcstate # "finalize"), calls' = calls, MarkStep
      PROVE  IInv'
  <2>1. CASE gcstate = "pause" /\ markroot
    <3>1. Core /\ (TopIs(calls, "sweep") => gcstate \in Sweeping \cup {"finalize"})
      BY <1>2, StepFacts
    <3>2. ~TopIs(calls, "sweep") BY <2>1, <3>1 DEF Sweeping
    <3>3. CallsInv(calls', "propagate") BY <1>2, <3>2, StepCalls
    <3> QED BY <1>1, <2>1, <3>1, <3>3, MarkrootInv
  <2>2. ASSUME gcstate \in {"propagate"} \cup Atomic, NEW o \in gray, propagatemark(o)
        PROVE  IInv'
    BY <1>1, <1>2, <2>2, PropagateInv DEF Marking
  <2>3. CASE gray = {} /\ gcstate = "propagate" /\ remarkupvals
    BY <1>1, <1>2, <2>3, RemarkUpvalsInv
  <2>4. CASE gray = {} /\ gcstate = "remark_upvals" /\ RemarkWeak
    BY <1>1, <1>2, <2>4, RemarkWeakInv
  <2>5. CASE gray = {} /\ gcstate = "remark_weak" /\ RemarkAgain
    BY <1>1, <1>2, <2>5, RemarkAgainInv
  <2>6. CASE gray = {} /\ gcstate = "remark_again" /\ MarkTmu
    BY <1>1, <1>2, <2>6, MarkTmuInv
  <2>7. CASE gray = {} /\ gcstate = "mark_tmu" /\ FinishAtomic
    BY <1>1, <1>2, <2>7, FinishAtomicInv
  <2> QED BY <1>2, <2>1, <2>2, <2>3, <2>4, <2>5, <2>6, <2>7 DEF MarkStep
<1>3. ASSUME MaySweep \/ (Top("sweep") /\ gcstate # "finalize"), calls' = calls, SweepStep
      PROVE  IInv'
  <2>1. ASSUME gcstate = "sweepstring", NEW o \in sweepstr, SweepString(o) PROVE IInv'
    BY <1>1, <1>3, <2>1, SweepStringSwept, SweptInv
  <2>2. CASE gcstate = "sweepstring" /\ sweepstr = {} /\ GoTo("sweep")
    BY <1>1, <1>3, <2>2, GoToInv
  <2>3. ASSUME gcstate = "sweep", NEW o \in sweepgc, SweepObject(o) PROVE IInv'
    BY <1>1, <1>3, <2>3, SweepObjectSwept, SweptInv
  <2>4. CASE gcstate = "sweep" /\ sweepgc = {} /\ GoTo("finalize")
    BY <1>1, <1>3, <2>4, GoToInv
  <2> QED BY <1>3, <2>1, <2>2, <2>3, <2>4 DEF SweepStep
<1>4. CASE MaySweep /\ gcstate = "finalize" /\ tmudata # <<>> /\ GCTM
  BY <1>1, <1>4, GCTMInv
<1>5. CASE MaySweep /\ gcstate = "finalize" /\ tmudata = <<>> /\ GoTo("pause") /\ UNCHANGED calls
  BY <1>1, <1>5, GoToInv
<1> QED BY <1>2, <1>3, <1>4, <1>5 DEF singlestep

(* Every step of the program, of the collector and of lua_close.           *)
LEMMA NextInv ==
  ASSUME IInv, [Next]_vars
  PROVE  IInv'
<1>1. CASE Allocate BY <1>1, AllocateInv
<1>2. CASE Store BY <1>2, StoreInv
<1>3. CASE singlestep BY <1>3, SinglestepInv
<1>4. CASE FullMarks BY <1>4, FullMarksInv
<1>5. CASE FullEnds BY <1>5, FullEndsInv
<1>6. CASE luaC_fullgc BY <1>6, FullgcInv
<1>7. CASE FinalizerEnds BY <1>7, FinalizerEndsInv
<1>8. CASE lua_close BY <1>8, LuaCloseInv
<1>9. CASE callallgcTM
  <2>1. TopIs(calls, "close") /\ tmudata # <<>> /\ GCTM /\ UNCHANGED <<shape, running, failed>>
    BY <1>9 DEF callallgcTM, Top, TopIs
  <2> QED BY <2>1, GCTMInv
<1>10. CASE luaC_freeall BY <1>10, FreeallInv
<1>11. CASE UNCHANGED vars
  <2>1. UNCHANGED <<shape, ref, open, gmt, color, udata, tmudata, finalized, running, gcstate,
                    gray, grayagain, weak, sweepstr, sweepgc, calls, failed, doomed>>
    BY <1>11 DEF vars, heapVars, udataVars, listVars, sweepVars
  <2>2. Basics' BY <2>1 DEF IInv, Basics, Plain, Makes
  <2>3. Core => Core' BY <2>1 DEF Core, Marked
  <2>4. Over => Over' BY <2>1 DEF Over, Apart
  <2> QED BY <2>1, <2>2, <2>3, <2>4 DEF IInv
<1> QED BY <1>1, <1>2, <1>3, <1>4, <1>5, <1>6, <1>7, <1>8, <1>9, <1>10, <1>11 DEF Next, Collect

-----------------------------------------------------------------------------
(* The theorems                                                            *)

(* The inductive invariant holds in every state of a program that makes    *)
(* neither of the two calls.                                               *)
THEOREM Invariant == Spec /\ Plain => []IInv
<1>1. Init /\ Plain => IInv BY InitInv
<1>2. IInv /\ [Next]_vars => IInv' BY NextInv
<1> QED BY <1>1, <1>2, PTL DEF Spec

(* A sequence in which nothing is twice holds x in one place or in none.   *)
LEMMA PlacesOf ==
  ASSUME NEW T, NEW s \in Seq(T), Once(s), NEW x
  PROVE  Cardinality({i \in DOMAIN s : s[i] = x}) = IF x \in Ran(s) THEN 1 ELSE 0
<1> DEFINE P == {i \in DOMAIN s : s[i] = x}
<1>1. CASE x \in Ran(s)
  <2>1. PICK i \in DOMAIN s : s[i] = x BY <1>1 DEF Ran
  <2>2. P = {i} BY <2>1 DEF Once
  <2> QED BY <1>1, <2>2, FS_Singleton
<1>2. CASE x \notin Ran(s)
  <2>1. P = {} BY <1>2 DEF Ran
  <2> QED BY <1>2, <2>1, FS_EmptySet
<1> QED BY <1>1, <1>2

(* The variables keep their types, a live userdata is in one place of one  *)
(* of the two lists, and no object is on two of the lists that share the   *)
(* field gclist: what luaC_separateudata, GCTM, the sweeps and the         *)
(* barriers do to the links never loses or duplicates an object.           *)
THEOREM TypeAlwaysOK == Spec /\ Plain => []TypeOK
<1>1. IInv => TypeOK
  <2> SUFFICES ASSUME IInv PROVE TypeOK OBVIOUS
  <2>1. /\ Basics /\ CallsInv(calls, gcstate) /\ Listed(shape.kind, color, udata, tmudata)
        /\ HeapType(shape.kind, ref, open, color) /\ (gcstate \in Marking => Apart)
    BY DEF IInv, Heap, Core, Lists, Over, Apart
  <2>2. ASSUME NEW u \in Of("userdata")
        PROVE  Cardinality({i \in DOMAIN (udata \o tmudata) : (udata \o tmudata)[i] = u})
                 = IF Live(u) THEN 1 ELSE 0
    <3>1. /\ udata \o tmudata \in Seq(Obj) /\ Once(udata \o tmudata)
          /\ Ran(udata \o tmudata) = {x \in Obj : shape.kind[x] = "userdata" /\ color[x] # "free"}
      BY <2>1, ConcatOnce DEF Listed
    <3>2. u \in Ran(udata \o tmudata) <=> Live(u) BY <3>1 DEF Of, kind, Live
    <3> QED BY <3>1, <3>2, PlacesOf
  <2>3. \A S \in {gray, grayagain, weak, sweepstr, sweepgc, doomed} : S \subseteq Obj
    BY <2>1 DEF Basics
  <2>4. udata \in Seq(Obj) /\ tmudata \in Seq(Obj) BY <2>1 DEF Listed
  <2>5. calls \in Seq({"sweep", "collect", "finalizer", "close", "closed"}) BY <2>1 DEF CallsInv
  <2> QED BY <2>1, <2>2, <2>3, <2>4, <2>5
          DEF TypeOK, Basics, Apart, HeapType, Value, Colors, Marking
<1> QED BY <1>1, Invariant, PTL

(* Whatever the program stores between the steps of a cycle, the           *)
(* lua_asserts of the barriers, luaF_close and luaC_linkupval hold, but    *)
(* for that of lgc.c:664 on a userdata that waits for its finalizer: no    *)
(* other object is black outside of marking and sweeping, no barrier meets *)
(* a dead object and no open upvalue is black.                             *)
THEOREM AssertionsAlwaysHold == Spec /\ Plain => []AssertionsHold
<1>1. IInv => AssertionsHold BY DEF IInv, Basics, AssertionsHold
<1> QED BY <1>1, Invariant, PTL

(* The program and the collector together never leave a reference to an    *)
(* object that is freed or about to be.                                    *)
THEOREM NeverDangling == Spec /\ Plain => []NoDangling
<1>1. IInv => NoDangling
  <2> SUFFICES ASSUME IInv, ~Top("closed")
               PROVE  /\ \A o \in Roots : Sound(o)
                      /\ \A o \in Obj : Sound(o) => \A x \in Successors(o) \ {Nil} : Sound(x)
    BY DEF NoDangling
  <2> DEFINE K == shape.kind
  <2>1. Core BY DEF IInv, Over, Top, TopIs
  <2>2. /\ Heap(K, ref, open, color) /\ Held(K, ref, open, color) /\ RootsOk(K, color, running, gmt)
        /\ SweepInv(K, open, color, gcstate, sweepstr, sweepgc, Ran(tmudata), finalized)
        /\ ref \in [Obj -> [Field -> Value]]
    BY <2>1, StepParts
  <2>3. \A o \in Obj : Ok(color, o) => Sound(o)
    BY DEF Ok, Sound, Live, isdead
  <2>4. \A o \in Obj : Sound(o) => Ok(color, o)
    <3>1. Ok(color, Main) BY <2>2 DEF RootsOk
    <3> QED BY <2>2, <3>1 DEF Ok, Sound, Live, isdead, SweepInv, Sweeping
  <2>5. \A o \in Roots : Sound(o)
    <3>1. Main \in Obj /\ Registry \in Obj BY DEF Obj
    <3> QED BY <2>2, <2>3, <3>1 DEF Roots, RootsOk, Value
  <2>6. ASSUME NEW o \in Obj, Sound(o), NEW x \in Successors(o), x # Nil PROVE Sound(x)
    <3>1. Ok(color, o) BY <2>4, <2>6
    <3>2. CASE \E f \in Field : x = ref[o][f] /\ Refers(K, ref, o, f)
      <4>1. PICK f \in Field : x = ref[o][f] /\ Refers(K, ref, o, f) BY <3>2
      <4>2. x \in Obj /\ Ok(color, x) BY <2>2, <3>1, <4>1, ReadOk
      <4> QED BY <2>3, <4>2
    <3>3. CASE K[o] = "upval" /\ x = Val(ref, open, o)
      <4>1. x \in Obj /\ Ok(color, x) BY <2>2, <2>6, <3>1, <3>3, ReadUpval
      <4> QED BY <2>3, <4>1
    <3>4. \/ \E f \in Field : x = ref[o][f] /\ Refers(K, ref, o, f)
          \/ K[o] = "upval" /\ x = Val(ref, open, o)
      BY <2>6 DEF Successors, kind, UpvalValue, Val, Refers
    <3> QED BY <3>2, <3>3, <3>4
  <2> QED BY <2>5, <2>6
<1> QED BY <1>1, Invariant, PTL

(* Barriers keep the invariant of the three colours: while the collector   *)
(* marks, no black object refers to a white one.                           *)
THEOREM NeverBlackToWhite == Spec /\ Plain => []NoBlackToWhite
<1>1. IInv => NoBlackToWhite
  <2> SUFFICES ASSUME IInv, gcstate = "propagate", ~Closing, NEW o \in Obj, isblack(o),
                      o \notin Waiting, NEW x \in Successors(o), x # Nil, iswhite(x)
               PROVE  FALSE
    BY DEF NoBlackToWhite, Whites
  <2>1. ~Abandoned(calls, gcstate) BY DEF Abandoned, Ends, Closing
  <2>2. CASE Over
    <3>1. color[Main] # "black" BY DEF IInv, Heap, HeapType, Tints, Obj
    <3> QED BY <2>2, <3>1 DEF Over, isblack
  <2>3. CASE Core
    <3>2. BlackDark(ref, color, Ran(tmudata)) /\ Heap(shape.kind, ref, open, color)
      BY <2>1, <2>3 DEF IInv, Core, Marked, Tri, Marking
    <3>3. \A f \in Field : Dark(color, ref[o][f])
      BY <3>2 DEF BlackDark, Waiting, Ran, isblack
    <3>4. open[o] = <<>> BY <3>2 DEF Heap, OpenFits, isblack
    <3>5. \E f \in Field : x = ref[o][f] BY <3>4, FieldNames DEF Successors, UpvalValue
    <3> QED BY <3>3, <3>5 DEF Dark, iswhite
  <2> QED BY <2>2, <2>3 DEF IInv
<1> QED BY <1>1, Invariant, PTL

-----------------------------------------------------------------------------
(* Weak tables                                                             *)

(* There are finitely many objects.                                        *)
LEMMA ObjFinite == IsFiniteSet(Obj)
<1>1. IsFiniteSet(Id) BY IdAssumption
<1>2. IsFiniteSet(Id \cup {Main}) BY <1>1, FS_AddElement
<1>3. IsFiniteSet((Id \cup {Main}) \cup {Registry}) BY <1>2, FS_AddElement
<1>4. Obj = (Id \cup {Main}) \cup {Registry} BY DEF Obj
<1> QED BY <1>3, <1>4

(* Once everything is marked, what strong references reach is gray or      *)
(* black: a set that has the roots and whatever its members keep alive has *)
(* all of it.                                                              *)
LEMMA StrongWithin ==
  ASSUME NEW D, Roots \subseteq D, \A o \in D : Strong(o) \ {Nil} \subseteq D
  PROVE  StronglyReachable \subseteq D
<1> DEFINE N == Cardinality(Obj)
           Step(X) == X \cup ((UNION {Strong(o) : o \in X}) \ {Nil})
           F == [X \in SUBSET D |-> Step(X)]
           Rec(g) == g = [n \in 0 .. N |-> IF n = 0 THEN Roots ELSE Step(g[n - 1])]
           R == CHOOSE g : Rec(g)
<1>1. StronglyReachable = R[N] BY DEF StronglyReachable
<1>2. N \in Nat BY ObjFinite, FS_CardinalityType
<1>3. F \in [SUBSET D -> SUBSET D] OBVIOUS
<1>4. Rec(R)
  <2>0. PICK f \in [0 .. N -> SUBSET D] : Iterated(f, F, Roots, N)
    <3>1. Roots \in SUBSET D OBVIOUS
    <3> HIDE DEF F, N
    <3> QED BY <1>2, <1>3, <3>1, Iterates
  <2>1. f[0] = Roots /\ \A n \in 1 .. N : f[n] = F[f[n - 1]] BY <2>0 DEF Iterated
  <2>2. \A n \in 0 .. N : f[n] = IF n = 0 THEN Roots ELSE Step(f[n - 1])
    <3>1. ASSUME NEW n \in 0 .. N, n # 0 PROVE f[n] = Step(f[n - 1])
      <4> HIDE DEF N, Step
      <4>1. n \in 1 .. N /\ n - 1 \in 0 .. N BY <1>2, <3>1
      <4> QED BY <2>0, <2>1, <4>1
    <3> HIDE DEF N, Step
    <3> QED BY <2>1, <3>1
  <2>3. Rec(f)
    <3> HIDE DEF N, Step
    <3> QED BY <2>0, <2>2
  <2> HIDE DEF Rec
  <2> QED BY <2>3
<1>5. R[0] \in SUBSET D /\ \A n \in 1 .. N : R[n - 1] \in SUBSET D => R[n] \in SUBSET D
  <2>1. \A X \in SUBSET D : Step(X) \in SUBSET D OBVIOUS
  <2> HIDE DEF N, Step, R
  <2>2. R[0] = Roots BY <1>2, <1>4
  <2>3. \A n \in 1 .. N : R[n] = Step(R[n - 1]) BY <1>2, <1>4
  <2> QED BY <2>1, <2>2, <2>3
<1> HIDE DEF N, R
<1>6. \A n \in 0 .. N : R[n] \in SUBSET D BY <1>2, <1>5, Throughout
<1>7. N \in 0 .. N BY <1>2
<1> QED BY <1>1, <1>6, <1>7

(* In the last of the atomic phases, with nothing left to propagate.       *)
LEMMA StrongDark ==
  ASSUME IInv, Core, gcstate = "mark_tmu", gray = {}
  PROVE  \A o \in StronglyReachable : o \in Obj /\ ~iswhite(o)
<1> DEFINE K == shape.kind
           wait == Ran(tmudata)
           D == {o \in Obj : color[o] \in {"gray", "black"}}
<1>1. ~Abandoned(calls, gcstate) /\ gcstate \in Marking /\ gcstate \in Atomic
  BY DEF Abandoned, Marking, Atomic
<1>2. /\ BlackDark(ref, color, wait) /\ GrayListed(K, color, gray, grayagain, weak)
      /\ Dark(color, Main) /\ Dark(color, Registry)
      /\ OpenDark(K, ref, open, color) /\ Dark(color, running) /\ Dark(color, gmt)
      /\ WeakDark(shape.events, ref, color, weak) /\ ThreadsDark(K, ref, color, grayagain)
      /\ WaitDark(K, ref, color, wait, finalized)
      /\ Lists(K, color, gray, grayagain, weak)
  BY <1>1 DEF Core, Marked, Tri, AtomicInv
<1>3. /\ Heap(K, ref, open, color) /\ RootsOk(K, color, running, gmt)
      /\ ref \in [Obj -> [Field -> Value]] /\ K \in [Obj -> Kinds]
      /\ Listed(K, color, udata, tmudata)
  BY DEF IInv, Core, Heap, HeapType
<1>4. Nil \notin Obj /\ Main \in Obj /\ Registry \in Obj BY IdAssumption DEF Obj
<1>5. Roots \subseteq D
  <2>1. gmt \in Value /\ running \in Obj BY <1>3 DEF RootsOk
  <2> QED BY <1>2, <1>4, <2>1 DEF Roots, Dark, Value
<1>6. ASSUME NEW o \in D, NEW x \in Strong(o), x # Nil PROVE x \in D
  <2>1. o \in Obj /\ color[o] \in {"gray", "black"} OBVIOUS
  <2>2. K[o] # "unused" BY <1>3, <2>1 DEF Heap, Born
  <2>3. SUFFICES x \in Value /\ Dark(color, x) BY <1>6, <1>4 DEF Dark, Value
  <2>4. \A f \in Field : ref[o][f] \in Value BY <1>3, <2>1
  <2>5. CASE K[o] = "userdata"
    <3>1. x \in {ref[o]["mt"], ref[o]["env"]} BY <1>6, <2>5 DEF Strong, kind
    <3>2. color[o] = "black" BY <1>3, <2>1, <2>5 DEF Heap, Tints
    <3>3. \A f \in Field : Dark(color, ref[o][f]) BY <1>2, <2>1, <3>2 DEF BlackDark, WaitDark
    <3> QED BY <2>4, <3>1, <3>3, FieldNames
  <2>6. CASE K[o] = "upval"
    <3>1. x = Val(ref, open, o) BY <1>6, <2>6 DEF Strong, kind, UpvalValue, Val
    <3>2. x \in Value BY <1>3, <2>1, <3>1, ValType DEF Heap
    <3>3. CASE color[o] = "gray" BY <1>2, <2>1, <2>6, <3>1, <3>2, <3>3 DEF OpenDark
    <3>4. CASE color[o] = "black"
      <4>1. x = ref[o]["v"] BY <1>3, <2>1, <3>1, <3>4 DEF Heap, OpenFits, Val
      <4>2. o \notin wait BY <1>3, <2>6 DEF Listed
      <4> QED BY <1>2, <2>1, <3>2, <3>4, <4>1, <4>2, FieldNames DEF BlackDark
    <3> QED BY <2>1, <3>3, <3>4
  <2>7. K[o] # "string" BY <1>6 DEF Strong, kind
  <2>8. CASE K[o] \in Queue
    <3>1. x \in Children(o) BY <1>6, <2>8 DEF Strong, kind, Queue
    <3>2. CASE color[o] = "black"
      <4>1. o \notin wait BY <1>3, <2>8 DEF Listed, Queue
      <4>2. \A f \in Field : Dark(color, ref[o][f]) BY <1>2, <2>1, <3>2, <4>1 DEF BlackDark
      <4>3. \E f \in Field : x = ref[o][f]
        BY <2>8, <3>1, FieldNames DEF Children, TableChildren, kind, Queue, Field
      <4> QED BY <2>4, <4>2, <4>3
    <3>3. CASE color[o] = "gray"
      <4>1. o \in grayagain \cup weak BY <1>2, <2>1, <2>8, <3>3 DEF GrayListed
      <4>2. CASE o \in grayagain
        <5>1. K[o] = "thread" /\ \A f \in Field : Dark(color, ref[o][f])
          BY <1>2, <4>2 DEF ThreadsDark
        <5>2. \E f \in Field : x = ref[o][f] BY <3>1, <5>1 DEF Children, kind, Field
        <5> QED BY <2>4, <5>1, <5>2
      <4>3. CASE o \in weak
        <5>1. K[o] = "table" /\ TableDark(ref, color, o, ModeOf(shape.events, ref, o))
          BY <1>2, <4>3 DEF Lists, WeakDark
        <5>2. WeakMode(o) = ModeOf(shape.events, ref, o) BY DEF WeakMode, ModeOf, Events
        <5>3. x \in TableChildren(o) BY <3>1, <5>1 DEF Children, kind
        <5>4. \/ x = ref[o]["mt"]
              \/ ref[o]["v"] # Nil /\ \E f \in {"k", "v"} \ WeakMode(o) : x = ref[o][f]
          BY <5>3 DEF TableChildren
        <5> QED BY <2>4, <5>1, <5>2, <5>4, FieldNames DEF TableDark
      <4> QED BY <4>1, <4>2, <4>3
    <3> QED BY <2>1, <3>2, <3>3
  <2>9. K[o] \in Kinds BY <1>3, <2>1
  <2> QED BY <2>2, <2>5, <2>6, <2>7, <2>8, <2>9 DEF Kinds, Queue
<1> HIDE DEF D
<1>7. StronglyReachable \subseteq D BY <1>5, <1>6, StrongWithin
<1> QED BY <1>7 DEF D, iswhite

(* The program does not run in the atomic phase, and leaves the state of   *)
(* the collector alone.                                                    *)
LEMMA ProgramSteps ==
  ASSUME Allocate \/ Store
  PROVE  Program /\ gcstate' = gcstate
<1>1. ASSUME NEW o, NEW s, NEW fields, Create(o, s, fields) PROVE Program /\ gcstate' = gcstate
  BY <1>1 DEF Create, NoGC
<1>2. ASSUME NEW o, NEW s, NEW p, NEW u, NewClosure(o, s, p, u) PROVE Program /\ gcstate' = gcstate
  BY <1>2 DEF NewClosure, NoGC
<1>3. ASSUME NEW o \in Id, NEW s \in Slot,
             \/ luaH_new(o, s) \/ luaF_newproto(o, s) \/ luaE_newthread(o, s)
             \/ luaS_newudata(o, s) \/ lua_pushcclosure(o, s)
      PROVE  Program /\ gcstate' = gcstate
  BY <1>1, <1>3 DEF luaH_new, luaF_newproto, luaE_newthread, luaS_newudata, lua_pushcclosure
<1>4. ASSUME NEW o \in Id, NEW s \in Slot, luaS_newlstr(o, s) PROVE Program /\ gcstate' = gcstate
  BY <1>1, <1>4 DEF luaS_newlstr, NoGC
<1>5. CASE Allocate
  BY <1>2, <1>3, <1>4, <1>5 DEF Allocate, ClosureShares, ClosureCaptures
<1>6. CASE Store
  <2>1. CASE StoreOnly BY <2>1 DEF StoreOnly, NoGC
  <2>2. CASE \E u \in Of("upval") : luaF_close(u) BY <2>2 DEF luaF_close, NoGC
  <2>3. ASSUME NEW o \in Accessible, \E mt \in Accessible \cup {Nil} : lua_setmetatable(o, mt)
        PROVE  StoreOnly
    BY <2>3 DEF lua_setmetatable
  <2> QED BY <1>6, <2>1, <2>2, <2>3
          DEF Store, Load, luaV_settable, OP_SETUPVAL, lua_setupvalue, addk,
              lua_setfenv, lua_xmove, lua_resume, lua_yield, Switch
<1> QED BY <1>5, <1>6

(* From the second of the atomic phases on, the tables on the weak list    *)
(* are weak: the program, which might have taken their metatables away     *)
(* since they were first traversed, does not run.                          *)
WeakTagged ==
  gcstate \in {"remark_weak", "remark_again", "mark_tmu"} =>
    \A h \in weak : WeakMode(h) # {}

(* Every step keeps this.                                                  *)
LEMMA WeakTaggedInv ==
  ASSUME IInv, WeakTagged, [Next]_vars
  PROVE  WeakTagged'
<1> DEFINE Late == {"remark_weak", "remark_again", "mark_tmu"}
<1> SUFFICES ASSUME gcstate' \in Late, NEW h \in weak' PROVE WeakMode(h)' # {}
  BY DEF WeakTagged
<1>1. Late \subseteq Atomic BY DEF Atomic
<1>2. ASSUME UNCHANGED <<shape, gcstate, weak>>, ref'[h]["mt"] = ref[h]["mt"]
      PROVE  WeakMode(h)' # {}
  BY <1>2 DEF WeakTagged, WeakMode, Events
<1>3. ASSUME gcstate' = gcstate, gcstate \notin Atomic PROVE FALSE BY <1>1, <1>3
<1>4. CASE Allocate \/ Store BY <1>3, <1>4, ProgramSteps DEF Program
<1>6. CASE singlestep
  <2>1. shape' = shape BY <1>6 DEF singlestep
  <2>2. ASSUME gcstate \in {"propagate"} \cup Atomic, NEW o \in gray, propagatemark(o)
        PROVE  WeakMode(h)' # {}
    <3>1. /\ gcstate' = gcstate /\ ref' = Cleaned(o)
          /\ weak' = IF StaysGray(o) /\ kind(o) = "table" THEN weak \cup {o} ELSE weak
      BY <2>2 DEF propagatemark
    <3>2. \A x \in Obj : ref'[x]["mt"] = ref[x]["mt"]
      BY <3>1 DEF IInv, Heap, HeapType, Cleaned
    <3>3. h \in Obj BY <2>2, <3>1 DEF IInv, Basics
    <3>4. CASE h \in weak BY <2>1, <3>1, <3>2, <3>3, <3>4 DEF WeakTagged, WeakMode, Events
    <3>5. CASE h \notin weak
      <4>1. h = o /\ StaysGray(o) /\ kind(o) = "table" BY <3>1, <3>5
      <4>2. WeakMode(h) # {} BY <4>1 DEF StaysGray
      <4> QED BY <2>1, <3>2, <3>3, <4>2 DEF WeakMode, Events
    <3> QED BY <3>4, <3>5
  <2>3. CASE RemarkWeak BY <2>3 DEF RemarkWeak
  <2>4. CASE gcstate = "remark_weak" /\ RemarkAgain
    BY <2>1, <2>4 DEF RemarkAgain, heapVars, WeakTagged, WeakMode, Events
  <2>5. CASE gcstate = "remark_again" /\ MarkTmu
    BY <2>1, <2>5 DEF MarkTmu, heapVars, WeakTagged, WeakMode, Events
  <2>6. CASE markroot \/ remarkupvals \/ FinishAtomic
    BY <2>6 DEF markroot, remarkupvals, AtomicBegins, FinishAtomic
  <2>7. CASE SweepStep
    <3>1. gcstate' \in {gcstate, "sweep", "finalize"} /\ gcstate \notin Atomic
      BY <2>7 DEF SweepStep, SweepString, SweepObject, GoTo, Atomic
    <3> QED BY <1>3, <3>1
  <2>8. CASE gcstate = "finalize" /\ GCTM BY <1>3, <2>8 DEF GCTM, Atomic
  <2>9. CASE GoTo("pause") BY <2>9 DEF GoTo
  <2> QED BY <1>6, <2>2, <2>3, <2>4, <2>5, <2>6, <2>7, <2>8, <2>9 DEF singlestep, MarkStep
<1>7. CASE FullMarks BY <1>7 DEF FullMarks, markroot
<1>8. CASE FullEnds BY <1>3, <1>8 DEF FullEnds, Atomic
<1>9. CASE luaC_fullgc BY <1>3, <1>9 DEF luaC_fullgc, Program
<1>10. CASE FinalizerEnds BY <1>3, <1>10 DEF FinalizerEnds
<1>11. CASE lua_close BY <1>3, <1>11 DEF lua_close, Program
<1>12. CASE callallgcTM \/ luaC_freeall
  <2>1. TopIs(calls, "close") /\ gcstate' = gcstate
    BY <1>12 DEF callallgcTM, luaC_freeall, GCTM, Top, TopIs
  <2>2. gcstate \notin Atomic BY <2>1 DEF IInv, CallsInv
  <2> QED BY <1>3, <2>1, <2>2
<1>13. CASE UNCHANGED vars BY <1>2, <1>13 DEF vars, heapVars, listVars
<1> QED BY <1>4, <1>6, <1>7, <1>8, <1>9, <1>10, <1>11, <1>12, <1>13 DEF Next, Collect

(* cleartable removes only what it may.                                    *)
LEMMA ClearsOnly ==
  ASSUME IInv, WeakTagged, [Next]_vars, gcstate = "mark_tmu",
         NEW h \in Obj, ref[h]["v"] # Nil, ref'[h]["v"] = Nil
  PROVE  /\ WeakMode(h) # {}
         /\ \/ ~({ref[h]["k"], ref[h]["v"]} \subseteq StronglyReachable \cup Of("string") \cup {Nil})
            \/ ref[h]["v"] \in finalized
<1>0. gcstate \in Atomic BY DEF Atomic
<1>1. ~Program BY <1>0 DEF Program
<1>2. ref' # ref OBVIOUS
<1>3. CASE Allocate \/ Store BY <1>1, <1>3, ProgramSteps
<1>5. CASE singlestep
  <2>1. ASSUME NEW o \in gray, propagatemark(o) PROVE FALSE
    <3>1. ref' = Cleaned(o) BY <2>1 DEF propagatemark
    <3>2. ref'[h]["v"] = ref[h]["v"] BY <3>1, FieldNames DEF IInv, Heap, HeapType, Cleaned
    <3> QED BY <3>2
  <2>2. gray = {} /\ FinishAtomic
    BY <1>0, <1>5, <2>1 DEF singlestep, MarkStep, SweepStep
  <2>3. h \in weak /\ Clears(h) BY <2>2 DEF FinishAtomic
  <2>4. Core
    <3>1. ~TopIs(calls, "closed")
      BY <1>5 DEF singlestep, MaySweep, Top, TopIs
    <3> QED BY <3>1 DEF IInv, Over
  <2>5. \A o \in StronglyReachable : o \in Obj /\ ~iswhite(o) BY <2>2, <2>4, StrongDark
  <2>6. WeakMode(h) # {} BY <2>3 DEF WeakTagged
  <2>7. \A x : x \in Of("string") => kind(x) = "string" BY DEF Of
  <2>8. CASE iscleared(ref[h]["k"], TRUE)
    BY <2>5, <2>6, <2>7, <2>8 DEF iscleared
  <2>9. CASE iscleared(ref[h]["v"], FALSE)
    BY <2>5, <2>6, <2>7, <2>9 DEF iscleared
  <2> QED BY <2>3, <2>8, <2>9 DEF Clears
<1>6. CASE FullMarks \/ FullEnds \/ luaC_fullgc \/ FinalizerEnds \/ lua_close
  BY <1>0, <1>1, <1>2, <1>6 DEF FullMarks, FullEnds, luaC_fullgc, FinalizerEnds, lua_close
<1>7. CASE callallgcTM \/ luaC_freeall
  <2>1. TopIs(calls, "close") BY <1>7 DEF callallgcTM, luaC_freeall, Top, TopIs
  <2> QED BY <1>0, <2>1 DEF IInv, CallsInv
<1>8. CASE UNCHANGED vars BY <1>2, <1>8 DEF vars, heapVars
<1> QED BY <1>3, <1>5, <1>6, <1>7, <1>8 DEF Next, Collect

(* The collector removes a pair only from a weak table, and only if its    *)
(* key or its value is out of strong reach or its value has been           *)
(* finalized: at the end of atomic, everything that strong references      *)
(* reach has been marked.                                                  *)
THEOREM PairsAlwaysKept == Spec /\ Plain => WeakPairsKept
<1> DEFINE Kept1 ==
      gcstate = "mark_tmu" =>
        \A h \in Obj : ref[h]["v"] # Nil /\ ref'[h]["v"] = Nil =>
          /\ WeakMode(h) # {}
          /\ \/ ~({ref[h]["k"], ref[h]["v"]} \subseteq StronglyReachable \cup Of("string") \cup {Nil})
             \/ ref[h]["v"] \in finalized
<1>1. Init => WeakTagged BY DEF Init, WeakTagged
<1>2. IInv /\ WeakTagged /\ [Next]_vars => WeakTagged' BY WeakTaggedInv
<1>3. IInv /\ WeakTagged /\ [Next]_vars => [Kept1]_vars
  <2> SUFFICES ASSUME IInv, WeakTagged, [Next]_vars PROVE Kept1 OBVIOUS
  <2> QED BY ClearsOnly
<1>4. WeakPairsKept <=> [][Kept1]_vars BY PTL DEF WeakPairsKept
<1> HIDE DEF Kept1
<1> QED BY <1>1, <1>2, <1>3, <1>4, Invariant, PTL DEF Spec

-----------------------------------------------------------------------------
(* Garbage                                                                 *)

(* Nothing outside d refers to an object of d.                             *)
Unreferred(K, r, op, d) ==
  \A o \in Obj \ d :
    /\ \A f \in Field : Refers(K, r, o, f) => r[o][f] \notin d
    /\ op[o] # <<>> => Val(r, op, o) \notin d

(* Nor does a root, nor is an object of d waiting for its finalizer.       *)
Isolated(K, r, op, d, run, mt, wait) ==
  /\ Unreferred(K, r, op, d)
  /\ {Main, Registry, run, mt} \cap d = {} /\ wait \cap d = {}

(* Doomed objects have nothing to finalize, and stay white until the end   *)
(* of the mark phase, and dead until the sweep reaches them.               *)
Forsaken(K, ev, r, c, st, d, fin) ==
  \A o \in d :
    /\ c[o] = IF st \in Marking THEN "white" ELSE "dead"
    /\ K[o] = "userdata" => o \in fin \/ r[o]["mt"] = Nil \/ "gc" \notin ev[r[o]["mt"]]

(* A cycle that will sweep what it has not marked is under way.            *)
InCycle(cl, st) ==
  /\ st \in Marking \cup Sweeping
  /\ ~TopIs(cl, "sweep") /\ ~TopIs(cl, "closed") /\ ~Abandoned(cl, st)

DoomInv ==
  /\ gcstate \notin Marking \cup Sweeping /\ ~TopIs(calls, "sweep") => doomed = {}
  /\ InCycle(calls, gcstate) =>
       /\ Isolated(shape.kind, ref, open, doomed, running, gmt, Ran(tmudata))
       /\ Forsaken(shape.kind, shape.events, ref, color, gcstate, doomed, finalized)
(* The two halves of DoomInv, of the present state.                        *)
Isol == Isolated(shape.kind, ref, open, doomed, running, gmt, Ran(tmudata))
Fors == Forsaken(shape.kind, shape.events, ref, color, gcstate, doomed, finalized)

(* What the program can get at is closed under references.                 *)
LEMMA ReachClosed ==
  ASSUME NEW S \in SUBSET Value, \A o \in Obj : Successors(o) \subseteq Value
  PROVE  /\ S \ {Nil} \subseteq ReachableFrom(S)
         /\ \A o \in ReachableFrom(S) : o \in Obj /\ Successors(o) \ {Nil} \subseteq ReachableFrom(S)
<1> DEFINE N == Cardinality(Obj)
           A == S \ {Nil}
           Step(X) == X \cup ((UNION {Successors(o) : o \in X}) \ {Nil})
           F == [X \in SUBSET Obj |-> Step(X)]
           Rec(g) == g = [n \in 0 .. N |-> IF n = 0 THEN A ELSE Step(g[n - 1])]
           R == CHOOSE g : Rec(g)
<1>1. ReachableFrom(S) = R[N] BY DEF ReachableFrom
<1>2. N \in Nat /\ IsFiniteSet(Obj) BY ObjFinite, FS_CardinalityType
<1>3. A \in SUBSET Obj /\ Nil \notin Obj BY IdAssumption DEF Value
<1>4. \A X \in SUBSET Obj : Step(X) \in SUBSET Obj /\ X \subseteq Step(X) BY DEF Value
<1>5. F \in [SUBSET Obj -> SUBSET Obj] /\ \A X \in SUBSET Obj : F[X] = Step(X) /\ X \subseteq F[X]
  <2> HIDE DEF Step
  <2> QED BY <1>4
<1>6. PICK f \in [0 .. N -> SUBSET Obj] : Iterated(f, F, A, N)
  <2> HIDE DEF F, N, A
  <2> QED BY <1>2, <1>3, <1>5, Iterates
<1> HIDE DEF A
<1>7. Rec(R)
  <2>1. f[0] = A /\ \A n \in 1 .. N : f[n] = F[f[n - 1]] BY <1>6 DEF Iterated
  <2>2. \A n \in 0 .. N : f[n] = IF n = 0 THEN A ELSE Step(f[n - 1])
    <3>1. ASSUME NEW n \in 0 .. N, n # 0 PROVE f[n] = Step(f[n - 1])
      <4> HIDE DEF N, Step, F
      <4>1. n \in 1 .. N /\ n - 1 \in 0 .. N BY <1>2, <3>1
      <4> QED BY <1>5, <1>6, <2>1, <4>1
    <3> HIDE DEF N, Step
    <3> QED BY <2>1, <3>1
  <2>3. Rec(f)
    <3> HIDE DEF N, Step
    <3> QED BY <1>6, <2>2
  <2> HIDE DEF Rec
  <2> QED BY <2>3
<1>8. R \in [0 .. N -> SUBSET Obj] /\ Iterated(R, F, A, N)
  <2>0. DOMAIN R = 0 .. N /\ R = [n \in 0 .. N |-> R[n]]
    <3> HIDE DEF N, Step, R
    <3> QED BY <1>7
  <2>1. R[0] = A /\ \A n \in 1 .. N : R[n] = Step(R[n - 1])
    <3> HIDE DEF N, Step, R
    <3> QED BY <1>2, <1>7
  <2>2. R[0] \in SUBSET Obj BY <1>3, <2>1
  <2>3. ASSUME NEW n \in 1 .. N, R[n - 1] \in SUBSET Obj PROVE R[n] \in SUBSET Obj
    <3> HIDE DEF N, Step, R
    <3> QED BY <1>4, <2>1, <2>3
  <2> HIDE DEF N, R, F, Step
  <2>4. \A n \in 0 .. N : R[n] \in SUBSET Obj BY <1>2, <2>2, <2>3, Throughout
  <2>5. \A n \in 1 .. N : R[n] = F[R[n - 1]]
    <3>1. ASSUME NEW n \in 1 .. N PROVE R[n] = F[R[n - 1]]
      <4>1. n - 1 \in 0 .. N BY <1>2
      <4> QED BY <1>5, <2>1, <2>4, <4>1
    <3> QED BY <3>1
  <2> QED BY <2>0, <2>1, <2>4, <2>5 DEF Iterated
<1> HIDE DEF R, N, F
<1>9. F[R[N]] = R[N] /\ A \subseteq R[N]
  BY <1>2, <1>3, <1>5, <1>8, Saturates DEF N
<1>10. R[N] \in SUBSET Obj /\ Step(R[N]) = R[N]
  <2>1. N \in 0 .. N BY <1>2
  <2>2. R[N] \in SUBSET Obj BY <1>8, <2>1
  <2> HIDE DEF Step
  <2> QED BY <1>5, <1>9, <2>2
<1> QED BY <1>1, <1>9, <1>10 DEF A

(* A reference of a doomed object may change, but no other one may come to *)
(* refer to a doomed object: S has the values that a step stores.          *)
LEMMA IsolatedStep ==
  ASSUME IInv, Isol, shape' = shape, doomed' \subseteq doomed,
         NEW S, S \cap doomed' = {},
         \A o \in Obj, f \in Field : ref'[o][f] = ref[o][f] \/ ref'[o][f] \in S,
         \A o \in Obj : shape.kind[o] = "table" /\ ref[o]["v"] = Nil /\ ref'[o]["v"] # Nil
                          => ref'[o]["k"] \in S,
         \A o \in doomed : o \notin doomed' => \A f \in Field : ref'[o][f] \in S,
         \A o \in Obj : open'[o] # <<>> =>
           (open'[o] = open[o] /\ ~(o \in doomed /\ o \notin doomed')) \/ Val(ref', open', o) \in S,
         running' \in S \cup {running, Main}, gmt' \in S \cup {gmt},
         \A u \in Ran(tmudata') : u \in S \cup Ran(tmudata)
  PROVE  Isol'
<1> DEFINE K == shape.kind
<1>1. /\ {Main, Registry, running, gmt} \cap doomed = {} /\ Ran(tmudata) \cap doomed = {}
      /\ \A o \in Obj \ doomed :
           /\ \A f \in Field : Refers(K, ref, o, f) => ref[o][f] \notin doomed
           /\ open[o] # <<>> => Val(ref, open, o) \notin doomed
  BY DEF Isol, Isolated, Unreferred
<1>2. open \in [Obj -> {<<>>} \cup (Obj \X Slot)] BY DEF IInv, Heap, HeapType
<1>3. ASSUME NEW o \in Obj, o \notin doomed', NEW f \in Field, Refers(K, ref', o, f)
      PROVE  ref'[o][f] \notin doomed'
  <2>1. CASE ref'[o][f] \in S BY <2>1
  <2>2. CASE ref'[o][f] \notin S
    <3>1. o \notin doomed /\ ref'[o][f] = ref[o][f] BY <1>3, <2>2
    <3>2. Refers(K, ref, o, f) BY <1>3, <2>2, <3>1 DEF Refers
    <3> QED BY <1>1, <3>1, <3>2
  <2> QED BY <2>1, <2>2
<1>4. ASSUME NEW o \in Obj, o \notin doomed', open'[o] # <<>> PROVE Val(ref', open', o) \notin doomed'
  <2>1. CASE Val(ref', open', o) \in S BY <2>1
  <2>2. CASE Val(ref', open', o) \notin S
    <3>1. open'[o] = open[o] /\ o \notin doomed BY <1>4, <2>2
    <3>2. open[o][1] \in Obj /\ open[o][2] \in Field BY <1>2, <1>4, <3>1, OpenPair
    <3>3. Val(ref', open', o) = ref'[open[o][1]][open[o][2]] BY <1>4, <3>1 DEF Val
    <3>4. Val(ref, open, o) = ref[open[o][1]][open[o][2]] BY <1>4, <3>1 DEF Val
    <3>5. Val(ref', open', o) = Val(ref, open, o) BY <2>2, <3>2, <3>3, <3>4
    <3> QED BY <1>1, <1>4, <3>1, <3>5
  <2> QED BY <2>1, <2>2
<1>5. {Main, Registry, running', gmt'} \cap doomed' = {} BY <1>1
<1>6. Ran(tmudata') \cap doomed' = {} BY <1>1
<1> QED BY <1>3, <1>4, <1>5, <1>6 DEF Isol, Isolated, Unreferred

(* What leaves the doomed objects alone.                                   *)
LEMMA ForsakenStep ==
  ASSUME Fors, shape' = shape, doomed' \subseteq doomed,
         \A o \in doomed' : color'[o] = color[o] /\ ref'[o]["mt"] = ref[o]["mt"],
         \A o \in doomed' : o \in finalized => o \in finalized',
         gcstate' \in Marking <=> gcstate \in Marking
  PROVE  Fors'
BY DEF Fors, Forsaken

(* A step of the program, or of a sweep, in a cycle or outside one.        *)
LEMMA DoomStep ==
  ASSUME DoomInv, calls' = calls, gcstate' = gcstate, doomed' \subseteq doomed,
         InCycle(calls, gcstate) /\ Isol /\ Fors => Isol' /\ Fors'
  PROVE  DoomInv'
BY DEF DoomInv, Isol, Fors

(* What the program has at hand is not doomed.                             *)
LEMMA AccessClean ==
  ASSUME IInv, Program, Isol
  PROVE  /\ \A x \in Accessible \cup Operands \cup {Nil} : x \notin doomed
         /\ \A o \in Accessible : o \in Obj /\ Readable(o) \cap doomed = {}
         /\ \A o \in Accessible : shape.kind[o] = "lclosure" =>
              ref[o]["up"] \in Obj /\ ref[o]["up"] \notin doomed
<1> DEFINE K == shape.kind
<1>1. /\ running \in Obj /\ K[running] = "thread" /\ Nil \notin Obj /\ doomed \subseteq Obj /\ Core
  BY ProgramFacts
<1>2. /\ Heap(K, ref, open, color) /\ Held(K, ref, open, color) /\ ref \in [Obj -> [Field -> Value]]
  BY <1>1, StepParts
<1>3. /\ running \notin doomed
      /\ \A o \in Obj \ doomed :
           /\ \A f \in Field : Refers(K, ref, o, f) => ref[o][f] \notin doomed
           /\ open[o] # <<>> => Val(ref, open, o) \notin doomed
  BY DEF Isol, Isolated, Unreferred
<1>4. \A f \in Field : ref[running][f] \notin doomed BY <1>1, <1>3 DEF Refers
<1>5. \A x \in Accessible \cup Operands \cup {Nil} : x \notin doomed
  BY <1>1, <1>4, FieldNames DEF Accessible, Operands, Stack
<1>6. \A o \in Accessible : o \in Obj /\ Ok(color, o) /\ K[o] # "upval" BY AccessOk
<1>7. ASSUME NEW o \in Accessible, K[o] = "lclosure"
      PROVE  /\ ref[o]["up"] \in Obj /\ ref[o]["up"] \notin doomed /\ K[ref[o]["up"]] = "upval"
  <2>1. o \in Obj \ doomed /\ Ok(color, o) BY <1>5, <1>6
  <2>2. ref[o]["up"] # Nil BY <1>2, <1>7, <2>1 DEF Heap, Born, Ok
  <2>3. Refers(K, ref, o, "up") /\ "up" \in Field BY <1>7, <2>2, FieldNames DEF Refers
  <2>4. ref[o]["up"] \in Obj /\ Fits(K, o, "up", ref[o]["up"]) BY <1>2, <2>1, <2>3, ReadOk
  <2> QED BY <1>3, <2>1, <2>3, <2>4 DEF Fits
<1>8. ASSUME NEW u \in Obj, u \notin doomed, K[u] = "upval" PROVE Val(ref, open, u) \notin doomed
  <2>1. CASE open[u] # <<>> BY <1>3, <1>8, <2>1
  <2>2. CASE open[u] = <<>>
    <3>1. Val(ref, open, u) = ref[u]["v"] BY <2>2 DEF Val
    <3>2. ref[u]["v"] # Nil => Refers(K, ref, u, "v") BY <1>8 DEF Refers
    <3> QED BY <1>1, <1>3, <1>8, <3>1, <3>2, FieldNames
  <2> QED BY <2>1, <2>2
<1>9. ASSUME NEW o \in Accessible, NEW v \in Readable(o) PROVE v \notin doomed
  <2>1. o \in Obj \ doomed BY <1>5, <1>6
  <2>2. CASE K[o] = "lclosure"
    <3>1. v \in {ref[o]["env"], UpvalValue(ref[o]["up"])} BY <2>2 DEF Readable, kind
    <3>2. UpvalValue(ref[o]["up"]) \notin doomed BY <1>7, <1>8, <2>2 DEF UpvalValue, Val
    <3>3. ref[o]["env"] # Nil => Refers(K, ref, o, "env") BY <2>2 DEF Refers
    <3> QED BY <1>1, <1>3, <2>1, <3>1, <3>2, <3>3, FieldNames
  <2>3. CASE K[o] # "lclosure"
    <3>1. \E f \in Field : v = ref[o][f] /\ (v # Nil => Refers(K, ref, o, f))
      BY <2>1, <2>3, FieldNames DEF Readable, kind, Refers
    <3> QED BY <1>1, <1>3, <2>1, <3>1
  <2> QED BY <2>2, <2>3
<1> QED BY <1>5, <1>6, <1>7, <1>9

(* Marking from objects that are not in d marks none that is.              *)
LEMMA PaintClean ==
  ASSUME IInv, NEW d \in SUBSET Obj, Unreferred(shape.kind, ref, open, d),
         NEW S \in SUBSET Value, S \cap d = {}
  PROVE  \A o \in d : Painted(S)[o] = color[o]
<1> DEFINE K == shape.kind
           A == Whites(S)
           B == WithUpvalues(A)
<1>1. Heap(K, ref, open, color) /\ ref \in [Obj -> [Field -> Value]] /\ Nil \notin Obj
  BY IdAssumption DEF IInv, Heap, HeapType
<1>3. \A o \in Obj \ d :
           /\ \A f \in Field : Refers(K, ref, o, f) => ref[o][f] \notin d
           /\ open[o] # <<>> => Val(ref, open, o) \notin d
  BY DEF Unreferred
<1>4. A \subseteq Obj /\ A \cap d = {} BY DEF Whites, Value
<1>5. ASSUME NEW u \in A, K[u] = "upval" PROVE UpvalValue(u) \in Value /\ UpvalValue(u) \notin d
  <2>1. u \in Obj \ d /\ UpvalValue(u) = Val(ref, open, u) BY <1>4 DEF UpvalValue, Val
  <2>2. Val(ref, open, u) \in Value BY <1>1, <2>1, ValType
  <2>3. CASE open[u] # <<>> BY <1>3, <2>1, <2>2, <2>3
  <2>4. CASE open[u] = <<>>
    <3>1. Val(ref, open, u) = ref[u]["v"] BY <2>4 DEF Val
    <3>2. ref[u]["v"] # Nil => Refers(K, ref, u, "v") BY <1>5 DEF Refers
    <3> QED BY <1>1, <1>3, <2>1, <2>2, <3>1, <3>2, FieldNames
  <2> QED BY <2>3, <2>4
<1> HIDE DEF A
<1>6. B \subseteq Obj /\ B \cap d = {} BY <1>4, <1>5 DEF WithUpvalues, Whites, Value, Of, kind
<1> HIDE DEF B
<1>7. ASSUME NEW u \in B, K[u] = "userdata", NEW f \in {"mt", "env"} PROVE ref[u][f] \notin d
  <2>1. ref[u][f] # Nil => Refers(K, ref, u, f) BY <1>7 DEF Refers
  <2> QED BY <1>1, <1>3, <1>6, <2>1, FieldNames
<1>8. Marks(S) = WithUserdata(B) BY DEF Marks, A, B
<1>9. Marks(S) \cap d = {} BY <1>6, <1>7, <1>8 DEF WithUserdata, Whites, Of, kind
<1> QED BY <1>1, <1>9 DEF Painted

(* What one assignment changes.                                            *)
LEMMA OneField ==
  ASSUME NEW r \in [Obj -> [Field -> Value]], NEW o \in Obj, NEW g \in Field, NEW v,
         NEW r2, r2 = [r EXCEPT ![o][g] = v]
  PROVE  /\ \A x \in Obj, f \in Field : r2[x][f] = IF x = o /\ f = g THEN v ELSE r[x][f]
         /\ \A x \in Obj : x # o => r2[x] = r[x]
OBVIOUS

(* Barriers, too, leave doomed objects alone.                              *)
LEMMA BarrierClean ==
  ASSUME IInv, Isol, NEW o \in Obj \ doomed, NEW v \in Value, v \notin doomed, luaC_barrier(o, v)
  PROVE  \A x \in doomed : color'[x] = color[x]
<1>1. {v} \in SUBSET Value /\ {v} \cap doomed = {} OBVIOUS
<1>3. doomed \subseteq Obj /\ color \in [Obj -> Colors] BY DEF IInv, Basics, Heap, HeapType
<1>2. \A x \in doomed : Painted({v})[x] = color[x] BY <1>1, <1>3, PaintClean DEF Isol, Isolated
<1> QED BY <1>2, <1>3 DEF luaC_barrier, luaC_barrierf

(* luaC_barriert paints only the table, which the program has at hand.     *)
LEMMA BackClean ==
  ASSUME IInv, NEW h \in Obj \ doomed, NEW S, luaC_barriert(h, S)
  PROVE  \A x \in doomed : color'[x] = color[x]
<1>1. doomed \subseteq Obj /\ color \in [Obj -> Colors] BY DEF IInv, Basics, Heap, HeapType
<1> QED BY <1>1 DEF luaC_barriert

(* A store of the values S by the program.                                 *)
LEMMA StoreDoom ==
  ASSUME IInv, DoomInv, StoreOnly, open' = open, NEW S,
         Isol =>
           /\ S \cap doomed = {}
           /\ \A o \in Obj, f \in Field : ref'[o][f] = ref[o][f] \/ ref'[o][f] \in S
           /\ \A o \in Obj : shape.kind[o] = "table" /\ ref[o]["v"] = Nil /\ ref'[o]["v"] # Nil
                               => ref'[o]["k"] \in S
           /\ \A o \in doomed : color'[o] = color[o] /\ ref'[o]["mt"] = ref[o]["mt"]
           /\ running' \in S \cup {running, Main}
           /\ gmt' \in S \cup {gmt}
  PROVE  DoomInv'
<1>1. /\ calls' = calls /\ gcstate' = gcstate /\ shape' = shape
      /\ doomed' = doomed /\ tmudata' = tmudata /\ finalized' = finalized
  BY DEF StoreOnly, NoGC, udataVars
<1>2. ASSUME Isol, Fors PROVE Isol' /\ Fors'
  <2>1. Isol'
    <3>1. \A o \in Obj : open'[o] # <<>> =>
            (open'[o] = open[o] /\ ~(o \in doomed /\ o \notin doomed')) \/ Val(ref', open', o) \in S
      BY <1>1
    <3> QED BY <1>1, <1>2, <3>1, IsolatedStep
  <2>2. Fors' BY <1>1, <1>2, ForsakenStep
  <2> QED BY <2>1, <2>2
<1> QED BY <1>1, <1>2, DoomStep

(* Every store of the program.                                             *)
LEMMA StoreClean ==
  ASSUME IInv, DoomInv, Store
  PROVE  DoomInv'
<1> DEFINE K == shape.kind
<1>1. Program BY ProgramSteps
<1>2. /\ running \in Obj /\ K[running] = "thread" /\ Nil \notin Obj /\ doomed \subseteq Obj /\ Core
  BY <1>1, ProgramFacts
<1>3. /\ ref \in [Obj -> [Field -> Value]] /\ open \in [Obj -> {<<>>} \cup (Obj \X Slot)]
      /\ Heap(K, ref, open, color) /\ gmt \in Value /\ K \in [Obj -> Kinds]
  BY <1>2, StepParts DEF IInv, Basics
<1>4. Isol => /\ \A x \in Accessible \cup Operands \cup {Nil} : x \notin doomed
              /\ \A o \in Accessible : o \in Obj /\ Readable(o) \cap doomed = {}
              /\ \A o \in Accessible : K[o] = "lclosure" =>
                   ref[o]["up"] \in Obj /\ ref[o]["up"] \notin doomed
  BY <1>1, AccessClean
<1>5. Accessible \subseteq Obj /\ Operands \subseteq Value BY <1>1, AccessOk DEF Value
<1>6. \A f \in {"mt", "env", "p", "up", "k", "v", "fin"} : f \in Field BY FieldNames
<1>7. \A s \in Slot : s \in Field /\ s \notin {"mt", "env", "p", "up", "k", "v", "fin"} BY FieldNames
<1>10. ASSUME NEW s \in Slot, NEW v \in Obj \cup {Nil}, Load(s, v) PROVE DoomInv'
  <2>1. /\ ref' = [ref EXCEPT ![running][s] = v] /\ open' = open /\ gmt' = gmt /\ StoreOnly
        /\ color' = color /\ running' = running
        /\ v \in (UNION {Readable(o) : o \in Accessible}) \cup {Nil}
    BY <1>10 DEF Load
  <2>2. Isol => {v} \cap doomed = {} BY <1>2, <1>4, <2>1
  <2>3. \A o \in Obj, f \in Field : ref'[o][f] = ref[o][f] \/ ref'[o][f] \in {v} BY <1>3, <2>1
  <2>4. \A o \in Obj : ref'[o]["v"] = ref[o]["v"] /\ ref'[o]["mt"] = ref[o]["mt"] BY <1>3, <1>7, <2>1
  <2> QED BY <1>2, <2>1, <2>2, <2>3, <2>4, StoreDoom
<1>11. ASSUME NEW o \in Accessible, NEW k \in Operands, NEW v \in Operands, luaV_settable(o, k, v)
       PROVE  DoomInv'
  <2> DEFINE S == {k, v}
             B == IF ref[o]["k"] = k THEN {v} ELSE {k, v}
  <2>1. /\ ref' = [ref EXCEPT ![o]["k"] = k, ![o]["v"] = v] /\ open' = open /\ gmt' = gmt /\ StoreOnly
        /\ luaC_barriert(o, B) /\ running' = running
    BY <1>11 DEF luaV_settable
  <2>2. o \in Obj BY <1>5
  <2>3. Isol => S \cap doomed = {} /\ o \notin doomed BY <1>4
  <2>4. /\ \A x \in Obj, f \in Field : ref'[x][f] = ref[x][f] \/ ref'[x][f] \in S
        /\ \A x \in Obj : ref'[x]["mt"] = ref[x]["mt"] /\ (x # o => ref'[x] = ref[x])
        /\ ref'[o]["k"] = k
    BY <1>3, <1>6, <2>1, <2>2
  <2> HIDE DEF B
  <2>5. Isol => \A x \in doomed : color'[x] = color[x] BY <2>1, <2>2, <2>3, BackClean
  <2>6. \A x \in Obj : K[x] = "table" /\ ref[x]["v"] = Nil /\ ref'[x]["v"] # Nil => ref'[x]["k"] \in S
    BY <2>4
  <2> HIDE DEF S
  <2> QED BY <1>2, <2>1, <2>3, <2>4, <2>5, <2>6, StoreDoom
<1>12. ASSUME NEW o \in Accessible, NEW m \in Accessible \cup {Nil}, lua_setmetatable(o, m)
       PROVE  DoomInv'
  <2>1. open' = open /\ running' = running /\ StoreOnly BY <1>12 DEF lua_setmetatable
  <2>2. o \in Obj /\ m \in Value BY <1>5 DEF Value
  <2>3. Isol => {m} \cap doomed = {} /\ o \notin doomed BY <1>4
  <2>4. \/ /\ ref' = [ref EXCEPT ![o]["mt"] = m] /\ gmt' = gmt
           /\ luaC_barriert(o, {m}) \/ luaC_barrier(o, m)
        \/ gmt' = m /\ UNCHANGED <<ref, color>>
    BY <1>12 DEF lua_setmetatable
  <2>5. Isol => \A x \in doomed : color'[x] = color[x]
    BY <2>2, <2>3, <2>4, BackClean, BarrierClean
  <2>6. /\ \A x \in Obj, f \in Field : ref'[x][f] = ref[x][f] \/ ref'[x][f] \in {m}
        /\ \A x \in Obj : ref'[x]["v"] = ref[x]["v"] /\ (x # o => ref'[x] = ref[x])
    <3>1. CASE ref' = [ref EXCEPT ![o]["mt"] = m]
      <4>1. /\ \A x \in Obj, f \in Field : ref'[x][f] = IF x = o /\ f = "mt" THEN m ELSE ref[x][f]
            /\ \A x \in Obj : x # o => ref'[x] = ref[x]
        BY <1>3, <1>6, <2>2, <3>1, OneField
      <4> QED BY <1>6, <4>1
    <3>2. CASE ref' = ref BY <3>2
    <3> QED BY <2>4, <3>1, <3>2
  <2>7. gmt' \in {m} \cup {gmt} BY <2>4
  <2> QED BY <1>2, <2>1, <2>3, <2>5, <2>6, <2>7, StoreDoom
<1>13. ASSUME NEW o \in Accessible, NEW e \in Accessible, lua_setfenv(o, e) PROVE DoomInv'
  <2>1. /\ ref' = [ref EXCEPT ![o]["env"] = e] /\ open' = open /\ gmt' = gmt /\ StoreOnly
        /\ luaC_barrier(o, e) /\ running' = running
    BY <1>13 DEF lua_setfenv
  <2>2. o \in Obj /\ e \in Value BY <1>5 DEF Value
  <2>3. Isol => {e} \cap doomed = {} /\ o \notin doomed BY <1>4
  <2>4. /\ \A x \in Obj, f \in Field : ref'[x][f] = ref[x][f] \/ ref'[x][f] \in {e}
        /\ \A x \in Obj : ref'[x]["mt"] = ref[x]["mt"] /\ ref'[x]["v"] = ref[x]["v"]
    BY <1>3, <2>1, <2>2
  <2>5. Isol => \A x \in doomed : color'[x] = color[x] BY <2>1, <2>2, <2>3, BarrierClean
  <2> QED BY <1>2, <2>1, <2>3, <2>4, <2>5, StoreDoom
<1>14. ASSUME NEW u \in Obj, NEW v \in Value, SetUpval(u, v), K[u] = "upval"
       PROVE  /\ \A x \in Obj, f \in Field : ref'[x][f] = ref[x][f] \/ ref'[x][f] \in {v}
              /\ \A x \in Obj : /\ ref'[x]["mt"] = ref[x]["mt"]
                                /\ K[x] = "table" => ref'[x]["v"] = ref[x]["v"]
  <2>1. CASE open[u] = <<>>
    <3>1. ref' = [ref EXCEPT ![u]["v"] = v] BY <1>14, <2>1 DEF SetUpval
    <3> QED BY <1>3, <1>14, <3>1
  <2>2. CASE open[u] # <<>>
    <3>1. ref' = [ref EXCEPT ![open[u][1]][open[u][2]] = v] BY <1>14, <2>2 DEF SetUpval
    <3>2. open[u][1] \in Obj /\ open[u][2] \in Slot BY <1>3, <2>2, OpenPair
    <3>3. open[u][2] \notin {"mt", "v"} BY <1>7, <3>2
    <3> QED BY <1>3, <3>1, <3>2, <3>3
  <2> QED BY <2>1, <2>2
<1>15. ASSUME NEW o \in Accessible, NEW v \in Operands,
              OP_SETUPVAL(o, v) \/ lua_setupvalue(o, v) \/ addk(o, v)
       PROVE  DoomInv'
  <2>1. open' = open /\ gmt' = gmt /\ StoreOnly /\ running' = running
    BY <1>15 DEF OP_SETUPVAL, lua_setupvalue, addk
  <2>2. o \in Obj /\ v \in Value BY <1>5
  <2>3. Isol => {v} \cap doomed = {} /\ o \notin doomed BY <1>4
  <2>4. CASE OP_SETUPVAL(o, v)
    <3>1. K[o] = "lclosure" /\ SetUpval(ref[o]["up"], v) /\ luaC_barrier(ref[o]["up"], v)
      BY <2>4 DEF OP_SETUPVAL, kind
    <3>2. Isol => ref[o]["up"] \in Obj /\ ref[o]["up"] \notin doomed BY <1>4, <3>1
    <3>3. Isol => \A x \in doomed : color'[x] = color[x] BY <2>2, <2>3, <3>1, <3>2, BarrierClean
    <3>4. Isol => K[ref[o]["up"]] = "upval"
      BY <1>3, <2>2, <3>1, <3>2, <1>2, <1>6 DEF Heap, HeapFits, Fits
    <3>5. Isol => /\ \A x \in Obj, f \in Field : ref'[x][f] = ref[x][f] \/ ref'[x][f] \in {v}
                  /\ \A x \in Obj : /\ ref'[x]["mt"] = ref[x]["mt"]
                                    /\ K[x] = "table" => ref'[x]["v"] = ref[x]["v"]
      BY <1>14, <2>2, <3>1, <3>2, <3>4
    <3> QED BY <1>2, <2>1, <2>3, <3>3, <3>5, StoreDoom
  <2>5. ASSUME \/ K[o] = "cclosure" /\ ref' = [ref EXCEPT ![o]["v"] = v]
               \/ ref' = [ref EXCEPT ![o]["k"] = v],
               luaC_barrier(o, v)
        PROVE  DoomInv'
    <3>1. Isol => \A x \in doomed : color'[x] = color[x] BY <2>2, <2>3, <2>5, BarrierClean
    <3>2. /\ \A x \in Obj, f \in Field : ref'[x][f] = ref[x][f] \/ ref'[x][f] \in {v}
          /\ \A x \in Obj : /\ ref'[x]["mt"] = ref[x]["mt"]
                            /\ K[x] = "table" => ref'[x]["v"] = ref[x]["v"]
      <4>1. ASSUME NEW g \in {"k", "v"}, ref' = [ref EXCEPT ![o][g] = v]
            PROVE  \A x \in Obj, f \in Field : ref'[x][f] = IF x = o /\ f = g THEN v ELSE ref[x][f]
        BY <1>3, <1>6, <2>2, <4>1, OneField
      <4> QED BY <1>6, <2>5, <4>1
    <3> QED BY <1>2, <2>1, <2>3, <3>1, <3>2, StoreDoom
  <2>6. CASE lua_setupvalue(o, v)
    <3>1. ~Makes("setupvalue") BY DEF IInv, Basics, Plain
    <3> QED BY <2>5, <2>6, <3>1 DEF lua_setupvalue, kind
  <2>7. CASE addk(o, v) BY <2>5, <2>7 DEF addk
  <2> QED BY <1>15, <2>4, <2>6, <2>7
<1>16. ASSUME NEW o \in Accessible, NEW s \in Slot, NEW t \in Slot, lua_xmove(o, s, t)
       PROVE  DoomInv'
  <2> DEFINE v == ref[running][s]
  <2>1. /\ ref' = [ref EXCEPT ![o][t] = v] /\ open' = open /\ gmt' = gmt /\ StoreOnly
        /\ color' = color /\ running' = running
    BY <1>16 DEF lua_xmove
  <2>2. o \in Obj /\ v \in Operands BY <1>5 DEF Operands, Stack
  <2>3. Isol => {v} \cap doomed = {} BY <1>4, <2>2
  <2> HIDE DEF v
  <2>4. /\ \A x \in Obj, f \in Field : ref'[x][f] = ref[x][f] \/ ref'[x][f] \in {v}
        /\ \A x \in Obj : ref'[x]["mt"] = ref[x]["mt"] /\ ref'[x]["v"] = ref[x]["v"]
    BY <1>3, <1>7, <2>1, <2>2
  <2> QED BY <1>2, <2>1, <2>3, <2>4, StoreDoom
<1>17. ASSUME NEW th, Switch(th), th \in Accessible \cup {Main} PROVE DoomInv'
  <2>1. running' = th /\ StoreOnly /\ UNCHANGED <<ref, open, gmt, color>>
    BY <1>17 DEF Switch, heapVars
  <2>2. Isol => Accessible \cap doomed = {} BY <1>4
  <2>3. th \in Accessible \cup {running, Main} BY <1>17
  <2> QED BY <1>2, <2>1, <2>2, <2>3, StoreDoom
<1>18. ASSUME NEW u \in Of("upval"), luaF_close(u) PROVE DoomInv'
  <2> DEFINE t == open[u][2]
             v == ref[running][t]
             out == [ref EXCEPT ![running][t] = Nil]
             S == {v, Nil}
  <2>1. u \in Obj /\ K[u] = "upval" BY DEF Of, kind
  <2>2. /\ open[u] # <<>> /\ open[u][1] = running /\ open' = [open EXCEPT ![u] = <<>>]
        /\ calls' = calls /\ gcstate' = gcstate /\ shape' = shape /\ gmt' = gmt
        /\ UNCHANGED <<tmudata, finalized, running>>
        /\ \/ /\ isdead(u) /\ color' = [color EXCEPT ![u] = "free"]
              /\ ref' = [out EXCEPT ![u] = Empty] /\ doomed' = doomed \ {u}
           \/ /\ ~isdead(u) /\ ref' = [out EXCEPT ![u]["v"] = UpvalValue(u)]
              /\ luaC_linkupval(u, Failing("open", ~isblack(u))) /\ doomed' = doomed
    BY <1>18 DEF luaF_close, NoGC, udataVars
  <2>3. t \in Slot /\ t \in Field /\ t \notin {"mt", "v"} BY <1>3, <1>7, <2>1, <2>2, OpenPair
  <2>4. u # running BY <1>2, <2>1
  <2>5. UpvalValue(u) = v /\ v \in Value /\ v \in Operands
    <3>1. UpvalValue(u) = v BY <2>2 DEF UpvalValue
    <3>2. v \in Value BY <1>2, <1>3, <2>3
    <3>3. v \in Operands BY <2>3 DEF Operands, Stack
    <3> QED BY <3>1, <3>2, <3>3
  <2>6. Isol => S \cap doomed = {} BY <1>4, <2>5
  <2>7. Empty \in [Field -> Value] /\ \A f \in Field : Empty[f] = Nil BY DEF Empty, Value
  <2>8. /\ \A x \in Obj, f \in Field : ref'[x][f] = ref[x][f] \/ ref'[x][f] \in S
        /\ \A x \in Obj : K[x] = "table" => ref'[x] = ref[x]
        /\ \A x \in doomed' : ref'[x]["mt"] = ref[x]["mt"]
        /\ doomed' # doomed => \A f \in Field : ref'[u][f] = Nil
    <3>1. out \in [Obj -> [Field -> Value]] BY <1>2, <1>3, <2>3 DEF Value
    <3>2. \A x \in Obj : x # running => out[x] = ref[x] BY <1>3
    <3>3. \A f \in Field : out[running][f] = IF f = t THEN Nil ELSE ref[running][f]
      BY <1>2, <1>3, <2>3
    <3> HIDE DEF out, v, t
    <3>4. CASE ref' = [out EXCEPT ![u] = Empty] /\ doomed' = doomed \ {u}
      <4>1. ref'[u] = Empty /\ \A x \in Obj : x # u => ref'[x] = out[x] BY <2>1, <3>1, <3>4
      <4> QED BY <1>2, <1>6, <2>1, <2>3, <2>4, <2>7, <3>2, <3>3, <3>4, <4>1
    <3>5. CASE ref' = [out EXCEPT ![u]["v"] = v] /\ doomed' = doomed
      <4>1. /\ \A x \in Obj : x # u => ref'[x] = out[x]
            /\ \A f \in Field : ref'[u][f] = IF f = "v" THEN v ELSE out[u][f]
        BY <2>1, <3>1, <3>5
      <4> QED BY <1>2, <1>6, <2>1, <2>3, <2>4, <3>2, <3>3, <3>5, <4>1
    <3> QED BY <2>2, <2>5, <3>4, <3>5
  <2>9. \A x \in Obj : open'[x] # <<>> => open'[x] = open[x] /\ ~(x \in doomed /\ x \notin doomed')
    BY <1>3, <2>1, <2>2
  <2>10. ASSUME Isol, Fors PROVE \A x \in doomed' : color'[x] = color[x]
    <3>1. color \in [Obj -> Colors] BY <1>3 DEF Heap, HeapType
    <3>2. CASE doomed' = doomed \ {u} /\ color' = [color EXCEPT ![u] = "free"]
      BY <1>2, <3>1, <3>2
    <3>3. CASE luaC_linkupval(u, Failing("open", ~isblack(u))) /\ doomed' = doomed
      <4>1. {v} \in SUBSET Value /\ {v} \cap doomed = {} BY <2>5, <2>6, <2>10
      <4>2. \A x \in doomed : Painted({v})[x] = color[x] BY <1>2, <2>10, <4>1, PaintClean DEF Isol, Isolated
      <4>3. isgray(u) => u \notin doomed BY <2>10 DEF Fors, Forsaken, isgray
      <4> HIDE DEF v
      <4>4. \A w \in {"black", "white"} : \A x \in doomed :
              isgray(u) => [color EXCEPT ![u] = w][x] = color[x]
        BY <1>2, <3>1, <4>3
      <4>5. isgray(u) => \A x \in doomed : [Painted({v}) EXCEPT ![u] = "black"][x] = color[x]
        BY <1>2, <4>2, <4>3 DEF Painted
      <4> QED BY <2>5, <3>3, <4>4, <4>5 DEF luaC_linkupval
    <3> QED BY <2>2, <3>2, <3>3
  <2>11. doomed' \subseteq doomed /\ \A x \in doomed : x \notin doomed' => x = u BY <2>2
  <2> HIDE DEF v, t, out
  <2>12. ASSUME Isol, Fors PROVE Isol' /\ Fors'
    <3>1. S \cap doomed' = {} BY <2>6, <2>11, <2>12
    <3>2. \A x \in Obj : K[x] = "table" /\ ref[x]["v"] = Nil /\ ref'[x]["v"] # Nil => ref'[x]["k"] \in S
      BY <2>8
    <3>3. \A x \in doomed : x \notin doomed' => \A f \in Field : ref'[x][f] \in S BY <2>8, <2>11
    <3> HIDE DEF S
    <3>4. Isol' BY <2>2, <2>8, <2>9, <2>11, <2>12, <3>1, <3>2, <3>3, IsolatedStep
    <3>5. Fors' BY <2>2, <2>8, <2>10, <2>11, <2>12, ForsakenStep
    <3> QED BY <3>4, <3>5
  <2> QED BY <2>2, <2>11, <2>12, DoomStep
<1> QED BY <1>10, <1>11, <1>12, <1>13, <1>15, <1>16, <1>17, <1>18 DEF Store, lua_resume, lua_yield

(* A new object o, which the program leaves in a slot, refers to the       *)
(* values S; what was doomed may be used again.                            *)
LEMMA BirthClean ==
  ASSUME IInv, DoomInv, Program, NoGC, NEW o \in Id, NEW s \in Slot, NEW new, NEW S,
         color[o] = "free", ref' = [ref EXCEPT ![o] = new, ![running][s] = o],
         \A f \in Field : new[f] \in S, o \in S,
         shape.kind[o] = "table" => new["v"] = Nil,
         doomed' \subseteq doomed,
         Isol /\ Fors => S \cap doomed' = {},
         \A x \in doomed : x \notin doomed' => \A f \in Field : ref[x][f] \in S,
         \A x \in Obj : open'[x] # <<>> =>
           (open'[x] = open[x] /\ ~(x \in doomed /\ x \notin doomed')) \/ Val(ref', open', x) \in S,
         \A x \in doomed' : color[x] # "free" => color'[x] = color[x],
         UNCHANGED <<running, gmt, tmudata, finalized>>
  PROVE  DoomInv'
<1> DEFINE K == shape.kind
<1>1. calls' = calls /\ gcstate' = gcstate /\ shape' = shape BY DEF NoGC
<1>2. /\ running \in Obj /\ K[running] = "thread" /\ color[running] # "free"
      /\ doomed \subseteq Obj /\ Core
  BY ProgramFacts
<1>3. ref \in [Obj -> [Field -> Value]] BY <1>2, StepParts
<1>4. o \in Obj /\ o # running BY <1>2 DEF Obj
<1>5. s \in Field /\ s \notin {"mt", "v"} BY FieldNames
<1>6. /\ \A x \in Obj : x \notin {o, running} => ref'[x] = ref[x]
      /\ ref'[o] = new
      /\ \A f \in Field : ref'[running][f] = IF f = s THEN o ELSE ref[running][f]
  BY <1>2, <1>3, <1>4, <1>5
<1>7. /\ \A x \in Obj, f \in Field : ref'[x][f] = ref[x][f] \/ ref'[x][f] \in S
      /\ \A x \in Obj : x # o => ref'[x]["mt"] = ref[x]["mt"] /\ ref'[x]["v"] = ref[x]["v"]
  BY <1>5, <1>6, FieldNames
<1>8. ASSUME Isol, Fors PROVE Isol' /\ Fors'
  <2>1. \A x \in doomed : color[x] # "free" BY <1>8 DEF Fors, Forsaken
  <2>2. o \notin doomed BY <2>1
  <2>3. \A x \in Obj : K[x] = "table" /\ ref[x]["v"] = Nil /\ ref'[x]["v"] # Nil => ref'[x]["k"] \in S
    BY <1>6, <1>7
  <2>4. \A x \in doomed : x \notin doomed' => \A f \in Field : ref'[x][f] \in S
    BY <1>2, <1>7
  <2>5. Isol' BY <1>1, <1>7, <1>8, <2>3, <2>4, IsolatedStep
  <2>6. Fors' BY <1>1, <1>2, <1>7, <1>8, <2>1, <2>2, ForsakenStep
  <2> QED BY <2>5, <2>6
<1> QED BY <1>1, <1>8, DoomStep

(* luaC_link and its relatives: the new object refers to what its creator  *)
(* has at hand.                                                            *)
LEMMA CreateClean ==
  ASSUME IInv, DoomInv, NEW o \in Id, NEW s \in Slot, NEW fields, Create(o, s, fields),
         \A f \in Field : f \in DOMAIN fields => f \in {"env", "v"} /\ fields[f] \in Accessible \cup Operands,
         shape.kind[o] = "table" => "v" \notin DOMAIN fields
  PROVE  DoomInv'
<1> DEFINE new == [f \in Field |-> IF f \in DOMAIN fields THEN fields[f] ELSE Nil]
           S == Accessible \cup Operands \cup {Nil, o}
<1>1. /\ Program /\ NoGC /\ color[o] = "free" /\ color' = [color EXCEPT ![o] = "white"]
      /\ ref' = [ref EXCEPT ![o] = new, ![running][s] = o]
      /\ open' = open /\ doomed' = doomed /\ UNCHANGED <<running, gmt, tmudata, finalized>>
  BY DEF Create, Live
<1>2. \A f \in Field : new[f] \in S OBVIOUS
<1>3. shape.kind[o] = "table" => new["v"] = Nil BY FieldNames
<1>4. Isol /\ Fors => S \cap doomed' = {}
  <2>1. Fors => o \notin doomed BY <1>1 DEF Fors, Forsaken
  <2>2. Isol => \A x \in Accessible \cup Operands \cup {Nil} : x \notin doomed BY <1>1, AccessClean
  <2> QED BY <1>1, <2>1, <2>2
<1>5. \A x \in doomed' : color[x] # "free" => color'[x] = color[x]
  <2>1. doomed \subseteq Obj /\ color \in [Obj -> Colors] BY DEF IInv, Basics, Heap, HeapType
  <2> QED BY <1>1, <2>1
<1>6. o \in S OBVIOUS
<1>7. \A x \in Obj : open'[x] # <<>> =>
        (open'[x] = open[x] /\ ~(x \in doomed /\ x \notin doomed')) \/ Val(ref', open', x) \in S
  BY <1>1
<1> HIDE DEF new, S
<1> QED BY <1>1, <1>2, <1>3, <1>4, <1>5, <1>6, <1>7, BirthClean

(* Tables, prototypes, threads, userdata and C functions.                  *)
LEMMA NewClean ==
  ASSUME IInv, DoomInv, NEW o \in Id, NEW s \in Slot,
         \/ luaH_new(o, s)
         \/ luaF_newproto(o, s)
         \/ luaE_newthread(o, s)
         \/ luaS_newudata(o, s)
         \/ lua_pushcclosure(o, s)
  PROVE  DoomInv'
<1> DEFINE K == shape.kind
           env == ref[running]["env"]
<1>1. env \in Accessible BY DEF Accessible
<1> HIDE DEF env
<1>3. CASE luaH_new(o, s) \/ luaF_newproto(o, s)
  <2>1. Create(o, s, <<>>) BY <1>3 DEF luaH_new, luaF_newproto
  <2>2. PICK fields : fields = <<>> OBVIOUS
  <2>3. DOMAIN fields = {} BY <2>2
  <2> QED BY <2>1, <2>2, <2>3, CreateClean
<1>4. CASE luaE_newthread(o, s) \/ luaS_newudata(o, s)
  <2> DEFINE fs == [env |-> env]
  <2>1. Create(o, s, fs) /\ K[o] # "table" BY <1>4 DEF luaE_newthread, luaS_newudata, kind, env
  <2>2. PICK fields : fields = fs OBVIOUS
  <2>3. DOMAIN fields = {"env"} /\ fields["env"] = env BY <2>2
  <2> QED BY <1>1, <2>1, <2>2, <2>3, CreateClean
<1>5. CASE lua_pushcclosure(o, s)
  <2>1. PICK v \in Operands : Create(o, s, [env |-> env, v |-> v])
    BY <1>5 DEF lua_pushcclosure, env
  <2>2. K[o] # "table" BY <1>5 DEF lua_pushcclosure, kind
  <2>3. PICK fields : fields = [env |-> env, v |-> v] OBVIOUS
  <2>4. DOMAIN fields = {"env", "v"} /\ fields["env"] = env /\ fields["v"] = v BY <2>3
  <2> QED BY <1>1, <2>1, <2>2, <2>3, <2>4, CreateClean
<1> QED BY <1>3, <1>4, <1>5

(* A string that exists, even a doomed one, is used again.                 *)
LEMMA NewlstrClean ==
  ASSUME IInv, DoomInv, NEW o \in Id, NEW s \in Slot, luaS_newlstr(o, s)
  PROVE  DoomInv'
<1> DEFINE K == shape.kind
           S == {o, Nil}
<1>1. K[o] = "string" BY DEF luaS_newlstr, kind
<1>2. CASE Create(o, s, <<>>)
  <2>2. PICK fields : fields = <<>> OBVIOUS
  <2>3. DOMAIN fields = {} BY <2>2
  <2> QED BY <1>2, <2>2, <2>3, CreateClean
<1>3. CASE ~Create(o, s, <<>>)
  <2>1. /\ Program /\ ref' = [ref EXCEPT ![running][s] = o] /\ doomed' = doomed \ {o}
        /\ color' = [color EXCEPT ![o] = IF isdead(o) THEN "white" ELSE @]
        /\ calls' = calls /\ gcstate' = gcstate /\ shape' = shape
        /\ UNCHANGED <<open, gmt, tmudata, finalized, running>>
    BY <1>3 DEF luaS_newlstr, NoGC, udataVars
  <2>2. /\ running \in Obj /\ doomed \subseteq Obj /\ Core /\ Nil \notin Obj /\ o \in Obj
    BY <2>1, ProgramFacts DEF Obj
  <2>3. /\ ref \in [Obj -> [Field -> Value]] /\ Heap(K, ref, open, color) /\ color \in [Obj -> Colors]
    BY <2>2, StepParts
  <2>4. s \in Field /\ s \notin {"mt", "v"} BY FieldNames
  <2>5. \A f \in Field : ref[o][f] = Nil BY <1>1, <2>2, <2>3 DEF Heap, HeapFits, Fits, FieldsOf
  <2>6. open[o] = <<>> BY <1>1, <2>2, <2>3 DEF Heap, OpenFits
  <2>7. \A x \in Obj, f \in Field : ref'[x][f] = IF x = running /\ f = s THEN o ELSE ref[x][f]
    BY <2>1, <2>2, <2>3, <2>4, OneField
  <2>8. /\ \A x \in Obj, f \in Field : ref'[x][f] = ref[x][f] \/ ref'[x][f] \in S
        /\ \A x \in Obj : ref'[x]["mt"] = ref[x]["mt"] /\ ref'[x]["v"] = ref[x]["v"]
        /\ \A x \in doomed : x \notin doomed' => \A f \in Field : ref'[x][f] \in S
    BY <2>1, <2>2, <2>4, <2>5, <2>7, FieldNames
  <2>9. S \cap doomed' = {} BY <2>1, <2>2
  <2>10. \A x \in doomed' : color'[x] = color[x] BY <2>1, <2>2, <2>3
  <2>11. \A x \in Obj : open'[x] # <<>> =>
           (open'[x] = open[x] /\ ~(x \in doomed /\ x \notin doomed')) \/ Val(ref', open', x) \in S
    BY <2>1, <2>6
  <2> HIDE DEF S
  <2>12. doomed' \subseteq doomed BY <2>1
  <2>13. Isol => Isol' BY <2>1, <2>8, <2>9, <2>11, <2>12, IsolatedStep
  <2>14. Fors => Fors' BY <2>1, <2>2, <2>8, <2>10, <2>12, ForsakenStep
  <2> QED BY <2>1, <2>12, <2>13, <2>14, DoomStep
<1> QED BY <1>2, <1>3

(* A closure, which may resurrect a doomed upvalue.                        *)
LEMMA ClosureClean ==
  ASSUME IInv, DoomInv, NEW o \in Id, NEW s \in Slot, NEW p \in Operands, NEW u \in Of("upval"),
         ClosureShares(o, s, p, u) \/ \E t \in Slot \ {s} : ClosureCaptures(o, s, p, u, t)
  PROVE  DoomInv'
<1> DEFINE K == shape.kind
           new == [Empty EXCEPT !["env"] = ref[running]["env"], !["p"] = p, !["up"] = u]
<1>1. /\ Program /\ NoGC /\ K[o] = "lclosure" /\ color[o] = "free"
      /\ ref' = [ref EXCEPT ![o] = new, ![running][s] = o]
      /\ UNCHANGED <<running, gmt, tmudata, finalized>>
  BY DEF ClosureShares, ClosureCaptures, NewClosure, kind, Live, udataVars
<1>2. /\ running \in Obj /\ doomed \subseteq Obj /\ Core /\ Nil \notin Obj /\ o \in Obj
      /\ u \in Obj /\ K[u] = "upval" /\ K[running] = "thread" /\ color[running] # "free"
  BY <1>1, ProgramFacts DEF Obj, Of, kind
<1>3. /\ ref \in [Obj -> [Field -> Value]] /\ Heap(K, ref, open, color) /\ color \in [Obj -> Colors]
      /\ open \in [Obj -> {<<>>} \cup (Obj \X Slot)]
  BY <1>2, StepParts
<1>4. \A f \in Field : new[f] \in {Nil, ref[running]["env"], p, u} BY DEF Empty
<1>5. Isol => \A x \in Accessible \cup Operands \cup {Nil} : x \notin doomed BY <1>1, AccessClean
<1>6. ref[running]["env"] \in Accessible BY DEF Accessible
<1>7. Fors => o \notin doomed BY <1>1 DEF Fors, Forsaken
<1> HIDE DEF new
<1>8. CASE ClosureShares(o, s, p, u)
  <2> DEFINE S == Accessible \cup Operands \cup {Nil, o, u}
  <2>1. /\ color' = [color EXCEPT ![o] = "white"] /\ open' = open /\ doomed' = doomed
        /\ \E f \in Stack : K[f] = "lclosure" /\ ref[f]["up"] = u
    BY <1>8 DEF ClosureShares, kind
  <2>2. Isol => u \notin doomed BY <1>1, <2>1, AccessClean DEF Accessible
  <2>3. \A f \in Field : new[f] \in S BY <1>4, <1>6
  <2>4. Isol /\ Fors => S \cap doomed' = {} BY <1>5, <1>7, <2>1, <2>2
  <2>5. o \in S OBVIOUS
  <2> HIDE DEF S
  <2>6. \A x \in doomed' : color[x] # "free" => color'[x] = color[x] BY <1>1, <1>2, <1>3, <2>1
  <2>7. \A x \in Obj : open'[x] # <<>> =>
          (open'[x] = open[x] /\ ~(x \in doomed /\ x \notin doomed')) \/ Val(ref', open', x) \in S
    BY <2>1
  <2> QED BY <1>1, <2>1, <2>3, <2>4, <2>5, <2>6, <2>7, BirthClean
<1>9. ASSUME NEW t \in Slot \ {s}, ClosureCaptures(o, s, p, u, t) PROVE DoomInv'
  <2> DEFINE S == (Accessible \cup Operands \cup {Nil, o, u})
  <2>1. /\ open' = [open EXCEPT ![u] = <<running, t>>] /\ doomed' = doomed \ {u}
        /\ color' = [color EXCEPT ![o] = "white",
                                  ![u] = IF ~Live(u) \/ isdead(u) THEN "white" ELSE @]
        /\ Found(u, t) \/ color[u] = "free"
    BY <1>9 DEF ClosureCaptures, luaF_findupval, Live
  <2>2. \A f \in Field : new[f] \in S BY <1>4, <1>6
  <2>3. Isol /\ Fors => S \cap doomed' = {} BY <1>5, <1>7, <2>1
  <2>4. o \in S /\ Nil \in S OBVIOUS
  <2>5. ref[running][t] \in S BY DEF Operands, Stack
  <2> HIDE DEF S
  <2>6. \A x \in doomed' : color[x] # "free" => color'[x] = color[x]
    <3>1. \A x \in Obj : x \notin {o, u} => color'[x] = color[x] BY <1>3, <2>1
    <3> QED BY <1>1, <1>2, <2>1, <3>1
  <2>7. \A f \in Field : ref[u][f] = Nil
    <3>1. ASSUME NEW f \in Field, ref[u][f] # Nil PROVE f = "v"
      BY <1>2, <1>3, <3>1 DEF Heap, HeapFits, Fits, FieldsOf
    <3>2. CASE color[u] = "free"
      <4>1. ref[u] = Empty BY <1>2, <1>3, <3>2 DEF Heap, Born
      <4> QED BY <4>1 DEF Empty
    <3>3. CASE Found(u, t)
      <4>1. open[u] # <<>> BY <3>3 DEF Found
      <4>2. ref[u]["v"] = Nil BY <1>2, <1>3, <4>1 DEF Heap, OpenFits
      <4> QED BY <3>1, <4>2
    <3> QED BY <2>1, <3>2, <3>3
  <2>8. \A x \in doomed : x \notin doomed' => \A f \in Field : ref[x][f] \in S
    BY <2>1, <2>4, <2>7
  <2>9. open'[u] = <<running, t>> /\ \A x \in Obj : x # u => open'[x] = open[x] BY <1>2, <1>3, <2>1
  <2>10. Val(ref', open', u) \in S
    <3>1. <<running, t>> # <<>> /\ <<running, t>>[1] = running /\ <<running, t>>[2] = t OBVIOUS
    <3>2. Val(ref', open', u) = ref'[running][t] BY <2>9, <3>1 DEF Val
    <3>3. o # running /\ s \in Field /\ t \in Field /\ s # t BY <1>1, <1>2, FieldNames
    <3>4. ref'[running][t] = ref[running][t] BY <1>1, <1>2, <1>3, <3>3
    <3> QED BY <2>5, <3>2, <3>4
  <2>11. \A x \in Obj : open'[x] # <<>> =>
           (open'[x] = open[x] /\ ~(x \in doomed /\ x \notin doomed')) \/ Val(ref', open', x) \in S
    BY <2>1, <2>9, <2>10
  <2>12. doomed' \subseteq doomed BY <2>1
  <2> QED BY <1>1, <2>2, <2>3, <2>4, <2>6, <2>8, <2>11, <2>12, BirthClean
<1> QED BY <1>8, <1>9

(* Every step that creates an object.                                      *)
LEMMA AllocateClean ==
  ASSUME IInv, DoomInv, Allocate
  PROVE  DoomInv'
BY NewClean, NewlstrClean, ClosureClean DEF Allocate

(* Steps of the collector that call no finalizer, while it marks.          *)
LEMMA MarkDoom ==
  ASSUME IInv, DoomInv, MaySweep \/ (Top("sweep") /\ gcstate # "finalize"),
         gcstate \in Marking, gcstate' \in Marking,
         UNCHANGED <<shape, running, calls, gmt, open, doomed>>,
         finalized \subseteq finalized',
         Isol /\ Fors =>
           /\ \A o \in doomed : color'[o] = color[o]
           /\ \A u \in Ran(tmudata') : u \in Ran(tmudata) \/ u \notin doomed,
         \A o \in Obj, f \in Field : ref'[o][f] = ref[o][f] \/ ref'[o][f] = Nil,
         \A o \in Obj : ref'[o]["v"] = ref[o]["v"] /\ ref'[o]["mt"] = ref[o]["mt"]
  PROVE  DoomInv'
<1> DEFINE S == {Nil} \cup {u \in Ran(tmudata') : u \notin doomed}
<1>1. InCycle(calls, gcstate)
  <2>1. /\ ~TopIs(calls, "closed") /\ ~Abandoned(calls, gcstate)
        /\ TopIs(calls, "sweep") => gcstate \in Sweeping \cup {"finalize"}
    BY StepFacts
  <2> QED BY <2>1 DEF InCycle, Marking, Sweeping, Atomic
<1>2. Isol /\ Fors BY <1>1 DEF DoomInv, Isol, Fors
<1>3. doomed \subseteq Obj /\ Nil \notin Obj BY IdAssumption DEF IInv, Basics
<1>4. Isol'
  <2>1. S \cap doomed' = {} BY <1>3
  <2>2. /\ \A o \in Obj, f \in Field : ref'[o][f] = ref[o][f] \/ ref'[o][f] \in S
        /\ \A u \in Ran(tmudata') : u \in S \cup Ran(tmudata)
    BY <1>2
  <2>3. \A o \in Obj : open'[o] # <<>> =>
          (open'[o] = open[o] /\ ~(o \in doomed /\ o \notin doomed')) \/ Val(ref', open', o) \in S
    OBVIOUS
  <2> HIDE DEF S
  <2> QED BY <1>2, <2>1, <2>2, <2>3, IsolatedStep
<1>5. Fors' BY <1>2, <1>3, ForsakenStep
<1> QED BY <1>4, <1>5 DEF DoomInv, Isol, Fors

(* What a gray object or a root refers to is not doomed.                   *)
LEMMA MarkClean ==
  ASSUME IInv, DoomInv, MaySweep \/ (Top("sweep") /\ gcstate # "finalize"),
         gcstate \in Marking, MarkStep, gcstate # "mark_tmu" \/ gray # {},
         UNCHANGED <<shape, running, calls>>
  PROVE  DoomInv'
<1> DEFINE K == shape.kind
<1>1. Core BY StepFacts
<1>2. /\ Heap(K, ref, open, color) /\ Listed(K, color, udata, tmudata)
      /\ Lists(K, color, gray, grayagain, weak) /\ RootsOk(K, color, running, gmt)
      /\ ref \in [Obj -> [Field -> Value]] /\ color \in [Obj -> Colors] /\ finalized \subseteq Obj
      /\ doomed \subseteq Obj /\ gray \subseteq Obj
  BY <1>1, StepParts
<1>3. Nil \notin Obj BY IdAssumption
<1>4. Isol => /\ Unreferred(K, ref, open, doomed) /\ Ran(tmudata) \cap doomed = {}
              /\ {Main, Registry, running, gmt} \cap doomed = {}
  BY DEF Isol, Isolated
<1>5. Fors => \A o \in doomed : /\ color[o] = "white"
                                /\ K[o] = "userdata" => o \in finalized \/ "gc" \notin Events(ref[o]["mt"])
  BY DEF Fors, Forsaken, Events
<1>6. ASSUME NEW o \in Obj, o \notin doomed, NEW f \in Field, ref[o][f] # Nil => Refers(K, ref, o, f), Isol
      PROVE  ref[o][f] \notin doomed
  BY <1>2, <1>3, <1>4, <1>6 DEF Unreferred
<1>7. ASSUME NEW S \in SUBSET Value, S \cap doomed = {}, Isol
      PROVE  \A x \in doomed : Painted(S)[x] = color[x]
  BY <1>2, <1>4, <1>7, PaintClean
<1>8. CASE \E o \in gray : propagatemark(o)
  <2>1. PICK o \in gray : propagatemark(o) BY <1>8
  <2>2. /\ o \in Obj /\ color[o] = "gray" /\ K[o] \in Queue BY <1>2 DEF Lists
  <2>3. /\ color' = [Painted(Children(o)) EXCEPT ![o] = IF StaysGray(o) THEN "gray" ELSE "black"]
        /\ ref' = Cleaned(o)
        /\ UNCHANGED <<open, gmt, tmudata, finalized, gcstate, doomed>>
    BY <2>1 DEF propagatemark, udataVars
  <2>4. /\ \A x \in Obj, f \in Field : ref'[x][f] = ref[x][f] \/ ref'[x][f] = Nil
        /\ \A x \in Obj : ref'[x]["v"] = ref[x]["v"] /\ ref'[x]["mt"] = ref[x]["mt"]
    BY <1>2, <2>2, <2>3, FieldNames DEF Cleaned
  <2>5. ASSUME Isol, Fors PROVE \A x \in doomed : color'[x] = color[x]
    <3>1. o \notin doomed BY <1>5, <2>2, <2>5
    <3>2. \A x \in Children(o) : \E f \in Field :
               x = ref[o][f] /\ (x # Nil => Refers(K, ref, o, f))
      BY <2>2, ChildrenOf
    <3>3. Children(o) \in SUBSET Value /\ Children(o) \cap doomed = {}
      BY <1>2, <1>6, <2>2, <2>5, <3>1, <3>2
    <3>4. \A x \in doomed : Painted(Children(o))[x] = color[x] BY <1>7, <2>5, <3>3
    <3> QED BY <1>2, <2>3, <3>1, <3>4 DEF Painted
  <2> QED BY <2>3, <2>4, <2>5, MarkDoom
<1>9. CASE remarkupvals
  <2> DEFINE U == {u \in Of("upval") : open[u] # <<>> /\ isgray(u)}
             S == {UpvalValue(u) : u \in U}
  <2>1. /\ color' = Painted(S) /\ gcstate' = "remark_upvals"
        /\ UNCHANGED <<ref, open, gmt, tmudata, finalized, doomed>>
    BY <1>9 DEF remarkupvals, AtomicBegins, heapVars, udataVars
  <2>2. ASSUME Isol, Fors PROVE \A x \in doomed : color'[x] = color[x]
    <3>1. ASSUME NEW u \in U PROVE UpvalValue(u) \in Value /\ UpvalValue(u) \notin doomed
      <4>1. u \in Obj /\ open[u] # <<>> /\ color[u] = "gray" BY DEF Of, isgray
      <4>2. u \notin doomed BY <1>5, <2>2, <4>1
      <4>3. UpvalValue(u) = Val(ref, open, u) BY DEF UpvalValue, Val
      <4>4. Val(ref, open, u) \in Value BY <1>2, <4>1, ValType
      <4> QED BY <1>4, <2>2, <4>1, <4>2, <4>3, <4>4 DEF Unreferred
    <3> HIDE DEF U
    <3>2. S \in SUBSET Value /\ S \cap doomed = {} BY <3>1
    <3> HIDE DEF S
    <3> QED BY <1>7, <2>1, <2>2, <3>2
  <2>3. "remark_upvals" \in Marking BY DEF Marking, Atomic
  <2> HIDE DEF S
  <2> QED BY <2>1, <2>2, <2>3, MarkDoom
<1>10. CASE RemarkWeak
  <2>1. /\ color' = Painted({running, gmt}) /\ gcstate' = "remark_weak"
        /\ UNCHANGED <<ref, open, gmt, tmudata, finalized, doomed>>
    BY <1>10 DEF RemarkWeak, heapVars, udataVars
  <2>2. {running, gmt} \in SUBSET Value BY <1>2 DEF RootsOk, Value
  <2>3. ASSUME Isol PROVE \A x \in doomed : color'[x] = color[x]
    <3>1. {running, gmt} \cap doomed = {} BY <1>4, <2>3
    <3> QED BY <1>7, <2>1, <2>2, <2>3, <3>1
  <2>4. "remark_weak" \in Marking BY DEF Marking, Atomic
  <2> QED BY <2>1, <2>3, <2>4, MarkDoom
<1>11. CASE RemarkAgain
  <2>1. /\ gcstate' = "remark_again"
        /\ UNCHANGED <<ref, open, gmt, color, tmudata, finalized, doomed>>
    BY <1>11 DEF RemarkAgain, heapVars, udataVars
  <2>2. "remark_again" \in Marking BY DEF Marking, Atomic
  <2> QED BY <2>1, <2>2, MarkDoom
<1>12. CASE MarkTmu
  <2> DEFINE us == {tmudata'[i] : i \in DOMAIN tmudata'}
             S == UNION {{ref[u]["mt"], ref[u]["env"]} : u \in us}
  <2>1. /\ luaC_separateudata(FALSE)
        /\ color' = [o \in Obj |-> IF o \in us THEN "black" ELSE Painted(S)[o]]
        /\ gcstate' = "mark_tmu" /\ UNCHANGED <<ref, open, gmt, doomed>>
    BY <1>12 DEF MarkTmu, heapVars
  <2>2. /\ Listed(K, color, udata', tmudata') /\ finalized \subseteq finalized'
        /\ Ran(tmudata') = Ran(tmudata) \cup (Ran(udata) \cap Separated(FALSE))
    BY <1>2, <2>1, SeparateListed
  <2>3. us = Ran(tmudata') /\ \A u \in us : u \in Obj /\ K[u] = "userdata"
    <3>1. us = Ran(tmudata') BY DEF Ran
    <3> HIDE DEF us
    <3> QED BY <2>2, <3>1, WaitingUserdata
  <2> HIDE DEF us
  <2>4. ASSUME Isol, Fors PROVE us \cap doomed = {}
    <3>1. \A u \in Separated(FALSE) : /\ K[u] = "userdata" /\ u \notin finalized
                                      /\ "gc" \in Events(ref[u]["mt"])
      BY DEF Separated, Separable, Of, kind
    <3> QED BY <1>4, <1>5, <2>2, <2>3, <2>4, <3>1
  <2>5. ASSUME Isol, Fors PROVE \A x \in doomed : color'[x] = color[x]
    <3>1. ASSUME NEW u \in us, NEW f \in {"mt", "env"}
          PROVE  ref[u][f] \in Value /\ ref[u][f] \notin doomed
      <4>1. u \notin doomed /\ u \in Obj /\ K[u] = "userdata" BY <2>3, <2>4, <2>5
      <4>2. f \in Field /\ (ref[u][f] # Nil => Refers(K, ref, u, f)) BY <4>1, FieldNames DEF Refers
      <4> QED BY <1>2, <1>6, <2>5, <4>1, <4>2
    <3>2. S \in SUBSET Value /\ S \cap doomed = {} BY <3>1
    <3> HIDE DEF S
    <3>3. \A x \in doomed : Painted(S)[x] = color[x] BY <1>7, <2>5, <3>2
    <3> QED BY <1>2, <2>1, <2>4, <2>5, <3>3
  <2>6. "mark_tmu" \in Marking BY DEF Marking, Atomic
  <2> HIDE DEF S
  <2> QED BY <2>1, <2>2, <2>3, <2>4, <2>5, <2>6, MarkDoom
<1>13. gcstate # "pause" BY DEF Marking, Atomic
<1> QED BY <1>8, <1>9, <1>10, <1>11, <1>12, <1>13 DEF MarkStep

(* cleartable and the flip: what is doomed is dead now.                    *)
LEMMA FinishClean ==
  ASSUME IInv, DoomInv, MaySweep \/ (Top("sweep") /\ gcstate # "finalize"),
         gcstate = "mark_tmu", FinishAtomic, UNCHANGED <<shape, running, calls>>
  PROVE  DoomInv'
<1> DEFINE K == shape.kind
           spared == UNION {Spared(h) : h \in weak}
<1>1. /\ ref' = [o \in Obj |-> IF o \in weak /\ Clears(o)
                               THEN [ref[o] EXCEPT !["k"] = Nil, !["v"] = Nil] ELSE ref[o]]
      /\ color' = [o \in Obj |-> IF ~iswhite(o) THEN color[o]
                                 ELSE IF o \in spared THEN "gray"
                                 ELSE IF color[o] = "white" THEN "dead" ELSE "white"]
      /\ gcstate' = "sweepstring"
      /\ UNCHANGED <<open, gmt, tmudata, finalized, doomed>>
  BY DEF FinishAtomic, udataVars
<1>2. gcstate \in Marking /\ gcstate' \notin Marking BY <1>1 DEF Marking, Atomic
<1>3. InCycle(calls, gcstate)
  <2>1. /\ ~TopIs(calls, "closed") /\ ~Abandoned(calls, gcstate)
        /\ TopIs(calls, "sweep") => gcstate \in Sweeping \cup {"finalize"}
    BY StepFacts
  <2> QED BY <1>2, <2>1 DEF InCycle, Sweeping
<1>4. Isol /\ Fors BY <1>3 DEF DoomInv, Isol, Fors
<1>5. Core BY StepFacts
<1>6. /\ Lists(K, color, gray, grayagain, weak) /\ ref \in [Obj -> [Field -> Value]]
      /\ doomed \subseteq Obj /\ weak \subseteq Obj
  BY <1>2, <1>5, StepParts
<1>7. Nil \notin Obj BY IdAssumption
<1>8. \A o \in doomed : color[o] = "white" BY <1>2, <1>4 DEF Fors, Forsaken
<1>9. \A h \in weak : h \in Obj /\ h \notin doomed BY <1>6, <1>8 DEF Lists
<1>10. spared \cap doomed = {}
  <2>1. ASSUME NEW h \in weak, NEW x \in Spared(h) PROVE x \notin doomed
    <3>1. ref[h]["v"] # Nil /\ x \in {ref[h]["k"], ref[h]["v"]} BY DEF Spared
    <3>2. \A f \in {"k", "v"} : f \in Field /\ (ref[h][f] # Nil => Refers(K, ref, h, f))
      BY <3>1, FieldNames DEF Refers
    <3> QED BY <1>4, <1>6, <1>7, <1>9, <3>1, <3>2 DEF Isol, Isolated, Unreferred
  <2> QED BY <2>1
<1> HIDE DEF spared
<1>11. \A o \in doomed : color'[o] = "dead" BY <1>1, <1>6, <1>8, <1>10 DEF iswhite
<1>12. /\ \A o \in Obj, f \in Field : ref'[o][f] = ref[o][f] \/ ref'[o][f] \in {Nil}
       /\ \A o \in Obj : ref'[o]["v"] = ref[o]["v"] \/ ref'[o]["v"] = Nil
       /\ \A o \in Obj : ref'[o]["mt"] = ref[o]["mt"]
  BY <1>1, <1>6, FieldNames
<1>13. Isol'
  <2>1. {Nil} \cap doomed' = {} BY <1>1, <1>6, <1>7
  <2>2. \A o \in Obj : open'[o] # <<>> =>
          (open'[o] = open[o] /\ ~(o \in doomed /\ o \notin doomed')) \/ Val(ref', open', o) \in {Nil}
    BY <1>1
  <2>3. \A o \in Obj : K[o] = "table" /\ ref[o]["v"] = Nil /\ ref'[o]["v"] # Nil => ref'[o]["k"] \in {Nil}
    BY <1>12
  <2> QED BY <1>1, <1>4, <1>12, <2>1, <2>2, <2>3, IsolatedStep
<1>14. Fors' BY <1>1, <1>2, <1>4, <1>6, <1>11, <1>12 DEF Fors, Forsaken
<1> QED BY <1>1, <1>13, <1>14 DEF DoomInv, Isol, Fors, Sweeping

(* markroot begins a cycle: what the program cannot get at is white, and   *)
(* nothing it can get at refers to it.                                     *)
LEMMA MarkrootClean ==
  ASSUME IInv, Core, gcstate \in {"pause", "finalize"}, markroot, UNCHANGED <<shape, running>>
  PROVE  DoomInv'
<1> DEFINE K == shape.kind
           d == doomed'
           S == {Main, ref[Main]["env"], Registry, gmt}
           T == Roots \cup ToFinalize
           R == ReachableFrom(T)
<1>1. /\ color' = Painted(S) /\ gcstate' = "propagate" /\ d = {o \in Obj : Live(o)} \ R
      /\ UNCHANGED <<ref, open, gmt, tmudata, finalized>>
  BY DEF markroot, heapVars, udataVars
<1>2. /\ Heap(K, ref, open, color) /\ Listed(K, color, udata, tmudata)
      /\ RootsOk(K, color, running, gmt) /\ ref \in [Obj -> [Field -> Value]]
      /\ color \in [Obj -> Colors]
      /\ SweepInv(K, open, color, gcstate, sweepstr, sweepgc, Ran(tmudata), finalized)
  BY StepParts
<1>3. Main \in Obj /\ Registry \in Obj /\ running \in Obj /\ gmt \in Value /\ Nil \notin Obj
  BY <1>2, IdAssumption DEF Obj, RootsOk
<1>4. T \in SUBSET Value BY <1>3 DEF Roots, ToFinalize, Of, Value
<1>5. \A o \in Obj : UpvalValue(o) = Val(ref, open, o) /\ Val(ref, open, o) \in Value
  BY <1>2, ValType DEF UpvalValue, Val
<1>6. \A o \in Obj : Successors(o) \subseteq Value BY <1>2, <1>5 DEF Successors
<1> HIDE DEF T
<1>7. /\ T \ {Nil} \subseteq R
      /\ \A o \in R : o \in Obj /\ Successors(o) \ {Nil} \subseteq R
  BY <1>4, <1>6, ReachClosed
<1> HIDE DEF R
<1>8. {Main, Registry, running, gmt} \cap d = {} BY <1>1, <1>3, <1>7 DEF T, Roots
<1>9. Ran(tmudata) \cap d = {}
  <2>1. \A u \in Ran(tmudata) : u \in ToFinalize
    BY <1>2, WaitingUserdata DEF ToFinalize, Waiting, Ran, Of, kind, Live
  <2>2. \A u \in ToFinalize : u \in Obj BY DEF ToFinalize, Of
  <2> QED BY <1>1, <1>3, <1>7, <2>1, <2>2 DEF T
<1>10. Unreferred(K, ref, open, d)
  <2>1. ASSUME NEW o \in Obj, color[o] = "free"
        PROVE  open[o] = <<>> /\ \A f \in Field : ref[o][f] = Nil
    <3>1. ref[o] = Empty /\ open[o] = <<>> BY <1>2, <2>1 DEF Heap, Born
    <3> QED BY <3>1 DEF Empty
  <2>2. ASSUME NEW o \in R, NEW f \in Field, Refers(K, ref, o, f) PROVE ref[o][f] \in R
    <3>1. ref[o][f] \in Successors(o) /\ ref[o][f] # Nil BY <2>2 DEF Successors, Refers, kind
    <3> QED BY <1>7, <3>1
  <2>3. ASSUME NEW o \in R, open[o] # <<>>, Val(ref, open, o) # Nil PROVE Val(ref, open, o) \in R
    <3>1. o \in Obj BY <1>7
    <3>2. K[o] = "upval" BY <1>2, <2>3, <3>1 DEF Heap, OpenFits
    <3>3. Val(ref, open, o) \in Successors(o) BY <1>5, <3>1, <3>2 DEF Successors, kind
    <3> QED BY <1>7, <2>3, <3>3
  <2>4. \A o \in Obj \ d : color[o] = "free" \/ o \in R BY <1>1 DEF Live
  <2>5. \A x \in d : x \in Obj /\ x \notin R BY <1>1
  <2> QED BY <1>3, <2>1, <2>2, <2>3, <2>4, <2>5 DEF Unreferred, Refers
<1>11. \A o \in d : o \in Obj /\ color[o] = "white"
  <2>1. gcstate \notin Sweeping /\ gcstate \notin Marking BY DEF Sweeping, Marking, Atomic
  <2>2. \A o \in Obj : color[o] # "dead" BY <1>2, <2>1, NoDead
  <2>3. sweepstr = {} /\ sweepgc = {} BY <1>2, <2>1 DEF SweepInv, Sweeping
  <2>4. \A o \in Obj : color[o] \in {"gray", "black"} => o \in Ran(tmudata)
    BY <1>2, <2>1, <2>3 DEF SweepInv
  <2>5. \A o \in d : o \in Obj /\ color[o] # "free" /\ o \notin Ran(tmudata) BY <1>1, <1>9 DEF Live
  <2> QED BY <1>2, <2>2, <2>4, <2>5 DEF Colors
<1>12. S \in SUBSET Value /\ S \cap d = {}
  <2>1. ref[Main]["env"] \in Value /\ "env" \in Field BY <1>2, <1>3, FieldNames
  <2>2. ref[Main]["env"] # Nil => Refers(K, ref, Main, "env") BY <1>2, <1>3 DEF Refers, Heap, HeapType
  <2>3. ref[Main]["env"] \notin d BY <1>3, <1>8, <1>10, <1>11, <2>1, <2>2 DEF Unreferred
  <2> QED BY <1>3, <1>8, <2>1, <2>3 DEF Value
<1> HIDE DEF S
<1>13. d \in SUBSET Obj BY <1>11
<1>14. \A o \in d : color'[o] = "white"
  <2> HIDE DEF d
  <2>1. \A o \in d : Painted(S)[o] = color[o] BY <1>10, <1>12, <1>13, PaintClean
  <2> QED BY <1>1, <1>11, <2>1
<1>15. \A o \in d : K[o] = "userdata" =>
          o \in finalized \/ ref[o]["mt"] = Nil \/ "gc" \notin shape.events[ref[o]["mt"]]
  <2>1. \A o \in d : o \in Obj /\ Live(o) /\ o \notin ToFinalize
    BY <1>1, <1>3, <1>7 DEF T
  <2> QED BY <2>1 DEF ToFinalize, Of, kind, Events
<1>16. "propagate" \in Marking BY DEF Marking
<1>17. Isol' BY <1>1, <1>8, <1>9, <1>10 DEF Isol, Isolated
<1>18. Fors' BY <1>1, <1>14, <1>15, <1>16 DEF Fors, Forsaken
<1> QED BY <1>1, <1>16, <1>17, <1>18 DEF DoomInv, Isol, Fors

(* A sweep frees doomed objects, and leaves no trace of them.              *)
LEMMA SweptClean ==
  ASSUME IInv, DoomInv, Core, gcstate \in Sweeping, NEW G, NEW F, NEW closed, Swept(G, F, closed),
         UNCHANGED <<shape, running, calls>>
  PROVE  DoomInv'
<1> DEFINE K == shape.kind
           S == {Nil} \cup {UpvalValue(x) : x \in closed}
<1>1. /\ Heap(K, ref, open, color) /\ doomed \subseteq Obj /\ ref \in [Obj -> [Field -> Value]]
  BY StepParts
<1>2. Nil \notin Obj /\ gcstate \notin Marking BY IdAssumption DEF Sweeping, Marking, Atomic
<1>3. /\ \A x \in Obj : x \in F <=> x \in G /\ color[x] = "dead"
      /\ \A x \in Obj : x \in closed => x \notin F /\ color[x] # "dead" /\ open[x] # <<>>
      /\ F \subseteq Obj /\ closed \subseteq Obj
  BY DEF Swept, Group
<1>4. /\ \A x \in Obj : color'[x] = IF x \in F THEN "free" ELSE IF x \in G THEN "white" ELSE color[x]
      /\ \A x \in Obj : ref'[x] = IF x \in F THEN Empty
                                  ELSE IF x \in closed
                                       THEN [ref[x] EXCEPT !["v"] = UpvalValue(x)] ELSE ref[x]
      /\ \A x \in Obj : open'[x] = IF x \in F \cup closed THEN <<>> ELSE open[x]
      /\ doomed' = doomed \ F /\ finalized' = finalized \ F
      /\ UNCHANGED <<gmt, tmudata, gcstate>>
  BY DEF Swept
<1>5. \A x \in closed : K[x] = "upval" BY <1>1, <1>3 DEF Heap, OpenFits
<1>6. ASSUME NEW x \in Obj, NEW f \in Field
      PROVE  ref'[x][f] = IF x \in F THEN Nil
                          ELSE IF x \in closed /\ f = "v" THEN UpvalValue(x) ELSE ref[x][f]
  <2>1. CASE x \in F BY <1>4, <2>1 DEF Empty
  <2>2. CASE x \notin F /\ x \in closed BY <1>1, <1>4, <2>2
  <2>3. CASE x \notin F /\ x \notin closed BY <1>4, <2>3
  <2> QED BY <2>1, <2>2, <2>3
<1>7. ASSUME Isol, Fors PROVE Isol' /\ Fors'
  <2>1. \A x \in doomed : color[x] = "dead" BY <1>2, <1>7 DEF Fors, Forsaken
  <2>2. \A x \in closed : x \in Obj \ doomed /\ open[x] # <<>> BY <1>3, <2>1
  <2>3. \A x \in closed : UpvalValue(x) \notin doomed
    BY <1>7, <2>2 DEF Isol, Isolated, Unreferred, UpvalValue, Val
  <2>4. S \cap doomed' = {} BY <1>1, <1>2, <1>4, <2>3
  <2>5. \A x \in Obj, f \in Field : ref'[x][f] = ref[x][f] \/ ref'[x][f] \in S BY <1>6
  <2>6. \A x \in Obj : K[x] = "table" /\ ref[x]["v"] = Nil /\ ref'[x]["v"] # Nil
                         => ref'[x]["k"] \in S
    BY <1>5, <1>6, FieldNames
  <2>7. \A x \in doomed : x \notin doomed' => \A f \in Field : ref'[x][f] \in S
    BY <1>1, <1>4, <1>6
  <2>8. \A x \in Obj : open'[x] # <<>> =>
          (open'[x] = open[x] /\ ~(x \in doomed /\ x \notin doomed')) \/ Val(ref', open', x) \in S
    BY <1>4
  <2> HIDE DEF S
  <2>9. Isol' BY <1>4, <1>7, <2>4, <2>5, <2>6, <2>7, <2>8, IsolatedStep
  <2>10. \A x \in doomed' : x \in Obj /\ x \notin F /\ x \notin G /\ x \notin closed
    BY <1>1, <1>3, <1>4, <2>1
  <2>11. \A x \in doomed' : color'[x] = color[x] /\ ref'[x]["mt"] = ref[x]["mt"]
    BY <1>4, <2>10
  <2>12. Fors' BY <1>4, <1>7, <2>10, <2>11, ForsakenStep
  <2> QED BY <2>9, <2>12
<1> QED BY <1>4, <1>7, DoomStep

(* The ends of the sweep phases and of the cycle: at the end of a sweep    *)
(* nothing is dead, so nothing is doomed.                                  *)
LEMMA GoToClean ==
  ASSUME IInv, DoomInv, MaySweep \/ (Top("sweep") /\ gcstate # "finalize"), NEW st, GoTo(st),
         \/ gcstate = "sweepstring" /\ sweepstr = {} /\ st = "sweep"
         \/ gcstate = "sweep" /\ sweepgc = {} /\ st = "finalize"
         \/ gcstate = "finalize" /\ st = "pause" /\ MaySweep,
         UNCHANGED <<shape, running, failed, calls>>
  PROVE  DoomInv'
<1> DEFINE K == shape.kind
<1>1. /\ gcstate' = st
      /\ UNCHANGED <<ref, open, gmt, color, tmudata, finalized, doomed>>
  BY DEF GoTo, heapVars, udataVars
<1>2. Core /\ ~TopIs(calls, "closed") /\ ~Abandoned(calls, gcstate) BY StepFacts
<1>3. MaySweep => ~TopIs(calls, "sweep") BY DEF MaySweep, Top, TopIs
<1>4. gcstate \notin Marking /\ st \notin Marking BY DEF Marking, Atomic
<1>5. CASE gcstate = "sweepstring" /\ st = "sweep"
  <2>1. ~Abandoned(calls, st) BY <1>5 DEF Abandoned
  <2>2. InCycle(calls', gcstate') => InCycle(calls, gcstate)
    BY <1>1, <1>2, <1>5 DEF InCycle, Sweeping
  <2>3. InCycle(calls, gcstate) => Isol /\ Fors BY DEF DoomInv, Isol, Fors
  <2>4. Isol => Isol' BY <1>1 DEF Isol
  <2>5. Fors => Fors' BY <1>1, <1>4 DEF Fors, Forsaken
  <2> QED BY <1>1, <1>5, <2>2, <2>3, <2>4, <2>5 DEF DoomInv, Isol, Fors, Sweeping
<1>6. CASE gcstate = "sweep" /\ sweepgc = {} /\ st = "finalize"
  <2>1. SUFFICES ASSUME ~TopIs(calls, "sweep") PROVE doomed = {}
    BY <1>1, <1>4, <1>6 DEF DoomInv, InCycle, Sweeping
  <2>2. InCycle(calls, gcstate) BY <1>2, <1>6, <2>1 DEF InCycle, Sweeping
  <2>3. \A o \in doomed : color[o] = "dead" BY <1>4, <2>2 DEF DoomInv, Forsaken
  <2>4. /\ SweepInv(K, open, color, gcstate, sweepstr, sweepgc, Ran(tmudata), finalized)
        /\ doomed \subseteq Obj
    BY <1>2, StepParts
  <2>5. sweepstr = {} BY <1>6, <2>4 DEF SweepInv
  <2>6. \A o \in Obj : color[o] # "dead" BY <1>4, <1>6, <2>4, <2>5 DEF SweepInv
  <2> QED BY <2>3, <2>4, <2>6
<1>7. CASE gcstate = "finalize" /\ st = "pause" /\ MaySweep
  <2>1. doomed = {} BY <1>3, <1>4, <1>7 DEF DoomInv, Sweeping
  <2> QED BY <1>1, <1>4, <1>7, <2>1 DEF DoomInv, InCycle, Sweeping
<1> QED BY <1>5, <1>6, <1>7

(* GCTM: what waits for its finalizer is not doomed.                       *)
LEMMA GCTMClean ==
  ASSUME IInv, DoomInv, tmudata # <<>>, GCTM, UNCHANGED <<shape, running>>,
         (MaySweep /\ gcstate = "finalize") \/ TopIs(calls, "close")
  PROVE  DoomInv'
<1> DEFINE K == shape.kind
           u == Head(tmudata)
<1>1. /\ tmudata' = Tail(tmudata) /\ color' = [color EXCEPT ![u] = "white"]
      /\ \/ ref' = [ref EXCEPT ![running]["fin"] = u] /\ calls' = <<"finalizer">> \o calls
         \/ ref' = ref /\ calls' = calls
      /\ UNCHANGED <<open, gmt, finalized, gcstate, doomed>>
  BY DEF GCTM, Push
<1>2. CallsInv(calls, gcstate) BY DEF IInv
<1>3. Core /\ ~TopIs(calls, "closed") /\ ~TopIs(calls, "sweep")
  <2>1. CASE MaySweep
    <3>1. ~TopIs(calls, "sweep") BY <2>1 DEF MaySweep, Top, TopIs
    <3> QED BY <2>1, <3>1, StepFacts
  <2>2. CASE TopIs(calls, "close")
    <3>1. ~TopIs(calls, "closed") /\ ~TopIs(calls, "sweep") BY <2>2 DEF TopIs
    <3> QED BY <3>1 DEF IInv, Over
  <2> QED BY <2>1, <2>2
<1>4. CASE gcstate \notin Marking \cup Sweeping
  BY <1>1, <1>3, <1>4 DEF DoomInv, InCycle
<1>5. CASE gcstate \in Marking
  <2>1. Ends(calls) /\ gcstate = "propagate" /\ Abandoned(calls, gcstate)
    BY <1>2, <1>5, CloseAlone DEF Marking, Atomic
  <2>2. Abandoned(calls', gcstate')
    <3>1. CASE calls' = calls BY <1>1, <2>1, <3>1
    <3>2. CASE calls' = <<"finalizer">> \o calls
      <4>1. calls' # <<>> /\ Head(calls') = "finalizer" /\ (Ends(calls') <=> Ends(calls))
        BY <1>2, <1>3, <3>2, PushCalls
      <4> QED BY <1>1, <2>1, <4>1 DEF Abandoned, TopIs
    <3> QED BY <1>1, <3>1, <3>2
  <2> QED BY <1>1, <1>5, <2>2 DEF DoomInv, InCycle
<1>6. CASE gcstate \in Sweeping
  <2>1. gcstate \notin Marking /\ gcstate # "propagate" BY <1>6 DEF Sweeping, Marking, Atomic
  <2>2. InCycle(calls, gcstate) BY <1>3, <1>6, <2>1 DEF InCycle, Abandoned
  <2>3. Isol /\ Fors BY <2>2 DEF DoomInv, Isol, Fors
  <2>4. /\ Listed(K, color, udata, tmudata) /\ ref \in [Obj -> [Field -> Value]]
        /\ color \in [Obj -> Colors] /\ running \in Obj /\ K[running] = "thread"
        /\ doomed \subseteq Obj /\ Nil \notin Obj
    BY <1>3, StepParts, IdAssumption DEF RootsOk
  <2>5. u \in Obj /\ u \in Ran(tmudata) /\ Ran(tmudata') = Ran(tmudata) \ {u}
    BY <1>1, <2>4, HeadMoves DEF Listed
  <2> HIDE DEF u
  <2>6. u \notin doomed BY <2>3, <2>5 DEF Isol, Isolated
  <2>7. \A x \in Obj, f \in Field : ref'[x][f] = ref[x][f] \/ (x = running /\ f = "fin" /\ ref'[x][f] = u)
    BY <1>1, <2>4
  <2>8. Isol'
    <3> DEFINE S == {u, Nil}
    <3>1. S \cap doomed' = {} BY <1>1, <2>4, <2>6
    <3>2. \A x \in Obj, f \in Field : ref'[x][f] = ref[x][f] \/ ref'[x][f] \in S BY <2>7
    <3>3. \A x \in Obj : K[x] = "table" /\ ref[x]["v"] = Nil /\ ref'[x]["v"] # Nil
                           => ref'[x]["k"] \in S
      BY <2>4, <2>7, FieldNames
    <3>4. \A x \in Obj : open'[x] # <<>> =>
            (open'[x] = open[x] /\ ~(x \in doomed /\ x \notin doomed')) \/ Val(ref', open', x) \in S
      BY <1>1
    <3>5. \A x \in Ran(tmudata') : x \in S \cup Ran(tmudata) BY <2>5
    <3> HIDE DEF S
    <3> QED BY <1>1, <2>3, <3>1, <3>2, <3>3, <3>4, <3>5, IsolatedStep
  <2>9. Fors'
    <3>1. \A x \in doomed' : color'[x] = color[x] /\ ref'[x]["mt"] = ref[x]["mt"]
      BY <1>1, <2>4, <2>6, <2>7, FieldNames
    <3> QED BY <1>1, <2>3, <3>1, ForsakenStep
  <2> QED BY <1>1, <1>6, <2>8, <2>9 DEF DoomInv, Isol, Fors
<1> QED BY <1>4, <1>5, <1>6

(* luaC_fullgc gives up on the cycle under way: its sweep is followed by a *)
(* cycle of its own.                                                       *)
LEMMA FullgcClean ==
  ASSUME IInv, DoomInv, luaC_fullgc
  PROVE  DoomInv'
<1>1. Program /\ calls' = <<"sweep">> \o calls BY DEF luaC_fullgc, Push
<1>2. CallsInv(calls, gcstate) /\ ~TopIs(calls, "closed") BY <1>1, ProgramFacts
<1>3. ~TopIs(calls, "sweep") BY <1>1 DEF Program, Top, TopIs
<1>4. calls' # <<>> /\ Head(calls') = "sweep" BY <1>1, <1>2, <1>3, PushCalls
<1> QED BY <1>4 DEF DoomInv, InCycle, TopIs

(* luaC_fullgc returns at the end of a cycle.                              *)
LEMMA FullEndsClean ==
  ASSUME IInv, DoomInv, FullEnds
  PROVE  DoomInv'
<1>1. TopIs(calls, "collect") /\ gcstate = "pause" /\ UNCHANGED <<gcstate, doomed>>
  BY DEF FullEnds, Top, TopIs
<1>2. gcstate \notin Marking \cup Sweeping /\ ~TopIs(calls, "sweep")
  BY <1>1 DEF Marking, Atomic, Sweeping, TopIs
<1> QED BY <1>1, <1>2 DEF DoomInv, InCycle

(* A finalizer ends: its userdata leaves the stack.                        *)
LEMMA FinalizerEndsClean ==
  ASSUME IInv, DoomInv, FinalizerEnds
  PROVE  DoomInv'
<1> DEFINE K == shape.kind
<1>1. /\ TopIs(calls, "finalizer") /\ Program /\ calls # <<>> /\ gcstate \notin Atomic
      /\ ref' = [ref EXCEPT ![running]["fin"] = Nil] /\ calls' = Tail(calls)
      /\ UNCHANGED <<shape, open, gmt, color, tmudata, finalized, running, gcstate, doomed>>
  BY DEF FinalizerEnds, Top, TopIs, Program, udataVars
<1>2. /\ CallsInv(calls, gcstate) /\ Core /\ running \in Obj /\ K[running] = "thread"
      /\ doomed \subseteq Obj /\ Nil \notin Obj
  BY <1>1, ProgramFacts
<1>3. ref \in [Obj -> [Field -> Value]] BY <1>2, StepParts
<1>4. ~TopIs(calls, "sweep") /\ ~TopIs(calls, "closed") BY <1>1 DEF TopIs
<1>5. InCycle(calls', gcstate') => InCycle(calls, gcstate)
  <2>1. Abandoned(calls, gcstate) => Abandoned(Tail(calls), gcstate) BY <1>1, <1>2, TailCalls
  <2> QED BY <1>1, <1>4, <2>1 DEF InCycle
<1>6. \A x \in Obj, f \in Field :
        ref'[x][f] = ref[x][f] \/ (x = running /\ f = "fin" /\ ref'[x][f] = Nil)
  BY <1>1, <1>2, <1>3
<1>7. ASSUME Isol, Fors PROVE Isol' /\ Fors'
  <2>1. {Nil} \cap doomed' = {} BY <1>1, <1>2
  <2>2. \A x \in Obj, f \in Field : ref'[x][f] = ref[x][f] \/ ref'[x][f] \in {Nil} BY <1>6
  <2>3. \A x \in Obj : K[x] = "table" /\ ref[x]["v"] = Nil /\ ref'[x]["v"] # Nil
                         => ref'[x]["k"] \in {Nil}
    BY <1>2, <1>6, FieldNames
  <2>4. \A x \in Obj : open'[x] # <<>> =>
          (open'[x] = open[x] /\ ~(x \in doomed /\ x \notin doomed')) \/ Val(ref', open', x) \in {Nil}
    BY <1>1
  <2>5. Isol' BY <1>1, <1>7, <2>1, <2>2, <2>3, <2>4, IsolatedStep
  <2>6. \A x \in doomed' : color'[x] = color[x] /\ ref'[x]["mt"] = ref[x]["mt"]
    BY <1>1, <1>2, <1>6, FieldNames
  <2>7. Fors' BY <1>1, <1>7, <2>6, ForsakenStep
  <2> QED BY <2>5, <2>7
<1>8. InCycle(calls, gcstate) => Isol /\ Fors BY DEF DoomInv, Isol, Fors
<1> QED BY <1>1, <1>4, <1>5, <1>7, <1>8 DEF DoomInv, Isol, Fors

(* lua_close finalizes what is not doomed, or abandons the mark phase.     *)
LEMMA LuaCloseClean ==
  ASSUME IInv, DoomInv, lua_close
  PROVE  DoomInv'
<1> DEFINE K == shape.kind
           new == [f \in Field |-> IF f \in Slot THEN Nil ELSE ref[Main][f]]
<1>1. /\ Program /\ calls = <<>> /\ luaC_separateudata(TRUE)
      /\ ref' = [ref EXCEPT ![Main] = new] /\ calls' = <<"close">> \o calls
      /\ UNCHANGED <<shape, open, gmt, color, running, gcstate, doomed>>
  BY DEF lua_close, Push
<1>2. Core /\ gcstate \notin Atomic /\ Nil \notin Obj BY <1>1, ProgramFacts
<1>3. /\ Heap(K, ref, open, color) /\ doomed \subseteq Obj /\ Listed(K, color, udata, tmudata)
      /\ ref \in [Obj -> [Field -> Value]] /\ K[Main] = "thread" /\ finalized \subseteq Obj
  BY <1>2, StepParts
<1>4. /\ Listed(K, color, udata', tmudata') /\ finalized \subseteq finalized'
      /\ Ran(tmudata') = Ran(tmudata) \cup (Ran(udata) \cap Separated(TRUE))
  BY <1>1, <1>3, SeparateListed
<1>5. Main \in Obj BY DEF Obj
<1>6. calls' = <<"close">> /\ calls' # <<>> /\ Head(calls') = "close" /\ Len(calls') = 1
      /\ calls'[1] = "close"
  BY <1>1
<1>7. CASE gcstate \notin Marking \cup Sweeping
  <2>1. ~TopIs(calls, "sweep") BY <1>1 DEF TopIs
  <2> QED BY <1>1, <1>7, <2>1 DEF DoomInv, InCycle
<1>8. CASE gcstate \in Marking
  <2>1. gcstate = "propagate" BY <1>2, <1>8 DEF Marking
  <2>2. Abandoned(calls', gcstate') BY <1>1, <1>6, <2>1 DEF Abandoned, Ends, TopIs
  <2> QED BY <1>1, <1>8, <2>2 DEF DoomInv, InCycle
<1>9. CASE gcstate \in Sweeping
  <2>1. gcstate \notin Marking /\ gcstate # "propagate" BY <1>9 DEF Sweeping, Marking, Atomic
  <2>2. InCycle(calls, gcstate) BY <1>1, <1>9, <2>1 DEF InCycle, Abandoned, TopIs
  <2>3. Isol /\ Fors BY <2>2 DEF DoomInv, Isol, Fors
  <2>4. \A x \in Obj, f \in Field :
          ref'[x][f] = ref[x][f] \/ (x = Main /\ f \in Slot /\ ref'[x][f] = Nil)
    <3>1. \A f \in Field : new[f] = ref[Main][f] \/ (f \in Slot /\ new[f] = Nil) OBVIOUS
    <3> HIDE DEF new
    <3> QED BY <1>1, <1>3, <1>5, <3>1
  <2>5. \A u \in Ran(tmudata') : u \notin doomed
    <3>1. Ran(tmudata) \cap doomed = {} BY <2>3 DEF Isol, Isolated
    <3>2. \A u \in Separated(TRUE) : /\ K[u] = "userdata" /\ u \notin finalized
                                     /\ "gc" \in Events(ref[u]["mt"])
      BY DEF Separated, Separable, Of, kind
    <3>3. \A u \in doomed : K[u] = "userdata" => u \in finalized \/ "gc" \notin Events(ref[u]["mt"])
      BY <2>3 DEF Fors, Forsaken, Events
    <3> QED BY <1>4, <3>1, <3>2, <3>3
  <2>6. Isol'
    <3> DEFINE S == {Nil} \cup Ran(tmudata')
    <3>1. S \cap doomed' = {} BY <1>1, <1>2, <1>3, <2>5
    <3>2. /\ \A x \in Obj, f \in Field : ref'[x][f] = ref[x][f] \/ ref'[x][f] \in S
          /\ \A u \in Ran(tmudata') : u \in S \cup Ran(tmudata)
      BY <2>4
    <3>3. \A x \in Obj : K[x] = "table" /\ ref[x]["v"] = Nil /\ ref'[x]["v"] # Nil
                           => ref'[x]["k"] \in S
      BY <2>4, FieldNames
    <3>4. \A x \in Obj : open'[x] # <<>> =>
            (open'[x] = open[x] /\ ~(x \in doomed /\ x \notin doomed')) \/ Val(ref', open', x) \in S
      BY <1>1
    <3> HIDE DEF S
    <3> QED BY <1>1, <2>3, <3>1, <3>2, <3>3, <3>4, IsolatedStep
  <2>7. Fors'
    <3>1. \A x \in doomed' : color'[x] = color[x] /\ ref'[x]["mt"] = ref[x]["mt"]
      BY <1>1, <1>3, <2>4, FieldNames
    <3> QED BY <1>1, <1>4, <2>3, <3>1, ForsakenStep
  <2> QED BY <1>1, <1>9, <2>6, <2>7 DEF DoomInv, Isol, Fors
<1> QED BY <1>7, <1>8, <1>9

(* luaC_freeall frees everything, and no cycle is under way.               *)
LEMMA FreeallClean ==
  ASSUME IInv, DoomInv, luaC_freeall
  PROVE  DoomInv'
<1>1. /\ TopIs(calls, "close") /\ calls' = <<"closed">> /\ gcstate' = gcstate
      /\ doomed' \subseteq doomed
  BY DEF luaC_freeall, Freed, Top, TopIs
<1>2. ~TopIs(calls, "sweep") /\ TopIs(calls', "closed") BY <1>1 DEF TopIs
<1> QED BY <1>1, <1>2 DEF DoomInv, InCycle

(* singlestep, in whichever phase the collector is.                        *)
LEMMA SinglestepClean ==
  ASSUME IInv, DoomInv, singlestep
  PROVE  DoomInv'
<1>1. UNCHANGED <<shape, running, failed>> BY DEF singlestep
<1>2. ASSUME MaySweep \/ (Top("sweep") /\ gcstate # "finalize"), calls' = calls, MarkStep
      PROVE  DoomInv'
  <2>1. CASE gcstate = "pause" /\ markroot
    <3>1. Core BY <1>2, StepFacts
    <3> QED BY <1>1, <2>1, <3>1, MarkrootClean
  <2>2. CASE gray = {} /\ gcstate = "mark_tmu" /\ FinishAtomic
    BY <1>1, <1>2, <2>2, FinishClean
  <2>3. CASE gcstate \in Marking /\ (gcstate # "mark_tmu" \/ gray # {})
    BY <1>1, <1>2, <2>3, MarkClean
  <2> QED BY <1>2, <2>1, <2>2, <2>3 DEF MarkStep, Marking, Atomic
<1>3. ASSUME MaySweep \/ (Top("sweep") /\ gcstate # "finalize"), calls' = calls, SweepStep
      PROVE  DoomInv'
  <2>1. ASSUME gcstate = "sweepstring", NEW o \in sweepstr, SweepString(o) PROVE DoomInv'
    BY <1>1, <1>3, <2>1, SweepStringSwept, SweptClean
  <2>2. CASE gcstate = "sweepstring" /\ sweepstr = {} /\ GoTo("sweep")
    BY <1>1, <1>3, <2>2, GoToClean
  <2>3. ASSUME gcstate = "sweep", NEW o \in sweepgc, SweepObject(o) PROVE DoomInv'
    BY <1>1, <1>3, <2>3, SweepObjectSwept, SweptClean
  <2>4. CASE gcstate = "sweep" /\ sweepgc = {} /\ GoTo("finalize")
    BY <1>1, <1>3, <2>4, GoToClean
  <2> QED BY <1>3, <2>1, <2>2, <2>3, <2>4 DEF SweepStep
<1>4. CASE MaySweep /\ gcstate = "finalize" /\ tmudata # <<>> /\ GCTM
  BY <1>1, <1>4, GCTMClean
<1>5. CASE MaySweep /\ gcstate = "finalize" /\ tmudata = <<>> /\ GoTo("pause") /\ UNCHANGED calls
  BY <1>1, <1>5, GoToClean
<1> QED BY <1>2, <1>3, <1>4, <1>5 DEF singlestep

(* Every step keeps what is doomed isolated.                               *)
LEMMA NextClean ==
  ASSUME IInv, DoomInv, [Next]_vars
  PROVE  DoomInv'
<1>1. CASE Allocate BY <1>1, AllocateClean
<1>2. CASE Store BY <1>2, StoreClean
<1>3. CASE singlestep BY <1>3, SinglestepClean
<1>4. CASE FullMarks
  <2>1. /\ TopIs(calls, "sweep") /\ gcstate = "finalize" /\ markroot
        /\ UNCHANGED <<shape, running>>
    BY <1>4 DEF FullMarks, Top, TopIs
  <2>2. Core BY <2>1 DEF IInv, Over, TopIs
  <2> QED BY <2>1, <2>2, MarkrootClean
<1>5. CASE FullEnds BY <1>5, FullEndsClean
<1>6. CASE luaC_fullgc BY <1>6, FullgcClean
<1>7. CASE FinalizerEnds BY <1>7, FinalizerEndsClean
<1>8. CASE lua_close BY <1>8, LuaCloseClean
<1>9. CASE callallgcTM
  <2>1. TopIs(calls, "close") /\ tmudata # <<>> /\ GCTM /\ UNCHANGED <<shape, running>>
    BY <1>9 DEF callallgcTM, Top, TopIs
  <2> QED BY <2>1, GCTMClean
<1>10. CASE luaC_freeall BY <1>10, FreeallClean
<1>11. CASE UNCHANGED vars
  <2>1. UNCHANGED <<shape, ref, open, gmt, color, tmudata, finalized, running, gcstate, calls, doomed>>
    BY <1>11 DEF vars, heapVars, udataVars
  <2> QED BY <2>1 DEF DoomInv
<1> QED BY <1>1, <1>2, <1>3, <1>4, <1>5, <1>6, <1>7, <1>8, <1>9, <1>10, <1>11 DEF Next, Collect

(* What was out of the program's reach when a cycle began has been freed   *)
(* when it ends, whatever the program does in between.                     *)
THEOREM GarbageAlwaysCollected == Spec /\ Plain => []GarbageCollected
<1>1. Init => DoomInv
  <2>1. Init => gcstate = "pause" /\ doomed = {} BY DEF Init
  <2>2. "pause" \notin Marking \cup Sweeping BY DEF Marking, Atomic, Sweeping
  <2> QED BY <2>1, <2>2 DEF DoomInv, InCycle
<1>2. IInv /\ DoomInv /\ [Next]_vars => DoomInv' BY NextClean
<1>3. IInv /\ DoomInv => GarbageCollected
  <2>1. SUFFICES ASSUME IInv, DoomInv, gcstate = "pause" PROVE doomed = {} BY DEF GarbageCollected
  <2>2. gcstate \notin Marking \cup Sweeping /\ gcstate \notin Sweeping \cup {"finalize"}
    BY <2>1 DEF Marking, Atomic, Sweeping
  <2>3. ~TopIs(calls, "sweep") BY <2>1, <2>2 DEF IInv, CallsInv
  <2> QED BY <2>1, <2>2, <2>3 DEF DoomInv
<1>4. Spec /\ Plain => []IInv BY Invariant
<1> QED BY <1>1, <1>2, <1>3, <1>4, PTL DEF Spec
=============================================================================
