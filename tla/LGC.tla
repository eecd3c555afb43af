-------------------------------- MODULE LGC --------------------------------
(***************************************************************************)
(* The incremental collector of reference Lua 5.1 (lgc.c), with everything *)
(* that creates, links, closes and frees collectable objects (lfunc.c,     *)
(* lstring.c, lstate.c) and every store that needs, or does without, a     *)
(* write barrier (lapi.c, lvm.c, ltable.c, lcode.c).                       *)
(*                                                                         *)
(* The program and the collector take turns: a collector step runs inside  *)
(* an allocation of the program, and the program runs inside a finalizer   *)
(* that a collector step calls.  `calls' is the C stack of that recursion. *)
(*                                                                         *)
(* Lists linked through gclist or next are sets, as the order in which     *)
(* they are served does not matter here; the list of userdata and tmudata, *)
(* where it does, are sequences.  A table has one entry; an array element  *)
(* is an entry whose key is not collectable (k = Nil).  A dead key is Nil  *)
(* too: it is only compared, never followed.                               *)
(***************************************************************************)
EXTENDS Integers, Sequences, FiniteSets

(* A definition placed just before another with the same parameters and a  *)
(* name that says what it gets wrong is a deliberately faulty variant of   *)
(* it; no specification uses it.  It shows that a property would notice.   *)

CONSTANTS
  Id,        (* identities of collectable objects; a freed one is reused   *)
  Main,      (* the main thread                                            *)
  Registry,  (* the registry, which also serves as the table of globals    *)
  Nil,       (* nil, a null pointer, or any value that is not collectable  *)
  Slot,      (* names of the stack slots of a thread                       *)
  Shapes,    (* the programs to consider                                   *)
  MaxNest    (* bound: collector calls inside finalizers inside calls ...  *)

Obj == Id \cup {Main, Registry}

Kinds == {"string", "table", "userdata", "lclosure", "cclosure", "proto",
          "upval", "thread", "unused"}

(* The fields of an object that hold collectable values: `fin' is the      *)
(* stack frame of a finalizer that runs on a thread.                       *)
Field == {"mt", "env", "p", "up", "k", "v", "fin"} \cup Slot

(* A program, as far as it matters here: kind[o]; events[o], the fields of *)
(* a table that serves as a metatable ("k" and "v" for __mode, "gc" for    *)
(* __gc); the fields it assigns to; and which calls it makes besides.      *)
Calls == {"collect", "close", "setupvalue", "step_in_close"}
ASSUME ShapesAssumption ==
  \A s \in Shapes : /\ s.kind \in [Obj -> Kinds]
                    /\ s.kind[Main] = "thread" /\ s.kind[Registry] = "table"
                    /\ s.events \in [Obj -> SUBSET {"k", "v", "gc"}]
                    /\ \A o \in Obj : s.kind[o] # "table" => s.events[o] = {}
                    /\ s.assigns \subseteq Obj \X Field
                    /\ s.makes \subseteq Calls
ASSUME IdAssumption == /\ Main \notin Id /\ Registry \notin Id /\ Main # Registry
                       /\ Nil \notin Obj
                       /\ IsFiniteSet(Id) /\ MaxNest \in Nat
                       /\ Slot \cap {"mt", "env", "p", "up", "k", "v", "fin"} = {}

VARIABLES
  shape,        (* the member of Shapes this run is about                  *)
  ref,          (* ref[o][f]: the field f of object o                      *)
  open,         (* open[u]: the stack slot an open upvalue u points to     *)
  color,        (* the marks of each object, "free" once freed             *)
  finalized,    (* the userdata with FINALIZEDBIT                          *)
  gmt,          (* g->mt: a metatable of a basic type                      *)
  running,      (* L, the running thread                                   *)
  gcstate, gray, grayagain, weak,
  sweepstr,     (* the strings in the buckets from sweepstrgc on           *)
  sweepgc,      (* the objects of the root list from sweepgc on            *)
  udata,        (* the userdata list, which follows the main thread        *)
  tmudata,      (* userdata that wait for their finalizer                  *)
  calls,        (* the active calls of collector and finalizers, last first *)
  failed,       (* the lua_asserts that have failed so far                 *)
  doomed        (* history: what was garbage when the cycle began          *)

heapVars == <<ref, open, gmt>>
listVars == <<gray, grayagain, weak>>
sweepVars == <<sweepstr, sweepgc>>
udataVars == <<udata, tmudata, finalized>>
vars == <<shape, heapVars, color, udataVars, running, gcstate,
          listVars, sweepVars, calls, failed, doomed>>

kind(o) == shape.kind[o]
Events(t) == IF t = Nil THEN {} ELSE shape.events[t]
Assigns(o, f) == <<o, f>> \in shape.assigns
Makes(call) == call \in shape.makes
Of(k) == {o \in Obj : kind(o) = k}
Live(o) == color[o] # "free"

(* What is left of the sequence s when only the members of S are kept.     *)
Kept(s, S) ==
  LET I == {i \in DOMAIN s : s[i] \in S}
      Rank(i) == Cardinality({j \in I : j <= i})
  IN  [n \in 1 .. Cardinality(I) |-> s[CHOOSE i \in I : Rank(i) = n]]

-----------------------------------------------------------------------------
(* Colours.                                                                *)

(* "white" is the current white, which new objects get, "dead" the other   *)
(* one: the flip of currentwhite exchanges them.                           *)
iswhite(o) == color[o] \in {"white", "dead"}
isblack(o) == color[o] = "black"
isgray(o)  == color[o] = "gray"
isdead(o)  == color[o] = "dead" /\ o # Main

(* The value of an upvalue: its own once closed, else in the stack.        *)
UpvalValue(u) == IF open[u] = <<>> THEN ref[u]["v"]
                 ELSE ref[open[u][1]][open[u][2]]

(* The white objects that reallymarkobject reaches from those of S without *)
(* the gray list: an upvalue marks its value, a userdata its metatable and *)
(* environment at once.                                                    *)
Whites(S) == {o \in S \ {Nil} : iswhite(o)}
WithUpvalues(S) == S \cup Whites({UpvalValue(u) : u \in S \cap Of("upval")})
WithUserdata(S) ==
  S \cup Whites({ref[u][f] : u \in S \cap Of("userdata"), f \in {"mt", "env"}})
Marks(S) == WithUserdata(WithUpvalues(Whites(S)))

(* userdata are never gray; open upvalues are never black.                 *)
MarkedColor(o) ==
  IF kind(o) = "userdata" \/ (kind(o) = "upval" /\ open[o] = <<>>)
  THEN "black" ELSE "gray"

(* reallymarkobject on the members of S that are white.                    *)
Painted(S) == [o \in Obj |-> IF o \in Marks(S) THEN MarkedColor(o) ELSE color[o]]
Queued(S) ==
  {o \in Marks(S) : kind(o) \in {"table", "lclosure", "cclosure", "proto", "thread"}}

-----------------------------------------------------------------------------
(* The mark phase.                                                         *)

(* What a table's metatable says of it.                                    *)
WeakMode(h) == Events(ref[h]["mt"]) \cap {"k", "v"}

TableChildrenOfEmpty(h) ==
  {ref[h]["mt"]} \cup {ref[h][f] : f \in {"k", "v"} \ WeakMode(h)}
(* The values that traversetable, traverseproto, traverseclosure and       *)
(* traversestack mark.  An empty entry keeps nothing alive.                *)
TableChildren(h) ==
  {ref[h]["mt"]} \cup
  (IF ref[h]["v"] = Nil THEN {}
   ELSE {ref[h][f] : f \in {"k", "v"} \ WeakMode(h)})
Children(o) ==
  CASE kind(o) = "table" -> TableChildren(o)
    [] kind(o) = "lclosure" -> {ref[o][f] : f \in {"env", "p", "up"}}
    [] kind(o) = "cclosure" -> {ref[o][f] : f \in {"env", "v"}}
    [] kind(o) = "proto" -> {ref[o]["k"]}
    [] kind(o) = "thread" -> {ref[o][f] : f \in {"env", "fin"} \cup Slot}

(* A thread and a weak table are kept gray, to be traversed once more.     *)
StaysGray(o) == kind(o) = "thread" \/ (kind(o) = "table" /\ WeakMode(o) # {})

(* removeentry: traversing a table that is not all weak turns the key of   *)
(* an empty entry into a dead key.                                         *)
Cleaned(o) ==
  IF kind(o) = "table" /\ ref[o]["v"] = Nil /\ WeakMode(o) # {"k", "v"}
  THEN [ref EXCEPT ![o]["k"] = Nil] ELSE ref

propagatemark(o) ==
  /\ gray' = (gray \ {o}) \cup Queued(Children(o))
  /\ color' = [Painted(Children(o)) EXCEPT
                 ![o] = IF StaysGray(o) THEN "gray" ELSE "black"]
  /\ grayagain' = grayagain \cup ({o} \cap Of("thread"))
  /\ weak' = IF StaysGray(o) /\ kind(o) = "table" THEN weak \cup {o} ELSE weak
  /\ ref' = Cleaned(o)
  /\ UNCHANGED <<open, gmt, udataVars, gcstate, sweepVars, doomed>>

(* The objects the program can get at, by references of any strength; a    *)
(* value in an upvalue is reached through the upvalue.                     *)
Successors(o) ==
  {ref[o][f] : f \in Field \ (IF kind(o) = "table" /\ ref[o]["v"] = Nil THEN {"k"} ELSE {})}
  \cup (IF kind(o) = "upval" THEN {UpvalValue(o)} ELSE {})
ReachableFrom(S) ==
  LET Step(R) == R \cup ((UNION {Successors(o) : o \in R}) \ {Nil})
      R[n \in 0 .. Cardinality(Obj)] == IF n = 0 THEN S \ {Nil} ELSE Step(R[n - 1])
  IN  R[Cardinality(Obj)]
Roots == {Main, Registry, running, gmt} \ {Nil}

(* The userdata that wait for their finalizer.                             *)
Waiting == {tmudata[i] : i \in DOMAIN tmudata}

(* Userdata that have still to be finalized, and that keep what they reach. *)
ToFinalize ==
  {u \in Of("userdata") : /\ Live(u)
                          /\ \/ u \in Waiting
                             \/ u \notin finalized /\ "gc" \in Events(ref[u]["mt"])}

markroot ==
  /\ gray' = Queued({Main, ref[Main]["env"], Registry, gmt})
  /\ color' = Painted({Main, ref[Main]["env"], Registry, gmt})
  /\ grayagain' = {}
  /\ weak' = {}
  /\ gcstate' = "propagate"
  /\ doomed' = {o \in Obj : Live(o)} \ ReachableFrom(Roots \cup ToFinalize)
  /\ UNCHANGED <<heapVars, udataVars, sweepVars>>

(* atomic, up to each of its propagateall loops.  Nothing else runs until  *)
(* it is over.                                                             *)
Atomic == {"remark_upvals", "remark_weak", "remark_again", "mark_tmu"}

AtomicBegins(S, next) ==
  /\ gray' = gray \cup Queued(S)
  /\ color' = Painted(S)
  /\ gcstate' = next
  /\ UNCHANGED <<heapVars, udataVars, sweepVars, doomed>>

remarkupvalsNot ==
  /\ AtomicBegins({}, "remark_upvals")
  /\ UNCHANGED <<grayagain, weak>>
(* The gray open upvalues, maybe of dead threads, whose values may have    *)
(* changed since they were marked.                                         *)
remarkupvals ==
  /\ AtomicBegins({UpvalValue(u) : u \in {u \in Of("upval") : open[u] # <<>> /\ isgray(u)}},
                  "remark_upvals")
  /\ UNCHANGED <<grayagain, weak>>

RemarkWeak ==
  /\ gcstate' = "remark_weak"
  /\ gray' = weak \cup Queued({running, gmt})
  /\ color' = Painted({running, gmt})
  /\ weak' = {}
  /\ UNCHANGED <<heapVars, udataVars, sweepVars, doomed, grayagain>>

RemarkAgain ==
  /\ gcstate' = "remark_again"
  /\ gray' = grayagain
  /\ grayagain' = {}
  /\ UNCHANGED <<heapVars, udataVars, sweepVars, doomed, color, weak>>

(* luaC_separateudata: the userdata that are garbage (or all) and not yet  *)
(* finalized; those without a finalizer are only marked as done.           *)
Separable(all) == {u \in Of("userdata") : Live(u) /\ (all \/ iswhite(u)) /\ u \notin finalized}
Separated(all) == {u \in Separable(all) : "gc" \in Events(ref[u]["mt"])}
InUdata(u) == \E i \in DOMAIN udata : udata[i] = u
luaC_separateudataTwice(all) ==
  /\ tmudata' = tmudata \o Kept(udata, Separated(all))
  /\ finalized' = finalized \cup Separable(all)
  /\ UNCHANGED udata

luaC_separateudata(all) ==
  /\ udata' = Kept(udata, Obj \ Separated(all))
  /\ tmudata' = tmudata \o Kept(udata, Separated(all))
  /\ finalized' = finalized \cup {u \in Separable(all) : InUdata(u)}

(* marktmu: they and what they need for their finalizers live on.          *)
MarkTmu ==
  LET us == {tmudata'[i] : i \in DOMAIN tmudata'}
      S == UNION {{ref[u]["mt"], ref[u]["env"]} : u \in us}
  IN  /\ luaC_separateudata(FALSE)
      /\ gray' = Queued(S)
      /\ color' = [o \in Obj |-> IF o \in us THEN "black" ELSE Painted(S)[o]]
      /\ gcstate' = "mark_tmu"
      /\ UNCHANGED <<heapVars, sweepVars, doomed, grayagain, weak>>

isclearedStrings(v, iskey) ==
  /\ v # Nil
  /\ iswhite(v) \/ (kind(v) = "userdata" /\ ~iskey /\ v \in finalized)
(* iscleared: strings count as values and are never removed; a userdata    *)
(* that has been finalized is removed as a value even if it is marked.     *)
iscleared(v, iskey) ==
  /\ v # Nil /\ kind(v) # "string"
  /\ iswhite(v) \/ (kind(v) = "userdata" /\ ~iskey /\ v \in finalized)
Clears(h) ==
  /\ ref[h]["v"] # Nil
  /\ iscleared(ref[h]["k"], TRUE) \/ iscleared(ref[h]["v"], FALSE)
(* The strings that asking iscleared marks.                                *)
Spared(h) ==
  IF ref[h]["v"] = Nil THEN {}
  ELSE ({ref[h]["k"]} \cup (IF iscleared(ref[h]["k"], TRUE) THEN {} ELSE {ref[h]["v"]}))
       \cap Of("string")

(* What a sweep visits: the strings, and the root list.  Open upvalues are *)
(* on the lists of their threads, userdata in tmudata on no other list.    *)
AllStrings == {o \in Of("string") : Live(o)}
RootList == {o \in Obj : /\ Live(o) /\ kind(o) # "string" /\ open[o] = <<>>
                         /\ o \notin Waiting}

(* cleartable, and the flip of the whites that ends atomic.                *)
FinishAtomic ==
  /\ ref' = [o \in Obj |-> IF o \in weak /\ Clears(o)
                           THEN [ref[o] EXCEPT !["k"] = Nil, !["v"] = Nil] ELSE ref[o]]
  /\ color' = LET spared == UNION {Spared(h) : h \in weak} IN
              [o \in Obj |-> IF ~iswhite(o) THEN color[o]
                             ELSE IF o \in spared THEN "gray"
                             ELSE IF color[o] = "white" THEN "dead" ELSE "white"]
  /\ sweepstr' = AllStrings
  /\ sweepgc' = RootList
  /\ gcstate' = "sweepstring"
  /\ UNCHANGED <<open, gmt, udataVars, listVars, doomed>>

-----------------------------------------------------------------------------
(* The sweep phase.                                                        *)

Empty == [f \in Field |-> Nil]

(* freeobj on the objects of F.                                            *)
Freed(F) == /\ ref' = [o \in Obj |-> IF o \in F THEN Empty ELSE ref[o]]
            /\ open' = [o \in Obj |-> IF o \in F THEN <<>> ELSE open[o]]
            /\ doomed' = doomed \ F
            /\ udata' = Kept(udata, Obj \ F)
            /\ finalized' = finalized \ F

SweepString(o) ==
  /\ sweepstr' = sweepstr \ {o}
  /\ color' = [color EXCEPT ![o] = IF isdead(o) THEN "free" ELSE "white"]
  /\ Freed({o} \cap {s \in Obj : isdead(s)})
  /\ UNCHANGED <<gmt, tmudata, gcstate, listVars, sweepgc>>

OpenOf(th) == {u \in Of("upval") : open[u] # <<>> /\ open[u][1] = th}

(* sweeplist on one object.  A thread has its open upvalues swept with it, *)
(* and a dead one closes those that are still in use (luaE_freethread).    *)
SweepObject(o) ==
  LET group == {o} \cup OpenOf(o)
      F == {x \in group : isdead(x)}
      closed == IF isdead(o) THEN OpenOf(o) \ F ELSE {}
  IN  /\ sweepgc' = sweepgc \ {o}
      /\ color' = [x \in Obj |-> IF x \in F THEN "free"
                                 ELSE IF x \in group THEN "white" ELSE color[x]]
      /\ ref' = [x \in Obj |-> IF x \in F THEN Empty
                               ELSE IF x \in closed THEN [ref[x] EXCEPT !["v"] = UpvalValue(x)]
                               ELSE ref[x]]
      /\ open' = [x \in Obj |-> IF x \in F \cup closed THEN <<>> ELSE open[x]]
      /\ doomed' = doomed \ F
      /\ udata' = Kept(udata, Obj \ F)
      /\ finalized' = finalized \ F
      /\ UNCHANGED <<gmt, tmudata, gcstate, listVars, sweepstr>>

-----------------------------------------------------------------------------
(* Finalizers.                                                             *)

Push(c) == /\ Len(calls) < MaxNest
           /\ calls' = <<c>> \o calls

GCTMBlack ==
  LET u == Head(tmudata) IN
  /\ tmudata' = Tail(tmudata)
  /\ udata' = <<u>> \o udata
  /\ ref' = [ref EXCEPT ![running]["fin"] = u]
  /\ Push("finalizer")
  /\ UNCHANGED <<open, gmt, color, finalized, gcstate, listVars, sweepVars, doomed>>
(* GCTM: back to the userdata list, white, and its finalizer is called     *)
(* with it, if its metatable still has one.                                *)
GCTM ==
  LET u == Head(tmudata) IN
  /\ tmudata' = Tail(tmudata)
  /\ udata' = <<u>> \o udata
  /\ color' = [color EXCEPT ![u] = "white"]
  /\ IF "gc" \in Events(ref[u]["mt"])
     THEN /\ ref' = [ref EXCEPT ![running]["fin"] = u]
          /\ Push("finalizer")
     ELSE UNCHANGED <<ref, calls>>
  /\ UNCHANGED <<open, gmt, finalized, gcstate, listVars, sweepVars, doomed>>

GoTo(state) ==
  /\ gcstate' = state
  /\ UNCHANGED <<heapVars, color, udataVars, listVars, sweepVars, doomed>>

-----------------------------------------------------------------------------
(* One step of the collector.                                              *)

(* The program runs when no collector call is active above it.             *)
Top(c) == calls # <<>> /\ Head(calls) = c
Closing == calls # <<>> /\ calls[Len(calls)] = "close"
Program == /\ calls = <<>> \/ Top("finalizer")
           /\ gcstate \notin Atomic

(* Steps of the cycle that call no finalizer.                              *)
MarkStep ==
  \/ gcstate = "pause" /\ markroot
  \/ gcstate \in {"propagate"} \cup Atomic /\ \E o \in gray : propagatemark(o)
  \/ gray = {} /\ \/ gcstate = "propagate" /\ remarkupvals
                  \/ gcstate = "remark_upvals" /\ RemarkWeak
                  \/ gcstate = "remark_weak" /\ RemarkAgain
                  \/ gcstate = "remark_again" /\ MarkTmu
                  \/ gcstate = "mark_tmu" /\ FinishAtomic
SweepStep ==
  \/ gcstate = "sweepstring" /\ \E o \in sweepstr : SweepString(o)
  \/ gcstate = "sweepstring" /\ sweepstr = {} /\ GoTo("sweep")
  \/ gcstate = "sweep" /\ \E o \in sweepgc : SweepObject(o)
  \/ gcstate = "sweep" /\ sweepgc = {} /\ GoTo("finalize")

(* singlestep, called from luaC_step when the program allocates, or from   *)
(* the loops of luaC_fullgc.                                               *)
MaySweep == \/ calls = <<>>
            \/ Top("finalizer") /\ (gcstate \in Atomic \/ ~Closing
                                    \/ Makes("step_in_close"))
            \/ Top("collect") /\ gcstate # "pause"
singlestep ==
  /\ \/ /\ MaySweep \/ (Top("sweep") /\ gcstate # "finalize")
        /\ MarkStep \/ SweepStep
        /\ UNCHANGED calls
     \/ /\ MaySweep /\ gcstate = "finalize" /\ tmudata # <<>>
        /\ GCTM
     \/ /\ MaySweep /\ gcstate = "finalize" /\ tmudata = <<>>
        /\ GoTo("pause")
        /\ UNCHANGED calls
  /\ UNCHANGED <<shape, running, failed>>

(* luaC_fullgc: an unfinished mark phase is undone by a sweep that turns   *)
(* everything white; then a whole cycle runs.                              *)
luaC_fullgc ==
  /\ Program /\ Makes("collect")
  /\ Push("sweep")
  /\ IF gcstate \in {"pause", "propagate"}
     THEN /\ sweepstr' = AllStrings
          /\ sweepgc' = RootList
          /\ gray' = {} /\ grayagain' = {} /\ weak' = {}
          /\ gcstate' = "sweepstring"
     ELSE UNCHANGED <<sweepVars, listVars, gcstate>>
  /\ UNCHANGED <<shape, heapVars, color, udataVars, running, failed, doomed>>

FullMarks ==
  /\ Top("sweep") /\ gcstate = "finalize"
  /\ markroot
  /\ calls' = <<"collect">> \o Tail(calls)
  /\ UNCHANGED <<shape, running, failed>>

FullEnds ==
  /\ Top("collect") /\ gcstate = "pause"
  /\ calls' = Tail(calls)
  /\ UNCHANGED <<shape, heapVars, color, udataVars, running, gcstate,
                 listVars, sweepVars, failed, doomed>>

(* A finalizer returns, or fails.                                          *)
FinalizerEnds ==
  /\ Top("finalizer") /\ gcstate \notin Atomic
  /\ ref' = [ref EXCEPT ![running]["fin"] = Nil]
  /\ calls' = Tail(calls)
  /\ UNCHANGED <<shape, open, gmt, color, udataVars, running, gcstate,
                 listVars, sweepVars, failed, doomed>>

-----------------------------------------------------------------------------
(* Write barriers.                                                         *)

(* What the lua_assert called `name' adds to `failed'.                     *)
Failing(name, holds) == IF holds THEN {} ELSE {name}
(* Barriers are asserted to be met while marking or sweeping only.         *)
InPhase == gcstate \notin {"finalize", "pause"}

(* luaC_barrierf: the collector moves forward to the value, or, in a sweep *)
(* phase, gives up on the object.  The name tells whether the assertion on *)
(* the phase was about a userdata that waits for its finalizer.            *)
luaC_barrierf(o, v) ==
  /\ failed' = failed \cup Failing("dead", ~isdead(o) /\ ~isdead(v))
                     \cup Failing(IF o \in Waiting THEN "waiting" ELSE "phase", InPhase)
  /\ IF gcstate = "propagate"
     THEN gray' = gray \cup Queued({v}) /\ color' = Painted({v})
     ELSE color' = [color EXCEPT ![o] = "white"] /\ UNCHANGED gray
  /\ UNCHANGED grayagain

luaC_barrier(o, v) ==
  IF v # Nil /\ iswhite(v) /\ isblack(o) THEN luaC_barrierf(o, v)
  ELSE UNCHANGED <<color, gray, grayagain, failed>>

(* luaC_barrierback: a table goes back to gray, to be traversed again in   *)
(* the atomic phase.  S are the values stored in it.                       *)
luaC_barriert(h, S) ==
  IF isblack(h) /\ Whites(S) # {}
  THEN /\ failed' = failed \cup Failing("dead", ~isdead(h)) \cup Failing("phase", InPhase)
       /\ color' = [color EXCEPT ![h] = "gray"]
       /\ grayagain' = grayagain \cup {h}
       /\ UNCHANGED gray
  ELSE UNCHANGED <<color, gray, grayagain, failed>>

-----------------------------------------------------------------------------
(* The program.                                                            *)

Stack == {ref[running][s] : s \in Slot \cup {"fin"}} \ {Nil}
(* The objects it can operate on, and the values it can operate with.      *)
Accessible == Stack \cup {ref[running]["env"]}
Operands == Stack \cup {Nil}

NoGC == UNCHANGED <<shape, gcstate, weak, sweepVars, calls>>

(* luaC_link and its relatives: a new object is white, and its creator     *)
(* leaves it in a stack slot.                                              *)
Create(o, s, fields) ==
  /\ Program /\ ~Live(o) /\ ref[running][s] = Nil
  /\ color' = [color EXCEPT ![o] = "white"]
  /\ ref' = [ref EXCEPT ![o] = [f \in Field |-> IF f \in DOMAIN fields THEN fields[f] ELSE Nil],
                        ![running][s] = o]
  /\ NoGC
  /\ UNCHANGED <<open, gmt, tmudata, finalized, running, gray, grayagain, failed, doomed>>

luaH_new(o, s) == kind(o) = "table" /\ Create(o, s, <<>>) /\ UNCHANGED udata
luaF_newproto(o, s) == kind(o) = "proto" /\ Create(o, s, <<>>) /\ UNCHANGED udata
luaE_newthread(o, s) ==
  /\ kind(o) = "thread"
  /\ Create(o, s, [env |-> ref[running]["env"]])
  /\ UNCHANGED udata
luaS_newudata(o, s) ==
  /\ kind(o) = "userdata"
  /\ Create(o, s, [env |-> ref[running]["env"]])
  /\ udata' = <<o>> \o udata
lua_pushcclosure(o, s) ==
  /\ kind(o) = "cclosure"
  /\ \E v \in Operands : Create(o, s, [env |-> ref[running]["env"], v |-> v])
  /\ UNCHANGED udata

(* luaS_newlstr: a string that exists, dead or not, is used again.         *)
luaS_newlstr(o, s) ==
  /\ kind(o) = "string"
  /\ \/ Create(o, s, <<>>) /\ UNCHANGED udata
     \/ /\ Program /\ Live(o) /\ ref[running][s] = Nil
        /\ color' = [color EXCEPT ![o] = IF isdead(o) THEN "white" ELSE @]
        /\ ref' = [ref EXCEPT ![running][s] = o]
        /\ doomed' = doomed \ {o}
        /\ NoGC
        /\ UNCHANGED <<open, gmt, udataVars, running, gray, grayagain, failed>>

(* luaF_findupval: the open upvalue u of slot t of the running thread, or  *)
(* a new one.  A dead one that is found is resurrected.                    *)
Found(u, t) == open[u] = <<running, t>>
luaF_findupval(u, t) ==
  \/ Found(u, t)
  \/ kind(u) = "upval" /\ ~Live(u) /\ \A x \in Obj : ~Found(x, t)

(* OP_CLOSURE: a closure of prototype p (Nil: one that is not collectable  *)
(* in this program) captures the local in slot t, or shares the upvalue of *)
(* the enclosing closure.                                                  *)
NewClosure(c, s, p, u) ==
  /\ Program
  /\ kind(c) = "lclosure" /\ ~Live(c) /\ ref[running][s] = Nil
  /\ p # Nil => kind(p) = "proto"
  /\ ref' = [ref EXCEPT ![c] = [Empty EXCEPT !["env"] = ref[running]["env"],
                                             !["p"] = p, !["up"] = u],
                        ![running][s] = c]
  /\ NoGC
  /\ UNCHANGED <<gmt, udataVars, running, gray, grayagain, failed>>
ClosureCaptures(c, s, p, u, t) ==
  /\ luaF_findupval(u, t)
  /\ NewClosure(c, s, p, u)
  /\ color' = [color EXCEPT ![c] = "white",
                            ![u] = IF ~Live(u) \/ isdead(u) THEN "white" ELSE @]
  /\ open' = [open EXCEPT ![u] = <<running, t>>]
  /\ doomed' = doomed \ {u}
ClosureShares(c, s, p, u) ==
  /\ \E f \in Stack : kind(f) = "lclosure" /\ ref[f]["up"] = u
  /\ NewClosure(c, s, p, u)
  /\ color' = [color EXCEPT ![c] = "white"]
  /\ UNCHANGED <<open, doomed>>

(* What the program can read from an object it has: OP_GETTABLE, lua_next, *)
(* lua_getmetatable, lua_getfenv, OP_GETUPVAL, lua_xmove.                  *)
Readable(o) ==
  CASE kind(o) = "table" -> {ref[o]["mt"]} \cup
                            (IF ref[o]["v"] = Nil THEN {} ELSE {ref[o]["k"], ref[o]["v"]})
    [] kind(o) = "userdata" -> {ref[o]["mt"], ref[o]["env"]}
    [] kind(o) = "lclosure" -> {ref[o]["env"], UpvalValue(ref[o]["up"])}
    [] kind(o) = "cclosure" -> {ref[o]["env"], ref[o]["v"]}
    [] kind(o) = "thread" -> {ref[o][f] : f \in Slot \cup {"env"}}
    [] OTHER -> {}

StoreOnly == /\ Program /\ NoGC
             /\ UNCHANGED <<udataVars, doomed>>

(* Any instruction that leaves a value in a slot: no barrier for stacks.   *)
(* (A slot is cleared before it is used again.)                            *)
(* The environment needs no slot to be accessible.                         *)
Load(s, v) ==
  /\ v \in ((UNION {Readable(o) : o \in Accessible}) \ {ref[running]["env"]}) \cup {Nil}
  /\ (v = Nil) # (ref[running][s] = Nil)
  /\ ref' = [ref EXCEPT ![running][s] = v]
  /\ StoreOnly
  /\ UNCHANGED <<open, gmt, color, running, gray, grayagain, failed>>

(* luaV_settable, lua_rawset: a new key goes through luaH_set, which has a *)
(* barrier of its own.  Another live entry would need a second node.       *)
luaV_settable(h, k, v) ==
  /\ kind(h) = "table" /\ Assigns(h, "v") /\ (k # Nil => Assigns(h, "k"))
  /\ ref[h]["k"] = k \/ ref[h]["v"] = Nil
  /\ ref' = [ref EXCEPT ![h]["k"] = k, ![h]["v"] = v]
  /\ luaC_barriert(h, IF ref[h]["k"] = k THEN {v} ELSE {k, v})
  /\ StoreOnly
  /\ UNCHANGED <<open, gmt, running>>

lua_setmetatable(o, m) ==
  /\ Assigns(o, "mt") /\ (m # Nil => Events(m) # {})
  /\ CASE kind(o) = "table" ->
            ref' = [ref EXCEPT ![o]["mt"] = m] /\ luaC_barriert(o, {m}) /\ UNCHANGED gmt
       [] kind(o) = "userdata" ->
            ref' = [ref EXCEPT ![o]["mt"] = m] /\ luaC_barrier(o, m) /\ UNCHANGED gmt
       [] OTHER ->
            gmt' = m /\ UNCHANGED <<ref, color, gray, grayagain, failed>>
  /\ StoreOnly
  /\ UNCHANGED <<open, running>>

lua_setfenv(o, e) ==
  /\ kind(o) \in {"lclosure", "cclosure", "userdata", "thread"} /\ Assigns(o, "env")
  /\ kind(e) = "table"
  /\ ref' = [ref EXCEPT ![o]["env"] = e]
  /\ luaC_barrier(o, e)
  /\ StoreOnly
  /\ UNCHANGED <<open, gmt, running>>

SetUpval(u, v) ==
  ref' = IF open[u] = <<>> THEN [ref EXCEPT ![u]["v"] = v]
         ELSE [ref EXCEPT ![open[u][1]][open[u][2]] = v]

(* OP_SETUPVAL has its barrier at the upvalue ...                          *)
OP_SETUPVAL(c, v) ==
  /\ kind(c) = "lclosure" /\ Assigns(c, "up")
  /\ SetUpval(ref[c]["up"], v)
  /\ luaC_barrier(ref[c]["up"], v)
  /\ StoreOnly
  /\ UNCHANGED <<open, gmt, running>>
(* ... lua_setupvalue has it at the closure, whose upvalue may be shared.  *)
lua_setupvalue(c, v) ==
  /\ \/ kind(c) = "cclosure" /\ Assigns(c, "v") /\ ref' = [ref EXCEPT ![c]["v"] = v]
     \/ kind(c) = "lclosure" /\ Makes("setupvalue") /\ SetUpval(ref[c]["up"], v)
  /\ luaC_barrier(c, v)
  /\ StoreOnly
  /\ UNCHANGED <<open, gmt, running>>

(* The parser adds a constant or a nested prototype to a prototype.        *)
addk(p, v) ==
  /\ kind(p) = "proto" /\ v # Nil /\ kind(v) \in {"string", "proto"} /\ v # p
  /\ ref' = [ref EXCEPT ![p]["k"] = v]
  /\ luaC_barrier(p, v)
  /\ StoreOnly
  /\ UNCHANGED <<open, gmt, running>>

luaC_linkupvalUnguarded(u, fails) ==
  /\ color' = [color EXCEPT ![u] = IF ~isgray(u) THEN @
                                   ELSE IF gcstate = "propagate" THEN "black" ELSE "white"]
  /\ failed' = failed \cup fails
  /\ UNCHANGED gray
(* luaC_linkupval: a gray upvalue turns black, which needs a barrier, or   *)
(* white in a sweep phase.  `fails' is what its caller asserted in vain.   *)
luaC_linkupval(u, fails) ==
  LET v == UpvalValue(u) IN
  IF ~isgray(u) THEN failed' = failed \cup fails /\ UNCHANGED <<color, gray>>
  ELSE IF gcstate = "propagate"
       THEN /\ color' = [Painted({v}) EXCEPT ![u] = "black"]
            /\ gray' = gray \cup Queued({v})
            /\ failed' = failed \cup fails
                            \cup Failing("dead", \A o \in Whites({v}) : ~isdead(o))
       ELSE /\ color' = [color EXCEPT ![u] = "white"]
            /\ failed' = failed \cup fails \cup Failing("phase", InPhase)
            /\ UNCHANGED gray

(* luaF_close: a local that was captured goes out of scope.                *)
luaF_close(u) ==
  /\ Program
  /\ open[u] # <<>> /\ open[u][1] = running
  /\ LET out == [ref EXCEPT ![running][open[u][2]] = Nil]
         fails == Failing("open", ~isblack(u))
     IN
     IF isdead(u)
     THEN /\ color' = [color EXCEPT ![u] = "free"]
          /\ ref' = [out EXCEPT ![u] = Empty]
          /\ doomed' = doomed \ {u}
          /\ failed' = failed \cup fails
          /\ UNCHANGED gray
     ELSE /\ ref' = [out EXCEPT ![u]["v"] = UpvalValue(u)]
          /\ luaC_linkupval(u, fails)
          /\ UNCHANGED doomed
  /\ open' = [open EXCEPT ![u] = <<>>]
  /\ NoGC
  /\ UNCHANGED <<gmt, udataVars, running, grayagain>>

(* Coroutines: values move between stacks, and the running thread changes. *)
lua_xmove(to, s, t) ==
  /\ kind(to) = "thread" /\ to # running
  /\ ref[running][s] # ref[to][t]
  /\ ref' = [ref EXCEPT ![to][t] = ref[running][s]]
  /\ StoreOnly
  /\ UNCHANGED <<open, gmt, color, running, gray, grayagain, failed>>

Switch(th) ==
  /\ calls = <<>>
  /\ running' = th
  /\ StoreOnly
  /\ UNCHANGED <<heapVars, color, gray, grayagain, failed>>
lua_resume(co) == kind(co) = "thread" /\ running = Main /\ co # Main /\ Switch(co)
lua_yield == running # Main /\ Switch(Main)

-----------------------------------------------------------------------------
(* lua_close: all userdata are finalized, then everything is freed.  The   *)
(* luaF_close it begins with is the action above.                          *)

lua_close ==
  /\ Program /\ Makes("close") /\ calls = <<>> /\ running = Main /\ OpenOf(Main) = {}
  /\ luaC_separateudata(TRUE)
  /\ ref' = [ref EXCEPT ![Main] = [f \in Field |-> IF f \in Slot THEN Nil ELSE @[f]]]
  /\ Push("close")
  /\ UNCHANGED <<shape, open, gmt, color, running, gcstate, listVars,
                 sweepVars, failed, doomed>>

callallgcTM ==
  /\ Top("close") /\ tmudata # <<>>
  /\ GCTM
  /\ UNCHANGED <<shape, running, failed>>

luaC_freeall ==
  /\ Top("close") /\ tmudata = <<>>
  /\ color' = [o \in Obj |-> IF o = Main THEN color[o] ELSE "free"]
  /\ Freed(Obj \ {Main})
  /\ sweepstr' = {} /\ sweepgc' = {}
  /\ calls' = <<"closed">>
  /\ UNCHANGED <<shape, gmt, tmudata, running, gcstate, listVars, failed>>

-----------------------------------------------------------------------------
Init ==
  /\ shape \in Shapes
  /\ ref = [o \in Obj |-> IF o = Main THEN [Empty EXCEPT !["env"] = Registry] ELSE Empty]
  /\ open = [o \in Obj |-> <<>>]
  /\ color = [o \in Obj |-> IF o \in Id THEN "free" ELSE "white"]
  /\ gmt = Nil
  /\ udata = <<>> /\ tmudata = <<>> /\ finalized = {}
  /\ running = Main
  /\ gcstate = "pause"
  /\ gray = {} /\ grayagain = {} /\ weak = {}
  /\ sweepstr = {} /\ sweepgc = {}
  /\ calls = <<>>
  /\ failed = {}
  /\ doomed = {}

Allocate ==
  \E o \in Id, s \in Slot :
    \/ luaH_new(o, s)
    \/ luaF_newproto(o, s)
    \/ luaE_newthread(o, s)
    \/ luaS_newudata(o, s)
    \/ lua_pushcclosure(o, s)
    \/ luaS_newlstr(o, s)
    \/ \E p \in Operands, u \in Of("upval") :
          \/ ClosureShares(o, s, p, u)
          \/ \E t \in Slot \ {s} : ClosureCaptures(o, s, p, u, t)

Store ==
  \/ \E s \in Slot, v \in Obj \cup {Nil} : Load(s, v)
  \/ \E o \in Accessible :
       \/ \E k \in Operands, v \in Operands : luaV_settable(o, k, v)
       \/ \E mt \in Accessible \cup {Nil} : lua_setmetatable(o, mt)
       \/ \E v \in Operands : \/ OP_SETUPVAL(o, v)
                              \/ lua_setupvalue(o, v)
                              \/ addk(o, v)
       \/ \E e \in Accessible : lua_setfenv(o, e)
       \/ \E s \in Slot, t \in Slot : lua_xmove(o, s, t)
       \/ lua_resume(o)
  \/ lua_yield
  \/ \E u \in Of("upval") : luaF_close(u)

Collect == singlestep \/ FullMarks \/ FullEnds

Next == \/ Allocate
        \/ Store
        \/ Collect
        \/ luaC_fullgc
        \/ FinalizerEnds
        \/ lua_close
        \/ callallgcTM
        \/ luaC_freeall

Spec == Init /\ [][Next]_vars

-----------------------------------------------------------------------------
(* Properties.                                                             *)

(* Every variable has its type, and objects are linked soundly: a live     *)
(* userdata is on the userdata list or on tmudata, once; while marking, no *)
(* object is on two of the lists that share the field gclist.              *)
TypeOK ==
  /\ shape \in Shapes
  /\ ref \in [Obj -> [Field -> Obj \cup {Nil}]]
  /\ open \in [Obj -> {<<>>} \cup (Obj \X Slot)]
  /\ color \in [Obj -> {"free", "white", "dead", "gray", "black"}]
  /\ gmt \in Obj \cup {Nil} /\ running \in Obj
  /\ finalized \subseteq Obj /\ udata \in Seq(Obj) /\ tmudata \in Seq(Obj)
  /\ gcstate \in {"pause", "propagate", "sweepstring", "sweep", "finalize"} \cup Atomic
  /\ \A S \in {gray, grayagain, weak, sweepstr, sweepgc, doomed} : S \subseteq Obj
  /\ calls \in Seq({"sweep", "collect", "finalizer", "close", "closed"})
  /\ failed \subseteq {"dead", "phase", "waiting", "open"}
  /\ \A u \in Of("userdata") :
       Cardinality({i \in DOMAIN (udata \o tmudata) : (udata \o tmudata)[i] = u})
         = IF Live(u) THEN 1 ELSE 0
  /\ gcstate \in {"propagate"} \cup Atomic =>
       gray \cap grayagain = {} /\ gray \cap weak = {} /\ grayagain \cap weak = {}

(* The lua_asserts of luaC_barrierf, luaC_barrierback, luaF_close and      *)
(* luaC_linkupval hold, with one exception: no barrier meets a dead object *)
(* or comes between the end of a sweep and the start of the next mark, and *)
(* no upvalue is black while it is open.  The exception is the assertion   *)
(* of luaC_barrierf on the phase when the object is a userdata that waits  *)
(* for its finalizer, which stays black until GCTM takes it.               *)
AssertionsHold == failed \subseteq {"waiting"}

(* lgc.c:664 as it stands, which has no exception:                         *)
(* lua_assert(g->gcstate != GCSfinalize && g->gcstate != GCSpause).        *)
BarriersInPhase == failed \cap {"waiting", "phase"} = {}

(* Neither freed nor about to be by the sweep under way.                   *)
Sound(o) == Live(o) /\ (gcstate \in {"sweepstring", "sweep"} => ~isdead(o))

(* Whatever the program does between the steps of a cycle, the roots are   *)
(* sound and no sound object has a reference, of any strength, to one that *)
(* is freed or dead, so nothing the program can reach ever is: barriers,   *)
(* the second traversal of stacks and weak tables, remarkupvals and the    *)
(* resurrection of strings and upvalues together miss nothing.             *)
NoDangling ==
  ~Top("closed") =>
    /\ \A o \in Roots : Sound(o)
    /\ \A o \in Obj : Sound(o) => \A x \in Successors(o) \ {Nil} : Sound(x)

(* The invariant that barriers keep while marking: no black object refers  *)
(* to a white one.  lua_close gives it up: its finalizers may run in the   *)
(* middle of a mark phase, and GCTM whitens their userdata.                *)
NoBlackToWhite ==
  gcstate = "propagate" /\ ~Closing =>
    \A o \in Obj : isblack(o) /\ o \notin Waiting =>
                     Whites(Successors(o)) = {}

(* What was out of reach when a cycle began is freed when it ends: the     *)
(* collector misses no garbage, except what waits for a finalizer.         *)
GarbageCollected == gcstate = "pause" => doomed = {}

(* The objects reachable by references that keep their target alive.       *)
Strong(o) ==
  CASE kind(o) = "userdata" -> {ref[o]["mt"], ref[o]["env"]}
    [] kind(o) = "upval" -> {UpvalValue(o)}
    [] kind(o) = "string" -> {}
    [] OTHER -> Children(o)
StronglyReachable ==
  LET Step(R) == R \cup ((UNION {Strong(o) : o \in R}) \ {Nil})
      R[n \in 0 .. Cardinality(Obj)] == IF n = 0 THEN Roots ELSE Step(R[n - 1])
  IN  R[Cardinality(Obj)]

(* The collector removes a pair from a table only if the table is weak and *)
(* the key or the value, not counting strings, is out of strong reach, or  *)
(* the value is a userdata whose finalizer has been called.                *)
WeakPairsKept ==
  [][gcstate = "mark_tmu" =>
       \A h \in Obj : ref[h]["v"] # Nil /\ ref'[h]["v"] = Nil =>
         /\ WeakMode(h) # {}
         /\ \/ ~({ref[h]["k"], ref[h]["v"]} \subseteq StronglyReachable \cup Of("string") \cup {Nil})
            \/ ref[h]["v"] \in finalized]_vars
=============================================================================
