------------------------------- MODULE VMHeap -------------------------------
(***************************************************************************)
(* The heap side of the VM's API (vm.zig), composed with the collector: a  *)
(* LuaState, its value stack, its string pool and its tables, over the     *)
(* objects of GC.  An API call that makes an object runs into the          *)
(* collector in the middle: the collector's steps are those of GC, and the *)
(* call goes on when addObject has returned.                               *)
(*                                                                         *)
(* Numbers, booleans and functions do not matter here: a value is Nil or a *)
(* string or table object.  Reading an object that has been freed is       *)
(* undefined; it sets `fault', after which nothing more is said.           *)
(***************************************************************************)
EXTENDS GC, Sequences

CONSTANTS
  Globals, Registry, MainThread,  (* the objects LuaState.init makes       *)
  Texts,                          (* contents of strings                   *)
  Hash,                           (* Hash[s]: Wyhash.hash(0, s)            *)
  StackSize,                      (* 1024 in vm.zig                        *)
  Nil

ASSUME StateAssumption ==
  /\ {Globals, Registry, MainThread} \subseteq Objects
  /\ Kind[Globals] = "table" /\ Kind[Registry] = "table"
  /\ Globals # Registry /\ Kind[MainThread] = "thread"
ASSUME TextAssumption == DOMAIN Hash = Texts /\ Nil \notin Texts
ASSUME NilAssumption == /\ Nil \notin Objects /\ Nil \notin Objects \X Objects
                        /\ StackSize \in Nat

VARIABLES
  stack,     (* LuaState.stack[0..top]                                     *)
  pool,      (* string_pool: a string for each hash, or Nil                *)
  text,      (* the content of each string object                          *)
  entries,   (* entries[t][s]: the entry of table t whose key is a string  *)
             (* with content s, as its key object and its value, or Nil    *)
  call,      (* the API call in progress                                   *)
  fault

vmVars == <<stack, pool, text, entries, call, fault>>
allVars == <<vars, vmVars>>

Values == Objects \cup {Nil}
Hashes == {Hash[s] : s \in Texts}
Tables == {t \in Objects : Kind[t] = "table"}
NoCall == [op |-> "none"]

(* Calls that intern a name: what they do with it (op), where they are     *)
(* (at), the table and the value they have in hand, and the string.        *)
Call(op, name, table, value) ==
  [op |-> op, at |-> "intern", name |-> name, table |-> table,
   value |-> value, str |-> Nil]

(* LuaState.init, before stdlib.openLibs: the thread and two tables are on *)
(* the list and are the roots.                                             *)
VMInit ==
  /\ allocated = {Globals, Registry, MainThread} /\ freed = {}
  /\ refs = [o \in Objects |-> {}]
  /\ marked = {} /\ objects = allocated
  /\ num_objects = 3 /\ threshold = MinThreshold
  /\ total_allocated = 2 * Size["table"] + Size["thread"]
  /\ total_collected = 0 /\ collection_count = 0
  /\ roots = [set |-> TRUE, objs |-> allocated]
  /\ phase = "idle"
  /\ pending = {} /\ unswept = {} /\ collected = 0
  /\ queued = {} /\ fresh = {}
  /\ stack = <<>>
  /\ pool = [h \in Hashes |-> Nil]
  /\ text = [o \in Objects |-> Nil]
  /\ entries = [t \in Tables |-> [s \in Texts |-> Nil]]
  /\ call = NoCall
  /\ fault = FALSE

-----------------------------------------------------------------------------
(* Helpers.                                                                *)

(* The program is between two API calls / inside one, not in collect().    *)
Ready  == phase = "idle" /\ ~fault /\ call = NoCall
Inside(ops, at) == /\ phase = "idle" /\ ~fault
                   /\ call.op \in ops /\ call.at = at

(* The allocator's next object of a kind. *)
IsFresh(o, kind) ==
  /\ o \notin allocated /\ Kind[o] = kind
  /\ o = CHOOSE x \in Objects : x \notin allocated /\ Kind[x] = kind

(* push: an error and no change when the stack is full. *)
Push(s, v) == IF Len(s) < StackSize THEN Append(s, v) ELSE s

Popped == SubSeq(stack, 1, Len(stack) - 1)
Top == stack[Len(stack)]

(* Table.set and Table.get with a string key; the map finds a key by its   *)
(* content and keeps the key object that it has.                           *)
PutEntry(e, s, str, v) ==
  [e EXCEPT ![s] = IF v = Nil THEN Nil
                   ELSE <<IF @ = Nil THEN str ELSE @[1], v>>]
EntryValue(t, s) == IF entries[t][s] = Nil THEN Nil ELSE entries[t][s][2]

(* The objects that the entries e of a table point to. *)
EntryRefs(e) ==
  UNION {IF e[s] = Nil THEN {} ELSE {e[s][1], e[s][2]} : s \in Texts}

-----------------------------------------------------------------------------
(* The API calls, up to their first allocation.                            *)

(* pushTable / newTable / OP_NEWTABLE: Table.initWithGC ... *)
PushTable(o) ==
  /\ Ready
  /\ IsFresh(o, "table")
  /\ NewObject(o)
  /\ call' = [op |-> "table", at |-> "push", str |-> o]
  /\ UNCHANGED <<stack, pool, text, entries, fault>>

(* ... then push. *)
PushTableReturns ==
  /\ Inside({"table"}, "push")
  /\ stack' = Push(stack, call.str)
  /\ call' = NoCall
  /\ UNCHANGED <<vars, pool, text, entries, fault>>

PushString(s) ==
  /\ Ready
  /\ call' = Call("push", s, Nil, Nil)
  /\ UNCHANGED <<vars, stack, pool, text, entries, fault>>

(* setGlobal pops the value before it interns the name. *)
SetGlobal(s) ==
  /\ Ready /\ stack # <<>>
  /\ call' = Call("set", s, Globals, Top)
  /\ stack' = Popped
  /\ UNCHANGED <<vars, pool, text, entries, fault>>

GetGlobal(s) ==
  /\ Ready
  /\ call' = Call("get", s, Globals, Nil)
  /\ UNCHANGED <<vars, stack, pool, text, entries, fault>>

(* setField: error.ExpectedTable, with no effect, unless the value at i is *)
(* a table; the table is fetched first, then the value is popped.          *)
SetField(i, s) ==
  /\ Ready /\ i \in 1 .. Len(stack)
  /\ stack[i] \in Tables
  /\ call' = Call("set", s, stack[i], Top)
  /\ stack' = Popped
  /\ UNCHANGED <<vars, pool, text, entries, fault>>

(* getField pushes nil if the value at i is not a table. *)
GetField(i, s) ==
  /\ Ready /\ i \in 1 .. Len(stack)
  /\ IF stack[i] \in Tables
       THEN /\ call' = Call("get", s, stack[i], Nil)
            /\ UNCHANGED stack
       ELSE /\ stack' = Push(stack, Nil)
            /\ UNCHANGED call
  /\ UNCHANGED <<vars, pool, text, entries, fault>>

(* pop / setTop(-2). *)
Pop ==
  /\ Ready /\ stack # <<>>
  /\ stack' = Popped
  /\ UNCHANGED <<vars, pool, text, entries, call, fault>>

(* deinit: the pool and the stack are freed, then everything else. *)
VMDeinit ==
  /\ Ready
  /\ pool' = [h \in Hashes |-> Nil] /\ stack' = <<>>
  /\ Deinit
  /\ UNCHANGED <<text, entries, call, fault>>

(* A host program collects through gc.forceCollect. *)
VMCollect ==
  /\ Ready
  /\ Collect
  /\ UNCHANGED vmVars

-----------------------------------------------------------------------------
(* internString.                                                           *)

InternCalls == {"push", "get", "set"}
Pooled == pool[Hash[call.name]]

(* The pool has a string with the hash and the content.                    *)
HitOnHash ==
  /\ Pooled # Nil /\ Pooled \notin freed

Hit ==
  /\ Pooled # Nil /\ Pooled \notin freed
  /\ text[Pooled] = call.name

InternHit ==
  /\ Inside(InternCalls, "intern")
  /\ Hit
  /\ call' = [call EXCEPT !.at = "finish", !.str = Pooled]
  /\ UNCHANGED <<vars, stack, pool, text, entries, fault>>

(* Comparing with a pooled string that has been freed. *)
InternFault ==
  /\ Inside(InternCalls, "intern")
  /\ Pooled \in freed
  /\ fault' = TRUE
  /\ UNCHANGED <<vars, stack, pool, text, entries, call>>

(* No such string, or another one with the same hash: make one ... *)
InternMiss(o) ==
  /\ Inside(InternCalls, "intern")
  /\ Pooled \notin freed /\ ~Hit
  /\ IsFresh(o, "string")
  /\ NewObject(o)
  /\ text' = [text EXCEPT ![o] = call.name]
  /\ call' = [call EXCEPT !.at = "put", !.str = o]
  /\ UNCHANGED <<stack, pool, entries, fault>>

(* ... and, when addObject has returned, put it in the pool.               *)
PoolPut ==
  /\ Inside(InternCalls, "put")
  /\ pool' = [pool EXCEPT ![Hash[call.name]] = call.str]
  /\ call' = [call EXCEPT !.at = "finish"]
  /\ UNCHANGED <<vars, stack, text, entries, fault>>

-----------------------------------------------------------------------------
(* The rest of the calls.                                                  *)

PushStringReturns ==
  /\ Inside({"push"}, "finish")
  /\ stack' = Push(stack, call.str)
  /\ call' = NoCall
  /\ UNCHANGED <<vars, pool, text, entries, fault>>

(* Table.get and Table.set read the table and the key. *)
EntryFault ==
  /\ Inside({"get", "set"}, "finish")
  /\ {call.table, call.str} \cap freed # {}
  /\ fault' = TRUE
  /\ UNCHANGED <<vars, stack, pool, text, entries, call>>

GetReturns ==
  /\ Inside({"get"}, "finish")
  /\ {call.table, call.str} \cap freed = {}
  /\ stack' = Push(stack, EntryValue(call.table, text[call.str]))
  /\ call' = NoCall
  /\ UNCHANGED <<vars, pool, text, entries, fault>>

SetReturns ==
  /\ Inside({"set"}, "finish")
  /\ {call.table, call.str} \cap freed = {}
  /\ entries' = [entries EXCEPT ![call.table] =
                   PutEntry(@, text[call.str], call.str, call.value)]
  /\ refs' = [refs EXCEPT ![call.table] = EntryRefs(entries'[call.table])]
  /\ call' = NoCall
  /\ UNCHANGED <<stack, pool, text, fault>>
  /\ UNCHANGED <<allocated, freed, marked, objects, num_objects, threshold,
                 statVars, roots, phase, pending, unswept, collected, queued,
                 fresh>>

-----------------------------------------------------------------------------
(* The collector inside a call, until it reads a freed object.             *)

CollectorRuns ==
  /\ ~fault /\ pending \cap freed = {}
  /\ \/ \E o \in Objects : MarkObject(o)
     \/ StartSweep
     \/ \E o \in Objects : SweepObject(o)
     \/ FinishCollect
  /\ UNCHANGED vmVars

MarkFault ==
  /\ ~fault /\ pending \cap freed # {}
  /\ fault' = TRUE
  /\ UNCHANGED <<vars, stack, pool, text, entries, call>>

VMNext ==
  \/ \E o \in Objects : PushTable(o) \/ InternMiss(o)
  \/ \E s \in Texts : PushString(s) \/ SetGlobal(s) \/ GetGlobal(s)
  \/ \E i \in 1 .. Len(stack), s \in Texts : SetField(i, s) \/ GetField(i, s)
  \/ Pop \/ VMDeinit \/ VMCollect
  \/ PushTableReturns \/ InternHit \/ InternFault \/ PoolPut
  \/ PushStringReturns \/ EntryFault \/ GetReturns \/ SetReturns
  \/ CollectorRuns \/ MarkFault

VMSpec == VMInit /\ [][VMNext]_allVars

-----------------------------------------------------------------------------
(* Properties.                                                             *)

(* What a table shows its users: name |-> value. *)
Shown(t) == [s \in Texts |-> EntryValue(t, s)]

(* Storing under a name changes that name only, and reading a name pushes  *)
(* what is stored there, also when two names have the same hash and the    *)
(* pool holds the wrong one of the two.                                    *)
NamesKeptApart ==
  [][/\ SetReturns =>
          \A u \in Tables : Shown(u)' =
            IF u = call.table
              THEN [Shown(u) EXCEPT ![call.name] = call.value]
              ELSE Shown(u)
     /\ GetReturns /\ Len(stack) < StackSize =>
          stack'[Len(stack')] = Shown(call.table)[call.name]]_allVars

(* Until the first collection no call ever reads freed memory; and deinit  *)
(* gives all memory back, whether or not there were collections.           *)
QuietSession == (fault => collection_count > 0) /\ DeinitFreesAll

(* What the VM's stack holds between two calls has not been freed.         *)
StackValuesLive ==
  Ready => \A i \in 1 .. Len(stack) : stack[i] \notin freed
=============================================================================
