# A TLA+ verification of zua

zua is an implementation of Lua 5.1 in Zig: a lexer and parser, a compiler to
the byte code of PUC Lua, an interpreter for that byte code, tables, strings
and a mark-and-sweep garbage collector, and a part of the standard library.
The repository keeps beside it the C sources of the Lua 5.1 it ports
(`src/lua-5.1/src/`): its tests compare tokens, strings and byte code with what
those programs produce. These modules model both: the Zig program from
`src/src/`, and the core of the C program, which is the larger part of the
code and the one with the incremental collector, coroutines and non-local
exits. `PROJECT.json` maps every definition to the lines it models.

Everything runs on one thread. What is hard is not parallelism but *order*:
a collection that starts inside an allocation while its caller holds the new
object in a local variable; stores of the program between two steps of an
incremental mark phase, and finalizers that are programs inside the collector;
a traversal that is interrupted by assignments and by the death of its last
key; coroutines whose native frames share one C stack, cut by long jumps; a code
generator that threads unfinished jumps through the code it writes; a lexer
that steps back to see a character again.

## 1. Inventory

### The Zig program (`src/src/`)

| Component | Source | State | Operations | Module | Status |
|---|---|---|---|---|---|
| garbage collector | gc.zig | object list, counters, threshold, roots | init, setRoots, collect, addObject, markRoots, markObject, sweep, freeObject | `GC` | modelled |
| object kinds | object.zig | pointer fields of each kind | the `initWithGC` constructors | `GC`, `VMHeap` | partly |
| interpreter's table | object.zig `Table` | array part, hash map | get, set, length, next | `ObjectTable` (abstractly `LuaMap`) | modelled |
| hybrid table | table.zig `Table` | array of fixed length, ordered map | initCapacity, get, getOrCreate, getn, next | `HybridTable` | modelled |
| heap API of the VM | vm.zig `LuaState` | value stack, string pool, globals | init, deinit, push, pop, pushTable, pushString, internString, set/getGlobal, set/getField | `VMHeap` | modelled |
| lexer | lex.zig | index, line, state of the automaton | next | `Lexer`, `Lexers` | modelled |
| literals | parse_literal.zig | state of parseString | parseString, parseNumber | `ParseLiteral` | partly |
| compiler | compiler.zig | code, constants, registers, locals, break lists | one gen function for each node | `CodeGen` | modelled |
| byte-code checker | debug.zig | none | checkcode | `CheckCode` | modelled |
| opcodes | opcodes.zig | none | operand modes, encodings | `CodeGen`, `CheckCode` | partly |
| interpreter | vm.zig | stack, top, call record, frames | load, call, callLua, callC, run, executeLua | `Execute` | partly |
| command line | zua.zig | none | executeString | `Execute` | partly |
| parser, dump, upvalues, library, older state, formatting | | | | | not modelled, see 7 |

### The C program (`src/lua-5.1/src/`)

| Component | Source | State | Operations | Module | Status |
|---|---|---|---|---|---|
| lexer | llex.c | input, line, buffer | luaX_setinput, llex and its readers | `LLex`, `Lexers` | modelled |
| parser | lparser.c | function states, blocks, locals, upvalues, levels | statements, expressions, scopes | `LParser` | modelled |
| code generator | lcode.c, lopcodes.c | code, constants, registers, jump lists | expression descriptors, patching, folding | `LCode` | modelled |
| code checker | ldebug.c | none | luaG_checkcode | `LCheck` | partly |
| binary chunks | ldump.c, lundump.c | stream | luaU_dump, luaU_undump | `LDump` | modelled |
| virtual machine | lvm.c, ltm.c, lfunc.c | stack, call records, upvalues, tables with flags | luaV_execute, metamethods, upvalues, unwinding | `LVM`, composed in `LChunk` | modelled |
| collector | lgc.c, lstring.c, lstate.c, lfunc.c | colours, lists, phase, references | phases, barriers, weak tables, finalizers, lua_close | `LGC` | modelled |
| tables | ltable.c | array, nodes with chains, free pointer | luaH_get*, luaH_set*, newkey, rehash, luaH_next, luaH_getn | `LTable` | modelled |
| calls and coroutines | ldo.c, lbaselib.c, lstate.c | call records, counters, native stack | call, pcall, error, load, resume, yield, wrap | `LDo` | modelled |
| API | lapi.c | | stores, calls, load, close | in the four above | partly |
| libraries, programs, memory, streams | | | | | not modelled, see 7 |

**How they interact.** In zua `load` runs lexer, parser and compiler over the
whole text and pushes a closure; `run` and `call` enter the interpreter, which
calls itself for every Lua call. Every constructor of an object ends in
`GC.addObject`, which may run a complete collection before it returns. The
collector knows the VM through `Roots`: three pointers, to the table of
globals, the registry and the main thread. The interpreter's values are in
`LuaState.stack`; its strings are also in a pool keyed by hash. Neither of the
two is a root. In the C program the parser pulls tokens and writes code as it
goes; `luaV_execute` re-enters itself only through C functions; an error or a
yield is a long jump to a handler of the thread's own chain; the collector
takes a step at allocations and calls finalizers, which run the machine again.

**What makes each part correct.**

* Collectors: nothing reachable is freed, whatever the program does between
  two steps; garbage is freed by the next cycle; a weak pair goes only with
  its key or value; collections end.
* Tables: get and set over the two parts are one map, through collisions,
  moves and rehashes; length is a border; a traversal delivers every key once,
  also when its user clears fields on the way and the collector kills keys.
* Heap API: a name reads back what was last stored under it, and nothing else
  changes; values in use are not freed.
* Lexers: the two agree on every text, with named exceptions; scanning ends.
* Compilers and interpreters: the generator's own assertions hold, its code
  passes the checker, running it does what the source says; upvalues are open
  exactly while their frame is active; the cache of absent metamethods is true.
* Calls: whatever an error or a yield cuts off, counters, handlers and statuses
  are those of the frames that are left.

The list `hazards` in `PROJECT.json` has these at the lines where they bite.

## 2. Modules

A definition that comes just before another with the same parameters, and
whose name says what it gets wrong (`RootsWithoutThread` before `MarkRoots`),
is a deliberately faulty variant. No specification uses it; put in the place
of its neighbour it makes some property fail, which shows that the property
depends on that line of the code.

### GC

State: the fields of `GC`, the heap (`allocated`, `freed`, `refs`) and the
progress of a collection. The list is a set, since nothing depends on its
order; the recursion of `markObject` is the set `pending` of calls still to be
made, so every order of marking is explored. Actions: `MarkObject`,
`StartSweep`, `SweepObject`, `FinishCollect` (together `collect`);
`AddObject` within `NewObject`, `NewClosure` and `AddProto` (a closure's
constructor makes two objects and calls `addObject` twice); `Store` and `Drop`
(the client's assignments); `SetRoots`, `Collect`, `Deinit`. The client keeps
to a contract: it only stores pointers that have not been freed. The threshold
is the code's product of floats written as an exact quotient.

### LuaMap, ObjectTable

`LuaMap` is the abstract table: a function from keys to values, and an
assignment changes one point of it. `ObjectTable` is object.zig's: integer keys
up to `ArrayLimit` (50 in the code) in an array that grows with holes, other
keys in the map, whose order after a removal or insertion is whatever the hash
map gives. Keys are integers or things that are not positive numbers. A
traversal as `pairs` does it is a loop of calls of `next`, between which its
user may clear fields. `todo` holds the keys it still owes.

### HybridTable

table.zig's port of `luaH_getn` and `luaH_next`. `getn` has four loops (binary
search in the array, doubling, linear search beyond the limit of i32, binary
search in the map); the locals `i` and `j` and the place are state and an
iteration is an action.

### VMHeap

Extends `GC`; here the client is the real one, `LuaState`, with its stack and
its string pool. A call that allocates is at least two actions, for a
collection may happen inside; what the caller holds meanwhile in locals is the
record `call`. Once a call reads freed memory the session stops (`fault`): the
outcome is undefined.

### ParseLiteral, Lexer, LLex, Lexers

`Lexer` has one action for each state of the automaton in `Lexer.next`, with
the bug-compatible corners (`check_next_bug_compat`) and the two characters of
a line ending. Characters are representatives of the classes the code tells
apart. `ParseString` is the automaton of `parseString` as a fold. `LLex` is
llex.c as operators on its `LexState`, and `Lexers` puts the two side by side
as the repository's fuzz tests do, on all short texts instead of a corpus.

### CodeGen, CheckCode, Execute

`CodeGen` is the compiler: an operator for each method of `Func` and for each
gen function, over a record `fs` with the fields of `Func`. Failures are part of
the result: a tripped assertion, an index out of bounds, a TODO panic, an error
of the language. `Then(fs, f)` sequences two steps and passes failures on, as
`try` does. `CheckCode` is debug.zig's checker for code without jumps (it has a
TODO panic for jumps). `Execute` has an action for each opcode a compiled
chunk can hold, and for `load`, `run`, `call`, the return to a caller's
native frame (`Leave`) and running off the end. Numbers and strings are
symbolic, so that two computations are equal exactly when they apply the same
operations to the same operands. `Eval` and `Exec` are the reference: a direct
reading of the syntax tree as Lua 5.1 has it, conversions and block scopes
included, with no registers. It also notes, in `odd`, each construct it meets
that zua is known to get wrong.

### LCode, LCheck, LParser, LDump, LVM, LChunk

The C program from source to result, in the order of its parts; each extends
the one before. `LCode` is an operator for each function of lcode.c over one
record `fs`; jumps that wait for a target are threaded through the
instructions, as in the code. `LCheck` is `luaG_checkcode`, which the parser
asserts. `LParser` has a definition for each production, the blocks with their
upvalues, and the limits. `LDump` writes a prototype as a sequence of words
and reads it back. `LVM` has an action for each opcode and three for what
happens around calls: `Precall`, `Resume` (a frame returns into C code that
has something left to do, recorded in the frame) and `Throw`. `LChunk`
composes them: a syntax tree is written as tokens, compiled, dumped, possibly
damaged on the way (`lost` words, a `foreign` header), loaded and executed.
`Meaning` is the reference, written from the manual's terms with cells and
environments; no part of it knows registers, jumps or upvalues.

### LGC

The incremental collector. The program and the collector take turns:
`Allocate` and `Store` are the program's steps, every store with the barrier
its source has; `Collect` is `singlestep`, with the atomic phase cut into its
passes; `luaC_fullgc`, `FinalizerEnds`, `lua_close`, `callallgcTM` and
`luaC_freeall` the rest. `calls` is the C stack of collector inside program
inside finalizer. A table has one entry, which is enough for every decision
the collector makes about entries; debts and step sizes are abstracted to a
collector that may or may not step at an allocation, so every schedule the
settings could give is explored. A *shape* is a program: which kinds its
objects have, which fields it stores to and what else it does. `failed` collects
the names of the `lua_assert`s that have failed: "dead" (a barrier meets a dead
object), "phase" and "waiting" (one comes after the sweep, for a userdata that
waits for its finalizer or for any other object) and "open" (`luaF_close` meets
a black upvalue; that the upvalue is open is what makes it a member of the list).
`LGCProofs` has the proofs.

### LTable

A table with its array, its vector of nodes, chains and free pointer, under the
program's assignments, constructors (`OP_SETLIST`) and traversals, and the
collector that turns keys of empty nodes into dead ones. `content` is the
abstract map. Hashes are given (`hash`), so that keys collide with each other's main
positions. A chain is `Walk`, the nodes met by following `Links`, as many as
there are nodes; `InChain` is the loop that stops at the first one wanted.
`rehash` counts with `Slices`, sizes with `computesizes`, and `Refill` inserts
the elements of the vanishing slice and of the old nodes in the code's order.
`ok` turns false where an assertion would fail, a loop would run off a chain or
a second rehash would start inside the first.
`LTableProofs` has the proofs.

### LDo

The native stack as a sequence of frames of all threads, beside each thread's
own list of call records, its counters and its status. `mode` says what the
top frame is about to do: run, return, raise, or handle an error. `luaD_throw`
cuts both stacks at the innermost handler; `lua_yield` cuts at the resume.
Programs are arbitrary sequences of calls from a class (`Programs`).

## 3. What is checked

Each run with its bounds. Deadlock is checked where the system has always
something to do (tables, calls); the other runs end: a collector after `deinit`
or `lua_close`, a lexer at the end of its text, a chunk when it returns.

| Run | Instance | Shows |
|---|---|---|
| `gc_heap` | 2 tables, a thread, a closure and its prototype, an upvalue; threshold 3, one reference an object at a time, 2 explicit collections | zua's sweeps are exact, nothing reachable is ever freed, no reference dangles, collections end |
| `table_map` | array limit 2, integer keys around it, two other keys, two values | object.zig's table implements `LuaMap`, length is a border, traversals never repeat a key, miss nothing of the array, and nothing of the map if the array holds nothing and the current key is not cleared |
| `getn` | array sizes 0, 1 and 4, integer keys 1 to 5, i32 limit 5 | table.zig's `getn` returns a border and ends; traversals of integer-keyed tables are exact |
| `vm_session` | threshold 4, two names with one hash, stack of 2, collections inside the calls | names are kept apart, nothing reachable is freed, no freed memory is read before the first collection, `deinit` frees all |
| `vm_stack` | threshold 3 | **violated**: values on the VM's stack are live |
| `lexer` | all texts of up to 4 or 5 characters, some after a prefix, over seven alphabets | lex.zig and parse_literal.zig agree with llex.c on tokens, ends, lines, errors and string values, up to the first numeral or nested `[[` that only lex.zig accepts; scanning ends |
| `compiled` | twelve families of chunks, run by `run` and by `call` with different numbers of arguments and results, on stacks with room and on nearly full ones | in which constructs zua's assertions can fail, that its code passes its checker and computes what the source says outside six constructs, and that only `run` leaves the stack |
| `lgc` | fourteen programs of up to four objects, two stack slots | the incremental collector frees nothing in use, keeps its tri-colour invariant and, with one exception, its assertions, frees last cycle's garbage, clears only weak pairs |
| `lgc_setupvalue` | two closures that share an upvalue, a string | **violated**: nothing dangles after `lua_setupvalue` |
| `puc_compiled` | the families of chunks of `MCLVM` | the C compiler's and machine's assertions, upvalues, metamethod cache, and that every chunk ends and has computed what its source means, or is refused |
| `ltable` | keys 1 to 3, a string and an object that collide with them, creation sizes (0,0) and (0,4), `MAX_INT` 5 | ltable.c's tables stay a map through every move and rehash, traversals and lengths are right |
| `calls` | up to two coroutines, 5 + 2 C levels, 4 call records | counters, handlers, statuses and jump targets after errors and yields |

**Why the bounds are enough.** The limits of the code are parameters, and the
instances make them small so that both sides of each are reached: 50 array
slots become 2; 1024 objects become 3; zua's 250 registers, 200 locals, 255
constant operands, 50 fields a batch, 511 batches and 1024 stack slots become
9, 6, 2, 2, 2 and 16; the i32 limit becomes 5; the C program's limits on
locals, upvalues, levels, constants and batches become 8, 3, 12, 3 and 3, and
its `LUAI_MAXCCALLS`, `LUAI_MAXCALLS` and reserve in `calls` 5, 4 and 2. Six
objects allow cycles through each kind that both points and is pointed to. In
`lgc` the identity of a freed object is reused, so programs run for any number
of cycles; four objects give each program a root, a container, and a value and
a metatable or a second owner. Three integer keys and two colliding ones are
what a move of a foreign node and a rehash in both directions need. The
lexer's texts hold more than two line endings in a row, a failed match of a
long bracket followed by another, numbers with every suffix of up to four
characters, and texts beyond `MaxLines` and `MaxElement`. `MaxDepth` and
`MaxCalls` bound recursion: a chunk of zua that reaches `MaxDepth` ends as the
process would; one of the C program that nests deeper than `MaxCalls` has only
to end.

**The chunks.** `compiled`: a local, globals and a table combined in all
unary, binary and index expressions; constructors across the batch limit;
if/elseif/else and do blocks, with locals of their own and returns in them; two
variables and two values; chunks that begin with a nil; numbers as strings and
strings as numbers; calls as statements, arguments, methods, tail calls and with
open results; constructs the generator refuses; numeric loops, with names, and
with functions that break, in their bodies; `call` and `run` on stacks from empty
to full. `ComputesSource` compares the chunks to which the reference gives a
meaning: those without calls and loops. `puc_compiled`: expressions and logical operators in
value, test and assignment contexts, all pairs of precedences, stale
registers, multiple assignments that interfere, closures over variables of
loops left by break, calls and varargs with all mismatches of counts, methods,
recursion past the limits, nine metamethods installed before and after their
absence was cached, errors that leave frames with open upvalues, constructors,
chunks to be refused, and compiled files cut off at every word.

**What the statements except.** Where a property does not hold of everything
in its run, it says of what; where the repository claims the contrary, the claim
is stated too, and TLC refutes it (section 5).
`SameTokens` and `SameStrings` compare a text up to the first token at which
llex.c reports a malformed number or a nested `[[` and lex.zig does not; tokens
over zua's own length limit end a comparison; `SameStrings` is about quoted
strings (section 6 has the long ones). `AssertionsHold` in `Execute` allows three
failures: of the assertions of `genReturnStatement`, in a block or function that
ends by returning a call or several values; of the lookup of a name, for a name in the body of a
numeric loop; of the list of breaks, for a function in a loop that breaks.
`ComputesSource` is about chunks that meet, as they run, none of the constructs
in `odd`. `StackInBounds` allows a chunk that `run` enters with too little room
to go past the end; that is what vm.zig:1208-1222 does, since only `callLua` has a
check. `AssertionsHold` in `LGC` allows "waiting". `ManyResults` in `LDo` excludes a
coroutine that returns more values than its resumer's stack holds (section 6).

**Fairness.** There is one thread and nothing waits: a function that has been
called runs on until it returns. So weak fairness of the *running* call's
steps is what the code gives (`Collector` in `GC`, `Step` in `ObjectTable`,
`Running` in `HybridTable`, `Next` in `Lexer` and `Execute`, where nothing but
the running call acts). `Progress` in `LChunk` is weak fairness of `Next`
written out, with the one step that leaves the state as it is (a jump to itself) named. No
fairness is assumed of clients. `LGC`, `LTable` and `LDo` state none: their
programs may do anything or stop, and that garbage goes is stated as a safety
property (`GarbageCollected`: what was out of reach at the start of a cycle is
gone at its end).

## 4. What is proved

TLAPS checks these for every value of the constants, under the assumptions
named in the modules: finitely many objects each of some kind, positive sizes;
natural bounds; `Nil` neither key nor value, nor object nor pair of objects;
integer keys positive, other keys not integers.

*Collector* (`GCProofs`). The invariants are not inductive as they stand. That
a sweep is exact depends on what marking did, and marking on the state before.
`IInv` adds: which lists and sets may be nonempty in each phase (`StageInv`);
that outside sweeps references only lead to objects on the list, or to the
prototype about to join it (`RefsInv`); what is known of an object whose constructor
has not returned (`FreshInv`); while marking, marked and pending
objects are in every closed set with the roots, and every root and every child of a marked object is marked or pending
(`MarkInv`), the tri-colour argument; while sweeping, the survivors (swept and
spared, or marked and still to be swept) do not change, contain the roots and
are the least closed set that does (`SweepInv`). `Reachable` is
defined as the least set closed under references, so "marked and closed" gives
one inclusion and minimality the other. From it follow `TypeCorrect`,
`ListAccountingHolds`, `CollectIsExact`, `NoDangling`, `ReachableKept` (an
action property), `DeinitComplete` and `ThresholdHeadroom` (integer arithmetic
about the floored quotient). `FreshNeverSurvives` is a warning rather than a
promise: once roots are set, an object whose own `addObject` starts a
collection is always freed by it.

*object.zig's table* (`ObjectTableProofs`). `Invariance`: the parts stay
disjoint, the array within its limit. From it `Refinement` (each step is a
step of `LuaMap` or a stutter), `SetStoresExactly` and `LengthIsBorder`.
`TraversalAlwaysOnce` needs to know what a running traversal owes its user, and
`TravInv` says it by where the last key lives: with none delivered, every
present key (`OwesAll`); at an array key, the present keys that are not at or
before it (`OwesFromArray`); at a map key, what is in the slots behind it,
while the key still has a slot (`OwesFromMap`). The slots list each key of
the map once (`OrderListsMap`), because a listing as long as its set has no
repetition.

*table.zig's table* (`HybridTableProofs`). `LoopInv` says of each loop of getn
that there is a value (or 0) at `i` and none at `j`; `GetnReturnsBorder`
follows. `IntegerTraversalExact` goes along the same argument as the traversal
above, for tables with integer keys only and no nil entries; there a key of the
map lies beyond the array, so that the search does not start over.
`IndexLemmas` has what the proofs about searches and recursive functions rest
on: a nonempty set of indices has a least and a greatest element, a function
defined by recursion over an interval exists (`Iterates`, `Recurs`), and what
holds at zero and is handed on holds all along (`Throughout`, `Onward`).

*Heap API of the VM* (`VMHeapProofs`). The VM does not keep to the contract
that `GC`'s own invariant assumes, so `RefsInv` is lost: a table may point to a
freed object. `VMInv` has what is left. Nothing is held that was never made
(`HeapTypeOK`, `StateTypeOK`), so a pending `markObject` call is on an object
of the list or on a freed one, and on a freed one the session ends in `fault`;
hence only listed objects are marked (`Stages`), marking and sweeping keep
their closure (`Closed`), nothing is freed before the first sweep (`Quiet`),
and deinit marks nothing (`Closing`). From it `QuietSessionHolds` and
`SessionKeepsReachable`. `CallInv`, that a call which has its string has one
with the content it asked for, gives `NamesApart` for every hash function.

*C calls and coroutines* (`LDoProofs`). A throw and a yield cut
many frames at once and restore what the frame they land on had saved, so
nothing the properties say can be kept by looking at the top of the stack
alone. The inductive invariant `IInv` says of every frame of the native stack
that it sits on a frame that can have called it (`Sits`), that the counters,
the handler and the length of the list of call records it saved are the ones
its thread had below it (`Saved`), and that the call records of its thread are
those its frames stand for (`Content`); of every thread that its counters are
what its last frame implies (`Exact`) and that its frames are not interleaved
with those of another resume of it (`Apart`). The first
part of the module shows that pushing, popping, replacing and
cutting frames keeps these, together `Wf`; the second adds the mode the top frame must be in
(`TopFits`), the limit (`Bounded`) and what a status may say of a coroutine
(`Status`, `Over`), and has one lemma for each action. `Invariant` states it;
`AssertionsAlwaysHold`, `LevelsAlwaysExact`, `HandlerAlwaysCurrent`,
`YieldNeverLoses` and `StatusAlwaysTrue` follow, all but the last for every
value of the constants, the last where `ManyResults` is false (section 6 has
what happens otherwise). They assume only that the limits are natural numbers,
positive where C's are, and that the main thread is no coroutine.

*C collector* (`LGCProofs`). `IInv` is made of operators of the values they
are about (the kinds `K`, the references `r`, the open upvalues `op`, the
colours `c`), so that a step that changes the heap twice can be followed
through the heap in between. Its parts:

* `Heap`: fields hold what their kind allows, a freed object is empty, open
  upvalues point into stacks of live threads, and which colours each kind may
  have (a thread is never black, so stacks need no barrier; an open upvalue is
  never black, so `remarkupvals` finds it). `Listed`: each live userdata is in
  one place of `udata` or `tmudata`.
* `Held` and `RootsOk`: nothing that is neither freed nor condemned refers to
  something that is. This is `NoDangling`; the rest is there to keep it when
  `FinishAtomic` condemns what is white.
* `SweepInv`: what is not white has still to be swept or waits for its
  finalizer, and an object is only condemned in a sweep. It gives the next
  cycle a heap in which nothing is marked.
* `Tri`, in mark phases: no black object has a white value, and every gray one
  is on a list. `AtomicInv`: what each pass of the atomic phase has
  established and later passes keep. After `remarkupvals` the values of open
  upvalues are marked; after the next pass the running thread and what weak
  tables hold strongly; then the stacks of all threads; last, userdata that wait and
  all they need. `FinishAtomic` needs all of them: an unmarked object is then
  referred to only by weak entries, which it clears.
* `CallsInv`: which calls may be nested in which.

`Abandoned` is the one exception: when `lua_close` interrupts a mark phase,
its finalizers find userdata whitened and `Tri` is lost; it matters no more,
because only a `luaC_fullgc`, which starts afresh, can go on from there.

`Paint` (reallymarkobject), `Write`, `Barred` (a store with its barrier),
`Birth`, `Traversed` and `Group` (a swept object with its open upvalues) state
what one operation does to the heap; lemmas show once what each preserves, and
each action has a lemma that says which of them it is. `Invariant` and the
theorems from it, `TypeAlwaysOK`, `AssertionsAlwaysHold`, `NeverDangling`,
`NeverBlackToWhite`, `PairsAlwaysKept` and `GarbageAlwaysCollected`,
are about programs with `Plain`: those
that do not assign an upvalue of a Lua function with `lua_setupvalue` (section
5 shows what it breaks) and in which no collector step runs inside a finalizer
called by `lua_close`, which `GCTM` makes sure of by doubling the threshold
unless the finalizer asks for steps or allocates more than the program had. There is no other
bound: any number of objects, stack slots and nested calls.

The last two are about reachability, a fixed point that the model computes by
a recursive function. The function exists (`Iterates`, by a least
counterexample), stays inside every set that has the start and is closed
(`Throughout`), and, the heap being finite, has reached a closed set after as
many steps as there are objects (`Saturates`). `PairsAlwaysKept` needs the
first half: the gray and black objects are such a set once the atomic phase has
nothing left to propagate (`StrongDark`), so what strong references reach is
not white, and `cleartable` leaves it; `WeakTagged` says that only weak tables
are on `weak` by then. `GarbageAlwaysCollected` needs the second: what is out of reach when
`markroot` runs is referred to by nothing within reach. `DoomInv` keeps that up
to the end of the cycle: nothing outside the doomed set, no root and no
userdata that waits refers to a member of it (`Isolated`), its members are white while the
collector marks and condemned while it sweeps, and none of its userdata has a
finalizer to run (`Forsaken`). Every operand of the program is outside the set,
so no store, barrier or allocation brings a member back, except for a string
or an upvalue that is found again and leaves the set; a sweep that ends with
nothing condemned has freed them all. A `luaC_fullgc` that gives up on a cycle is
the exception `InCycle` makes: its sweep whitens, and the cycle after it dooms anew.

TLC checked `IInv`, `DoomInv` and `WeakTagged` on the programs of `lgc` before they were proved. The proof
showed one assertion of the code to be wrong (lgc.c:664, section 5), and
`AssertionsAlwaysHold` says that this is all: of the assertions of the barriers,
`luaF_close` and `luaC_linkupval` only that one can fail, and only for a userdata
that waits in `tmudata`. Outside of marking and sweeping nothing else is black
(`BlackWaits`), and an open upvalue never is (`OpenFits`).

*C tables* (`LTableProofs`). All five invariants of the run are proved, and that
the table implements `LuaMap`, for every set of keys, every hash and every
creation size. The assumptions (`KeysAssumption`, `SizesAssumption`): the kinds of keys
are apart and none is nil, there are no more keys than nodes that the largest
vector has (past that the code raises "table overflow"), and an integer key small
enough for the array part can be doubled without passing `MAX_INT`, as 2^26
can. The table's own part of `Inv` is `Good`:

* `Shape`: sizes, types, the dummy node untouched, and only integer keys in the
  array.
* `Linked`: an unused node is on no chain, a dead one holds no value, a key of
  the array part is in no node, no two nodes link to the same one, and no
  node above the free pointer is unused. The last gives `getfreepos` its
  meaning, the one before it makes the predecessor that `MoveOut` looks for the
  only one.
* `Chained`: a live key's main position holds a key that is at home there, the
  chain from it leads to the key, and to no dead node that had the same key
  before it. `Reach` and `First` say this without a walk: a node is reached if
  it is in every set of nodes that has the start and is closed under the links,
  and first if some set has the start, everything up to the node and nothing
  else that is wanted. `ChainFinds` shows once that `InChain` then finds it; the
  dead nodes matter to `findindex`, which stops at them.
* `Unique`: a key is live in one node.

`PutInPlace`, `ChainInPlace` and `MoveInPlace` show that the three ways `newkey`
has to insert a key keep `Good` and change what no other key reads. A rehash
starts with an empty vector, where nothing is dead and every key that is
inserted takes one node (`Fresh`); `SizesSuit` shows that the sizes computed
from the slices leave enough of them, and `RefillFresh` follows `Refill` item by item, so
that it neither runs out of nodes (`AssertionsNeverFail`) nor loses a key
(`ReadsAssigned`). The program's part of `Inv` is that the table reads as
`content`, and `Met`: a traversal has met the present keys whose elements are
numbered up to the one it stands on, which is still found although its key may
be dead. Its next step finds the present key with the next number
(`NextElement`), whence `TraversalMeetsOnce`. `LengthIsBoundary` needs of `Good`
only what is present, and two loops: the bounds of a bisection stay around a
boundary and come closer in each round, and a doubled index grows past
`MAX_INT` unless an absent one stops it before.

*Only model-checked*: everything about termination, since the prover has no
rule for liveness under fairness; the lexers, compilers, checkers and
machines (`Lexers`, `LLex`, `CodeGen`, `Execute`, `LCode` to `LChunk`), whose
definitions are recursive over texts or syntax trees, with induction over data
out of the prover's reach.

## 5. Where the code breaks what it says of itself

1. `vm_stack`: gc.zig says it marks the main thread "and its stack"; the roots
   lead to the stack of the Thread object, and the interpreter's values are in
   `LuaState.stack`. A collection frees them.
2. `lgc_setupvalue`: `lua_setupvalue` (lapi.c:1082) writes into an upvalue
   that closures share and applies the write barrier to the closure it was
   given. If the upvalue is already black and that closure is not, the value
   is never marked, and it is freed while another closure can read it.
   `OP_SETUPVAL` (lvm.c:454) applies the barrier to the upvalue.

The others are not among the runs of `PROJECT.json`, where a property with an
exception stands beside each; the claim as the repository makes it is a property
of its own, and TLC refutes it with the configuration named.

3. `BarriersInPhase` (`MCLGC_barrier.cfg`; excepted by `AssertionsHold` of
   `LGC`): `luaC_barrierf` asserts that the collector is neither in
   `GCSfinalize` nor in `GCSpause` (lgc.c:664). A userdata that waits in
   `tmudata` is black outside mark phases; a program that still has it as a weak
   key, or the finalizer of another userdata that reaches it, sets its metatable
   or environment, and the assertion fails. What the code then does is harmless:
   it turns the userdata white.
4. `SameErrors` (`MCLexer_errors.cfg`; `SameTokens`): lex.zig says it "maintains
   1:1 compatibility with when Lua's lexer errors" (16-17), but takes `0x ` with
   no digit, `00x1` and `0.x1` for numbers (645, 671).
5. `ComputesLua` (`MCExecute_pairs.cfg`; `ComputesSource`): `x, y = 1, 2` stores
   only the second value (compiler.zig:978); `test_simple.lua` does just that
   and prints both.
6. `ComputesLua` (`MCExecute_clean.cfg`; `ComputesSource`): a nil that the first
   instruction of a function would load is left out since "positions are already
   clean" (compiler.zig:274, and the test at 1563), but register 0 of a chunk
   holds its own closure: `x = nil` and `local a` as first statements see it.
7. `ComputesLua` (`MCExecute_conditions.cfg`; `ComputesSource`): "Jump to next
   clause if condition is false" (compiler.zig:1193) follows a test of register
   0, wherever the condition is.
8. `ReturnsWhereItSays` (`MCExecute_returns.cfg`; `AssertionsHold` of
   `Execute`): the assertion that returned values begin at the first register
   past the active locals (compiler.zig:1012 and 1022) fails in the body of an
   if, whose condition's register is never freed, and in a function with
   parameters, whose registers are not reserved (1468).

## 6. Observations without a run

Read off the code while it was modelled, or seen as outcomes of the models
(`fault`, `status`). What the repository itself claims and does not keep is in
section 5; these are departures from Lua, or surprises, that no line of it is
about:

* gc.zig: `total_collected`, printed as bytes, grows by the size of each freed
  object and once more by the number of them: two units.
* vm.zig: the string pool keeps pointers to freed strings after a collection
  (`InternFault`). A hash collision evicts the older entry.
* object.zig: after the last array element, `next` looks the integer up in the
  map, finds nothing and ends (347): a table with both parts is traversed in
  its array part only. With the key just above the array limit in use, `length` does
  not look at it. Clearing the current key of the map part ends a traversal.
* table.zig: `next` goes back to the array after each key that is not an
  integer (314), and delivers keys whose value has been set to nil.
* lex.zig: nested `[[` is accepted, as a TODO at 276 admits.
* parse_literal.zig: a backslash in a long string is treated as an escape, so
  `[[\]]` reaches an `unreachable`, and `\r\n` in one becomes two line ends
  (71, 137).
* compiler.zig: `do` and the clauses of `if` open no scope: their locals stay
  (1266). `while`, `repeat` and `for-in` do not compile: the distance of the jump
  back underflows (1249). A name in the body of a numeric `for` indexes the
  locals with a register number (1353). The parser's `in_loop` and the list of
  breaks (1176) are not reset for an inner function, so a `break` of a function
  in a loop compiles and patches the wrong code. Inner functions' code is dropped and
  `closure` yields nil. `and`, `or`, comparisons and indexed assignment are TODO
  panics.
* vm.zig: `run()` enters a chunk without a check of the stack's room (1208), which
  `callLua` has (509), and on a chunk that returns a value copies more results
  than wanted; `setlist` with c = 0 takes the next word without subtracting one
  (1156); `forprep` and `forloop` jump one instruction too far; numbers are not
  converted to strings nor strings to numbers (697-838; a test at compiler.zig:1671 says of
  `1 .. 2`, which is "12" in Lua, "this is a runtime error but it compiles"); an
  error leaves the call record of the callee in place.

Of the C program:

* lcode.c: the word after a `setlist` that holds a batch number looks like an
  instruction to `getjumpcontrol` and `patchtestreg`; with a suitable number it
  is taken for a TESTSET (lcode.c:107-140).
* lcode.c: `addk` finds constants by equality, so the constant `-0` is merged
  with `0`.
* lgc.c: `iscleared` removes the value of a weak-keyed pair when it is a
  userdata whose finalizer ran; the finalizers of `lua_close` may
  run in the middle of a mark phase.
* lbaselib.c: a coroutine whose results do not fit its resumer's stack stays
  "suspended" (518-540); ldo.c: `resume_error` at the limit of C levels kills a
  coroutine that has not started.

## 7. Not modelled, and why

Of zua: formatting of messages, chunk names and debug printing (text only);
`parseNumber` and the conversion of huge floats (floating-point arithmetic);
`comptime_lookup.zig` (a constant); `state.zig` and the upvalue functions of
vm.zig (nothing calls them); `parse.zig`, whose trees are `CodeGen`'s inputs
and whose grammar is modelled from the parser it ports; `dump.zig`, whose
format is modelled from ldump.c; most of `stdlib.zig` (arithmetic, formatting,
I/O); opcodes that no compiled chunk holds (`eq`, `lt`, `le`, `testset`,
`tforloop`, `getupval`, `setupval`); a host that goes on after an error; the
lookahead copy of the lexer; failures of the allocator.

Of the C program: the libraries other than parts of lbaselib.c, the auxiliary
library and the programs `lua` and `luac` (strings, files, the operating
system, text); lmem.c and lzio.c (allocation succeeds, a stream is a
sequence); hooks and `lua_getinfo`; line and variable information; NaN and
locales; the bytes of instructions and of dumped words; the sizes and debts
that decide when a collector step is taken. Values of arithmetic are symbolic
in both machines.

Small things left out of what is modelled: the two tables that `Thread.init`
makes for itself and that no list of the collector has (object.zig:686); an error
handler that is not a function, which `luaG_errormsg` answers with `LUA_ERRERR`;
the limit on arguments in `auxresume` (lbaselib.c:520).

## 8. Plan

1. `LVM`: the bounds of the stack and the list of open upvalues do not depend on
   what the compiler makes, only on what `LCheck` accepts; with the checker's walk
   written as a function of the instruction's index, `OpenUpvaluesActive` could be
   proved for every accepted chunk.
2. The C library over tables (`ltablib.c`): `sort` with a comparison that raises or
   is no order, `insert` and `remove` at a boundary that is not the only one.
