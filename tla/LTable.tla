------------------------------- MODULE LTable -------------------------------
(***************************************************************************)
(* The table of the reference Lua 5.1 (ltable.c): an array part and a hash *)
(* part, a vector of nodes in which every key is chained from its main     *)
(* position (Brent's variation: a colliding node that is not in its main   *)
(* position makes room).  The table is rehashed, and both parts sized      *)
(* again, only when a key is inserted and no free node is left.            *)
(*                                                                         *)
(* The actors are the program, which assigns (lua_rawset, lua_rawseti,     *)
(* luaX_newstring, the constructor's OP_SETLIST) and traverses (next), and *)
(* the collector, which turns the keys of empty nodes into dead keys while *)
(* a traversal may be standing on one of them.                             *)
(*                                                                         *)
(* A pointer to a TValue is a slot: one of the array, one of the nodes, or *)
(* NoSlot for luaO_nilobject.  The cache of absent metamethods (t->flags)  *)
(* is a matter of LVM and is left out.                                     *)
(***************************************************************************)
EXTENDS Integers, FiniteSets, Sequences, FiniteSetsExt

CONSTANTS Ints,           \* the keys that are integers
          Strings,        \* the keys that are strings
          Objects,        \* the keys that are tables, functions, userdata
          Vals,           \* the values of the program, nil apart
          Nil,
          hash,           \* the hash of every string, the address of every object,
                          \* the sum of the words of every number
          NewSizes,       \* the pairs of sizes a table is created with
          MaxItems,       \* items of a constructor
          MAXBITS,        \* log2 of the largest size of a part
          MAX_INT

Keys == Ints \cup Strings \cup Objects

twoto[n \in 0 .. MAXBITS] == IF n = 0 THEN 1 ELSE 2 * twoto[n - 1]

MAXASIZE == twoto[MAXBITS]

ASSUME KeysAssumption == /\ Ints \subseteq 1 .. MAX_INT
                         /\ Nil \notin Vals \cup Keys \cup (1 .. MAX_INT)
                         /\ Strings \cap Objects = {}
                         /\ (Strings \cup Objects) \cap (1 .. MAX_INT) = {}
                         /\ hash \in [Strings \cup Objects \cup (1 .. MAX_INT) -> Nat]

(* There are nodes for all keys: beyond that the code raises "table        *)
(* overflow".  An index that may enter the array part can be doubled.      *)
ASSUME SizesAssumption == /\ MAXBITS \in Nat /\ MaxItems \in Nat
                          /\ MAX_INT \in Nat \ {0, 1}
                          /\ NewSizes \subseteq (0 .. MAXASIZE) \X (0 .. MAXASIZE)
                          /\ \A s \in NewSizes : s[1] < MAX_INT
                          /\ IsFiniteSet(Keys) /\ Cardinality(Keys) <= MAXASIZE
                          /\ \A n \in Ints : n <= MAXASIZE => 2 * n - 1 <= MAX_INT

VARIABLES
    t,          \* the table
    ctor,       \* the constructor that is building the table
    trav,       \* the program's traversal
    content     \* what the program has assigned: the abstract table

vars == <<t, ctor, trav, content>>

Map == INSTANCE LuaMap

-----------------------------------------------------------------------------
(* Slots and nodes                                                         *)

NoNode == -1
NoSlot == [part |-> "none", at |-> 0]
ArraySlot(i) == [part |-> "array", at |-> i]
NodeSlot(i) == [part |-> "node", at |-> i]

EmptyNode == [key |-> Nil, dead |-> FALSE, val |-> Nil, next |-> NoNode]

sizearray(h) == Len(h.array)
sizenode(h) == Cardinality(DOMAIN h.node)

ValueAt(h, slot) ==
    CASE slot.part = "array" -> h.array[slot.at]
      [] slot.part = "node" -> h.node[slot.at].val
      [] OTHER -> Nil

Store(h, slot, v) ==
    CASE slot.part = "array" -> [h EXCEPT !.array[slot.at] = v]
      [] slot.part = "node" -> [h EXCEPT !.node[slot.at].val = v]
      [] OTHER -> [h EXCEPT !.ok = FALSE]

(* log2 rounded up, of a positive number                                   *)
ceillog2 == [n \in 1 .. MAXASIZE |-> Min({l \in 0 .. MAXBITS : twoto[l] >= n})]

-----------------------------------------------------------------------------
(* Main positions.  hashmod avoids the even divisors, lmod is a mask.      *)

hashmod(h, n) == n % Max({sizenode(h) - 1, 1})
lmod(h, n) == n % sizenode(h)

hashnum(h, n) == hashmod(h, hash[n])

mainposition(h, k) ==
    CASE k \in Strings -> lmod(h, hash[k])
      [] k \in Objects -> hashmod(h, hash[k])
      [] OTHER -> hashnum(h, k)

Links(h) == [i \in DOMAIN h.node |-> h.node[i].next]

(* The n-th node of the chain that starts at node i, NoNode past its end.  *)
Walk(next, i) ==
    LET w[n \in 0 .. Cardinality(DOMAIN next)] ==
            IF n = 0 THEN i
            ELSE LET p == w[n - 1] IN IF p = NoNode THEN NoNode ELSE next[p]
    IN  w

(* The first node of the chain that is one of those wanted, or NoNode.     *)
InChain(next, i, wanted) ==
    LET w == Walk(next, i)
        hits == {n \in DOMAIN w : w[n] \in wanted}
    IN  IF hits = {} THEN NoNode ELSE w[Min(hits)]

-----------------------------------------------------------------------------
(* Reading                                                                 *)

WithKey(h, k) == {i \in DOMAIN h.node : h.node[i].key = k /\ ~h.node[i].dead}

NodeOfKey(h, k) ==
    LET i == InChain(Links(h), mainposition(h, k), WithKey(h, k))
    IN  IF i = NoNode THEN NoSlot ELSE NodeSlot(i)

luaH_getnum(h, n) ==
    IF n \in 1 .. sizearray(h) THEN ArraySlot(n) ELSE NodeOfKey(h, n)

luaH_getstr(h, s) == NodeOfKey(h, s)

luaH_get(h, k) ==
    CASE k \in Strings -> luaH_getstr(h, k)
      [] k \in Objects -> NodeOfKey(h, k)
      [] OTHER -> luaH_getnum(h, k)

Get(h, k) == ValueAt(h, luaH_get(h, k))

-----------------------------------------------------------------------------
(* Inserting a key where there is room for it.  The result is the table    *)
(* and the slot of the key; NoSlot when the key needs a free node and      *)
(* there is none.  `ok' turns false where an assertion of the code fails   *)
(* or a loop would run off the end of a chain.                             *)

Asserting(h, b) == [h EXCEPT !.ok = @ /\ b]

getfreepos(h) ==
    LET free == {i \in 0 .. h.lastfree - 1 : h.node[i].key = Nil}
    IN  IF free = {} THEN NoNode ELSE Max(free)

PutKey(h, i, k) ==
    [t |-> Asserting([h EXCEPT !.node[i].key = k, !.node[i].dead = FALSE],
                     h.node[i].val = Nil),
     slot |-> NodeSlot(i)]

(* Mistake: the chain still leads to mp.                                   *)
MoveOutUnlinked(h, mp, n) ==
    [h EXCEPT !.node[n] = h.node[mp],
              !.node[mp].next = NoNode, !.node[mp].val = Nil]

(* The node at mp moves to the free node n, and the chain it is in passes  *)
(* through n; mp is left empty for the new key.                            *)
MoveOut(h, mp, n) ==
    LET linked == {i \in DOMAIN h.node : h.node[i].next = mp}
        prev == InChain(Links(h), mainposition(h, h.node[mp].key), linked)
        g == [h EXCEPT !.node[n] = h.node[mp],
                       !.node[mp].next = NoNode, !.node[mp].val = Nil]
    IN  IF prev = NoNode THEN Asserting(g, FALSE)
        ELSE [g EXCEPT !.node[prev].next = n]

ChainIn(h, mp, n) ==
    [h EXCEPT !.node[n].next = h.node[mp].next, !.node[mp].next = n]

(* Mistake: an empty main position is taken though it is the dummy node.   *)
PlaceKeyDummy(h, k) ==
    LET mp == mainposition(h, k)
        n == getfreepos(h)
        g == [h EXCEPT !.lastfree = n]
    IN  IF h.node[mp].val = Nil THEN PutKey(h, mp, k)
        ELSE IF n = NoNode THEN [t |-> h, slot |-> NoSlot]
        ELSE IF mainposition(h, h.node[mp].key) # mp
        THEN PutKey(MoveOut(g, mp, n), mp, k)
        ELSE PutKey(ChainIn(g, mp, n), n, k)

PlaceKey(h, k) ==
    LET mp == mainposition(h, k)
        n == getfreepos(h)
        g == [h EXCEPT !.lastfree = n]
    IN  IF h.node[mp].val = Nil /\ ~h.dummy THEN PutKey(h, mp, k)
        ELSE IF n = NoNode THEN [t |-> h, slot |-> NoSlot]
        ELSE IF mainposition(h, h.node[mp].key) # mp
        THEN PutKey(MoveOut(g, mp, n), mp, k)
        ELSE PutKey(ChainIn(g, mp, n), n, k)

SetIn(h, k) ==
    LET slot == luaH_get(h, k)
    IN  IF slot # NoSlot THEN [t |-> h, slot |-> slot] ELSE PlaceKey(h, k)

-----------------------------------------------------------------------------
(* Rehash.  An insertion made while the parts are being filled again finds *)
(* room, or Store turns `ok' false: the code would start a second rehash   *)
(* of a table that is half moved.                                          *)

(* nums[i]: the candidates for the array part in (2^(i-1), 2^i]            *)
Slices(candidates) ==
    [i \in 0 .. MAXBITS |-> Cardinality({k \in candidates : ceillog2[k] = i})]

numusearray(h) == {i \in 1 .. sizearray(h) : h.array[i] # Nil}

numusehash(h) == {h.node[i].key : i \in {j \in DOMAIN h.node : h.node[j].val # Nil}}

countint(k) == k \in Ints /\ k <= MAXASIZE

(* The size n of the array part, the largest power of two of which more    *)
(* than half is in use, and the number na of the keys that go to it.       *)
computesizes(nums, narray) ==
    LET upto[i \in 0 .. MAXBITS] ==
            IF i = 0 THEN nums[0] ELSE nums[i] + upto[i - 1]
        good == {i \in 0 .. MAXBITS : /\ twoto[i] \div 2 < narray
                                      /\ nums[i] > 0
                                      /\ upto[i] > twoto[i] \div 2}
    IN  IF good = {} THEN [n |-> 0, na |-> 0]
        ELSE [n |-> twoto[Max(good)], na |-> upto[Max(good)]]

setarrayvector(h, size) ==
    [h EXCEPT !.array = [i \in 1 .. size |->
                            IF i <= sizearray(h) THEN h.array[i] ELSE Nil]]

setnodevector(h, size) ==
    LET full == IF size = 0 THEN 1 ELSE twoto[ceillog2[size]]
    IN  [h EXCEPT !.node = [i \in 0 .. full - 1 |-> EmptyNode],
                  !.dummy = (size = 0),
                  !.lastfree = IF size = 0 THEN 0 ELSE full]

Reinsert(h, k, v) ==
    LET r == SetIn(h, k) IN Store(r.t, r.slot, v)

(* The items of a vanished slice or of the old nodes are inserted in turn. *)
Refill(g, items) ==
    LET f[n \in 0 .. Len(items)] ==
            IF n = 0 THEN g
            ELSE IF items[n].val = Nil THEN f[n - 1]
            ELSE Reinsert(f[n - 1], items[n].key, items[n].val)
    IN  f[Len(items)]

resize(h, nasize, nhsize) ==
    LET vanishing == [i \in 1 .. sizearray(h) |->
            [key |-> i, val |-> IF i <= nasize THEN Nil ELSE h.array[i]]]
        old == [i \in 1 .. sizenode(h) |-> h.node[sizenode(h) - i]]
    IN  Refill(setnodevector(setarrayvector(h, nasize), nhsize),
               vanishing \o old)

luaH_resizearray(h, nasize) ==
    resize(h, nasize, IF h.dummy THEN 0 ELSE sizenode(h))

(* Mistake: the key that is being inserted is not counted.                 *)
rehashNoExtra(h, ek) ==
    LET inarray == numusearray(h)
        inhash == numusehash(h)
        candidates == inarray \cup {k \in inhash : countint(k)}
        c == computesizes(Slices(candidates), Cardinality(candidates))
        total == Cardinality(inarray) + Cardinality(inhash)
    IN  Asserting(resize(h, c.n, total - c.na), c.n \div 2 <= c.na /\ c.na <= c.n)

rehash(h, ek) ==
    LET inarray == numusearray(h)
        inhash == numusehash(h)
        candidates == inarray \cup {k \in inhash \cup {ek} : countint(k)}
        c == computesizes(Slices(candidates), Cardinality(candidates))
        total == Cardinality(inarray) + Cardinality(inhash) + 1
    IN  Asserting(resize(h, c.n, total - c.na), c.n \div 2 <= c.na /\ c.na <= c.n)

newkey(h, k) ==
    LET r == PlaceKey(h, k)
    IN  IF r.slot # NoSlot THEN r ELSE SetIn(rehash(h, k), k)

luaH_set(h, k) ==
    LET slot == luaH_get(h, k)
    IN  IF slot # NoSlot THEN [t |-> h, slot |-> slot] ELSE newkey(h, k)

luaH_setnum(h, n) ==
    LET slot == luaH_getnum(h, n)
    IN  IF slot # NoSlot THEN [t |-> h, slot |-> slot] ELSE newkey(h, n)

luaH_setstr(h, s) ==
    LET slot == luaH_getstr(h, s)
    IN  IF slot # NoSlot THEN [t |-> h, slot |-> slot] ELSE newkey(h, s)

luaH_new(narray, nhash) ==
    LET bare == [array |-> <<>>, node |-> <<>>, dummy |-> TRUE,
                 lastfree |-> 0, ok |-> TRUE]
    IN  setnodevector(setarrayvector(bare, narray), nhash)

-----------------------------------------------------------------------------
(* Traversal.  The elements are numbered, those of the array part first.   *)

Invalid == [error |-> TRUE, key |-> Nil, val |-> Nil]
NoMore == [error |-> FALSE, key |-> Nil, val |-> Nil]

(* Mistake: a dead key is not recognised.                                  *)
findindexLive(h, k) ==
    LET i == InChain(Links(h), mainposition(h, k), WithKey(h, k))
    IN  IF k = Nil THEN 0
        ELSE IF k \in 1 .. sizearray(h) THEN k
        ELSE IF i = NoNode THEN NoNode ELSE sizearray(h) + i + 1

(* The number of the element with key k; 0 before the first, NoNode for a  *)
(* key that is not in the table.  A dead key still marks its place.        *)
findindex(h, k) ==
    LET marks == {j \in DOMAIN h.node : /\ h.node[j].key = k
                                        /\ h.node[j].dead => k \in Strings \cup Objects}
        i == InChain(Links(h), mainposition(h, k), marks)
    IN  IF k = Nil THEN 0
        ELSE IF k \in 1 .. sizearray(h) THEN k
        ELSE IF i = NoNode THEN NoNode ELSE sizearray(h) + i + 1

Element(h, i) ==
    IF i <= sizearray(h)
    THEN [error |-> FALSE, key |-> i, val |-> h.array[i]]
    ELSE LET n == h.node[i - sizearray(h) - 1]
         IN  [error |-> FALSE, key |-> n.key, val |-> n.val]

luaH_next(h, k) ==
    LET i == findindex(h, k)
        rest == {j \in i + 1 .. sizearray(h) + sizenode(h) :
                    Element(h, j).val # Nil}
    IN  IF i = NoNode THEN Invalid
        ELSE IF rest = {} THEN NoMore ELSE Element(h, Min(rest))

-----------------------------------------------------------------------------
(* The length                                                              *)

Halve(b, present) ==
    LET m == (b.lo + b.hi) \div 2
    IN  IF b.hi - b.lo <= 1 THEN b
        ELSE IF m \in present THEN [b EXCEPT !.lo = m] ELSE [b EXCEPT !.hi = m]

(* Between i, present or zero, and j, absent: b[n] are the bounds after n  *)
(* rounds.                                                                 *)
Bisect(present, i, j) ==
    LET b[n \in 0 .. j - i] ==
            IF n = 0 THEN [lo |-> i, hi |-> j] ELSE Halve(b[n - 1], present)
    IN  b[j - i].lo

unbound_search(h, j0) ==
    LET present == {n \in 1 .. MAX_INT : ValueAt(h, luaH_getnum(h, n)) # Nil}
        (* j0 + 1, then twice as far at a time, until one that is absent   *)
        (* or beyond MAX_INT                                               *)
        j[n \in 0 .. MAX_INT] == IF n = 0 THEN j0 + 1 ELSE 2 * j[n - 1]
        last == Min({n \in 0 .. MAX_INT : j[n] \notin present})
    IN  IF j[last] > MAX_INT THEN Min(1 .. MAX_INT \ present) - 1
        ELSE Bisect(present, IF last = 0 THEN j0 ELSE j[last - 1], j[last])

(* Mistake: a full array part is taken for the whole list.                 *)
luaH_getnArray(h) ==
    LET size == sizearray(h)
    IN  IF size > 0 /\ h.array[size] = Nil
        THEN Bisect(numusearray(h), 0, size)
        ELSE IF h.dummy \/ size > 0 THEN size
        ELSE unbound_search(h, size)

luaH_getn(h) ==
    LET size == sizearray(h)
    IN  IF size > 0 /\ h.array[size] = Nil
        THEN Bisect(numusearray(h), 0, size)
        ELSE IF h.dummy THEN size
        ELSE unbound_search(h, size)

-----------------------------------------------------------------------------
(* The program.  A constructor builds a table out of items, stored by      *)
(* OP_SETLIST in batches, and fields, before anything else can reach it.   *)
(* trav is the traversal under way: the key `next' was last given and the  *)
(* keys it has met that are still present.  Assigning to an absent field   *)
(* gives up the traversal: the manual leaves its behaviour undefined.  So  *)
(* the keys present in a traversal have been there since it began.         *)

NoTraversal == [on |-> FALSE, at |-> Nil, seen |-> {}]
Complete == [open |-> FALSE, built |-> 0, pending |-> <<>>]

Present == {k \in Keys : content[k] # Nil}

AfterAssign(k, v) ==
    IF k \notin Present \/ ~trav.on THEN NoTraversal
    ELSE [trav EXCEPT !.seen = IF v = Nil THEN @ \ {k} ELSE @]

Assigned(r, k, v) == t' = Store(r.t, r.slot, v) /\ Map!Assign(k, v)

(* lua_createtable, or OP_NEWTABLE at the start of a constructor           *)
Init ==
    /\ t \in {luaH_new(s[1], s[2]) : s \in NewSizes}
    /\ ctor \in {Complete, [Complete EXCEPT !.open = TRUE]}
    /\ trav = NoTraversal
    /\ Map!Init

(* lua_rawset, lua_rawseti, luaV_settable: any key                         *)
RawSet(k, v) ==
    /\ ctor.pending = <<>>
    /\ Assigned(luaH_set(t, k), k, v)
    /\ trav' = AfterAssign(k, v)
    /\ UNCHANGED ctor

(* luaX_newstring: a name is entered into the table of constants once      *)
NewString(s, v) ==
    /\ ~ctor.open
    /\ LET r == luaH_setstr(t, s)
       IN  IF ValueAt(r.t, r.slot) = Nil THEN Assigned(r, s, v)
           ELSE t' = r.t /\ UNCHANGED content
    /\ trav' = IF s \in Present THEN trav ELSE NoTraversal
    /\ UNCHANGED ctor

(* OP_SETLIST: the array part is sized at once, then every item is stored, *)
(* the last one first.                                                     *)
SetListBegin(n) ==
    LET last == ctor.built + n
    IN  /\ ctor.open /\ ctor.pending = <<>>
        /\ 1 .. last \subseteq Ints /\ last <= MAXASIZE
        /\ t' = IF last > sizearray(t) THEN luaH_resizearray(t, last) ELSE t
        /\ ctor' = [ctor EXCEPT !.built = last,
                                !.pending = [i \in 1 .. n |-> last + 1 - i]]
        /\ UNCHANGED <<trav, content>>

SetListItem(v) ==
    LET i == Head(ctor.pending)
    IN  /\ ctor.pending # <<>>
        /\ Assigned(luaH_setnum(t, i), i, v)
        /\ ctor' = [ctor EXCEPT !.pending = Tail(@)]
        /\ UNCHANGED trav

EndConstructor ==
    /\ ctor.open /\ ctor.pending = <<>>
    /\ ctor' = Complete
    /\ UNCHANGED <<t, trav, content>>

BeginTraversal ==
    /\ ~ctor.open /\ ~trav.on
    /\ trav' = [on |-> TRUE, at |-> Nil, seen |-> {}]
    /\ UNCHANGED <<t, ctor, content>>

(* luaB_next, lua_next                                                     *)
Traverse ==
    /\ trav.on
    /\ LET r == luaH_next(t, trav.at)
       IN  trav' = IF r.key = Nil THEN NoTraversal
                   ELSE [trav EXCEPT !.at = r.key, !.seen = @ \cup {r.key}]
    /\ UNCHANGED <<t, ctor, content>>

(* traversetable of the collector: the key of an empty node is dead        *)
removeentry(n) ==
    IF n.val = Nil /\ n.key \in Strings \cup Objects
    THEN [n EXCEPT !.dead = TRUE] ELSE n

Collect ==
    /\ t' = [t EXCEPT !.node = [i \in DOMAIN @ |-> removeentry(@[i])]]
    /\ t' # t
    /\ UNCHANGED <<ctor, trav, content>>

Next ==
    \/ \E k \in Keys, v \in Vals \cup {Nil} : RawSet(k, v)
    \/ \E s \in Strings, v \in Vals : NewString(s, v)
    \/ \E n \in 1 .. MaxItems : SetListBegin(n)
    \/ \E v \in Vals \cup {Nil} : SetListItem(v)
    \/ EndConstructor
    \/ BeginTraversal
    \/ Traverse
    \/ Collect

Spec == Init /\ [][Next]_vars

-----------------------------------------------------------------------------
(* Properties                                                              *)

NodeType == [key : Keys \cup {Nil}, dead : BOOLEAN, val : Vals \cup {Nil},
             next : {NoNode} \cup DOMAIN t.node]

(* Both parts keep their shape: the sizes are powers of two, the free      *)
(* pointer stays within the vector and no key above it is still unused,    *)
(* the common dummy node is never written.                                 *)
TypeOK ==
    /\ t.array \in Seq(Vals \cup {Nil})
    /\ sizenode(t) \in {twoto[i] : i \in 0 .. MAXBITS}
    /\ t.node \in [0 .. sizenode(t) - 1 -> NodeType]
    /\ t.lastfree \in 0 .. sizenode(t)
    /\ \A i \in t.lastfree .. sizenode(t) - 1 : ~t.dummy => t.node[i].key # Nil
    /\ t.dummy => t.node[0] = EmptyNode /\ sizenode(t) = 1
    /\ ctor.pending \in Seq(1 .. MAX_INT)
    /\ trav.on \in BOOLEAN /\ trav.at \in Keys \cup {Nil}

(* The assertions of newkey, getfreepos and computesizes hold, a node that *)
(* is moved is found in the chain of its main position, and the sizes that *)
(* rehash computes leave room for every key, so that filling the new parts *)
(* never starts another rehash.                                            *)
AssertionsHold == t.ok

(* Whatever was inserted, moved, cleared, collected or rehashed, the table *)
(* is the map that the assignments made of it: every key reads as the      *)
(* value last assigned to it.                                              *)
ReadsWhatWasAssigned == \A k \in Keys : Get(t, k) = content[k]

(* A traversal that only assigns to fields that exist, some of them to nil *)
(* and their keys killed by the collector, never fails, meets no key       *)
(* twice and none that is absent, and has met every key that stayed when   *)
(* it ends.                                                                *)
TraversalOnce ==
    trav.on =>
        LET r == luaH_next(t, trav.at)
        IN  /\ ~r.error
            /\ r.key = Nil => trav.seen = Present
            /\ r.key # Nil => /\ r.key \notin trav.seen
                              /\ r.val = content[r.key]

(* The length is a boundary, wherever the elements are kept: luaH_getn     *)
(* finds t[i] present, or i = 0, and t[i + 1] absent.                      *)
BoundaryRight ==
    LET At(n) == ValueAt(t, luaH_getnum(t, n))
        i == luaH_getn(t)
    IN  /\ i = 0 \/ At(i) # Nil
        /\ i < MAX_INT => At(i + 1) = Nil
=============================================================================
