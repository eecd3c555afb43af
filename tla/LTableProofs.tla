---------------------------- MODULE LTableProofs ----------------------------
(***************************************************************************)
(* Proofs about LTable: whatever is assigned, cleared, collected, moved or *)
(* rehashed, the table of ltable.c keeps its shape, its assertions hold,   *)
(* it reads as the map the assignments made of it, a traversal meets every *)
(* key once, and the length is a boundary; for all keys, hashes and sizes. *)
(*                                                                         *)
(* The chains are reasoned about without following them: a node is in the  *)
(* chain of a main position when it belongs to every set of nodes that has *)
(* the main position and is closed under the links.                        *)
(***************************************************************************)
EXTENDS LTable, IndexLemmas, FiniteSetTheorems, SequenceTheorems, TLAPS

Value == Vals \cup {Nil}
Collectable == Strings \cup Objects

(* A node of a vector of N nodes                                           *)
NodeRec(N) == [key : Keys \cup {Nil}, dead : BOOLEAN, val : Value,
               next : {NoNode} \cup 0 .. N - 1]

(* The table, N its number of nodes                                        *)
TableRec(N) == [array : Seq(Value), node : [0 .. N - 1 -> NodeRec(N)],
                dummy : BOOLEAN, lastfree : 0 .. N, ok : BOOLEAN]

Shape(h) ==
  /\ sizenode(h) \in {twoto[i] : i \in 0 .. MAXBITS}
  /\ h \in TableRec(sizenode(h))
  /\ sizearray(h) <= MAXASIZE /\ sizearray(h) < MAX_INT
  /\ \A i \in 1 .. sizearray(h) : h.array[i] # Nil => i \in Ints
  /\ h.dummy => /\ sizenode(h) = 1 /\ h.lastfree = 0
                /\ h.node[0] = EmptyNode

(* What a single node says, and that no two nodes link to the same one     *)
Linked(h) ==
  /\ \A i \in DOMAIN h.node :
        /\ h.node[i].key = Nil => /\ h.node[i].val = Nil
                                  /\ h.node[i].next = NoNode
                                  /\ ~h.node[i].dead
                                  /\ \A j \in DOMAIN h.node : h.node[j].next # i
        /\ h.node[i].dead => h.node[i].val = Nil /\ h.node[i].key \in Collectable
        /\ h.node[i].key \notin 1 .. sizearray(h)
  /\ \A i, j \in DOMAIN h.node :
        h.node[i].next = h.node[j].next /\ h.node[i].next # NoNode => i = j
  /\ \A i \in h.lastfree .. sizenode(h) - 1 : ~h.dummy => h.node[i].key # Nil

(* The node holds a key that can be read.                                  *)
Live(h, i) == i \in DOMAIN h.node /\ h.node[i].key # Nil /\ ~h.node[i].dead

Closed(next, S) == \A x \in S : next[x] \in S \cup {NoNode}

(* The chain that starts at q leads to i.                                  *)
Reach(next, q, i) ==
  \A S \in SUBSET DOMAIN next : q \in S /\ Closed(next, S) => i \in S

(* S has all of the chain from q up to i, and i is the only one of it      *)
(* among those wanted.                                                     *)
Leads(next, q, i, S, wanted) ==
  /\ S \in SUBSET DOMAIN next /\ q \in S
  /\ \A x \in S \ {i} : next[x] \in S \cup {NoNode}
  /\ S \cap wanted \subseteq {i}

(* The chain that starts at q has i before any other of those wanted.      *)
First(next, q, i, wanted) == \E S : Leads(next, q, i, S, wanted)

AllWithKey(h, k) == {i \in DOMAIN h.node : h.node[i].key = k}

Home(h, i) == mainposition(h, h.node[i].key)

(* Every live node is in the chain of its main position, before any dead   *)
(* node that had its key; the chain starts at a key in its main position.  *)
InPlace(h, i) ==
  LET q == Home(h, i)
  IN  /\ h.node[q].key # Nil /\ Home(h, q) = q
      /\ Reach(Links(h), q, i)
      /\ First(Links(h), q, i, AllWithKey(h, h.node[i].key))

Chained(h) == \A i \in DOMAIN h.node : Live(h, i) => InPlace(h, i)

Unique(h) == \A i, j \in DOMAIN h.node :
                Live(h, i) /\ Live(h, j) /\ h.node[i].key = h.node[j].key => i = j

Good(h) == Shape(h) /\ Linked(h) /\ Chained(h) /\ Unique(h)

(* The number of the element that holds a key                              *)
Number(h, k) ==
  LET s == luaH_get(h, k)
  IN  IF s.part = "array" THEN s.at ELSE sizearray(h) + s.at + 1

(* The traversal has met the keys up to the element it stands on.          *)
Met == trav.on =>
  /\ ~ctor.open /\ findindex(t, trav.at) # NoNode
  /\ trav.seen = {k \in Present : Number(t, k) <= findindex(t, trav.at)}

ProgramType ==
  /\ ctor \in [open : BOOLEAN, built : Nat, pending : Seq(Ints)]
  /\ ctor.pending # <<>> => ctor.open
  /\ trav \in [on : BOOLEAN, at : Keys \cup {Nil}, seen : SUBSET Keys]
  /\ content \in [Keys -> Value]

Inv == Good(t) /\ t.ok /\ ProgramType /\ ReadsWhatWasAssigned /\ Met

-----------------------------------------------------------------------------
(* Sizes                                                                   *)

(* Of a set of naturals Min is the least.                                  *)
LEMMA LeastIsMin ==
  ASSUME NEW S \in SUBSET Nat, S # {}
  PROVE  Min(S) \in S /\ \A y \in S : Min(S) <= y
<1>1. PICK x \in S : \A y \in S : x <= y BY LeastElement
<1>2. \A y \in S : x =< y BY <1>1
<1> QED BY <1>2 DEF Min

(* Of a set of naturals up to n Max is the greatest.                       *)
LEMMA GreatestIsMax ==
  ASSUME NEW n \in Nat, NEW S \in SUBSET (0 .. n), S # {}
  PROVE  Max(S) \in S /\ \A y \in S : y <= Max(S)
<1> DEFINE T == {n - i : i \in S}
<1>1. T \in SUBSET Nat /\ T # {}
  <2>1. \A i \in S : n - i \in Nat OBVIOUS
  <2>2. PICK i \in S : TRUE OBVIOUS
  <2> QED BY <2>1, <2>2
<1>2. PICK u \in T : \A v \in T : u <= v
  <2> HIDE DEF T
  <2> QED BY <1>1, LeastElement
<1>3. PICK x \in S : u = n - x BY <1>2
<1>4. \A y \in S : n - x <= n - y BY <1>2, <1>3
<1>5. \A y \in S : x >= y BY <1>4
<1>6. Max(S) \in S /\ \A y \in S : Max(S) >= y BY <1>5 DEF Max
<1> QED BY <1>6

(* twoto computes the powers of two.                                       *)
LEMMA Powers ==
  /\ twoto \in [0 .. MAXBITS -> Nat \ {0}] /\ twoto[0] = 1
  /\ \A n \in 1 .. MAXBITS : twoto[n] = 2 * twoto[n - 1]
<1> DEFINE N == MAXBITS
           T == Nat \ {0}
           F == [x \in T |-> 2 * x]
           Rec(f) == f = [n \in 0 .. N |-> IF n = 0 THEN 1 ELSE 2 * f[n - 1]]
<1>1. N \in Nat BY SizesAssumption
<1>2. F \in [T -> T] /\ 1 \in T OBVIOUS
<1>3. PICK f \in [0 .. N -> T] : Iterated(f, F, 1, N)
  <2> HIDE DEF F, N, T
  <2> QED BY <1>1, <1>2, Iterates
<1>4. f[0] = 1 /\ \A n \in 1 .. N : f[n] = F[f[n - 1]] BY <1>3 DEF Iterated
<1>5. \A n \in 0 .. N : f[n] = IF n = 0 THEN 1 ELSE 2 * f[n - 1]
  <2>1. ASSUME NEW n \in 0 .. N, n # 0 PROVE f[n] = 2 * f[n - 1]
    <3>1. n \in 1 .. N /\ n - 1 \in 0 .. N BY <1>1, <2>1
    <3>2. f[n - 1] \in T BY <1>3, <3>1
    <3> QED BY <1>4, <3>1, <3>2
  <2> QED BY <1>4, <2>1
<1>6. Rec(f) BY <1>3, <1>5
<1>7. Rec(twoto)
  <2> HIDE DEF Rec
  <2>1. twoto = CHOOSE g : Rec(g) BY DEF twoto, Rec
  <2> QED BY <1>6, <2>1
<1>8. twoto[0] = 1 /\ \A n \in 1 .. N : n - 1 \in 0 .. N /\ twoto[n] = 2 * twoto[n - 1]
  BY <1>1, <1>7
<1>9. \A n \in 0 .. N : twoto[n] \in T
  <2>1. twoto[0] \in T BY <1>8
  <2>2. \A n \in 1 .. N : twoto[n - 1] \in T => twoto[n] \in T BY <1>8
  <2> HIDE DEF T, N
  <2> QED BY <1>1, <2>1, <2>2, Throughout
<1> QED BY <1>7, <1>8, <1>9

(* Powers of two grow.                                                     *)
LEMMA PowersGrow ==
  \A i, j \in 0 .. MAXBITS : i <= j => twoto[i] <= twoto[j]
<1> DEFINE N == MAXBITS
           T == Nat \ {0}
<1>1. N \in Nat BY SizesAssumption
<1>2. SUFFICES ASSUME NEW i \in 0 .. N
               PROVE  \A j \in 0 .. N : i <= j => twoto[i] <= twoto[j]
  OBVIOUS
<1>3. ASSUME NEW n \in 0 .. N PROVE twoto[n] \in Nat BY <1>3, Powers
<1> DEFINE Bad == {j \in i .. N : ~(twoto[i] <= twoto[j])}
<1>4. SUFFICES ASSUME Bad # {} PROVE FALSE BY <1>1
<1>5. PICK m \in Bad : \A k \in Bad : m <= k
  <2>1. Bad \in SUBSET Nat BY <1>1
  <2> HIDE DEF Bad
  <2> QED BY <1>4, <2>1, LeastElement
<1>6. m \in i .. N /\ ~(twoto[i] <= twoto[m]) BY <1>5
<1>7. m # i BY <1>3, <1>6
<1>8. m \in 1 .. N /\ m - 1 \in i .. N /\ m - 1 \in 0 .. N BY <1>1, <1>6, <1>7
<1>9. m - 1 \notin Bad
  <2>1. ~(m <= m - 1) BY <1>8
  <2> HIDE DEF Bad
  <2> QED BY <1>5, <2>1
<1>10. twoto[i] <= twoto[m - 1] BY <1>8, <1>9
<1>11. twoto[m] = 2 * twoto[m - 1] BY <1>8, Powers
<1> QED BY <1>3, <1>6, <1>8, <1>10, <1>11

(* ceillog2 is the least exponent whose power is no smaller.               *)
LEMMA CeilLog ==
  ASSUME NEW n \in 1 .. MAXASIZE
  PROVE  /\ ceillog2[n] \in 0 .. MAXBITS /\ n <= twoto[ceillog2[n]]
         /\ \A l \in 0 .. MAXBITS : n <= twoto[l] <=> ceillog2[n] <= l
<1> DEFINE S == {l \in 0 .. MAXBITS : twoto[l] >= n}
<1>1. MAXBITS \in Nat BY SizesAssumption
<1>2. MAXBITS \in S /\ S \in SUBSET Nat BY <1>1, Powers DEF MAXASIZE
<1>3. ceillog2[n] = Min(S) BY DEF ceillog2
<1>4. Min(S) \in S /\ \A y \in S : Min(S) <= y
  <2> HIDE DEF S
  <2> QED BY <1>2, LeastIsMin
<1>5. ceillog2[n] \in 0 .. MAXBITS /\ twoto[ceillog2[n]] >= n BY <1>3, <1>4
<1>6. \A l \in 0 .. MAXBITS : twoto[l] \in Nat BY Powers
<1>7. ASSUME NEW l \in 0 .. MAXBITS, ceillog2[n] <= l PROVE n <= twoto[l]
  BY <1>1, <1>5, <1>6, <1>7, PowersGrow
<1>8. ASSUME NEW l \in 0 .. MAXBITS, n <= twoto[l] PROVE ceillog2[n] <= l
  BY <1>3, <1>4, <1>6, <1>8
<1> QED BY <1>5, <1>6, <1>7, <1>8

(* A key's main position is a node.                                        *)
LEMMA MainPosition ==
  ASSUME NEW h, sizenode(h) \in Nat \ {0}, NEW k \in Keys \cup 1 .. MAX_INT
  PROVE  mainposition(h, k) \in 0 .. sizenode(h) - 1
<1> DEFINE N == sizenode(h)
<1>1. hash[k] \in Nat BY KeysAssumption DEF Keys
<1>2. lmod(h, hash[k]) \in 0 .. N - 1 BY <1>1 DEF lmod
<1>3. hashmod(h, hash[k]) \in 0 .. N - 1
  <2> DEFINE M == Max({N - 1, 1})
  <2>1. M \in {N - 1, 1} /\ M >= 1 /\ M >= N - 1
    <3>1. {N - 1, 1} \in SUBSET (0 .. N) /\ N \in Nat OBVIOUS
    <3>2. M \in {N - 1, 1} /\ \A y \in {N - 1, 1} : y <= M BY <3>1, GreatestIsMax
    <3> QED BY <3>2
  <2> HIDE DEF M
  <2>2. hash[k] % M \in 0 .. M - 1 BY <1>1, <2>1
  <2>3. M - 1 <= N - 1 BY <2>1
  <2> QED BY <2>1, <2>2, <2>3 DEF hashmod, M
<1> QED BY <1>2, <1>3 DEF mainposition, hashnum

-----------------------------------------------------------------------------
(* Chains                                                                  *)

(* Links of N nodes                                                        *)
Linking(N) == [0 .. N - 1 -> {NoNode} \cup 0 .. N - 1]

(* Walk follows the links from q.                                          *)
LEMMA WalkSteps ==
  ASSUME NEW N \in Nat, NEW next \in Linking(N), NEW q \in 0 .. N - 1
  PROVE  LET w == Walk(next, q)
         IN  /\ w \in [0 .. N -> {NoNode} \cup 0 .. N - 1] /\ w[0] = q
             /\ \A n \in 1 .. N : w[n] = IF w[n - 1] = NoNode THEN NoNode ELSE next[w[n - 1]]
<1> DEFINE T == {NoNode} \cup 0 .. N - 1
           Step(p) == IF p = NoNode THEN NoNode ELSE next[p]
           F == [p \in T |-> Step(p)]
           Rec(f) == f = [n \in 0 .. N |-> IF n = 0 THEN q ELSE Step(f[n - 1])]
           w == Walk(next, q)
<1>1. Cardinality(DOMAIN next) = N
  <2>1. DOMAIN next = 0 .. N - 1 BY DEF Linking
  <2>2. Cardinality(0 .. N - 1) = N BY FS_Interval
  <2> QED BY <2>1, <2>2
<1>2. F \in [T -> T] /\ q \in T
  <2>1. \A p \in T : Step(p) \in T BY DEF Linking
  <2> QED BY <2>1
<1>3. PICK f \in [0 .. N -> T] : Iterated(f, F, q, N)
  <2> HIDE DEF F, T
  <2> QED BY <1>2, Iterates
<1>4. f[0] = q /\ \A n \in 1 .. N : f[n] = F[f[n - 1]] BY <1>3 DEF Iterated
<1>5. \A n \in 0 .. N : f[n] = IF n = 0 THEN q ELSE Step(f[n - 1])
  <2>1. ASSUME NEW n \in 0 .. N, n # 0 PROVE f[n] = Step(f[n - 1])
    <3>1. n \in 1 .. N /\ n - 1 \in 0 .. N BY <2>1
    <3>2. f[n - 1] \in T BY <1>3, <3>1
    <3> HIDE DEF Step, T
    <3> QED BY <1>4, <3>1, <3>2
  <2> HIDE DEF Step
  <2> QED BY <1>4, <2>1
<1>6. Rec(f)
  <2> HIDE DEF Step, T
  <2> QED BY <1>3, <1>5
<1>7. Rec(w)
  <2>1. w = CHOOSE g : Rec(g) BY <1>1 DEF Walk
  <2> HIDE DEF Rec, w
  <2> QED BY <1>6, <2>1
<1> HIDE DEF w
<1>8. w[0] = q /\ \A n \in 1 .. N : n - 1 \in 0 .. N /\ w[n] = Step(w[n - 1])
  <2> HIDE DEF Step
  <2> QED BY <1>7
<1>9. \A n \in 0 .. N : w[n] \in T
  <2>1. w[0] \in T BY <1>8
  <2>2. \A n \in 1 .. N : w[n - 1] \in T => w[n] \in T BY <1>8 DEF Linking
  <2> HIDE DEF T
  <2> QED BY <2>1, <2>2, Throughout
<1>10. w \in [0 .. N -> T]
  <2>1. DOMAIN w = 0 .. N /\ w = [n \in 0 .. N |-> w[n]]
    <3> HIDE DEF Step
    <3> QED BY <1>7
  <2> HIDE DEF T
  <2> QED BY <1>9, <2>1
<1> QED BY <1>8, <1>10 DEF w

(* The nodes of a walk are closed under the links.                         *)
LEMMA WalkCloses ==
  ASSUME NEW N \in Nat, NEW next \in Linking(N), NEW q \in 0 .. N - 1
  PROVE  LET S == {Walk(next, q)[n] : n \in 0 .. N} \ {NoNode}
         IN  S \in SUBSET (0 .. N - 1) /\ q \in S /\ Closed(next, S)
<1> DEFINE w == Walk(next, q)
           U == 0 .. N - 1
           Step(X) == X \cup ({next[x] : x \in X} \ {NoNode})
           F == [X \in SUBSET U |-> Step(X)]
           f == [n \in 0 .. N |-> {w[m] : m \in 0 .. n} \ {NoNode}]
           A == {q}
<1>1. /\ w \in [0 .. N -> {NoNode} \cup U] /\ w[0] = q
      /\ \A n \in 1 .. N : w[n] = IF w[n - 1] = NoNode THEN NoNode ELSE next[w[n - 1]]
  BY WalkSteps
<1> HIDE DEF w
<1>2. IsFiniteSet(U) /\ Cardinality(U) = N BY FS_Interval
<1>3. \A X \in SUBSET U : Step(X) \in SUBSET U /\ X \subseteq Step(X) BY DEF Linking
<1>4. F \in [SUBSET U -> SUBSET U] /\ \A X \in SUBSET U : F[X] = Step(X) /\ X \subseteq F[X]
  <2> HIDE DEF Step
  <2> QED BY <1>3
<1>5. f \in [0 .. N -> SUBSET U]
  <2>1. ASSUME NEW n \in 0 .. N PROVE {w[m] : m \in 0 .. n} \ {NoNode} \in SUBSET U
    BY <1>1, <2>1
  <2> QED BY <2>1
<1>6. f[0] = {q}
  <2>1. \A m \in 0 .. 0 : m = 0 OBVIOUS
  <2>2. q # NoNode BY DEF NoNode
  <2> QED BY <1>1, <2>1, <2>2
<1>7. ASSUME NEW n \in 1 .. N PROVE f[n] = Step(f[n - 1])
  <2>1. n \in 0 .. N /\ n - 1 \in 0 .. N OBVIOUS
  <2>2. f[n] = {w[m] : m \in 0 .. n} \ {NoNode} BY <2>1
  <2>3. f[n - 1] = {w[m] : m \in 0 .. n - 1} \ {NoNode} BY <2>1
  <2> HIDE DEF f
  <2>4. ASSUME NEW x \in f[n] PROVE x \in Step(f[n - 1])
    <3>1. PICK m \in 0 .. n : x = w[m] /\ x # NoNode BY <2>2
    <3>2. CASE m \in 0 .. n - 1 BY <2>3, <3>1, <3>2
    <3>3. CASE m = n
      <4>1. w[n - 1] # NoNode /\ x = next[w[n - 1]] BY <1>1, <3>1, <3>3
      <4>2. w[n - 1] \in f[n - 1] BY <2>3, <4>1
      <4> QED BY <3>1, <4>1, <4>2
    <3> QED BY <3>2, <3>3
  <2>5. ASSUME NEW x \in Step(f[n - 1]) PROVE x \in f[n]
    <3>1. CASE x \in f[n - 1]
      <4>1. PICK m \in 0 .. n - 1 : x = w[m] /\ x # NoNode BY <2>3, <3>1
      <4> QED BY <2>2, <4>1
    <3>2. CASE x \notin f[n - 1]
      <4>1. PICK y \in f[n - 1] : x = next[y] /\ x # NoNode BY <2>5, <3>2
      <4>2. PICK m \in 0 .. n - 1 : y = w[m] /\ y # NoNode BY <2>3, <4>1
      <4>3. m + 1 \in 1 .. N /\ m + 1 \in 0 .. n /\ (m + 1) - 1 = m BY <4>2
      <4>4. w[m + 1] = next[w[m]] BY <1>1, <4>2, <4>3
      <4> QED BY <2>2, <4>1, <4>2, <4>3, <4>4
    <3> QED BY <3>1, <3>2
  <2> HIDE DEF Step
  <2> QED BY <2>4, <2>5
<1>8. Iterated(f, F, A, N)
  <2>1. ASSUME NEW n \in 1 .. N PROVE f[n] = F[f[n - 1]]
    <3>1. n - 1 \in 0 .. N OBVIOUS
    <3>2. f[n - 1] \in SUBSET U
      <4> HIDE DEF f
      <4> QED BY <1>5, <3>1
    <3> HIDE DEF f, F, Step
    <3> QED BY <1>4, <1>7, <3>2
  <2> HIDE DEF f, F
  <2> QED BY <1>6, <2>1 DEF Iterated
<1>9. F[f[N]] = f[N] /\ A \subseteq f[N]
  <2>1. A \in SUBSET U OBVIOUS
  <2>2. \A X \in SUBSET U : X \subseteq F[X] BY <1>4
  <2>3. F \in [SUBSET U -> SUBSET U] BY <1>4
  <2>4. N = Cardinality(U) BY <1>2
  <2>5. IsFiniteSet(U) BY <1>2
  <2> HIDE DEF f, F, U, A
  <2>6. f \in [0 .. Cardinality(U) -> SUBSET U] /\ Iterated(f, F, A, Cardinality(U))
    BY <1>5, <1>8, <2>4
  <2>7. F[f[Cardinality(U)]] = f[Cardinality(U)] /\ A \subseteq f[Cardinality(U)]
    BY <2>1, <2>2, <2>3, <2>5, <2>6, Saturates
  <2> QED BY <2>4, <2>7
<1>10. f[N] = {w[m] : m \in 0 .. N} \ {NoNode} OBVIOUS
<1>11. f[N] \in SUBSET U
  <2> HIDE DEF f
  <2> QED BY <1>5
<1> HIDE DEF f
<1>12. Step(f[N]) = f[N]
  <2> HIDE DEF Step
  <2> QED BY <1>4, <1>9, <1>11
<1>13. Closed(next, f[N]) BY <1>12 DEF Closed
<1> QED BY <1>9, <1>10, <1>11, <1>13 DEF w

(* InChain finds one of those wanted, or none.                             *)
LEMMA ChainType ==
  ASSUME NEW N \in Nat, NEW next \in Linking(N), NEW q \in 0 .. N - 1, NEW wanted
  PROVE  InChain(next, q, wanted) \in wanted \cup {NoNode}
<1> DEFINE w == Walk(next, q)
           hits == {n \in DOMAIN w : w[n] \in wanted}
<1>1. DOMAIN w = 0 .. N BY WalkSteps
<1>2. InChain(next, q, wanted) = IF hits = {} THEN NoNode ELSE w[Min(hits)]
  BY DEF InChain
<1>3. CASE hits # {}
  <2>1. hits \in SUBSET Nat BY <1>1
  <2>2. Min(hits) \in hits
    <3> HIDE DEF hits
    <3> QED BY <1>3, <2>1, LeastIsMin
  <2>3. w[Min(hits)] \in wanted BY <2>2
  <2> HIDE DEF hits, w
  <2> QED BY <1>2, <1>3, <2>3
<1>4. CASE hits = {}
  <2> HIDE DEF hits, w
  <2> QED BY <1>2, <1>4
<1> QED BY <1>3, <1>4

(* It finds a node that the chain leads to before any other.               *)
LEMMA ChainFinds ==
  ASSUME NEW N \in Nat, NEW next \in Linking(N), NEW q \in 0 .. N - 1,
         NEW wanted \in SUBSET (0 .. N - 1), NEW i \in wanted,
         Reach(next, q, i), First(next, q, i, wanted)
  PROVE  InChain(next, q, wanted) = i
<1> DEFINE w == Walk(next, q)
           hits == {n \in DOMAIN w : w[n] \in wanted}
<1>1. /\ w \in [0 .. N -> {NoNode} \cup 0 .. N - 1] /\ w[0] = q
      /\ \A n \in 1 .. N : w[n] = IF w[n - 1] = NoNode THEN NoNode ELSE next[w[n - 1]]
  BY WalkSteps
<1>2. DOMAIN next = 0 .. N - 1 BY DEF Linking
<1>3. InChain(next, q, wanted) = IF hits = {} THEN NoNode ELSE w[Min(hits)]
  BY DEF InChain
<1>4. \E n \in 0 .. N : w[n] = i
  <2> DEFINE C == {w[n] : n \in 0 .. N} \ {NoNode}
  <2>1. C \in SUBSET (0 .. N - 1) /\ q \in C /\ Closed(next, C) BY WalkCloses
  <2> HIDE DEF C
  <2>2. i \in C BY <1>2, <2>1 DEF Reach
  <2> QED BY <2>2 DEF C
<1> HIDE DEF w
<1>5. hits # {} /\ hits \in SUBSET Nat BY <1>1, <1>4
<1> DEFINE m == Min(hits)
<1>6. m \in hits /\ \A y \in hits : m <= y
  <2> HIDE DEF hits
  <2> QED BY <1>5, LeastIsMin
<1>7. InChain(next, q, wanted) = w[m] BY <1>3, <1>5
<1> HIDE DEF m
<1>8. m \in 0 .. N /\ w[m] \in wanted /\ \A n \in 0 .. N : n < m => w[n] \notin wanted
  BY <1>1, <1>6
<1>9. PICK S : Leads(next, q, i, S, wanted) BY DEF First
<1>10. \A n \in 0 .. m : w[n] \in S \cup {NoNode}
  <2> DEFINE T == S \cup {NoNode}
  <2>1. w[0] \in T BY <1>1, <1>9 DEF Leads
  <2>2. ASSUME NEW n \in 1 .. m, w[n - 1] \in T PROVE w[n] \in T
    <3>1. n \in 1 .. N /\ n - 1 \in 0 .. N /\ n - 1 < m BY <1>8, <2>2
    <3>2. w[n - 1] # i BY <1>8, <3>1
    <3>3. w[n] = IF w[n - 1] = NoNode THEN NoNode ELSE next[w[n - 1]] BY <1>1, <3>1
    <3>4. w[n - 1] # NoNode => next[w[n - 1]] \in S \cup {NoNode}
      BY <1>9, <2>2, <3>2 DEF Leads
    <3> QED BY <3>3, <3>4
  <2>3. m \in Nat BY <1>8
  <2> HIDE DEF T
  <2>4. \A n \in 0 .. m : w[n] \in T BY <2>1, <2>2, <2>3, Throughout
  <2> QED BY <2>4 DEF T
<1>11. w[m] \in S
  <2>1. w[m] # NoNode BY <1>8 DEF NoNode
  <2>2. m \in 0 .. m BY <1>8
  <2> QED BY <1>10, <2>1, <2>2
<1>12. w[m] = i BY <1>8, <1>9, <1>11 DEF Leads
<1> QED BY <1>7, <1>12

(* When the chain leads to the only one wanted, that is First.             *)
LEMMA OnlyFirst ==
  ASSUME NEW N \in Nat, NEW next \in Linking(N), NEW q \in 0 .. N - 1,
         NEW wanted, NEW i \in 0 .. N - 1, wanted \cap (0 .. N - 1) \subseteq {i}
  PROVE  First(next, q, i, wanted)
<1>1. Leads(next, q, i, 0 .. N - 1, wanted)
  <2>1. DOMAIN next = 0 .. N - 1 /\ \A x \in 0 .. N - 1 : next[x] \in 0 .. N - 1 \cup {NoNode}
    BY DEF Linking
  <2> QED BY <2>1 DEF Leads
<1> QED BY <1>1 DEF First

-----------------------------------------------------------------------------
(* Reading                                                                 *)

(* The parts of a table                                                    *)
LEMMA Parts ==
  ASSUME NEW h, Shape(h)
  PROVE  /\ sizenode(h) \in Nat \ {0} /\ sizenode(h) <= MAXASIZE
         /\ DOMAIN h.node = 0 .. sizenode(h) - 1
         /\ \A i \in DOMAIN h.node : h.node[i] \in NodeRec(sizenode(h))
         /\ Links(h) \in Linking(sizenode(h)) /\ DOMAIN Links(h) = DOMAIN h.node
         /\ \A i \in DOMAIN h.node : Links(h)[i] = h.node[i].next
         /\ sizearray(h) \in Nat /\ DOMAIN h.array = 1 .. sizearray(h)
         /\ \A i \in 1 .. sizearray(h) : h.array[i] \in Value
<1> DEFINE N == sizenode(h)
<1>1. PICK i \in 0 .. MAXBITS : N = twoto[i] BY DEF Shape
<1>2. N \in Nat \ {0} /\ N <= MAXASIZE
  <2>1. MAXBITS \in 0 .. MAXBITS /\ i <= MAXBITS BY SizesAssumption
  <2> QED BY <1>1, <2>1, Powers, PowersGrow DEF MAXASIZE
<1>3. h \in TableRec(N) BY DEF Shape
<1> HIDE DEF N
<1>4. h.node \in [0 .. N - 1 -> NodeRec(N)] /\ h.array \in Seq(Value) BY <1>3 DEF TableRec
<1>5. DOMAIN h.node = 0 .. N - 1 /\ \A j \in DOMAIN h.node : h.node[j] \in NodeRec(N) BY <1>4
<1>6. \A j \in 0 .. N - 1 : h.node[j].next \in {NoNode} \cup 0 .. N - 1 BY <1>5 DEF NodeRec
<1>7. Links(h) \in Linking(N) /\ DOMAIN Links(h) = DOMAIN h.node BY <1>5, <1>6 DEF Links, Linking
<1>8. \A j \in DOMAIN h.node : Links(h)[j] = h.node[j].next BY DEF Links
<1>9. sizearray(h) \in Nat /\ DOMAIN h.array = 1 .. sizearray(h)
  BY <1>4 DEF sizearray
<1>10. \A j \in 1 .. sizearray(h) : h.array[j] \in Value BY <1>4, <1>9
<1> QED BY <1>2, <1>5, <1>7, <1>8, <1>9, <1>10 DEF N

(* The three kinds of slots, told apart.                                   *)
LEMMA Slots ==
  ASSUME NEW h, NEW i, NEW v
  PROVE  /\ ArraySlot(i) # NoSlot /\ NodeSlot(i) # NoSlot
         /\ ValueAt(h, ArraySlot(i)) = h.array[i]
         /\ ValueAt(h, NodeSlot(i)) = h.node[i].val
         /\ ValueAt(h, NoSlot) = Nil
         /\ Store(h, ArraySlot(i), v) = [h EXCEPT !.array[i] = v]
         /\ Store(h, NodeSlot(i), v) = [h EXCEPT !.node[i].val = v]
<1>1. /\ ArraySlot(i).part = "array" /\ ArraySlot(i).at = i
      /\ NodeSlot(i).part = "node" /\ NodeSlot(i).at = i /\ NoSlot.part = "none"
  BY DEF ArraySlot, NodeSlot, NoSlot
<1>2. "array" # "node" /\ "array" # "none" /\ "node" # "none" OBVIOUS
<1>3. ArraySlot(i) # NoSlot /\ NodeSlot(i) # NoSlot BY <1>1, <1>2
<1>4. /\ ValueAt(h, ArraySlot(i)) = h.array[i]
      /\ Store(h, ArraySlot(i), v) = [h EXCEPT !.array[i] = v]
  BY <1>1, <1>2, Zenon DEF ValueAt, Store
<1>5. /\ ValueAt(h, NodeSlot(i)) = h.node[i].val
      /\ Store(h, NodeSlot(i), v) = [h EXCEPT !.node[i].val = v]
  BY <1>1, <1>2, Zenon DEF ValueAt, Store
<1>6. ValueAt(h, NoSlot) = Nil BY <1>1, <1>2, Zenon DEF ValueAt
<1> QED BY <1>3, <1>4, <1>5, <1>6

(* luaH_get goes by the kind of the key.                                   *)
LEMMA GetByKind ==
  ASSUME NEW h, NEW k
  PROVE  /\ k \in Collectable => luaH_get(h, k) = NodeOfKey(h, k)
         /\ k \notin Collectable => luaH_get(h, k) = luaH_getnum(h, k)
BY Zenon DEF luaH_get, luaH_getstr, Collectable

(* The main position depends on the number of nodes only.                  *)
LEMMA SamePosition ==
  ASSUME NEW h, NEW g, NEW k, sizenode(g) = sizenode(h)
  PROVE  mainposition(g, k) = mainposition(h, k)
<1>1. \A n : lmod(g, n) = lmod(h, n) /\ hashmod(g, n) = hashmod(h, n) BY DEF lmod, hashmod
<1> QED BY <1>1, Zenon DEF mainposition, hashnum

(* An array index is no string and no object.                              *)
LEMMA IndexKind ==
  ASSUME NEW h, Shape(h), NEW k \in 1 .. sizearray(h)
  PROVE  k \in 1 .. MAX_INT /\ k \notin Collectable
<1>1. sizearray(h) \in Nat /\ sizearray(h) < MAX_INT /\ MAX_INT \in Nat
  BY Parts, SizesAssumption DEF Shape
<1> QED BY <1>1, KeysAssumption DEF Collectable

(* A live key is found where it is, and no other.                          *)
LEMMA FindNode ==
  ASSUME NEW h, Good(h), NEW k \in Keys
  PROVE  /\ \A i : Live(h, i) /\ h.node[i].key = k => NodeOfKey(h, k) = NodeSlot(i)
         /\ (\A i : ~(Live(h, i) /\ h.node[i].key = k)) => NodeOfKey(h, k) = NoSlot
<1> DEFINE N == sizenode(h)
           q == mainposition(h, k)
           W == WithKey(h, k)
           c == InChain(Links(h), q, W)
<1>1. Shape(h) BY DEF Good
<1>2. /\ N \in Nat \ {0} /\ DOMAIN h.node = 0 .. N - 1 /\ Links(h) \in Linking(N)
  BY <1>1, Parts
<1>3. q \in 0 .. N - 1 BY <1>2, MainPosition
<1>4. NodeOfKey(h, k) = IF c = NoNode THEN NoSlot ELSE NodeSlot(c) BY DEF NodeOfKey
<1>5. W \in SUBSET (0 .. N - 1) BY <1>2 DEF WithKey
<1>6. k # Nil BY KeysAssumption
<1>7. \A i : i \in W <=> Live(h, i) /\ h.node[i].key = k BY <1>6 DEF WithKey, Live
<1>8. ASSUME NEW i, Live(h, i), h.node[i].key = k PROVE NodeOfKey(h, k) = NodeSlot(i)
  <2>1. i \in W /\ i \in 0 .. N - 1 BY <1>5, <1>7, <1>8
  <2>2. InPlace(h, i) /\ Home(h, i) = q BY <1>2, <1>8, <2>1 DEF Good, Chained, Home
  <2>3. Reach(Links(h), q, i) BY <2>2 DEF InPlace
  <2>4. \A j \in W : j = i BY <1>2, <1>5, <1>7, <1>8, <2>1 DEF Good, Unique
  <2>5. W \cap (0 .. N - 1) \subseteq {i} BY <2>4
  <2> HIDE DEF W, q, N
  <2>6. First(Links(h), q, i, W) BY <1>2, <1>3, <2>1, <2>5, OnlyFirst
  <2>7. c = i BY <1>2, <1>3, <1>5, <2>1, <2>3, <2>6, ChainFinds
  <2>8. i # NoNode BY <1>2, <2>1 DEF NoNode
  <2> QED BY <1>4, <2>7, <2>8
<1>9. ASSUME \A i : ~(Live(h, i) /\ h.node[i].key = k) PROVE NodeOfKey(h, k) = NoSlot
  <2>1. W = {} BY <1>7, <1>9
  <2> HIDE DEF W, q, N
  <2>2. c \in W \cup {NoNode} BY <1>2, <1>3, ChainType
  <2> QED BY <1>4, <2>1, <2>2
<1> QED BY <1>8, <1>9

(* luaH_get finds the slot of a key.                                       *)
LEMMA Lookup ==
  ASSUME NEW h, Good(h), NEW k \in Keys
  PROVE  /\ k \in 1 .. sizearray(h) => luaH_get(h, k) = ArraySlot(k)
         /\ \A i : Live(h, i) /\ h.node[i].key = k =>
              luaH_get(h, k) = NodeSlot(i) /\ k \notin 1 .. sizearray(h)
         /\ k \notin 1 .. sizearray(h) /\ (\A i : ~(Live(h, i) /\ h.node[i].key = k))
              => luaH_get(h, k) = NoSlot
<1>1. Shape(h) /\ Linked(h) BY DEF Good
<1>2. ASSUME k \in 1 .. sizearray(h) PROVE luaH_get(h, k) = ArraySlot(k)
  BY <1>1, <1>2, IndexKind, GetByKind DEF luaH_getnum
<1>3. ASSUME k \notin 1 .. sizearray(h) PROVE luaH_get(h, k) = NodeOfKey(h, k)
  BY <1>3, GetByKind DEF luaH_getnum
<1>4. ASSUME NEW i, Live(h, i), h.node[i].key = k PROVE k \notin 1 .. sizearray(h)
  BY <1>1, <1>4 DEF Linked, Live
<1> QED BY <1>2, <1>3, <1>4, FindNode

(* luaH_getnum and luaH_getstr are luaH_get, on the keys they are for.     *)
LEMMA GetSpecial ==
  ASSUME NEW h, NEW k
  PROVE  /\ k \in Ints => luaH_getnum(h, k) = luaH_get(h, k)
         /\ k \in Strings => luaH_getstr(h, k) = luaH_get(h, k)
<1>1. k \in Ints => k \notin Collectable BY KeysAssumption DEF Collectable
<1> QED BY <1>1, GetByKind DEF luaH_getstr, Collectable

-----------------------------------------------------------------------------
(* Storing                                                                 *)

(* The same keys on the same chains, some of them dead                     *)
SameNodes(g, h) ==
  /\ DOMAIN g.node = DOMAIN h.node /\ sizearray(g) = sizearray(h) /\ g.dummy = h.dummy
  /\ \A i \in DOMAIN h.node : /\ g.node[i].key = h.node[i].key
                              /\ g.node[i].next = h.node[i].next
                              /\ h.node[i].dead => g.node[i].dead

(* Neither a value nor the death of a key matters to the chains.           *)
LEMMA SameChains ==
  ASSUME NEW h, Good(h), NEW g, Shape(g), SameNodes(g, h)
  PROVE  /\ Chained(g) /\ Unique(g) /\ Links(g) = Links(h) /\ sizenode(g) = sizenode(h)
         /\ \A k : AllWithKey(g, k) = AllWithKey(h, k)
<1>1. sizenode(g) = sizenode(h) BY DEF sizenode, SameNodes
<1>2. Links(g) = Links(h) BY DEF Links, SameNodes
<1>3. \A k : AllWithKey(g, k) = AllWithKey(h, k) BY DEF AllWithKey, SameNodes
<1>4. \A i : Live(g, i) => Live(h, i) BY DEF Live, SameNodes
<1>5. \A i \in DOMAIN h.node : Home(g, i) = Home(h, i) BY <1>1, SamePosition DEF Home, SameNodes
<1>6. Unique(g) BY <1>4 DEF Good, Unique, SameNodes
<1>7. ASSUME NEW i \in DOMAIN g.node, Live(g, i) PROVE InPlace(g, i)
  <2> DEFINE q == Home(h, i)
  <2>1. i \in DOMAIN h.node /\ Live(h, i) BY <1>4, <1>7 DEF SameNodes
  <2>2. InPlace(h, i) BY <2>1 DEF Good, Chained
  <2>3. h.node[i].key \in Keys BY <2>1, Parts DEF Good, NodeRec, Live
  <2>4. q \in DOMAIN h.node BY <2>3, Parts, MainPosition DEF Good, Home
  <2>5. Home(g, i) = q /\ Home(g, q) = Home(h, q) /\ g.node[q].key = h.node[q].key
        /\ g.node[i].key = h.node[i].key
    BY <1>5, <2>1, <2>4 DEF SameNodes
  <2> QED BY <1>2, <1>3, <2>2, <2>5 DEF InPlace
<1> QED BY <1>1, <1>2, <1>3, <1>6, <1>7 DEF Chained

(* What Get returns of a good table                                        *)
LEMMA GetValue ==
  ASSUME NEW h, Good(h), NEW k \in Keys
  PROVE  /\ k \in 1 .. sizearray(h) => Get(h, k) = h.array[k]
         /\ \A i : Live(h, i) /\ h.node[i].key = k => Get(h, k) = h.node[i].val
         /\ k \notin 1 .. sizearray(h) /\ (\A i : ~(Live(h, i) /\ h.node[i].key = k))
              => Get(h, k) = Nil
<1>1. ASSUME k \in 1 .. sizearray(h) PROVE Get(h, k) = h.array[k]
  <2>1. luaH_get(h, k) = ArraySlot(k) BY <1>1, Lookup
  <2>2. ValueAt(h, ArraySlot(k)) = h.array[k] BY Slots
  <2> QED BY <2>1, <2>2 DEF Get
<1>2. ASSUME NEW i, Live(h, i), h.node[i].key = k PROVE Get(h, k) = h.node[i].val
  <2>1. luaH_get(h, k) = NodeSlot(i) BY <1>2, Lookup
  <2>2. ValueAt(h, NodeSlot(i)) = h.node[i].val BY Slots
  <2> QED BY <2>1, <2>2 DEF Get
<1>3. ASSUME k \notin 1 .. sizearray(h), \A i : ~(Live(h, i) /\ h.node[i].key = k)
      PROVE  Get(h, k) = Nil
  <2>1. luaH_get(h, k) = NoSlot BY <1>3, Lookup
  <2> QED BY <2>1, Slots DEF Get
<1> QED BY <1>1, <1>2, <1>3

(* Of a key that is somewhere                                              *)
LEMMA FoundSlot ==
  ASSUME NEW h, Good(h), NEW k \in Keys, luaH_get(h, k) # NoSlot
  PROVE  \/ k \in 1 .. sizearray(h) /\ luaH_get(h, k) = ArraySlot(k)
         \/ \E i \in DOMAIN h.node : /\ Live(h, i) /\ h.node[i].key = k
                                     /\ luaH_get(h, k) = NodeSlot(i)
<1>1. CASE k \in 1 .. sizearray(h) BY <1>1, Lookup
<1>2. CASE k \notin 1 .. sizearray(h)
  <2>1. PICK i : Live(h, i) /\ h.node[i].key = k BY <1>2, Lookup
  <2>2. i \in DOMAIN h.node BY <2>1 DEF Live
  <2>3. luaH_get(h, k) = NodeSlot(i) BY <2>1, Lookup
  <2> QED BY <2>1, <2>2, <2>3
<1> QED BY <1>1, <1>2

(* Assigning to a key that is found changes its value and nothing else.    *)
LEMMA StoreFound ==
  ASSUME NEW h, Good(h), NEW k \in Keys, luaH_get(h, k) # NoSlot, NEW v \in Value
  PROVE  LET g == Store(h, luaH_get(h, k), v)
         IN  /\ Good(g) /\ SameNodes(g, h) /\ g.ok = h.ok /\ sizenode(g) = sizenode(h)
             /\ \A i \in DOMAIN h.node : g.node[i].dead = h.node[i].dead
             /\ \A j \in Keys : luaH_get(g, j) = luaH_get(h, j)
             /\ \A j \in Keys : Get(g, j) = IF j = k THEN v ELSE Get(h, j)
<1> DEFINE N == sizenode(h)
           g == Store(h, luaH_get(h, k), v)
<1>0. g = Store(h, luaH_get(h, k), v) OBVIOUS
<1> SUFFICES /\ Good(g) /\ SameNodes(g, h) /\ g.ok = h.ok /\ sizenode(g) = sizenode(h)
             /\ \A x \in DOMAIN h.node : g.node[x].dead = h.node[x].dead
             /\ \A j \in Keys : luaH_get(g, j) = luaH_get(h, j)
             /\ \A j \in Keys : Get(g, j) = IF j = k THEN v ELSE Get(h, j)
  OBVIOUS
<1> HIDE DEF g
<1>1. Shape(h) /\ Linked(h) BY DEF Good
<1>2. /\ N \in Nat \ {0} /\ DOMAIN h.node = 0 .. N - 1
      /\ \A i \in DOMAIN h.node : h.node[i] \in NodeRec(N)
      /\ sizearray(h) \in Nat /\ DOMAIN h.array = 1 .. sizearray(h)
      /\ \A i \in 1 .. sizearray(h) : h.array[i] \in Value
  BY <1>1, Parts
<1>3. h \in TableRec(N) BY <1>1 DEF Shape
<1>4. CASE k \in 1 .. sizearray(h) /\ luaH_get(h, k) = ArraySlot(k)
  <2>1. g = [h EXCEPT !.array[k] = v] BY <1>0, <1>4, Slots
  <2>2. k \in Ints BY <1>1, <1>4, IndexKind DEF Keys, Collectable
  <2>3. /\ g.array = [h.array EXCEPT ![k] = v] /\ g.node = h.node /\ g.dummy = h.dummy
        /\ g.lastfree = h.lastfree /\ g.ok = h.ok /\ g \in TableRec(N)
    <3>1. h.array \in Seq(Value) BY <1>3 DEF TableRec
    <3>2. [h.array EXCEPT ![k] = v] \in Seq(Value) BY <1>2, <1>4, <3>1
    <3> QED BY <1>3, <2>1, <3>2 DEF TableRec
  <2>4. sizearray(g) = sizearray(h) /\ sizenode(g) = N BY <1>2, <2>3 DEF sizearray, sizenode
  <2>5. \A i \in 1 .. sizearray(h) : g.array[i] = IF i = k THEN v ELSE h.array[i]
    BY <1>2, <2>3
  <2>6. Shape(g) BY <1>1, <2>2, <2>3, <2>4, <2>5 DEF Shape
  <2>7. SameNodes(g, h) BY <2>3, <2>4 DEF SameNodes
  <2>8. Linked(g) BY <1>1, <2>3, <2>4 DEF Linked
  <2>9. Good(g) BY <2>6, <2>7, <2>8, SameChains DEF Good
  <2>10. \A i : Live(g, i) <=> Live(h, i) BY <2>3 DEF Live
  <2>11. ASSUME NEW j \in Keys
         PROVE  luaH_get(g, j) = luaH_get(h, j) /\ Get(g, j) = IF j = k THEN v ELSE Get(h, j)
    <3>1. CASE j \in 1 .. sizearray(h)
      <4>1. luaH_get(g, j) = luaH_get(h, j) BY <2>4, <2>9, <3>1, Lookup
      <4>2. Get(g, j) = g.array[j] /\ Get(h, j) = h.array[j] BY <2>4, <2>9, <3>1, GetValue
      <4> QED BY <2>5, <3>1, <4>1, <4>2
    <3>2. CASE j \notin 1 .. sizearray(h) /\ \A i : ~(Live(h, i) /\ h.node[i].key = j)
      <4>1. \A i : ~(Live(g, i) /\ g.node[i].key = j) BY <2>3, <2>10, <3>2
      <4>2. luaH_get(g, j) = NoSlot /\ Get(g, j) = Nil BY <2>4, <2>9, <3>2, <4>1, Lookup, GetValue
      <4>3. luaH_get(h, j) = NoSlot /\ Get(h, j) = Nil BY <3>2, Lookup, GetValue
      <4> QED BY <1>4, <3>2, <4>2, <4>3
    <3>3. ASSUME NEW i, Live(h, i), h.node[i].key = j, j \notin 1 .. sizearray(h)
          PROVE  luaH_get(g, j) = luaH_get(h, j) /\ Get(g, j) = Get(h, j)
      <4>1. Live(g, i) /\ g.node[i] = h.node[i] BY <2>3, <2>10, <3>3
      <4>2. luaH_get(g, j) = NodeSlot(i) /\ Get(g, j) = h.node[i].val
        BY <2>9, <3>3, <4>1, Lookup, GetValue
      <4> QED BY <3>3, <4>2, Lookup, GetValue
    <3> QED BY <1>4, <3>1, <3>2, <3>3
  <2> QED BY <2>3, <2>4, <2>7, <2>9, <2>11
<1>5. ASSUME NEW i \in DOMAIN h.node, Live(h, i), h.node[i].key = k, luaH_get(h, k) = NodeSlot(i)
      PROVE  /\ Good(g) /\ SameNodes(g, h) /\ g.ok = h.ok /\ sizenode(g) = sizenode(h)
             /\ \A x \in DOMAIN h.node : g.node[x].dead = h.node[x].dead
             /\ \A j \in Keys : luaH_get(g, j) = luaH_get(h, j)
             /\ \A j \in Keys : Get(g, j) = IF j = k THEN v ELSE Get(h, j)
  <2>1. g = [h EXCEPT !.node[i].val = v] BY <1>0, <1>5, Slots
  <2>2. /\ g.array = h.array /\ g.dummy = h.dummy /\ g.lastfree = h.lastfree /\ g.ok = h.ok
        /\ g.node = [h.node EXCEPT ![i] = [h.node[i] EXCEPT !.val = v]]
        /\ g \in TableRec(N)
    <3>1. [h.node[i] EXCEPT !.val = v] \in NodeRec(N) BY <1>2, <1>5 DEF NodeRec
    <3> QED BY <1>2, <1>3, <1>5, <2>1, <3>1 DEF TableRec
  <2>3. sizearray(g) = sizearray(h) /\ sizenode(g) = N /\ DOMAIN g.node = DOMAIN h.node
    BY <2>2 DEF sizearray, sizenode
  <2>4. ASSUME NEW x \in DOMAIN h.node
        PROVE  /\ g.node[x].key = h.node[x].key /\ g.node[x].next = h.node[x].next
               /\ g.node[x].dead = h.node[x].dead
               /\ g.node[x].val = IF x = i THEN v ELSE h.node[x].val
    BY <1>2, <1>5, <2>2 DEF NodeRec
  <2>5. ~h.dummy BY <1>1, <1>2, <1>5 DEF Shape, Live, EmptyNode
  <2>6. Shape(g) BY <1>1, <2>2, <2>3, <2>5 DEF Shape
  <2>7. SameNodes(g, h) BY <2>2, <2>3, <2>4 DEF SameNodes
  <2>8. Linked(g)
    <3>1. ASSUME NEW x \in DOMAIN h.node
          PROVE  /\ g.node[x].key = Nil =>
                      /\ g.node[x].val = Nil /\ g.node[x].next = NoNode /\ ~g.node[x].dead
                      /\ \A y \in DOMAIN h.node : g.node[y].next # x
                 /\ g.node[x].dead => g.node[x].val = Nil /\ g.node[x].key \in Collectable
                 /\ g.node[x].key \notin 1 .. sizearray(h)
      <4>1. x = i => h.node[x].key # Nil /\ ~h.node[x].dead BY <1>5 DEF Live
      <4> QED BY <1>1, <2>4, <4>1 DEF Linked
    <3>2. \A x, y \in DOMAIN h.node :
             g.node[x].next = g.node[y].next /\ g.node[x].next # NoNode => x = y
      BY <1>1, <2>4 DEF Linked
    <3>3. \A x \in h.lastfree .. N - 1 : x \in DOMAIN h.node
      BY <1>2, <1>3 DEF TableRec
    <3>4. \A x \in h.lastfree .. N - 1 : ~h.dummy => g.node[x].key # Nil
      BY <1>1, <2>4, <3>3 DEF Linked
    <3> QED BY <2>2, <2>3, <3>1, <3>2, <3>4 DEF Linked
  <2>9. Good(g) BY <2>6, <2>7, <2>8, SameChains DEF Good
  <2>10. \A x : Live(g, x) <=> Live(h, x) BY <2>3, <2>4 DEF Live
  <2>11. \A j \in Keys : luaH_get(g, j) = luaH_get(h, j)
    BY <2>3, <2>4, <2>9, <2>10, Lookup DEF Live
  <2>12. ASSUME NEW j \in Keys PROVE Get(g, j) = IF j = k THEN v ELSE Get(h, j)
    <3>1. CASE j = k BY <1>5, <2>4, <2>9, <2>10, <3>1, GetValue
    <3>2. CASE j # k
      <4>1. CASE j \in 1 .. sizearray(h) BY <2>2, <2>3, <2>9, <3>2, <4>1, GetValue
      <4>2. CASE j \notin 1 .. sizearray(h) /\ \A x : ~(Live(h, x) /\ h.node[x].key = j)
        <5>1. \A x : ~(Live(g, x) /\ g.node[x].key = j) BY <2>4, <2>10, <4>2 DEF Live
        <5> QED BY <2>3, <2>9, <3>2, <4>2, <5>1, GetValue
      <4>3. ASSUME NEW x, Live(h, x), h.node[x].key = j PROVE Get(g, j) = Get(h, j)
        <5>1. x \in DOMAIN h.node /\ x # i BY <1>5, <3>2, <4>3 DEF Live
        <5>2. Live(g, x) /\ g.node[x].key = j /\ g.node[x].val = h.node[x].val
          BY <2>4, <2>10, <4>3, <5>1
        <5> QED BY <2>9, <4>3, <5>2, GetValue
      <4> QED BY <3>2, <4>1, <4>2, <4>3
    <3> QED BY <3>1, <3>2
  <2> QED BY <2>2, <2>3, <2>4, <2>7, <2>9, <2>11, <2>12
<1> QED BY <1>4, <1>5, FoundSlot

-----------------------------------------------------------------------------
(* Chains that change: i is found from q after the change as before it.    *)

(* A chain starts with its first node.                                     *)
LEMMA ChainStart ==
  ASSUME NEW next, NEW i \in DOMAIN next, NEW wanted
  PROVE  Reach(next, i, i) /\ First(next, i, i, wanted)
<1>1. Leads(next, i, i, {i}, wanted) BY DEF Leads
<1> QED BY <1>1 DEF Reach, First

(* The node n, which nothing links to, enters a chain behind mp.           *)
Joins(N, next, new, mp, n) ==
  /\ next \in Linking(N) /\ new \in Linking(N)
  /\ mp \in 0 .. N - 1 /\ n \in 0 .. N - 1 /\ mp # n /\ \A x \in 0 .. N - 1 : next[x] # n
  /\ new[mp] = n /\ new[n] = next[mp]
  /\ \A x \in 0 .. N - 1 : x # mp /\ x # n => new[x] = next[x]

(* ChainIn keeps the chains of the other nodes.                            *)
LEMMA ChainInReach ==
  ASSUME NEW N \in Nat, NEW next, NEW new, NEW mp, NEW n, Joins(N, next, new, mp, n),
         NEW q \in 0 .. N - 1, q # n, NEW i \in 0 .. N - 1, i # n
  PROVE  /\ Reach(next, q, i) => Reach(new, q, i)
         /\ \A W, V : First(next, q, i, W) /\ V \subseteq W \ {n} => First(new, q, i, V)
<1> USE DEF Linking, Joins
<1>1. DOMAIN next = 0 .. N - 1 /\ DOMAIN new = 0 .. N - 1 OBVIOUS
<1>2. ASSUME Reach(next, q, i), NEW S \in SUBSET (0 .. N - 1), q \in S, Closed(new, S)
      PROVE  i \in S
  <2>1. Closed(next, S \ {n})
    <3> SUFFICES ASSUME NEW x \in S, x # n PROVE next[x] \in (S \ {n}) \cup {NoNode}
      BY DEF Closed
    <3>1. x \in 0 .. N - 1 OBVIOUS
    <3>2. CASE x = mp
      <4>1. n \in S BY <1>2, <3>2 DEF Closed, NoNode
      <4>2. next[mp] \in S \cup {NoNode} BY <1>2, <4>1 DEF Closed
      <4> QED BY <3>2, <4>2
    <3>3. CASE x # mp
      <4>1. new[x] \in S \cup {NoNode} /\ new[x] = next[x] BY <1>2, <3>1, <3>3 DEF Closed
      <4> QED BY <3>1, <4>1
    <3> QED BY <3>2, <3>3
  <2>2. q \in S \ {n} /\ S \ {n} \in SUBSET DOMAIN next BY <1>1, <1>2
  <2> QED BY <1>2, <2>1, <2>2 DEF Reach
<1>3. ASSUME NEW W, NEW V, First(next, q, i, W), V \subseteq W \ {n}
      PROVE  First(new, q, i, V)
  <2>1. PICK S : Leads(next, q, i, S, W) BY <1>3 DEF First
  <2>2. /\ S \in SUBSET (0 .. N - 1) /\ q \in S /\ S \cap W \subseteq {i}
        /\ \A x \in S \ {i} : next[x] \in S \cup {NoNode}
    BY <1>1, <2>1 DEF Leads
  <2>3. CASE mp \in S /\ mp # i
    <3>1. \A x \in (S \cup {n}) \ {i} : new[x] \in (S \cup {n}) \cup {NoNode}
      <4> SUFFICES ASSUME NEW x \in S \cup {n}, x # i PROVE new[x] \in (S \cup {n}) \cup {NoNode}
        OBVIOUS
      <4>1. x \in 0 .. N - 1 BY <2>2
      <4>2. next[mp] \in S \cup {NoNode} BY <2>2, <2>3
      <4>3. x # mp /\ x # n => next[x] \in S \cup {NoNode} /\ new[x] = next[x] BY <2>2, <4>1
      <4> QED BY <4>2, <4>3
    <3>2. Leads(new, q, i, S \cup {n}, V) BY <1>1, <1>3, <2>2, <3>1 DEF Leads
    <3> QED BY <3>2 DEF First
  <2>4. CASE mp \notin S \/ mp = i
    <3>1. \A x \in (S \ {n}) \ {i} : new[x] \in (S \ {n}) \cup {NoNode}
      <4> SUFFICES ASSUME NEW x \in S, x # n, x # i PROVE new[x] \in (S \ {n}) \cup {NoNode}
        OBVIOUS
      <4>1. x \in 0 .. N - 1 /\ x # mp BY <2>2, <2>4
      <4>2. next[x] \in S \cup {NoNode} /\ new[x] = next[x] /\ next[x] # n BY <2>2, <4>1
      <4> QED BY <4>2
    <3>2. Leads(new, q, i, S \ {n}, V) BY <1>1, <1>3, <2>2, <3>1 DEF Leads
    <3> QED BY <3>2 DEF First
  <2> QED BY <2>3, <2>4
<1> QED BY <1>1, <1>2, <1>3 DEF Reach

(* The node n takes the place of mp in a chain, behind p.                  *)
Replaces(N, next, new, mp, n, p) ==
  /\ next \in Linking(N) /\ new \in Linking(N)
  /\ mp \in 0 .. N - 1 /\ n \in 0 .. N - 1 /\ p \in 0 .. N - 1 /\ mp # n /\ p # mp /\ p # n
  /\ next[p] = mp /\ \A x \in 0 .. N - 1 : next[x] # n /\ (next[x] = mp => x = p)
  /\ new[p] = n /\ new[n] = next[mp] /\ new[mp] = NoNode
  /\ \A x \in 0 .. N - 1 : x \notin {mp, n, p} => new[x] = next[x]

(* MoveOut keeps the chains, with n for mp.                                *)
LEMMA MoveOutReach ==
  ASSUME NEW N \in Nat, NEW next, NEW new, NEW mp, NEW n, NEW p,
         Replaces(N, next, new, mp, n, p),
         NEW q \in 0 .. N - 1, q # n, q # mp, NEW i \in 0 .. N - 1, i # n
  PROVE  LET j == IF i = mp THEN n ELSE i
         IN  /\ Reach(next, q, i) => Reach(new, q, j)
             /\ \A W, V : /\ First(next, q, i, W) /\ mp \notin V
                          /\ V \ {n} \subseteq W /\ (n \in V => mp \in W)
                          => First(new, q, j, V)
<1> USE DEF Linking, Replaces
<1> DEFINE j == IF i = mp THEN n ELSE i
<1>1. DOMAIN next = 0 .. N - 1 /\ DOMAIN new = 0 .. N - 1 OBVIOUS
<1>2. next[mp] # mp /\ next[mp] # n OBVIOUS
<1>3. ASSUME Reach(next, q, i), NEW S \in SUBSET (0 .. N - 1), q \in S, Closed(new, S)
      PROVE  j \in S
  <2> DEFINE R == (S \ {n, mp}) \cup (IF n \in S THEN {mp} ELSE {})
  <2>1. ASSUME NEW x \in R PROVE next[x] \in R \cup {NoNode}
    <3>1. CASE x = mp
      <4>1. n \in S BY <2>1, <3>1
      <4>2. next[mp] \in S \cup {NoNode} BY <1>3, <4>1 DEF Closed
      <4> QED BY <1>2, <3>1, <4>2
    <3>2. CASE x # mp
      <4>1. x \in S /\ x # n /\ x \in 0 .. N - 1 BY <2>1, <3>2
      <4>2. new[x] \in S \cup {NoNode} BY <1>3, <4>1 DEF Closed
      <4>3. CASE x = p
        <5>1. n \in S BY <4>2, <4>3 DEF NoNode
        <5> QED BY <4>3, <5>1
      <4>4. CASE x # p
        <5>1. new[x] = next[x] /\ next[x] # n /\ next[x] # mp BY <3>2, <4>1, <4>4
        <5> QED BY <4>2, <5>1
      <4> QED BY <4>3, <4>4
    <3> QED BY <3>1, <3>2
  <2>2. q \in R /\ R \in SUBSET DOMAIN next BY <1>1, <1>3
  <2> HIDE DEF R
  <2>3. i \in R BY <1>3, <2>1, <2>2 DEF Reach, Closed
  <2> QED BY <2>3 DEF R
<1>4. ASSUME NEW W, NEW V, First(next, q, i, W), mp \notin V, n \in V => mp \in W,
             V \ {n} \subseteq W
      PROVE  First(new, q, j, V)
  <2>1. PICK S : Leads(next, q, i, S, W) BY <1>4 DEF First
  <2>2. /\ S \in SUBSET (0 .. N - 1) /\ q \in S /\ S \cap W \subseteq {i}
        /\ \A x \in S \ {i} : next[x] \in S \cup {NoNode}
    BY <1>1, <2>1 DEF Leads
  <2> DEFINE R == (S \ {n, mp}) \cup (IF mp \in S THEN {n} ELSE {})
  <2>3. ASSUME NEW x \in R, x # j PROVE new[x] \in R \cup {NoNode}
    <3>1. CASE x = n
      <4>1. mp \in S /\ mp # i BY <2>3, <3>1
      <4>2. next[mp] \in S \cup {NoNode} BY <2>2, <4>1
      <4> QED BY <1>2, <3>1, <4>2
    <3>2. CASE x # n
      <4>1. x \in S /\ x # mp /\ x # i /\ x \in 0 .. N - 1 BY <2>2, <2>3, <3>2
      <4>2. next[x] \in S \cup {NoNode} BY <2>2, <4>1
      <4>3. CASE x = p
        <5>1. mp \in S BY <4>2, <4>3 DEF NoNode
        <5> QED BY <4>3, <5>1
      <4>4. CASE x # p
        <5>1. new[x] = next[x] /\ next[x] # n /\ next[x] # mp BY <3>2, <4>1, <4>4
        <5> QED BY <4>2, <5>1
      <4> QED BY <4>3, <4>4
    <3> QED BY <3>1, <3>2
  <2>4. q \in R /\ R \in SUBSET DOMAIN new BY <1>1, <2>2
  <2>5. ASSUME NEW y \in R, y \in V PROVE y = j
    <3>1. CASE y = n
      <4>1. mp \in S /\ mp \in W BY <1>4, <2>5, <3>1
      <4> QED BY <2>2, <3>1, <4>1
    <3>2. CASE y # n
      <4>1. y \in S /\ y \in W /\ y # mp BY <1>4, <2>5, <3>2
      <4> QED BY <2>2, <4>1
    <3> QED BY <3>1, <3>2
  <2> HIDE DEF R
  <2>6. Leads(new, q, j, R, V) BY <2>3, <2>4, <2>5 DEF Leads
  <2> QED BY <2>6 DEF First
<1> QED BY <1>1, <1>3, <1>4 DEF Reach

(* The predecessor of a node that is not in its main position q is in the  *)
(* chain of q too.                                                         *)
LEMMA Predecessor ==
  ASSUME NEW N \in Nat, NEW next \in Linking(N), NEW q \in 0 .. N - 1, NEW mp \in 0 .. N - 1,
         q # mp, Reach(next, q, mp),
         \A x, y \in 0 .. N - 1 : next[x] = next[y] /\ next[x] # NoNode => x = y
  PROVE  \E p \in 0 .. N - 1 : next[p] = mp /\ p # mp /\ Reach(next, q, p)
<1> USE DEF Linking
<1> DEFINE D == 0 .. N - 1
<1>1. DOMAIN next = D OBVIOUS
<1>2. \E p \in D : next[p] = mp /\ p # mp
  <2> SUFFICES ASSUME \A p \in D : next[p] = mp => p = mp PROVE FALSE
    OBVIOUS
  <2>1. Closed(next, D \ {mp}) BY DEF Closed
  <2> QED BY <1>1, <2>1 DEF Reach
<1>3. PICK p \in D : next[p] = mp /\ p # mp BY <1>2
<1>4. mp # NoNode BY DEF NoNode
<1>5. ASSUME NEW S \in SUBSET D, q \in S, Closed(next, S) PROVE p \in S
  <2> SUFFICES ASSUME p \notin S PROVE FALSE OBVIOUS
  <2>1. \A x \in S : next[x] # mp BY <1>3, <1>4
  <2>2. Closed(next, S \ {mp}) BY <1>5, <2>1 DEF Closed
  <2> QED BY <1>1, <1>5, <2>2 DEF Reach
<1> QED BY <1>1, <1>3, <1>5 DEF Reach

-----------------------------------------------------------------------------
(* Inserting                                                               *)

(* g is h with the key k in node i: every key reads as before.             *)
Inserted(g, h, k, i) ==
  /\ Good(g) /\ luaH_get(g, k) = NodeSlot(i)
  /\ g.array = h.array /\ g.dummy = h.dummy /\ g.ok = h.ok /\ DOMAIN g.node = DOMAIN h.node
  /\ \A x \in DOMAIN h.node :
        g.node[x].key = k \/ \E y \in DOMAIN h.node : h.node[y].key = g.node[x].key
  /\ (\A x \in DOMAIN h.node : ~h.node[x].dead) => \A x \in DOMAIN h.node : ~g.node[x].dead
  /\ \A j \in Keys : Get(g, j) = Get(h, j)

(* A key that luaH_get does not find is nowhere.                           *)
LEMMA Absent ==
  ASSUME NEW h, Good(h), NEW k \in Keys, luaH_get(h, k) = NoSlot
  PROVE  k \notin 1 .. sizearray(h) /\ \A x : Live(h, x) => h.node[x].key # k
<1>1. k \notin 1 .. sizearray(h) BY Lookup, Slots
<1>2. ASSUME NEW x, Live(h, x), h.node[x].key = k PROVE FALSE
  <2>1. luaH_get(h, k) = NodeSlot(x) BY <1>2, Lookup
  <2> QED BY <2>1, Slots
<1> QED BY <1>1, <1>2

(* The live nodes of g, but i, and those of h that have a value            *)
KeepsLive(g, h, i) ==
  /\ \A x : Live(g, x) /\ x # i => \E y : /\ Live(h, y) /\ h.node[y].key = g.node[x].key
                                          /\ h.node[y].val = g.node[x].val
  /\ \A y : Live(h, y) /\ h.node[y].val # Nil =>
               \E x : /\ Live(g, x) /\ g.node[x].key = h.node[y].key
                      /\ g.node[x].val = h.node[y].val

(* Insertion keeps what is read when it keeps the live nodes, apart from   *)
(* one that is overwritten where its value is nil.                         *)
LEMMA InsertReads ==
  ASSUME NEW h, Good(h), NEW g, Good(g), g.array = h.array, NEW k \in Keys,
         luaH_get(h, k) = NoSlot, NEW i, Live(g, i), g.node[i].key = k, g.node[i].val = Nil,
         KeepsLive(g, h, i)
  PROVE  luaH_get(g, k) = NodeSlot(i) /\ \A j \in Keys : Get(g, j) = Get(h, j)
<1>1. sizearray(g) = sizearray(h) BY DEF sizearray
<1>2. luaH_get(g, k) = NodeSlot(i) BY Lookup
<1>3. ASSUME NEW j \in Keys PROVE Get(g, j) = Get(h, j)
  <2>1. CASE j \in 1 .. sizearray(h) BY <1>1, <2>1, GetValue
  <2>2. CASE j \notin 1 .. sizearray(h) /\ \A x : ~(Live(g, x) /\ g.node[x].key = j)
    <3>1. Get(g, j) = Nil BY <1>1, <2>2, GetValue
    <3>2. ASSUME NEW y, Live(h, y), h.node[y].key = j PROVE Get(h, j) = Nil
      <4>1. h.node[y].val = Nil BY <2>2, <3>2 DEF KeepsLive
      <4> QED BY <3>2, <4>1, GetValue
    <3> QED BY <2>2, <3>1, <3>2, GetValue
  <2>3. ASSUME NEW x, Live(g, x), g.node[x].key = j PROVE Get(g, j) = Get(h, j)
    <3>1. Get(g, j) = g.node[x].val BY <2>3, GetValue
    <3>2. CASE x = i
      <4>1. j = k BY <2>3, <3>2
      <4>2. Get(h, k) = Nil BY Slots DEF Get
      <4> QED BY <3>1, <3>2, <4>1, <4>2
    <3>3. CASE x # i
      <4>1. PICK y : Live(h, y) /\ h.node[y].key = j /\ h.node[y].val = g.node[x].val
        BY <2>3, <3>3 DEF KeepsLive
      <4>2. Get(h, j) = h.node[y].val BY <4>1, GetValue
      <4> QED BY <3>1, <4>1, <4>2
    <3> QED BY <3>2, <3>3
  <2> QED BY <2>1, <2>2, <2>3
<1> QED BY <1>2, <1>3

(* New nodes in a table that is not the dummy's keep its shape.            *)
LEMMA NewNodes ==
  ASSUME NEW h, Shape(h), ~h.dummy,
         NEW g, g \in TableRec(sizenode(h)), g.array = h.array, g.dummy = h.dummy
  PROVE  /\ Shape(g) /\ sizenode(g) = sizenode(h) /\ sizearray(g) = sizearray(h)
         /\ DOMAIN g.node = DOMAIN h.node
         /\ \A k : mainposition(g, k) = mainposition(h, k)
<1>1. DOMAIN g.node = DOMAIN h.node BY Parts DEF TableRec
<1>2. sizenode(g) = sizenode(h) /\ sizearray(g) = sizearray(h) BY <1>1 DEF sizenode, sizearray
<1>3. Shape(g) BY <1>2 DEF Shape
<1>4. \A k : mainposition(g, k) = mainposition(h, k) BY <1>2, SamePosition
<1> QED BY <1>1, <1>2, <1>3, <1>4

(* h with the key k in the node mp                                         *)
PutNode(h, mp, k) ==
  [h EXCEPT !.node = [h.node EXCEPT ![mp] = [key |-> k, dead |-> FALSE, val |-> Nil,
                                             next |-> h.node[mp].next]],
            !.lastfree = h.lastfree]

(* The key takes its main position when that has no value.                 *)
LEMMA PutInPlace ==
  ASSUME NEW h, Good(h), ~h.dummy, NEW k \in Keys, luaH_get(h, k) = NoSlot,
         h.node[mainposition(h, k)].val = Nil
  PROVE  Inserted(PutNode(h, mainposition(h, k), k), h, k, mainposition(h, k))
<1> DEFINE N == sizenode(h)
           mp == mainposition(h, k)
           g == PutNode(h, mp, k)
           new == [key |-> k, dead |-> FALSE, val |-> Nil, next |-> h.node[mp].next]
           nodes == [h.node EXCEPT ![mp] = new]
<1>1. Shape(h) /\ Linked(h) BY DEF Good
<1>2. /\ N \in Nat \ {0} /\ DOMAIN h.node = 0 .. N - 1 /\ Links(h) \in Linking(N)
      /\ DOMAIN Links(h) = DOMAIN h.node
      /\ \A i \in DOMAIN h.node : h.node[i] \in NodeRec(N) /\ Links(h)[i] = h.node[i].next
  BY <1>1, Parts
<1>3. mp \in 0 .. N - 1 BY <1>2, MainPosition
<1>4. h \in TableRec(N) /\ h.lastfree \in 0 .. N BY <1>1 DEF Shape, TableRec
<1>5. new \in NodeRec(N) BY <1>2, <1>3 DEF NodeRec, Value
<1>6. nodes \in [0 .. N - 1 -> NodeRec(N)] BY <1>2, <1>3, <1>4, <1>5 DEF TableRec
<1>7. /\ g.array = h.array /\ g.node = nodes /\ g.dummy = h.dummy /\ g.lastfree = h.lastfree
      /\ g.ok = h.ok /\ g \in TableRec(N)
  <2>1. g = [h EXCEPT !.node = nodes, !.lastfree = h.lastfree] BY DEF PutNode
  <2> HIDE DEF nodes, g, N
  <2> QED BY <1>4, <1>6, <2>1 DEF TableRec
<1>0. mp = mainposition(h, k) /\ h.node[mp].val = Nil OBVIOUS
<1> HIDE DEF nodes, g, mp
<1>8. /\ Shape(g) /\ sizenode(g) = N /\ sizearray(g) = sizearray(h)
      /\ g.array = h.array /\ g.node = nodes /\ g.dummy = h.dummy /\ g.lastfree = h.lastfree
      /\ g.ok = h.ok /\ DOMAIN g.node = DOMAIN h.node
      /\ \A j : mainposition(g, j) = mainposition(h, j)
  BY <1>1, <1>7, NewNodes
<1>9. /\ g.node[mp].key = k /\ ~g.node[mp].dead /\ g.node[mp].val = Nil
      /\ g.node[mp].next = h.node[mp].next
      /\ \A x \in DOMAIN h.node : x # mp => g.node[x] = h.node[x]
  BY <1>2, <1>3, <1>8 DEF nodes
<1>10. k \notin 1 .. sizearray(h) /\ \A x : Live(h, x) => h.node[x].key # k BY Absent
<1>11. k # Nil BY KeysAssumption
<1>12. Links(g) = Links(h) BY <1>8, <1>9 DEF Links
<1>13. Linked(g)
  <2>1. ASSUME NEW x \in DOMAIN h.node
        PROVE  /\ g.node[x].key = Nil =>
                    /\ g.node[x].val = Nil /\ g.node[x].next = NoNode /\ ~g.node[x].dead
                    /\ \A y \in DOMAIN h.node : g.node[y].next # x
               /\ g.node[x].dead => g.node[x].val = Nil /\ g.node[x].key \in Collectable
               /\ g.node[x].key \notin 1 .. sizearray(h)
    BY <1>1, <1>9, <1>10, <1>11 DEF Linked
  <2>2. \A x, y \in DOMAIN h.node :
           g.node[x].next = g.node[y].next /\ g.node[x].next # NoNode => x = y
    BY <1>1, <1>9 DEF Linked
  <2>3. \A x \in h.lastfree .. N - 1 : x \in DOMAIN h.node BY <1>2, <1>4
  <2>4. \A x \in h.lastfree .. N - 1 : g.node[x].key # Nil
    BY <1>1, <1>9, <1>11, <2>3 DEF Linked
  <2> QED BY <1>8, <2>1, <2>2, <2>4 DEF Linked
<1>14. \A x : Live(g, x) /\ x # mp => Live(h, x) /\ h.node[x] = g.node[x]
  BY <1>8, <1>9 DEF Live
<1>15. Live(g, mp) BY <1>2, <1>3, <1>8, <1>9, <1>11 DEF Live
<1>16. Unique(g) BY <1>8, <1>9, <1>10, <1>14 DEF Good, Unique
<1>17. ASSUME NEW x \in DOMAIN g.node, Live(g, x) PROVE InPlace(g, x)
  <2>1. Home(g, mp) = mp BY <1>0, <1>8, <1>9 DEF Home
  <2>2. CASE x = mp
    <3>1. Reach(Links(g), mp, mp) /\ First(Links(g), mp, mp, AllWithKey(g, k))
      BY <1>2, <1>3, <1>12, ChainStart
    <3> QED BY <1>9, <1>11, <2>1, <2>2, <3>1 DEF InPlace
  <2>3. CASE x # mp
    <3> DEFINE q == Home(h, x)
    <3>1. Live(h, x) /\ h.node[x] = g.node[x] /\ x \in DOMAIN h.node
      BY <1>8, <1>14, <1>17, <2>3
    <3>2. InPlace(h, x) /\ Home(g, x) = q BY <1>8, <3>1 DEF Good, Chained, Home
    <3>3. q \in DOMAIN h.node
      <4>1. h.node[x].key \in Keys BY <1>2, <3>1 DEF Live, NodeRec
      <4> QED BY <1>2, <4>1, MainPosition DEF Home
    <3>4. g.node[q].key # Nil /\ Home(g, q) = q
      <4>1. CASE q = mp BY <1>9, <1>11, <2>1, <4>1
      <4>2. CASE q # mp
        <5>1. g.node[q] = h.node[q] BY <1>9, <3>3, <4>2
        <5> QED BY <1>8, <3>2, <5>1 DEF InPlace, Home
      <4> QED BY <4>1, <4>2
    <3>5. AllWithKey(g, g.node[x].key) \subseteq AllWithKey(h, h.node[x].key)
      BY <1>8, <1>9, <1>10, <3>1 DEF AllWithKey
    <3>6. First(Links(h), q, x, AllWithKey(h, h.node[x].key)) /\ Reach(Links(h), q, x)
      BY <3>2 DEF InPlace
    <3>7. First(Links(g), q, x, AllWithKey(g, g.node[x].key))
      <4>1. PICK S : Leads(Links(h), q, x, S, AllWithKey(h, h.node[x].key)) BY <3>6 DEF First
      <4>2. Leads(Links(g), q, x, S, AllWithKey(g, g.node[x].key))
        BY <1>12, <3>5, <4>1 DEF Leads
      <4> QED BY <4>2 DEF First
    <3> QED BY <1>12, <3>2, <3>4, <3>6, <3>7 DEF InPlace
  <2> QED BY <2>2, <2>3
<1>18. Good(g) BY <1>8, <1>13, <1>16, <1>17 DEF Good, Chained
<1>19. \A x : Live(h, x) /\ h.node[x].val # Nil => Live(g, x) /\ g.node[x] = h.node[x]
  BY <1>0, <1>8, <1>9 DEF Live
<1>20. KeepsLive(g, h, mp) BY <1>14, <1>19 DEF KeepsLive
<1>21. luaH_get(g, k) = NodeSlot(mp) /\ \A j \in Keys : Get(g, j) = Get(h, j)
  BY <1>8, <1>9, <1>15, <1>18, <1>20, InsertReads
<1>22. \A x \in DOMAIN h.node :
          g.node[x].key = k \/ \E y \in DOMAIN h.node : h.node[y].key = g.node[x].key
  BY <1>9
<1>23. (\A x \in DOMAIN h.node : ~h.node[x].dead) => \A x \in DOMAIN h.node : ~g.node[x].dead
  BY <1>9
<1> QED BY <1>8, <1>18, <1>21, <1>22, <1>23 DEF Inserted, g, mp

(* n is the last free node.                                                *)
Free(h, n) ==
  /\ n \in DOMAIN h.node /\ h.node[n].key = Nil
  /\ \A x \in n + 1 .. sizenode(h) - 1 : h.node[x].key # Nil

(* getfreepos finds the last free node, or all nodes are in use.           *)
LEMMA FreePosition ==
  ASSUME NEW h, Shape(h), Linked(h)
  PROVE  /\ getfreepos(h) = NoNode => h.dummy \/ \A x \in DOMAIN h.node : h.node[x].key # Nil
         /\ getfreepos(h) # NoNode => ~h.dummy /\ Free(h, getfreepos(h))
<1> DEFINE N == sizenode(h)
           free == {i \in 0 .. h.lastfree - 1 : h.node[i].key = Nil}
           n == getfreepos(h)
<1>1. N \in Nat \ {0} /\ DOMAIN h.node = 0 .. N - 1 BY Parts
<1>2. h.lastfree \in 0 .. N BY DEF Shape, TableRec
<1>3. n = IF free = {} THEN NoNode ELSE Max(free) BY DEF getfreepos
<1>4. free \in SUBSET (0 .. N) BY <1>1, <1>2
<1>5. ASSUME NEW x \in DOMAIN h.node, x \notin 0 .. h.lastfree - 1, ~h.dummy
      PROVE  h.node[x].key # Nil
  BY <1>1, <1>2, <1>5 DEF Linked
<1>6. CASE free = {}
  <2>1. n = NoNode BY <1>3, <1>6
  <2>2. \A x \in DOMAIN h.node : x \in 0 .. h.lastfree - 1 => h.node[x].key # Nil BY <1>6
  <2> QED BY <1>5, <2>1, <2>2
<1>7. CASE free # {}
  <2>1. n \in free /\ \A y \in free : y <= n
    <3>1. n = Max(free) BY <1>3, <1>7
    <3> HIDE DEF free, n
    <3> QED BY <1>1, <1>4, <1>7, <3>1, GreatestIsMax
  <2> HIDE DEF n
  <2>2. n \in 0 .. h.lastfree - 1 /\ h.node[n].key = Nil BY <2>1
  <2>3. n # NoNode /\ n \in DOMAIN h.node BY <1>1, <1>2, <2>2 DEF NoNode
  <2>4. ~h.dummy BY <1>1, <1>2, <2>2 DEF Shape
  <2>5. ASSUME NEW x \in n + 1 .. N - 1 PROVE h.node[x].key # Nil
    <3>1. x \in DOMAIN h.node /\ ~(x <= n) BY <1>1, <1>2, <2>2
    <3>2. x \notin free
      <4> HIDE DEF free
      <4> QED BY <2>1, <3>1
    <3> QED BY <1>5, <2>4, <3>1, <3>2
  <2> QED BY <2>2, <2>3, <2>4, <2>5 DEF Free, n
<1> QED BY <1>6, <1>7

(* h with the key k in the free node n, behind mp                          *)
ChainNode(h, mp, n, k) ==
  [h EXCEPT !.node = [h.node EXCEPT ![mp] = [h.node[mp] EXCEPT !.next = n],
                                    ![n] = [key |-> k, dead |-> FALSE, val |-> Nil,
                                            next |-> h.node[mp].next]],
            !.lastfree = n]

(* When the node at the main position of the key is in its own, the key    *)
(* goes to a free node, which joins the chain.                             *)
LEMMA ChainInPlace ==
  ASSUME NEW h, Good(h), ~h.dummy, NEW k \in Keys, luaH_get(h, k) = NoSlot,
         h.node[mainposition(h, k)].val # Nil,
         Home(h, mainposition(h, k)) = mainposition(h, k), NEW n, Free(h, n)
  PROVE  Inserted(ChainNode(h, mainposition(h, k), n, k), h, k, n)
<1> DEFINE N == sizenode(h)
           mp == mainposition(h, k)
           g == ChainNode(h, mp, n, k)
           new == [key |-> k, dead |-> FALSE, val |-> Nil, next |-> h.node[mp].next]
           old == [h.node[mp] EXCEPT !.next = n]
           nodes == [h.node EXCEPT ![mp] = old, ![n] = new]
<1>0. mp = mainposition(h, k) /\ h.node[mp].val # Nil /\ Home(h, mp) = mp OBVIOUS
<1>1. Shape(h) /\ Linked(h) BY DEF Good
<1>2. /\ N \in Nat \ {0} /\ DOMAIN h.node = 0 .. N - 1 /\ Links(h) \in Linking(N)
      /\ DOMAIN Links(h) = DOMAIN h.node
      /\ \A i \in DOMAIN h.node : h.node[i] \in NodeRec(N) /\ Links(h)[i] = h.node[i].next
  BY <1>1, Parts
<1>3. mp \in 0 .. N - 1 BY <1>2, MainPosition
<1>4. n \in 0 .. N - 1 /\ h.node[n].key = Nil BY <1>2 DEF Free
<1>5. /\ h.node[n].val = Nil /\ h.node[n].next = NoNode
      /\ \A x \in DOMAIN h.node : h.node[x].next # n
  BY <1>1, <1>2, <1>4 DEF Linked
<1>6. mp # n /\ h.node[mp].key # Nil
  <2>1. h.node[mp].key = Nil => h.node[mp].val = Nil BY <1>1, <1>2, <1>3 DEF Linked
  <2> QED BY <1>0, <1>5, <2>1
<1>7. new \in NodeRec(N) /\ old \in NodeRec(N) BY <1>2, <1>3, <1>4 DEF NodeRec, Value
<1>8. h \in TableRec(N) BY <1>1 DEF Shape
<1>9. nodes \in [0 .. N - 1 -> NodeRec(N)] BY <1>2, <1>3, <1>4, <1>7, <1>8 DEF TableRec
<1>10. /\ g.array = h.array /\ g.node = nodes /\ g.dummy = h.dummy /\ g.lastfree = n
       /\ g.ok = h.ok /\ g \in TableRec(N)
  <2>1. g = [h EXCEPT !.node = nodes, !.lastfree = n] BY DEF ChainNode
  <2>2. n \in 0 .. N BY <1>2, <1>4
  <2> HIDE DEF nodes, g, N
  <2> QED BY <1>8, <1>9, <2>1, <2>2 DEF TableRec
<1> HIDE DEF nodes, g, mp
<1>11. /\ Shape(g) /\ sizenode(g) = N /\ sizearray(g) = sizearray(h)
       /\ DOMAIN g.node = DOMAIN h.node
       /\ \A j : mainposition(g, j) = mainposition(h, j)
  BY <1>1, <1>10, NewNodes
<1>12. /\ g.node[n].key = k /\ ~g.node[n].dead /\ g.node[n].val = Nil
       /\ g.node[n].next = h.node[mp].next
       /\ g.node[mp].key = h.node[mp].key /\ g.node[mp].dead = h.node[mp].dead
       /\ g.node[mp].val = h.node[mp].val /\ g.node[mp].next = n
       /\ \A x \in DOMAIN h.node : x # mp /\ x # n => g.node[x] = h.node[x]
  BY <1>2, <1>3, <1>4, <1>6, <1>10 DEF nodes, NodeRec
<1>13. \A x \in DOMAIN h.node : x # n => /\ g.node[x].key = h.node[x].key
                                         /\ g.node[x].dead = h.node[x].dead
                                         /\ g.node[x].val = h.node[x].val
  BY <1>12
<1>14. k \notin 1 .. sizearray(h) /\ \A x : Live(h, x) => h.node[x].key # k BY Absent
<1>15. k # Nil BY KeysAssumption
<1>16. Links(g) \in Linking(N) /\ DOMAIN Links(g) = DOMAIN h.node
       /\ \A x \in DOMAIN h.node : Links(g)[x] = g.node[x].next
  BY <1>11, Parts
<1>17. Linked(g)
  <2>1. ASSUME NEW x \in DOMAIN h.node
        PROVE  /\ g.node[x].key = Nil =>
                    /\ g.node[x].val = Nil /\ g.node[x].next = NoNode /\ ~g.node[x].dead
                    /\ \A y \in DOMAIN h.node : g.node[y].next # x
               /\ g.node[x].dead => g.node[x].val = Nil /\ g.node[x].key \in Collectable
               /\ g.node[x].key \notin 1 .. sizearray(h)
    <3>1. CASE x = n BY <1>12, <1>14, <1>15, <3>1
    <3>2. CASE x # n
      <4>1. ASSUME g.node[x].key = Nil
            PROVE  /\ x # mp /\ g.node[x].val = Nil /\ g.node[x].next = NoNode /\ ~g.node[x].dead
                   /\ \A y \in DOMAIN h.node : g.node[y].next # x
        <5>1. x # mp /\ h.node[x].key = Nil /\ g.node[x] = h.node[x] BY <1>6, <1>12, <3>2, <4>1
        <5>2. \A y \in DOMAIN h.node : h.node[y].next # x BY <1>1, <5>1 DEF Linked
        <5>3. \A y \in DOMAIN h.node : g.node[y].next # x
          BY <1>2, <1>3, <1>12, <3>2, <5>2
        <5> QED BY <1>1, <5>1, <5>3 DEF Linked
      <4> QED BY <1>1, <1>13, <3>2, <4>1 DEF Linked
    <3> QED BY <3>1, <3>2
  <2>2. ASSUME NEW x \in DOMAIN h.node, NEW y \in DOMAIN h.node,
               g.node[x].next = g.node[y].next, g.node[x].next # NoNode
        PROVE  x = y
    <3>1. \A a, b \in DOMAIN h.node :
             h.node[a].next = h.node[b].next /\ h.node[a].next # NoNode => a = b
      BY <1>1 DEF Linked
    <3>2. \A a \in DOMAIN h.node : a # mp /\ h.node[a].next = h.node[mp].next
                                     => h.node[a].next = NoNode
      BY <1>2, <1>3, <3>1
    <3>3. \A a \in DOMAIN h.node : g.node[a].next = n => a = mp
      BY <1>2, <1>3, <1>5, <1>12
    <3>4. CASE x = mp \/ y = mp BY <1>12, <2>2, <3>3, <3>4
    <3>5. CASE x # mp /\ y # mp BY <1>12, <2>2, <3>1, <3>2, <3>5
    <3> QED BY <3>4, <3>5
  <2>3. ASSUME NEW x \in n .. N - 1 PROVE g.node[x].key # Nil
    <3>1. CASE x = n BY <1>12, <1>15, <3>1
    <3>2. CASE x # n
      <4>1. x \in n + 1 .. N - 1 /\ x \in DOMAIN h.node BY <1>2, <1>4, <3>2
      <4> QED BY <1>13, <3>2, <4>1 DEF Free
    <3> QED BY <3>1, <3>2
  <2> QED BY <1>10, <1>11, <2>1, <2>2, <2>3 DEF Linked
<1>18. \A x : Live(g, x) /\ x # n => /\ Live(h, x) /\ h.node[x].key = g.node[x].key
                                     /\ h.node[x].val = g.node[x].val
  BY <1>11, <1>13 DEF Live
<1>19. Live(g, n) BY <1>2, <1>4, <1>11, <1>12, <1>15 DEF Live
<1>20. Unique(g) BY <1>11, <1>12, <1>14, <1>18 DEF Good, Unique, Live
<1>21. \A x \in 0 .. N - 1 : /\ Links(h)[x] # n
                             /\ x # mp /\ x # n => Links(g)[x] = Links(h)[x]
  BY <1>2, <1>5, <1>12, <1>16
<1>22. Links(g)[mp] = n /\ Links(g)[n] = Links(h)[mp] BY <1>2, <1>3, <1>4, <1>12, <1>16
<1>23. Home(g, n) = mp /\ Home(g, mp) = mp BY <1>0, <1>11, <1>12 DEF Home
<1>24. ASSUME NEW x \in DOMAIN g.node, Live(g, x) PROVE InPlace(g, x)
  <2>1. CASE x = n
    <3>1. Reach(Links(g), mp, n)
      <4> SUFFICES ASSUME NEW S \in SUBSET DOMAIN Links(g), mp \in S, Closed(Links(g), S)
                   PROVE  n \in S
        BY DEF Reach
      <4>1. n # NoNode BY <1>4 DEF NoNode
      <4> QED BY <1>22, <4>1 DEF Closed
    <3>2. Leads(Links(g), mp, n, {mp, n}, AllWithKey(g, k))
      <4>1. mp \notin AllWithKey(g, k)
        <5>1. ~h.node[mp].dead BY <1>0, <1>1, <1>2, <1>3 DEF Linked
        <5>2. Live(h, mp) BY <1>2, <1>3, <1>6, <5>1 DEF Live
        <5> QED BY <1>12, <1>14, <5>2 DEF AllWithKey
      <4> QED BY <1>2, <1>3, <1>4, <1>16, <1>22, <4>1 DEF Leads
    <3>3. First(Links(g), mp, n, AllWithKey(g, k)) BY <3>2 DEF First
    <3> QED BY <1>6, <1>12, <1>23, <2>1, <3>1, <3>3 DEF InPlace
  <2>2. CASE x # n
    <3> DEFINE q == Home(h, x)
    <3>1. Live(h, x) /\ h.node[x].key = g.node[x].key /\ x \in DOMAIN h.node
      BY <1>11, <1>18, <1>24, <2>2
    <3>2. InPlace(h, x) /\ Home(g, x) = q BY <1>11, <3>1 DEF Good, Chained, Home
    <3>3. q \in DOMAIN h.node
      <4>1. h.node[x].key \in Keys BY <1>2, <3>1 DEF Live, NodeRec
      <4> QED BY <1>2, <4>1, MainPosition DEF Home
    <3>4. /\ h.node[q].key # Nil /\ Home(h, q) = q /\ Reach(Links(h), q, x)
          /\ First(Links(h), q, x, AllWithKey(h, h.node[x].key))
      BY <3>2 DEF InPlace
    <3> HIDE DEF q
    <3>5. q # n BY <1>4, <3>4
    <3>6. g.node[q].key # Nil /\ Home(g, q) = q BY <1>11, <1>13, <3>3, <3>4, <3>5 DEF Home
    <3>7. AllWithKey(g, g.node[x].key) \subseteq AllWithKey(h, h.node[x].key) \ {n}
      BY <1>11, <1>12, <1>13, <1>14, <3>1 DEF AllWithKey
    <3> DEFINE W == AllWithKey(h, h.node[x].key)
               V == AllWithKey(g, g.node[x].key)
    <3> HIDE DEF W, V
    <3>8. /\ Reach(Links(h), q, x) => Reach(Links(g), q, x)
          /\ First(Links(h), q, x, W) /\ V \subseteq W \ {n} => First(Links(g), q, x, V)
      <4>1. Joins(N, Links(h), Links(g), mp, n)
        BY <1>2, <1>3, <1>4, <1>6, <1>16, <1>21, <1>22 DEF Joins
      <4>2. q \in 0 .. N - 1 /\ x \in 0 .. N - 1 /\ N \in Nat BY <1>2, <3>1, <3>3
      <4> HIDE DEF N
      <4> QED BY <2>2, <3>5, <4>1, <4>2, ChainInReach
    <3>9. Reach(Links(g), q, x) /\ First(Links(g), q, x, AllWithKey(g, g.node[x].key))
      BY <3>4, <3>7, <3>8 DEF W, V
    <3> QED BY <3>2, <3>6, <3>9 DEF InPlace, q
  <2> QED BY <2>1, <2>2
<1>25. Good(g) BY <1>11, <1>17, <1>20, <1>24 DEF Good, Chained
<1>26. \A x : Live(h, x) => /\ Live(g, x) /\ h.node[x].key = g.node[x].key
                            /\ h.node[x].val = g.node[x].val
  BY <1>4, <1>11, <1>13 DEF Live
<1>27. KeepsLive(g, h, n) BY <1>18, <1>26 DEF KeepsLive
<1>28. luaH_get(g, k) = NodeSlot(n) /\ \A j \in Keys : Get(g, j) = Get(h, j)
  BY <1>10, <1>12, <1>19, <1>25, <1>27, InsertReads
<1>29. \A x \in DOMAIN h.node :
          g.node[x].key = k \/ \E y \in DOMAIN h.node : h.node[y].key = g.node[x].key
  BY <1>12, <1>13
<1>30. (\A x \in DOMAIN h.node : ~h.node[x].dead) => \A x \in DOMAIN h.node : ~g.node[x].dead
  BY <1>12, <1>13
<1> QED BY <1>10, <1>11, <1>25, <1>28, <1>29, <1>30 DEF Inserted, g, mp

(* h with the node at mp moved to n, and the key k in its place            *)
MoveNode(h, mp, n, p, k) ==
  [h EXCEPT !.node = [h.node EXCEPT ![n] = h.node[mp],
                                    ![mp] = [key |-> k, dead |-> FALSE, val |-> Nil,
                                             next |-> NoNode],
                                    ![p] = [h.node[p] EXCEPT !.next = n]],
            !.lastfree = n]

(* When the node at the main position of the key is not in its own, it     *)
(* makes room.                                                             *)
LEMMA MoveInPlace ==
  ASSUME NEW h, Good(h), ~h.dummy, NEW k \in Keys, luaH_get(h, k) = NoSlot,
         h.node[mainposition(h, k)].val # Nil,
         Home(h, mainposition(h, k)) # mainposition(h, k), NEW n, Free(h, n),
         NEW p \in DOMAIN h.node, p # mainposition(h, k), h.node[p].next = mainposition(h, k)
  PROVE  Inserted(MoveNode(h, mainposition(h, k), n, p, k), h, k, mainposition(h, k))
<1> DEFINE N == sizenode(h)
           mp == mainposition(h, k)
           g == MoveNode(h, mp, n, p, k)
           new == [key |-> k, dead |-> FALSE, val |-> Nil, next |-> NoNode]
           old == [h.node[p] EXCEPT !.next = n]
           nodes == [h.node EXCEPT ![n] = h.node[mp], ![mp] = new, ![p] = old]
<1>0. /\ mp = mainposition(h, k) /\ h.node[mp].val # Nil /\ Home(h, mp) # mp
      /\ p # mp /\ h.node[p].next = mp
  OBVIOUS
<1>1. Shape(h) /\ Linked(h) BY DEF Good
<1>2. /\ N \in Nat \ {0} /\ DOMAIN h.node = 0 .. N - 1 /\ Links(h) \in Linking(N)
      /\ DOMAIN Links(h) = DOMAIN h.node
      /\ \A i \in DOMAIN h.node : h.node[i] \in NodeRec(N) /\ Links(h)[i] = h.node[i].next
  BY <1>1, Parts
<1>3. mp \in 0 .. N - 1 /\ mp # NoNode
  <2>1. mp \in 0 .. N - 1 BY <1>2, MainPosition
  <2> HIDE DEF mp
  <2> QED BY <1>2, <2>1 DEF NoNode
<1>4. n \in 0 .. N - 1 /\ h.node[n].key = Nil BY <1>2 DEF Free
<1>5. /\ h.node[n].val = Nil /\ h.node[n].next = NoNode
      /\ \A x \in DOMAIN h.node : h.node[x].next # n
  BY <1>1, <1>2, <1>4 DEF Linked
<1>6. /\ mp # n /\ h.node[mp].key # Nil /\ p # n /\ ~h.node[mp].dead
  <2>1. h.node[mp].key = Nil \/ h.node[mp].dead => h.node[mp].val = Nil
    BY <1>1, <1>2, <1>3 DEF Linked
  <2> QED BY <1>0, <1>3, <1>5, <2>1
<1>7. \A x \in DOMAIN h.node : h.node[x].next = mp => x = p BY <1>0, <1>1, <1>3 DEF Linked
<1>8. new \in NodeRec(N) /\ old \in NodeRec(N) /\ h.node[mp] \in NodeRec(N)
  BY <1>2, <1>3, <1>4 DEF NodeRec, Value
<1>9. h \in TableRec(N) BY <1>1 DEF Shape
<1>10. nodes \in [0 .. N - 1 -> NodeRec(N)]
  <2> HIDE DEF new, old, mp, N
  <2> QED BY <1>2, <1>3, <1>4, <1>8, <1>9 DEF TableRec
<1>11. /\ g.array = h.array /\ g.node = nodes /\ g.dummy = h.dummy /\ g.lastfree = n
       /\ g.ok = h.ok /\ g \in TableRec(N)
  <2>1. g = [h EXCEPT !.node = nodes, !.lastfree = n] BY DEF MoveNode
  <2>2. n \in 0 .. N BY <1>2, <1>4
  <2> HIDE DEF nodes, g, N
  <2> QED BY <1>9, <1>10, <2>1, <2>2 DEF TableRec
<1> HIDE DEF nodes, g, mp
<1>12. /\ Shape(g) /\ sizenode(g) = N /\ sizearray(g) = sizearray(h)
       /\ DOMAIN g.node = DOMAIN h.node
       /\ \A j : mainposition(g, j) = mainposition(h, j)
  BY <1>1, <1>11, NewNodes
<1>13. /\ g.node[n] = h.node[mp] /\ g.node[mp] = new /\ g.node[p] = old
       /\ \A x \in DOMAIN h.node : x \notin {mp, n, p} => g.node[x] = h.node[x]
  <2> HIDE DEF new, old
  <2> QED BY <1>0, <1>2, <1>3, <1>4, <1>6, <1>11 DEF nodes
<1>14. /\ g.node[mp].key = k /\ ~g.node[mp].dead /\ g.node[mp].val = Nil
       /\ g.node[mp].next = NoNode
       /\ g.node[p].key = h.node[p].key /\ g.node[p].dead = h.node[p].dead
       /\ g.node[p].val = h.node[p].val /\ g.node[p].next = n
  <2>1. h.node[p] \in NodeRec(N) BY <1>2
  <2> QED BY <1>13, <2>1 DEF NodeRec
<1>15. \A x \in DOMAIN h.node : x # n /\ x # mp => /\ g.node[x].key = h.node[x].key
                                                   /\ g.node[x].dead = h.node[x].dead
                                                   /\ g.node[x].val = h.node[x].val
  BY <1>13, <1>14
<1>16. \A x \in DOMAIN h.node : x \notin {mp, n, p} => g.node[x].next = h.node[x].next
  BY <1>13
<1> HIDE DEF new, old
<1>17. k \notin 1 .. sizearray(h) /\ \A x : Live(h, x) => h.node[x].key # k BY Absent
<1>18. k # Nil BY KeysAssumption
<1>19. Links(g) \in Linking(N) /\ DOMAIN Links(g) = DOMAIN h.node
       /\ \A x \in DOMAIN h.node : Links(g)[x] = g.node[x].next
  BY <1>12, Parts
<1>20. h.node[mp].next # mp /\ h.node[mp].next # n BY <1>0, <1>2, <1>3, <1>5, <1>7
<1>21. Replaces(N, Links(h), Links(g), mp, n, p)
  <2>1. Links(h)[p] = mp /\ Links(g)[p] = n /\ Links(g)[n] = Links(h)[mp] /\ Links(g)[mp] = NoNode
    BY <1>0, <1>2, <1>3, <1>4, <1>13, <1>14, <1>19
  <2>2. \A x \in 0 .. N - 1 : /\ Links(h)[x] # n /\ (Links(h)[x] = mp => x = p)
                              /\ x \notin {mp, n, p} => Links(g)[x] = Links(h)[x]
    BY <1>2, <1>5, <1>7, <1>16, <1>19
  <2> HIDE DEF N
  <2> QED BY <1>0, <1>2, <1>3, <1>4, <1>6, <1>19, <2>1, <2>2 DEF Replaces
<1>22. Linked(g)
  <2>1. ASSUME NEW x \in DOMAIN h.node
        PROVE  /\ g.node[x].key = Nil =>
                    /\ g.node[x].val = Nil /\ g.node[x].next = NoNode /\ ~g.node[x].dead
                    /\ \A y \in DOMAIN h.node : g.node[y].next # x
               /\ g.node[x].dead => g.node[x].val = Nil /\ g.node[x].key \in Collectable
               /\ g.node[x].key \notin 1 .. sizearray(h)
    <3>1. CASE x = mp BY <1>14, <1>17, <1>18, <3>1
    <3>2. CASE x = n
      <4>1. h.node[mp].key \notin 1 .. sizearray(h) BY <1>1, <1>2, <1>3 DEF Linked
      <4> QED BY <1>6, <1>13, <3>2, <4>1
    <3>3. CASE x # n /\ x # mp
      <4>1. ASSUME g.node[x].key = Nil
            PROVE  /\ g.node[x].val = Nil /\ g.node[x].next = NoNode /\ ~g.node[x].dead
                   /\ \A y \in DOMAIN h.node : g.node[y].next # x
        <5>1. h.node[x].key = Nil BY <1>15, <3>3, <4>1
        <5>2. /\ h.node[x].val = Nil /\ h.node[x].next = NoNode /\ ~h.node[x].dead
              /\ \A y \in DOMAIN h.node : h.node[y].next # x
          BY <1>1, <5>1 DEF Linked
        <5>3. x # p BY <1>0, <1>3, <5>2
        <5>4. g.node[x] = h.node[x] BY <1>13, <3>3, <5>3
        <5>5. ASSUME NEW y \in DOMAIN h.node PROVE g.node[y].next # x
          <6>1. CASE y = mp BY <1>2, <1>14, <6>1 DEF NoNode
          <6>2. CASE y = n BY <1>2, <1>3, <1>13, <5>2, <6>2
          <6>3. CASE y = p BY <1>14, <3>3, <6>3
          <6>4. CASE y \notin {mp, n, p} BY <1>16, <5>2, <6>4
          <6> QED BY <6>1, <6>2, <6>3, <6>4
        <5> QED BY <5>2, <5>4, <5>5
      <4> QED BY <1>1, <1>15, <3>3, <4>1 DEF Linked
    <3> QED BY <3>1, <3>2, <3>3
  <2>2. ASSUME NEW x \in DOMAIN h.node, NEW y \in DOMAIN h.node,
               g.node[x].next = g.node[y].next, g.node[x].next # NoNode
        PROVE  x = y
    <3> DEFINE from(a) == IF a = n THEN mp ELSE a
    <3>1. \A a, b \in DOMAIN h.node :
             h.node[a].next = h.node[b].next /\ h.node[a].next # NoNode => a = b
      BY <1>1 DEF Linked
    <3>2. x # mp /\ y # mp BY <1>14, <2>2
    <3>3. ASSUME NEW a \in DOMAIN h.node, g.node[a].next = n PROVE a = p
      <4>1. CASE a = n BY <1>13, <1>20, <3>3, <4>1
      <4>2. CASE a = mp BY <1>2, <1>4, <1>14, <3>3, <4>2 DEF NoNode
      <4>3. CASE a \notin {mp, n, p} BY <1>5, <1>16, <3>3, <4>3
      <4> QED BY <4>1, <4>2, <4>3
    <3>4. CASE x = p \/ y = p BY <1>14, <2>2, <3>3, <3>4
    <3>5. CASE x # p /\ y # p
      <4>1. g.node[x].next = h.node[from(x)].next /\ from(x) \in DOMAIN h.node
        BY <1>2, <1>3, <1>13, <1>16, <3>2, <3>5
      <4>2. g.node[y].next = h.node[from(y)].next /\ from(y) \in DOMAIN h.node
        BY <1>2, <1>3, <1>13, <1>16, <3>2, <3>5
      <4>3. from(x) = from(y)
        <5> HIDE DEF from
        <5> QED BY <2>2, <3>1, <4>1, <4>2
      <4> QED BY <3>2, <4>3
    <3> QED BY <3>4, <3>5
  <2>3. ASSUME NEW x \in n .. N - 1 PROVE g.node[x].key # Nil
    <3>1. CASE x = n BY <1>6, <1>13, <3>1
    <3>2. CASE x = mp BY <1>14, <1>18, <3>2
    <3>3. CASE x # n /\ x # mp
      <4>1. x \in n + 1 .. N - 1 /\ x \in DOMAIN h.node BY <1>2, <1>4, <3>3
      <4> QED BY <1>15, <3>3, <4>1 DEF Free
    <3> QED BY <3>1, <3>2, <3>3
  <2> QED BY <1>11, <1>12, <2>1, <2>2, <2>3 DEF Linked
<1>23. Live(h, mp) BY <1>2, <1>3, <1>6 DEF Live
<1>24. ~Live(h, n) BY <1>4 DEF Live
<1>25. ASSUME NEW x, Live(g, x), x # mp
       PROVE  LET y == IF x = n THEN mp ELSE x
              IN  /\ Live(h, y) /\ h.node[y].key = g.node[x].key /\ h.node[y].val = g.node[x].val
  BY <1>12, <1>13, <1>15, <1>23, <1>25 DEF Live
<1>26. Live(g, mp) BY <1>2, <1>3, <1>12, <1>14, <1>18 DEF Live
<1>27. Unique(g)
  <2> SUFFICES ASSUME NEW x \in DOMAIN g.node, NEW y \in DOMAIN g.node, Live(g, x), Live(g, y),
                      g.node[x].key = g.node[y].key
               PROVE  x = y
    BY DEF Unique
  <2>1. CASE x = mp \/ y = mp
    <3>1. \A z : Live(g, z) /\ z # mp => g.node[z].key # k BY <1>17, <1>25
    <3> QED BY <1>14, <2>1, <3>1
  <2>2. CASE x # mp /\ y # mp
    <3> DEFINE a == IF x = n THEN mp ELSE x
               b == IF y = n THEN mp ELSE y
    <3>1. Live(h, a) /\ Live(h, b) /\ h.node[a].key = h.node[b].key BY <1>25, <2>2
    <3>2. a \in DOMAIN h.node /\ b \in DOMAIN h.node BY <3>1 DEF Live
    <3>3. a = b
      <4> HIDE DEF a, b
      <4> QED BY <3>1, <3>2 DEF Good, Unique
    <3> QED BY <2>2, <3>3
  <2> QED BY <2>1, <2>2
<1>28. Home(g, mp) = mp BY <1>0, <1>12, <1>14 DEF Home
<1>29. ASSUME NEW x \in DOMAIN g.node, Live(g, x) PROVE InPlace(g, x)
  <2>1. CASE x = mp
    <3>1. Reach(Links(g), mp, mp) /\ First(Links(g), mp, mp, AllWithKey(g, k))
      BY <1>2, <1>3, <1>19, ChainStart
    <3> QED BY <1>14, <1>18, <1>28, <2>1, <3>1 DEF InPlace
  <2>2. CASE x # mp
    <3> DEFINE y == IF x = n THEN mp ELSE x
               q == Home(h, y)
    <3>1. Live(h, y) /\ h.node[y].key = g.node[x].key BY <1>25, <1>29, <2>2
    <3>2. x = IF y = mp THEN n ELSE y BY <2>2
    <3> HIDE DEF y
    <3>3. y \in DOMAIN h.node /\ y # n BY <1>24, <3>1 DEF Live
    <3>4. InPlace(h, y) /\ Home(g, x) = q BY <1>12, <3>1, <3>3 DEF Good, Chained, Home
    <3>5. q \in DOMAIN h.node
      <4>1. h.node[y].key \in Keys BY <1>2, <3>1, <3>3 DEF Live, NodeRec
      <4> QED BY <1>2, <4>1, MainPosition DEF Home
    <3>6. /\ h.node[q].key # Nil /\ Home(h, q) = q /\ Reach(Links(h), q, y)
          /\ First(Links(h), q, y, AllWithKey(h, h.node[y].key))
      BY <3>4 DEF InPlace
    <3> HIDE DEF q
    <3>7. q # n /\ q # mp BY <1>0, <1>4, <3>6
    <3>8. g.node[q].key # Nil /\ Home(g, q) = q BY <1>12, <1>15, <3>5, <3>6, <3>7 DEF Home
    <3> DEFINE W == AllWithKey(h, h.node[y].key)
               V == AllWithKey(g, g.node[x].key)
    <3>9. mp \notin V /\ V \ {n} \subseteq W /\ (n \in V => mp \in W)
      <4>1. g.node[x].key # k BY <1>17, <3>1
      <4>2. mp \notin V BY <1>14, <4>1 DEF AllWithKey
      <4>3. V \ {n} \subseteq W BY <1>12, <1>15, <3>1, <4>2 DEF AllWithKey
      <4>4. n \in V => mp \in W BY <1>2, <1>3, <1>13, <3>1 DEF AllWithKey
      <4> QED BY <4>2, <4>3, <4>4
    <3> HIDE DEF W, V
    <3>10. Reach(Links(g), q, x) /\ First(Links(g), q, x, V)
      <4>1. q \in 0 .. N - 1 /\ y \in 0 .. N - 1 /\ N \in Nat BY <1>2, <3>3, <3>5
      <4> DEFINE j == IF y = mp THEN n ELSE y
      <4> HIDE DEF N
      <4>2. /\ Reach(Links(h), q, y) => Reach(Links(g), q, j)
            /\ /\ First(Links(h), q, y, W) /\ mp \notin V
               /\ V \ {n} \subseteq W /\ (n \in V => mp \in W)
               => First(Links(g), q, j, V)
        BY <1>21, <3>3, <3>7, <4>1, MoveOutReach
      <4>3. j = x BY <3>2
      <4> HIDE DEF j
      <4> QED BY <3>6, <3>9, <4>2, <4>3 DEF W
    <3> QED BY <3>4, <3>8, <3>10 DEF InPlace, q, V
  <2> QED BY <2>1, <2>2
<1>30. Good(g) BY <1>12, <1>22, <1>27, <1>29 DEF Good, Chained
<1>31. ASSUME NEW x, Live(h, x)
       PROVE  LET y == IF x = mp THEN n ELSE x
              IN  /\ Live(g, y) /\ h.node[x].key = g.node[y].key /\ h.node[x].val = g.node[y].val
  BY <1>2, <1>4, <1>6, <1>12, <1>13, <1>15, <1>24, <1>31 DEF Live
<1>32. KeepsLive(g, h, mp)
  <2>1. \A x : Live(g, x) /\ x # mp => \E y : /\ Live(h, y) /\ h.node[y].key = g.node[x].key
                                             /\ h.node[y].val = g.node[x].val
    BY <1>25
  <2>2. \A y : Live(h, y) => \E x : /\ Live(g, x) /\ g.node[x].key = h.node[y].key
                                    /\ g.node[x].val = h.node[y].val
    BY <1>31
  <2> QED BY <2>1, <2>2 DEF KeepsLive
<1>33. luaH_get(g, k) = NodeSlot(mp) /\ \A j \in Keys : Get(g, j) = Get(h, j)
  BY <1>11, <1>14, <1>26, <1>30, <1>32, InsertReads
<1>34. \A x \in DOMAIN h.node :
          g.node[x].key = k \/ \E y \in DOMAIN h.node : h.node[y].key = g.node[x].key
  BY <1>2, <1>3, <1>13, <1>14, <1>15
<1>35. (\A x \in DOMAIN h.node : ~h.node[x].dead) => \A x \in DOMAIN h.node : ~g.node[x].dead
  BY <1>6, <1>13, <1>14, <1>15
<1> QED BY <1>11, <1>12, <1>30, <1>33, <1>34, <1>35 DEF Inserted, g, mp

-----------------------------------------------------------------------------
(* newkey without a rehash                                                 *)

(* Tables are the same when their fields are.                              *)
LEMMA SameTable ==
  ASSUME NEW N, NEW g \in TableRec(N), NEW h \in TableRec(N),
         g.array = h.array, g.node = h.node, g.dummy = h.dummy,
         g.lastfree = h.lastfree, g.ok = h.ok
  PROVE  g = h
BY DEF TableRec

(* Storing the key of an empty node is PutNode: the assertion holds.       *)
LEMMA PutIsNode ==
  ASSUME NEW N \in Nat, NEW h \in TableRec(N), NEW i \in 0 .. N - 1, NEW k \in Keys,
         h.node[i].val = Nil
  PROVE  PutKey(h, i, k) = [t |-> PutNode(h, i, k), slot |-> NodeSlot(i)]
<1> DEFINE b == [h EXCEPT !.node[i].key = k]
           a == [b EXCEPT !.node[i].dead = FALSE]
           m == [h.node[i] EXCEPT !.key = k]
           new == [key |-> k, dead |-> FALSE, val |-> Nil, next |-> h.node[i].next]
           nd == [h.node EXCEPT ![i] = new]
<1>1. h.node \in [0 .. N - 1 -> NodeRec(N)] /\ h.ok \in BOOLEAN BY DEF TableRec
<1>2. h.node[i] \in NodeRec(N) BY <1>1
<1>3. m \in NodeRec(N) /\ [m EXCEPT !.dead = FALSE] = new
  <2>1. /\ m \in NodeRec(N) /\ m.key = k /\ m.val = h.node[i].val /\ m.next = h.node[i].next
    BY <1>2 DEF NodeRec
  <2> DEFINE d == [m EXCEPT !.dead = FALSE]
  <2> HIDE DEF m
  <2>2. d \in NodeRec(N) /\ d.key = k /\ ~d.dead /\ d.val = Nil /\ d.next = h.node[i].next
    BY <2>1 DEF NodeRec
  <2>3. /\ new \in NodeRec(N) /\ new.key = k /\ ~new.dead /\ new.val = Nil
        /\ new.next = h.node[i].next
    BY <1>2 DEF NodeRec, Value
  <2> HIDE DEF d, new
  <2>4. d = new BY <2>2, <2>3 DEF NodeRec
  <2> QED BY <2>1, <2>4 DEF d
<1> HIDE DEF m, new
<1>4. a.node = nd
  <2>1. b \in TableRec(N) /\ b.node = [h.node EXCEPT ![i] = m]
    <3>1. b = [h EXCEPT !.node = [h.node EXCEPT ![i] = m]] BY DEF m
    <3> HIDE DEF b, NodeRec
    <3> QED BY <1>1, <1>3, <3>1 DEF TableRec
  <2>2. b.node[i] = m /\ b.node \in [0 .. N - 1 -> NodeRec(N)] BY <1>1, <2>1 DEF TableRec
  <2> HIDE DEF b, NodeRec
  <2>3. a = [b EXCEPT !.node = [b.node EXCEPT ![i] = [m EXCEPT !.dead = FALSE]]] BY <2>2
  <2>4. a.node = [b.node EXCEPT ![i] = new] BY <1>3, <2>1, <2>3 DEF TableRec
  <2> HIDE DEF a
  <2> QED BY <1>1, <2>1, <2>4
<1>5. nd \in [0 .. N - 1 -> NodeRec(N)]
  <2>1. new \in NodeRec(N) BY <1>2 DEF NodeRec, Value, new
  <2> HIDE DEF NodeRec
  <2> QED BY <1>1, <2>1
<1> HIDE DEF nd
<1>6. /\ a.array = h.array /\ a.dummy = h.dummy /\ a.lastfree = h.lastfree /\ a.ok = h.ok
      /\ a \in TableRec(N)
  BY <1>1, <1>4, <1>5 DEF TableRec
<1> HIDE DEF a
<1>7. /\ Asserting(a, h.node[i].val = Nil) \in TableRec(N)
      /\ Asserting(a, h.node[i].val = Nil).ok = h.ok
      /\ Asserting(a, h.node[i].val = Nil).array = h.array
      /\ Asserting(a, h.node[i].val = Nil).node = nd
      /\ Asserting(a, h.node[i].val = Nil).dummy = h.dummy
      /\ Asserting(a, h.node[i].val = Nil).lastfree = h.lastfree
  BY <1>1, <1>4, <1>6 DEF TableRec, Asserting
<1>8. PutNode(h, i, k) = [h EXCEPT !.node = nd, !.lastfree = h.lastfree] BY DEF PutNode, nd, new
<1>9. /\ PutNode(h, i, k) \in TableRec(N) /\ PutNode(h, i, k).ok = h.ok
      /\ PutNode(h, i, k).array = h.array /\ PutNode(h, i, k).node = nd
      /\ PutNode(h, i, k).dummy = h.dummy /\ PutNode(h, i, k).lastfree = h.lastfree
  BY <1>5, <1>8 DEF TableRec
<1>10. Asserting(a, h.node[i].val = Nil) = PutNode(h, i, k)
  BY <1>7, <1>9, SameTable
<1> QED BY <1>10 DEF PutKey, a, b

(* A field of a node is written.                                           *)
LEMMA LinkWritten ==
  ASSUME NEW N \in Nat, NEW h \in TableRec(N), NEW i \in 0 .. N - 1,
         NEW x \in {NoNode} \cup 0 .. N - 1
  PROVE  LET g == [h EXCEPT !.node[i].next = x]
         IN  /\ g \in TableRec(N) /\ g.array = h.array /\ g.dummy = h.dummy
             /\ g.lastfree = h.lastfree /\ g.ok = h.ok
             /\ g.node = [h.node EXCEPT ![i] = [h.node[i] EXCEPT !.next = x]]
             /\ g.node[i].next = x /\ g.node[i].val = h.node[i].val
             /\ \A j \in 0 .. N - 1 : j # i => g.node[j] = h.node[j]
<1> DEFINE m == [h.node[i] EXCEPT !.next = x]
           g == [h EXCEPT !.node[i].next = x]
<1>1. h.node \in [0 .. N - 1 -> NodeRec(N)] BY DEF TableRec
<1>2. h.node[i] \in NodeRec(N) BY <1>1
<1>3. m \in NodeRec(N) /\ m.next = x /\ m.val = h.node[i].val BY <1>2 DEF NodeRec
<1>4. g = [h EXCEPT !.node = [h.node EXCEPT ![i] = m]] OBVIOUS
<1> HIDE DEF m, g, NodeRec
<1>5. /\ g \in TableRec(N) /\ g.array = h.array /\ g.dummy = h.dummy
      /\ g.lastfree = h.lastfree /\ g.ok = h.ok /\ g.node = [h.node EXCEPT ![i] = m]
  BY <1>1, <1>3, <1>4 DEF TableRec
<1>6. g.node[i] = m /\ \A j \in 0 .. N - 1 : j # i => g.node[j] = h.node[j] BY <1>1, <1>5
<1> QED BY <1>3, <1>5, <1>6 DEF m, g

(* The free node is chained in behind the main position.                   *)
LEMMA ChainIsNode ==
  ASSUME NEW N \in Nat, NEW h \in TableRec(N), NEW mp \in 0 .. N - 1, NEW n \in 0 .. N - 1,
         mp # n, NEW k \in Keys, h.node[n].val = Nil
  PROVE  PutKey(ChainIn([h EXCEPT !.lastfree = n], mp, n), n, k)
           = [t |-> ChainNode(h, mp, n, k), slot |-> NodeSlot(n)]
<1> DEFINE g == [h EXCEPT !.lastfree = n]
           a == [g EXCEPT !.node[n].next = g.node[mp].next]
           c == [a EXCEPT !.node[mp].next = n]
           new == [key |-> k, dead |-> FALSE, val |-> Nil, next |-> h.node[mp].next]
           m == [h.node[mp] EXCEPT !.next = n]
           nodes == [h.node EXCEPT ![mp] = m, ![n] = new]
<1>1. /\ g \in TableRec(N) /\ g.node = h.node /\ g.array = h.array /\ g.dummy = h.dummy
      /\ g.lastfree = n /\ g.ok = h.ok
  BY SMTT(30) DEF TableRec
<1>0. h.node \in [0 .. N - 1 -> NodeRec(N)] BY DEF TableRec
<1>2. h.node[mp] \in NodeRec(N) /\ h.node[mp].next \in {NoNode} \cup 0 .. N - 1
  BY <1>0 DEF NodeRec
<1>3. c = ChainIn(g, mp, n) BY DEF ChainIn
<1> HIDE DEF g
<1>4. /\ a \in TableRec(N) /\ a.array = h.array /\ a.dummy = h.dummy
      /\ a.lastfree = n /\ a.ok = h.ok /\ a.node[n].next = h.node[mp].next
      /\ a.node[n].val = Nil /\ \A j \in 0 .. N - 1 : j # n => a.node[j] = h.node[j]
  BY <1>1, <1>2, LinkWritten
<1> HIDE DEF a
<1>5. /\ c \in TableRec(N) /\ c.array = h.array /\ c.dummy = h.dummy
      /\ c.lastfree = n /\ c.ok = h.ok /\ c.node[n].next = h.node[mp].next
      /\ c.node[n].val = Nil /\ \A j \in 0 .. N - 1 : j # n /\ j # mp => c.node[j] = h.node[j]
      /\ c.node[mp] = m
  <2>1. /\ c \in TableRec(N) /\ c.array = a.array /\ c.dummy = a.dummy
        /\ c.lastfree = a.lastfree /\ c.ok = a.ok
        /\ c.node = [a.node EXCEPT ![mp] = [a.node[mp] EXCEPT !.next = n]]
        /\ \A j \in 0 .. N - 1 : j # mp => c.node[j] = a.node[j]
    BY <1>4, LinkWritten
  <2>2. a.node[mp] = h.node[mp] /\ a.node \in [0 .. N - 1 -> NodeRec(N)]
    BY <1>4 DEF TableRec
  <2>3. c.node[mp] = m BY <2>1, <2>2
  <2> HIDE DEF c, m
  <2> QED BY <1>4, <2>1, <2>3
<1> HIDE DEF c, m
<1>6. PutKey(c, n, k) = [t |-> PutNode(c, n, k), slot |-> NodeSlot(n)]
  BY <1>5, PutIsNode
<1> DEFINE pn == [c.node EXCEPT ![n] = new]
<1>7. PutNode(c, n, k) = [c EXCEPT !.node = pn, !.lastfree = c.lastfree]
  BY <1>5 DEF PutNode
<1>8. ChainNode(h, mp, n, k) = [h EXCEPT !.node = nodes, !.lastfree = n] BY DEF ChainNode, m
<1>9. new \in NodeRec(N) BY <1>2 DEF NodeRec, Value
<1> HIDE DEF new
<1>10. pn \in [0 .. N - 1 -> NodeRec(N)] /\ pn = nodes
  <2>1. c.node \in [0 .. N - 1 -> NodeRec(N)] BY <1>5 DEF TableRec
  <2>2. c.node[mp] = m /\ m \in NodeRec(N) BY <1>5, <2>1
  <2>3. pn \in [0 .. N - 1 -> NodeRec(N)] /\ nodes \in [0 .. N - 1 -> NodeRec(N)]
    BY <1>0, <1>9, <2>1, <2>2
  <2>4. \A j \in 0 .. N - 1 : pn[j] = nodes[j] BY <1>0, <1>5, <2>1
  <2> HIDE DEF pn, nodes
  <2> QED BY <2>3, <2>4
<1> HIDE DEF pn, nodes
<1>11. PutNode(c, n, k) = ChainNode(h, mp, n, k)
  <2> DEFINE p == PutNode(c, n, k)
             q == ChainNode(h, mp, n, k)
  <2>1. /\ p \in TableRec(N) /\ p.ok = h.ok /\ p.array = h.array /\ p.node = pn
        /\ p.dummy = h.dummy /\ p.lastfree = n
    <3> HIDE DEF NodeRec
    <3>1. n \in 0 .. N OBVIOUS
    <3>2. p = [c EXCEPT !.node = pn, !.lastfree = n] BY <1>5, <1>7
    <3> HIDE DEF p
    <3> QED BY <1>5, <3>1, <3>2, <1>10 DEF TableRec
  <2>2. /\ q \in TableRec(N) /\ q.ok = h.ok /\ q.array = h.array /\ q.node = nodes
        /\ q.dummy = h.dummy /\ q.lastfree = n
    <3>1. n \in 0 .. N OBVIOUS
    <3>2. q = [h EXCEPT !.node = nodes, !.lastfree = n] BY <1>8
    <3>3. nodes \in [0 .. N - 1 -> NodeRec(N)] BY <1>10
    <3> HIDE DEF q
    <3> QED BY <3>1, <3>2, <3>3 DEF TableRec
  <2> HIDE DEF p, q
  <2>3. p = q BY <1>10, <2>1, <2>2, SameTable
  <2> QED BY <2>3 DEF p, q
<1> QED BY <1>3, <1>6, <1>11 DEF g

(* The value of a node is written.                                         *)
LEMMA ValueWritten ==
  ASSUME NEW N \in Nat, NEW h \in TableRec(N), NEW i \in 0 .. N - 1, NEW v \in Value
  PROVE  LET g == [h EXCEPT !.node[i].val = v]
         IN  /\ g \in TableRec(N) /\ g.array = h.array /\ g.dummy = h.dummy
             /\ g.lastfree = h.lastfree /\ g.ok = h.ok
             /\ g.node[i].next = h.node[i].next /\ g.node[i].val = v
             /\ \A j \in 0 .. N - 1 : j # i => g.node[j] = h.node[j]
<1> DEFINE m == [h.node[i] EXCEPT !.val = v]
           g == [h EXCEPT !.node[i].val = v]
<1>1. h.node \in [0 .. N - 1 -> NodeRec(N)] BY DEF TableRec
<1>2. h.node[i] \in NodeRec(N) BY <1>1
<1>3. m \in NodeRec(N) /\ m.val = v /\ m.next = h.node[i].next BY <1>2 DEF NodeRec
<1>4. g = [h EXCEPT !.node = [h.node EXCEPT ![i] = m]] OBVIOUS
<1> HIDE DEF m, g, NodeRec
<1>5. /\ g \in TableRec(N) /\ g.array = h.array /\ g.dummy = h.dummy
      /\ g.lastfree = h.lastfree /\ g.ok = h.ok /\ g.node = [h.node EXCEPT ![i] = m]
  BY <1>1, <1>3, <1>4 DEF TableRec
<1>6. g.node[i] = m /\ \A j \in 0 .. N - 1 : j # i => g.node[j] = h.node[j] BY <1>1, <1>5
<1> QED BY <1>3, <1>5, <1>6 DEF m, g

(* What MoveOut writes, p the node before mp                               *)
MovedOut(h, mp, n, p) ==
  [[[[[h EXCEPT !.lastfree = n] EXCEPT !.node[n] = h.node[mp]]
       EXCEPT !.node[mp].next = NoNode] EXCEPT !.node[mp].val = Nil]
       EXCEPT !.node[p].next = n]

(* The colliding node moves to the free one.                               *)
LEMMA MoveIsNode ==
  ASSUME NEW N \in Nat, NEW h \in TableRec(N), NEW mp \in 0 .. N - 1, NEW n \in 0 .. N - 1,
         NEW p \in 0 .. N - 1, mp # n, p # mp, p # n, NEW k \in Keys
  PROVE  PutKey(MovedOut(h, mp, n, p), mp, k)
           = [t |-> MoveNode(h, mp, n, p, k), slot |-> NodeSlot(mp)]
<1> DEFINE g == [h EXCEPT !.lastfree = n]
           a == [g EXCEPT !.node[n] = h.node[mp]]
           b == [a EXCEPT !.node[mp].next = NoNode]
           c == [b EXCEPT !.node[mp].val = Nil]
           d == [c EXCEPT !.node[p].next = n]
           new == [key |-> k, dead |-> FALSE, val |-> Nil, next |-> NoNode]
           m == [h.node[p] EXCEPT !.next = n]
           nodes == [h.node EXCEPT ![n] = h.node[mp], ![mp] = new, ![p] = m]
           pn == [d.node EXCEPT ![mp] = new]
<1>0. h.node \in [0 .. N - 1 -> NodeRec(N)] /\ n \in 0 .. N BY DEF TableRec
<1>1. /\ g \in TableRec(N) /\ g.node = h.node /\ g.array = h.array /\ g.dummy = h.dummy
      /\ g.lastfree = n /\ g.ok = h.ok
  <2> HIDE DEF NodeRec
  <2> QED BY <1>0 DEF TableRec
<1>2. h.node[mp] \in NodeRec(N) /\ h.node[p] \in NodeRec(N) BY <1>0
<1>3. d = MovedOut(h, mp, n, p) BY DEF MovedOut
<1> HIDE DEF g
<1>4. /\ a \in TableRec(N) /\ a.array = h.array /\ a.dummy = h.dummy
      /\ a.lastfree = n /\ a.ok = h.ok /\ a.node[n] = h.node[mp]
      /\ \A j \in 0 .. N - 1 : j # n => a.node[j] = h.node[j]
  <2> HIDE DEF NodeRec
  <2>1. a = [g EXCEPT !.node = [h.node EXCEPT ![n] = h.node[mp]]] BY <1>1
  <2> HIDE DEF a
  <2>2. /\ a \in TableRec(N) /\ a.array = h.array /\ a.dummy = h.dummy /\ a.lastfree = n
        /\ a.ok = h.ok /\ a.node = [h.node EXCEPT ![n] = h.node[mp]]
    BY <1>0, <1>1, <1>2, <2>1 DEF TableRec
  <2> QED BY <1>0, <2>2
<1> HIDE DEF a
<1>5. /\ b \in TableRec(N) /\ b.array = h.array /\ b.dummy = h.dummy
      /\ b.lastfree = n /\ b.ok = h.ok /\ b.node[mp].next = NoNode
      /\ \A j \in 0 .. N - 1 : j # mp => b.node[j] = a.node[j]
  BY <1>4, LinkWritten, SMTT(30)
<1> HIDE DEF b
<1>6. /\ c \in TableRec(N) /\ c.array = h.array /\ c.dummy = h.dummy
      /\ c.lastfree = n /\ c.ok = h.ok /\ c.node[mp].next = NoNode /\ c.node[mp].val = Nil
      /\ \A j \in 0 .. N - 1 : j # mp => c.node[j] = b.node[j]
  <2>1. Nil \in Value BY DEF Value
  <2> QED BY <1>5, <2>1, ValueWritten
<1> HIDE DEF c
<1>7. /\ d \in TableRec(N) /\ d.array = h.array /\ d.dummy = h.dummy
      /\ d.lastfree = n /\ d.ok = h.ok
      /\ d.node = [c.node EXCEPT ![p] = [c.node[p] EXCEPT !.next = n]]
      /\ \A j \in 0 .. N - 1 : j # p => d.node[j] = c.node[j]
  BY <1>6, LinkWritten
<1>8. c.node[p] = h.node[p] /\ c.node[n] = h.node[mp] BY <1>4, <1>5, <1>6
<1>9. d.node[p] = m /\ d.node[mp].val = Nil /\ d.node[mp].next = NoNode
  <2>1. c.node \in [0 .. N - 1 -> NodeRec(N)] BY <1>6 DEF TableRec
  <2>2. d.node[p] = m BY <1>7, <1>8, <2>1
  <2> HIDE DEF d, m
  <2> QED BY <1>6, <1>7, <2>2
<1> HIDE DEF d, m
<1>10. PutKey(d, mp, k) = [t |-> PutNode(d, mp, k), slot |-> NodeSlot(mp)]
  <2>1. d \in TableRec(N) BY <1>7
  <2>2. d.node[mp].val = Nil BY <1>9
  <2> QED BY <2>1, <2>2, PutIsNode
<1>11. PutNode(d, mp, k) = [d EXCEPT !.node = pn, !.lastfree = n]
  <2>1. d.node[mp].next = NoNode /\ d.lastfree = n BY <1>7, <1>9
  <2> QED BY <2>1 DEF PutNode
<1>12. MoveNode(h, mp, n, p, k) = [h EXCEPT !.node = nodes, !.lastfree = n] BY DEF MoveNode, m
<1>13. new \in NodeRec(N) BY <1>2 DEF NodeRec, Value
<1> HIDE DEF new
<1>14. pn \in [0 .. N - 1 -> NodeRec(N)] /\ pn = nodes
  <2>1. d.node \in [0 .. N - 1 -> NodeRec(N)] BY <1>7 DEF TableRec
  <2>2. d.node[p] = m /\ m \in NodeRec(N) BY <1>9, <2>1
  <2>3. pn \in [0 .. N - 1 -> NodeRec(N)] /\ nodes \in [0 .. N - 1 -> NodeRec(N)]
    BY <1>0, <1>2, <1>13, <2>1, <2>2
  <2>4. ASSUME NEW j \in 0 .. N - 1 PROVE pn[j] = nodes[j]
    <3>1. CASE j = mp BY <1>0, <2>1, <3>1
    <3>2. CASE j = p BY <1>0, <1>9, <2>1, <3>2
    <3>3. CASE j = n BY <1>0, <1>7, <1>8, <2>1, <3>3
    <3>4. CASE j \notin {mp, p, n}
      <4>1. d.node[j] = h.node[j] BY <1>4, <1>5, <1>6, <1>7, <3>4
      <4> QED BY <1>0, <2>1, <3>4, <4>1
    <3> QED BY <3>1, <3>2, <3>3, <3>4
  <2> HIDE DEF pn, nodes
  <2> QED BY <2>3, <2>4
<1> HIDE DEF pn, nodes
<1>15. PutNode(d, mp, k) = MoveNode(h, mp, n, p, k)
  <2> DEFINE x == PutNode(d, mp, k)
             y == MoveNode(h, mp, n, p, k)
  <2>1. /\ x \in TableRec(N) /\ x.ok = h.ok /\ x.array = h.array /\ x.node = pn
        /\ x.dummy = h.dummy /\ x.lastfree = n
    <3> HIDE DEF NodeRec
    <3>1. x = [d EXCEPT !.node = pn, !.lastfree = n] BY <1>11
    <3> HIDE DEF x
    <3> QED BY <1>0, <1>7, <3>1, <1>14 DEF TableRec
  <2>2. /\ y \in TableRec(N) /\ y.ok = h.ok /\ y.array = h.array /\ y.node = nodes
        /\ y.dummy = h.dummy /\ y.lastfree = n
    <3> HIDE DEF NodeRec
    <3>1. y = [h EXCEPT !.node = nodes, !.lastfree = n] BY <1>12
    <3>2. nodes \in [0 .. N - 1 -> NodeRec(N)] BY <1>14
    <3> HIDE DEF y
    <3> QED BY <1>0, <3>1, <3>2 DEF TableRec
  <2> HIDE DEF x, y
  <2>3. x = y BY <1>14, <2>1, <2>2, SameTable
  <2> QED BY <2>3 DEF x, y
<1> QED BY <1>3, <1>10, <1>15

(* Where a key has room it is inserted; otherwise nothing has changed and  *)
(* no node is unused.                                                      *)
Placed(r, h, k) ==
  \/ /\ r.slot = NoSlot /\ r.t = h
     /\ h.dummy \/ \A x \in DOMAIN h.node : h.node[x].key # Nil
  \/ \E i \in DOMAIN h.node : r.slot = NodeSlot(i) /\ Inserted(r.t, h, k, i)

(* A node that is moved is found in the chain of its main position.        *)
LEMMA MoveFinds ==
  ASSUME NEW h, Good(h), ~h.dummy, NEW k \in Keys,
         h.node[mainposition(h, k)].val # Nil,
         Home(h, mainposition(h, k)) # mainposition(h, k), NEW n, Free(h, n)
  PROVE  LET mp == mainposition(h, k)
             linked == {i \in DOMAIN h.node : h.node[i].next = mp}
             p == InChain(Links(h), Home(h, mp), linked)
         IN  p \in DOMAIN h.node /\ p # mp /\ p # n /\ h.node[p].next = mp
<1> DEFINE N == sizenode(h)
           mp == mainposition(h, k)
           q == Home(h, mp)
           linked == {i \in DOMAIN h.node : h.node[i].next = mp}
<1>1. Shape(h) /\ Linked(h) /\ Chained(h) BY DEF Good
<1>2. /\ N \in Nat \ {0} /\ DOMAIN h.node = 0 .. N - 1 /\ Links(h) \in Linking(N)
      /\ \A i \in DOMAIN h.node : h.node[i] \in NodeRec(N) /\ Links(h)[i] = h.node[i].next
  BY <1>1, Parts
<1>3. mp \in 0 .. N - 1 BY <1>2, MainPosition
<1>4. Live(h, mp) BY <1>1, <1>2, <1>3 DEF Linked, Live
<1>5. Reach(Links(h), q, mp) BY <1>1, <1>2, <1>3, <1>4 DEF Chained, InPlace
<1>6. q \in 0 .. N - 1
  <2>1. h.node[mp].key \in Keys BY <1>2, <1>3, <1>4 DEF NodeRec, Live
  <2> QED BY <1>2, <2>1, MainPosition DEF Home
<1>7. \A x, y \in 0 .. N - 1 : Links(h)[x] = Links(h)[y] /\ Links(h)[x] # NoNode => x = y
  BY <1>1, <1>2 DEF Linked
<1>8. q # mp /\ mp # NoNode BY <1>3 DEF NoNode
<1> HIDE DEF N, mp, q
<1>9. PICK p \in 0 .. N - 1 : Links(h)[p] = mp /\ p # mp /\ Reach(Links(h), q, p)
  BY <1>2, <1>3, <1>5, <1>6, <1>7, <1>8, Predecessor
<1>10. linked = {p}
  <2>1. h.node[p].next = mp /\ p \in DOMAIN h.node BY <1>2, <1>9
  <2>2. ASSUME NEW x \in linked PROVE x = p
    BY <1>2, <1>7, <1>8, <2>1
  <2> QED BY <2>1, <2>2
<1>11. InChain(Links(h), q, linked) = p
  <2>1. linked \in SUBSET (0 .. N - 1) /\ p \in linked /\ linked \cap (0 .. N - 1) \subseteq {p}
    BY <1>9, <1>10
  <2> HIDE DEF linked
  <2>2. First(Links(h), q, p, linked) BY <1>2, <1>6, <2>1, OnlyFirst
  <2> QED BY <1>2, <1>6, <1>9, <2>1, <2>2, ChainFinds
<1>12. p # n
  <2>1. n \in DOMAIN h.node /\ h.node[n].next = NoNode BY <1>1 DEF Free, Linked
  <2> QED BY <1>2, <1>8, <1>9, <2>1
<1>13. p \in DOMAIN h.node /\ h.node[p].next = mp BY <1>2, <1>9
<1> QED BY <1>9, <1>11, <1>12, <1>13 DEF mp, q

(* PlaceKey inserts the key or finds no node unused.                       *)
LEMMA PlaceInRoom ==
  ASSUME NEW h, Good(h), NEW k \in Keys, luaH_get(h, k) = NoSlot
  PROVE  Placed(PlaceKey(h, k), h, k)
<1> DEFINE N == sizenode(h)
           mp == mainposition(h, k)
           n == getfreepos(h)
           g == [h EXCEPT !.lastfree = n]
<1>1. Shape(h) /\ Linked(h) BY DEF Good
<1>2. /\ N \in Nat \ {0} /\ DOMAIN h.node = 0 .. N - 1
      /\ \A i \in DOMAIN h.node : h.node[i] \in NodeRec(N)
  BY <1>1, Parts
<1>3. mp \in 0 .. N - 1 BY <1>2, MainPosition
<1>4. h \in TableRec(N) BY <1>1 DEF Shape
<1>5. CASE h.node[mp].val = Nil /\ ~h.dummy
  <2>1. PlaceKey(h, k) = PutKey(h, mp, k) BY <1>5 DEF PlaceKey
  <2>2. Inserted(PutNode(h, mp, k), h, k, mp) BY <1>5, PutInPlace
  <2>3. h.node[mp].val = Nil BY <1>5
  <2> HIDE DEF N, mp
  <2>4. PutKey(h, mp, k) = [t |-> PutNode(h, mp, k), slot |-> NodeSlot(mp)]
    BY <1>2, <1>3, <1>4, <2>3, PutIsNode
  <2> QED BY <1>2, <1>3, <2>1, <2>2, <2>4 DEF Placed
<1>6. CASE ~(h.node[mp].val = Nil /\ ~h.dummy) /\ n = NoNode
  <2>1. PlaceKey(h, k) = [t |-> h, slot |-> NoSlot] BY <1>6 DEF PlaceKey
  <2>2. h.dummy \/ \A x \in DOMAIN h.node : h.node[x].key # Nil
    BY <1>1, <1>6, FreePosition
  <2> QED BY <2>1, <2>2 DEF Placed
<1>7. CASE ~(h.node[mp].val = Nil /\ ~h.dummy) /\ n # NoNode
  <2>1. ~h.dummy /\ Free(h, n) BY <1>1, <1>7, FreePosition
  <2>2. h.node[mp].val # Nil BY <1>7, <2>1
  <2>3. n \in 0 .. N - 1 /\ n # mp /\ h.node[n].val = Nil
    BY <1>1, <1>2, <2>1, <2>2 DEF Free, Linked
  <2>4. CASE Home(h, mp) = mp
    <3>1. PlaceKey(h, k) = PutKey(ChainIn(g, mp, n), n, k)
      BY <1>7, <2>4 DEF PlaceKey, Home
    <3>2. Inserted(ChainNode(h, mp, n, k), h, k, n) BY <2>1, <2>2, <2>4, ChainInPlace
    <3> HIDE DEF N, mp, n
    <3>3. PutKey(ChainIn(g, mp, n), n, k) = [t |-> ChainNode(h, mp, n, k), slot |-> NodeSlot(n)]
      BY <1>2, <1>3, <1>4, <2>3, ChainIsNode
    <3> QED BY <1>2, <2>3, <3>1, <3>2, <3>3 DEF Placed
  <2>5. CASE Home(h, mp) # mp
    <3> DEFINE linked == {i \in DOMAIN h.node : h.node[i].next = mp}
               p == InChain(Links(h), Home(h, mp), linked)
               b == MovedOut(h, mp, n, p)
    <3>1. PlaceKey(h, k) = PutKey(MoveOut(g, mp, n), mp, k)
      BY <1>7, <2>5 DEF PlaceKey, Home
    <3>2. p \in DOMAIN h.node /\ p # mp /\ p # n /\ h.node[p].next = mp
      BY <2>1, <2>2, <2>5, MoveFinds
    <3>3. Inserted(MoveNode(h, mp, n, p, k), h, k, mp)
      <4> HIDE DEF p
      <4> QED BY <2>1, <2>2, <2>5, <3>2, MoveInPlace
    <3>4. g.node = h.node /\ sizenode(g) = sizenode(h) /\ Links(g) = Links(h)
      <4>1. g.node = h.node BY <1>4 DEF TableRec
      <4> QED BY <4>1 DEF sizenode, Links
    <3>5. mainposition(g, g.node[mp].key) = Home(h, mp) BY <3>4, SamePosition DEF Home
    <3>6. p # NoNode BY <1>2, <3>2 DEF NoNode
    <3>7. MoveOut(g, mp, n) = b
      <4>1. InChain(Links(g), mainposition(g, g.node[mp].key),
                    {i \in DOMAIN g.node : g.node[i].next = mp}) = p
        BY <3>4, <3>5
      <4> HIDE DEF p, g, mp, n
      <4>2. MoveOut(g, mp, n)
              = [[[[g EXCEPT !.node[n] = h.node[mp]] EXCEPT !.node[mp].next = NoNode]
                     EXCEPT !.node[mp].val = Nil] EXCEPT !.node[p].next = n]
        BY <3>4, <3>6, <4>1 DEF MoveOut
      <4> QED BY <4>2 DEF MovedOut, g
    <3> HIDE DEF N, mp, n, p
    <3>8. p \in 0 .. N - 1 /\ p # mp /\ p # n /\ mp # n BY <1>2, <2>3, <3>2
    <3>9. PutKey(b, mp, k) = [t |-> MoveNode(h, mp, n, p, k), slot |-> NodeSlot(mp)]
      BY <1>2, <1>3, <1>4, <2>3, <3>8, MoveIsNode
    <3>10. PlaceKey(h, k) = [t |-> MoveNode(h, mp, n, p, k), slot |-> NodeSlot(mp)]
      <4> HIDE DEF b
      <4> QED BY <3>1, <3>7, <3>9
    <3> QED BY <1>2, <1>3, <3>3, <3>10 DEF Placed
  <2> QED BY <2>4, <2>5
<1> QED BY <1>5, <1>6, <1>7

-----------------------------------------------------------------------------
(* Filling new parts                                                       *)

(* The nodes hold no dead key and no key but those of K, for which there   *)
(* are nodes enough.                                                       *)
Fresh(h, K) ==
  /\ \A x \in DOMAIN h.node : ~h.node[x].dead /\ h.node[x].key \in K \cup {Nil}
  /\ K \subseteq Keys /\ Cardinality(K) <= sizenode(h) /\ (h.dummy => K = {})

(* The result of luaH_set: the slot of the key, and all as it was.         *)
Ready(r, h, k) ==
  /\ Good(r.t) /\ r.slot = luaH_get(r.t, k) /\ r.slot # NoSlot
  /\ r.t.ok = h.ok /\ \A j \in Keys : Get(r.t, j) = Get(h, j)

(* A key for which there is a node finds one unused.                       *)
LEMMA RoomLeft ==
  ASSUME NEW h, Good(h), NEW K, Fresh(h, K), NEW k \in K, luaH_get(h, k) = NoSlot
  PROVE  ~h.dummy /\ \E x \in DOMAIN h.node : h.node[x].key = Nil
<1>1. Shape(h) /\ Unique(h) BY DEF Good
<1>2. K \subseteq Keys /\ Cardinality(K) <= sizenode(h) /\ ~h.dummy BY DEF Fresh
<1>3. SUFFICES ASSUME \A x \in DOMAIN h.node : h.node[x].key # Nil PROVE FALSE BY <1>2
<1> DEFINE D == DOMAIN h.node
           L == K \ {k}
           f == [x \in D |-> h.node[x].key]
<1>4. sizenode(h) \in Nat /\ D = 0 .. sizenode(h) - 1 BY <1>1, Parts
<1>5. IsFiniteSet(D) /\ Cardinality(D) = sizenode(h) BY <1>4, FS_Interval DEF sizenode
<1>6. IsFiniteSet(K) BY <1>2, FS_Subset, SizesAssumption
<1>7. IsFiniteSet(L) /\ Cardinality(L) = Cardinality(K) - 1 /\ Cardinality(K) \in Nat
  BY <1>6, FS_RemoveElement, FS_CardinalityType
<1>8. \A x \in D : Live(h, x) BY <1>3 DEF Fresh, Live
<1>9. f \in [D -> L]
  <2>1. \A x \in D : h.node[x].key # k BY <1>2, <1>8, Absent
  <2> QED BY <1>3, <2>1 DEF Fresh
<1>10. Cardinality(L) < Cardinality(D) BY <1>2, <1>4, <1>5, <1>7
<1>11. \A x, y \in D : f[x] = f[y] => x = y BY <1>1, <1>8 DEF Unique
<1> HIDE DEF D, L, f
<1>12. \E x, y \in D : x # y /\ f[x] = f[y] BY <1>5, <1>7, <1>9, <1>10, FS_PigeonHole
<1> QED BY <1>11, <1>12

(* SetIn finds the key or places it.                                       *)
LEMMA SetInReady ==
  ASSUME NEW h, Good(h), NEW k \in Keys
  PROVE  \/ Ready(SetIn(h, k), h, k)
         \/ /\ luaH_get(h, k) = NoSlot /\ PlaceKey(h, k).slot = NoSlot /\ PlaceKey(h, k).t = h
            /\ h.dummy \/ \A x \in DOMAIN h.node : h.node[x].key # Nil
<1>1. CASE luaH_get(h, k) # NoSlot BY <1>1 DEF SetIn, Ready
<1>2. CASE luaH_get(h, k) = NoSlot
  <2>1. Placed(PlaceKey(h, k), h, k) BY <1>2, PlaceInRoom
  <2>2. SetIn(h, k) = PlaceKey(h, k) BY <1>2 DEF SetIn
  <2>3. ASSUME NEW i \in DOMAIN h.node, PlaceKey(h, k).slot = NodeSlot(i),
               Inserted(PlaceKey(h, k).t, h, k, i)
        PROVE  Ready(SetIn(h, k), h, k)
    BY <2>2, <2>3, Slots DEF Ready, Inserted
  <2> QED BY <1>2, <2>1, <2>3 DEF Placed
<1> QED BY <1>1, <1>2

(* An insertion made while the parts are filled finds room and changes     *)
(* nothing else.                                                           *)
Reinserted(r, h, k, v, K) ==
  /\ Good(r) /\ Fresh(r, K) /\ r.ok = h.ok
  /\ sizearray(r) = sizearray(h) /\ sizenode(r) = sizenode(h)
  /\ \A j \in Keys : Get(r, j) = IF j = k THEN v ELSE Get(h, j)

(* Reinsert never starts another rehash.                                   *)
LEMMA ReinsertFresh ==
  ASSUME NEW h, Good(h), NEW K, Fresh(h, K), NEW k \in Keys, NEW v \in Value,
         k \in K \cup 1 .. sizearray(h)
  PROVE  Reinserted(Reinsert(h, k, v), h, k, v, K)
<1> DEFINE g == SetIn(h, k).t
           s == SetIn(h, k).slot
           r == Store(g, s, v)
<1>1. r = Reinsert(h, k, v) BY DEF Reinsert
<1>2. /\ Good(g) /\ Fresh(g, K) /\ s = luaH_get(g, k) /\ s # NoSlot /\ g.ok = h.ok
      /\ sizenode(g) = sizenode(h)
      /\ sizearray(g) = sizearray(h) /\ \A j \in Keys : Get(g, j) = Get(h, j)
  <2>1. CASE luaH_get(h, k) # NoSlot BY <2>1 DEF SetIn
  <2>2. CASE luaH_get(h, k) = NoSlot
    <3>1. SetIn(h, k) = PlaceKey(h, k) BY <2>2 DEF SetIn
    <3>2. k \in K BY <2>2, Absent
    <3>3. ~h.dummy /\ \E x \in DOMAIN h.node : h.node[x].key = Nil BY <2>2, <3>2, RoomLeft
    <3>4. Placed(PlaceKey(h, k), h, k) BY <2>2, PlaceInRoom
    <3>5. PICK i \in DOMAIN h.node : s = NodeSlot(i) /\ Inserted(g, h, k, i)
      BY <3>1, <3>3, <3>4 DEF Placed
    <3> HIDE DEF g, s
    <3>6. Good(g) /\ s = luaH_get(g, k) /\ s # NoSlot /\ g.ok = h.ok
          /\ sizearray(g) = sizearray(h) /\ \A j \in Keys : Get(g, j) = Get(h, j)
      BY <3>5, Slots DEF Inserted, sizearray
    <3>7. DOMAIN g.node = DOMAIN h.node /\ sizenode(g) = sizenode(h) /\ g.dummy = h.dummy
      BY <3>5 DEF Inserted, sizenode
    <3>8. ASSUME NEW x \in DOMAIN g.node PROVE ~g.node[x].dead /\ g.node[x].key \in K \cup {Nil}
      BY <3>2, <3>5, <3>7 DEF Inserted, Fresh
    <3>9. Fresh(g, K) BY <3>7, <3>8 DEF Fresh
    <3> QED BY <3>6, <3>7, <3>9
  <2> QED BY <2>1, <2>2
<1> HIDE DEF g, s
<1>3. /\ Good(r) /\ SameNodes(r, g) /\ r.ok = g.ok /\ sizenode(r) = sizenode(g)
      /\ \A x \in DOMAIN g.node : r.node[x].dead = g.node[x].dead
      /\ \A j \in Keys : Get(r, j) = IF j = k THEN v ELSE Get(g, j)
  BY <1>2, StoreFound
<1> HIDE DEF r
<1>4. sizearray(r) = sizearray(h) BY <1>2, <1>3 DEF SameNodes
<1>5. Fresh(r, K)
  <2>1. DOMAIN r.node = DOMAIN g.node /\ r.dummy = g.dummy BY <1>3 DEF SameNodes
  <2>2. \A x \in DOMAIN g.node : r.node[x].key = g.node[x].key BY <1>3 DEF SameNodes
  <2> QED BY <1>2, <1>3, <2>1, <2>2 DEF Fresh
<1>6. \A j \in Keys : Get(r, j) = IF j = k THEN v ELSE Get(h, j) BY <1>2, <1>3
<1> QED BY <1>1, <1>2, <1>3, <1>4, <1>5, <1>6 DEF Reinserted

(* One step of Refill                                                      *)
PutItem(h, e) == IF e.val = Nil THEN h ELSE Reinsert(h, e.key, e.val)

(* w has the tables through which Refill goes.                             *)
Refills(w, g, items) ==
  /\ w[0] = g /\ Refill(g, items) = w[Len(items)]
  /\ \A n \in 1 .. Len(items) : w[n] = PutItem(w[n - 1], items[n])

(* Refill inserts the items one by one.                                    *)
LEMMA RefillSteps ==
  ASSUME NEW items, Len(items) \in Nat, NEW T, NEW g \in T,
         \A n \in 1 .. Len(items) : \A x \in T : PutItem(x, items[n]) \in T
  PROVE  \E w : Refills(w, g, items) /\ \A n \in 0 .. Len(items) : w[n] \in T
<1> DEFINE L == Len(items)
           F == [n \in 1 .. L |-> [x \in T |-> PutItem(x, items[n])]]
           Rec(f) == f = [n \in 0 .. L |-> IF n = 0 THEN g ELSE PutItem(f[n - 1], items[n])]
           w == CHOOSE f : Rec(f)
<1>1. F \in [1 .. L -> [T -> T]] OBVIOUS
<1>2. PICK f \in [0 .. L -> T] : Stepped(f, F, g, L)
  <2> HIDE DEF F, L
  <2>1. L \in Nat BY DEF L
  <2> QED BY <1>1, <2>1, Recurs
<1>3. f[0] = g /\ \A n \in 1 .. L : n - 1 \in 0 .. L /\ f[n] = PutItem(f[n - 1], items[n])
  <2>1. f[0] = g /\ \A n \in 1 .. L : f[n] = F[n][f[n - 1]] BY <1>2 DEF Stepped
  <2>2. \A n \in 1 .. L : n - 1 \in 0 .. L /\ f[n - 1] \in T
    <3>1. L \in Nat OBVIOUS
    <3> HIDE DEF L
    <3> QED BY <1>2, <3>1
  <2>3. \A n \in 1 .. L : \A x \in T : F[n][x] = PutItem(x, items[n]) OBVIOUS
  <2> HIDE DEF F, L
  <2> QED BY <2>1, <2>2, <2>3
<1>4. Rec(f)
  <2>1. \A n \in 0 .. L : n # 0 => n \in 1 .. L OBVIOUS
  <2>2. \A n \in 0 .. L : f[n] = IF n = 0 THEN g ELSE PutItem(f[n - 1], items[n])
    BY <1>3, <2>1
  <2> QED BY <1>2, <2>2
<1>5. Rec(w)
  <2> HIDE DEF Rec
  <2> QED BY <1>4
<1>6. Refill(g, items) = w[L] BY DEF Refill, PutItem
<1> HIDE DEF w
<1>7. w[0] = g /\ \A n \in 1 .. L : n - 1 \in 0 .. L /\ w[n] = PutItem(w[n - 1], items[n])
  <2>1. L \in Nat OBVIOUS
  <2>2. w = [n \in 0 .. L |-> IF n = 0 THEN g ELSE PutItem(w[n - 1], items[n])] BY <1>5
  <2> HIDE DEF L, Rec
  <2>3. \A n \in 0 .. L : w[n] = IF n = 0 THEN g ELSE PutItem(w[n - 1], items[n]) BY <2>2
  <2>4. 0 \in 0 .. L /\ \A n \in 1 .. L : n \in 0 .. L /\ n # 0 /\ n - 1 \in 0 .. L
    BY <2>1
  <2> QED BY <2>3, <2>4
<1>8. \A n \in 0 .. L : w[n] \in T
  <2>1. w[0] \in T BY <1>7
  <2>2. \A n \in 1 .. L : w[n - 1] \in T => w[n] \in T BY <1>7
  <2>3. L \in Nat OBVIOUS
  <2> HIDE DEF L
  <2> QED BY <2>1, <2>2, <2>3, Throughout
<1>9. Refills(w, g, items) BY <1>6, <1>7 DEF Refills
<1> QED BY <1>8, <1>9

(* The items fit the table and say what its content is to be.              *)
Fits(items, K, size, c) ==
  \A n \in 1 .. Len(items) : items[n].val # Nil =>
     /\ items[n].key \in Keys /\ items[n].key \in K \cup 1 .. size
     /\ items[n].val \in Value /\ items[n].val = c[items[n].key]

(* A key is read as it is to be, or no item had it.                        *)
LEMMA RefillFresh ==
  ASSUME NEW g, Good(g), NEW K, Fresh(g, K), NEW items, Len(items) \in Nat, NEW c,
         Fits(items, K, sizearray(g), c)
  PROVE  LET r == Refill(g, items)
         IN  /\ Good(r) /\ Fresh(r, K) /\ r.ok = g.ok
             /\ sizearray(r) = sizearray(g) /\ sizenode(r) = sizenode(g)
             /\ \A k \in Keys :
                   \/ Get(r, k) = c[k]
                   \/ /\ Get(r, k) = Get(g, k)
                      /\ \A n \in 1 .. Len(items) : items[n].val # Nil => items[n].key # k
<1> DEFINE L == Len(items)
           M == sizenode(g)
           A == sizearray(g)
           O == g.ok
           T == {x \in TableRec(M) : /\ Good(x) /\ Fresh(x, K) /\ x.ok = O
                                     /\ sizearray(x) = A /\ sizenode(x) = M}
           r == Refill(g, items)
<1>1. g \in T BY DEF Good, Shape
<1>2. ASSUME NEW n \in 1 .. L, NEW x \in T, items[n].val # Nil
      PROVE  /\ PutItem(x, items[n]) \in T
             /\ \A j \in Keys : Get(PutItem(x, items[n]), j)
                                  = IF j = items[n].key THEN c[j] ELSE Get(x, j)
  <2> DEFINE e == items[n]
             y == PutItem(x, e)
  <2>1. /\ e.key \in Keys /\ e.key \in K \cup 1 .. sizearray(x) /\ e.val \in Value
        /\ e.val = c[e.key]
    BY <1>2 DEF Fits
  <2>2. Good(x) /\ Fresh(x, K) BY <1>2
  <2>3. y = Reinsert(x, e.key, e.val) BY <1>2 DEF PutItem
  <2> HIDE DEF e, y
  <2>4. Reinserted(y, x, e.key, e.val, K) BY <2>1, <2>2, <2>3, ReinsertFresh
  <2>5. y \in T
    <3>1. Good(y) /\ Fresh(y, K) /\ y.ok = O /\ sizearray(y) = A /\ sizenode(y) = M
      BY <1>2, <2>4 DEF Reinserted
    <3>2. y \in TableRec(M) BY <3>1 DEF Good, Shape
    <3> QED BY <3>1, <3>2
  <2>6. \A j \in Keys : Get(y, j) = IF j = e.key THEN c[j] ELSE Get(x, j)
    BY <2>1, <2>4 DEF Reinserted
  <2> QED BY <2>5, <2>6 DEF y, e
<1>3. ASSUME NEW n \in 1 .. L, NEW x \in T PROVE PutItem(x, items[n]) \in T
  <2>1. CASE items[n].val = Nil BY <2>1 DEF PutItem
  <2>2. CASE items[n].val # Nil
    <3> HIDE DEF T
    <3> QED BY <1>2, <2>2
  <2> QED BY <2>1, <2>2
<1> HIDE DEF T
<1>4. PICK w : Refills(w, g, items) /\ \A n \in 0 .. L : w[n] \in T
  BY <1>1, <1>3, RefillSteps
<1>5. w[0] = g /\ r = w[L] /\ \A n \in 1 .. L : w[n] = PutItem(w[n - 1], items[n])
  BY <1>4 DEF Refills
<1> HIDE DEF r
<1> DEFINE Reads(n, k) ==
              \/ Get(w[n], k) = c[k]
              \/ /\ Get(w[n], k) = Get(g, k)
                 /\ \A m \in 1 .. n : items[m].val # Nil => items[m].key # k
           S == {n \in 0 .. L : \A k \in Keys : Reads(n, k)}
<1>6. 0 \in S
  <2>1. \A k \in Keys : Reads(0, k) BY <1>5
  <2> HIDE DEF Reads
  <2> QED BY <2>1
<1>7. ASSUME NEW n \in 1 .. L, n - 1 \in S PROVE n \in S
  <2>1. w[n - 1] \in T /\ w[n] = PutItem(w[n - 1], items[n]) /\ n \in 0 .. L
    BY <1>4, <1>5
  <2>2. ASSUME NEW k \in Keys PROVE Reads(n, k)
    <3>1. Reads(n - 1, k)
      <4> HIDE DEF Reads
      <4> QED BY <1>7
    <3>2. \A m \in 1 .. n : m = n \/ m \in 1 .. n - 1 OBVIOUS
    <3>3. CASE items[n].val = Nil
      <4>1. w[n] = w[n - 1] BY <2>1, <3>3 DEF PutItem
      <4> QED BY <3>1, <3>2, <3>3, <4>1
    <3>4. CASE items[n].val # Nil
      <4>1. Get(w[n], k) = IF k = items[n].key THEN c[k] ELSE Get(w[n - 1], k)
        BY <1>2, <2>1, <3>4
      <4>2. CASE k = items[n].key BY <4>1, <4>2
      <4>3. CASE k # items[n].key BY <3>1, <3>2, <4>1, <4>3
      <4> QED BY <4>2, <4>3
    <3> QED BY <3>3, <3>4
  <2> HIDE DEF Reads
  <2> QED BY <2>1, <2>2
<1>8. L \in 0 .. L /\ L \in Nat OBVIOUS
<1>9. L \in S
  <2> HIDE DEF S, L
  <2> QED BY <1>6, <1>7, <1>8, Onward
<1>10. \A k \in Keys : Reads(L, k)
  <2> HIDE DEF Reads
  <2> QED BY <1>9
<1>11. r \in T BY <1>4, <1>5, <1>8
<1>12. Good(r) /\ Fresh(r, K) /\ r.ok = O /\ sizearray(r) = A /\ sizenode(r) = M
  BY <1>11 DEF T
<1> QED BY <1>5, <1>10, <1>12 DEF r

-----------------------------------------------------------------------------
(* resize                                                                  *)

(* What setarrayvector and setnodevector need of the table they start from *)
Bare(h) ==
  /\ h \in [array : Seq(Value), node : {h.node}, dummy : {h.dummy},
            lastfree : {h.lastfree}, ok : BOOLEAN]
  /\ \A i \in 1 .. sizearray(h) : h.array[i] # Nil => i \in Ints

(* A table with a slots of the array kept and at least m empty nodes       *)
NewTable(g, h, a, m) ==
  /\ Good(g) /\ g.ok = h.ok /\ sizearray(g) = a /\ m <= sizenode(g)
  /\ g.dummy = (m = 0) /\ \A x \in DOMAIN g.node : g.node[x] = EmptyNode
  /\ \A i \in 1 .. a : g.array[i] = IF i <= sizearray(h) THEN h.array[i] ELSE Nil

(* The new parts are in good shape.                                        *)
LEMMA NewParts ==
  ASSUME NEW h, Bare(h), NEW a \in 0 .. MAXASIZE, a < MAX_INT, NEW m \in 0 .. MAXASIZE
  PROVE  NewTable(setnodevector(setarrayvector(h, a), m), h, a, m)
<1> DEFINE full == IF m = 0 THEN 1 ELSE twoto[ceillog2[m]]
           arr == [i \in 1 .. a |-> IF i <= sizearray(h) THEN h.array[i] ELSE Nil]
           g1 == setarrayvector(h, a)
           nds == [i \in 0 .. full - 1 |-> EmptyNode]
           lf == IF m = 0 THEN 0 ELSE full
           g == setnodevector(g1, m)
<1>0. MAXASIZE \in Nat /\ a \in Nat /\ m \in Nat BY Powers, SizesAssumption DEF MAXASIZE
<1>1. full \in {twoto[i] : i \in 0 .. MAXBITS} /\ full \in Nat \ {0} /\ m <= full
  <2>1. CASE m = 0
    <3>1. 0 \in 0 .. MAXBITS /\ twoto[0] = 1 BY Powers, SizesAssumption
    <3> QED BY <2>1, <3>1
  <2>2. CASE m # 0
    <3>1. m \in 1 .. MAXASIZE BY <1>0, <2>2
    <3>2. ceillog2[m] \in 0 .. MAXBITS /\ m <= twoto[ceillog2[m]] BY <3>1, CeilLog
    <3> QED BY <2>2, <3>2, Powers
  <2> QED BY <2>1, <2>2
<1>2. arr \in Seq(Value) /\ Len(arr) = a
  <2>1. h.array \in Seq(Value) BY DEF Bare
  <2>2. \A i \in 1 .. a : (IF i <= sizearray(h) THEN h.array[i] ELSE Nil) \in Value
    BY <1>0, <2>1 DEF sizearray, Value
  <2>3. arr \in [1 .. a -> Value] BY <2>2
  <2> HIDE DEF arr
  <2> QED BY <1>0, <2>3
<1>3. EmptyNode \in NodeRec(full) BY DEF EmptyNode, NodeRec, Value
<1> HIDE DEF full
<1>4. nds \in [0 .. full - 1 -> NodeRec(full)] BY <1>3
<1>5. g1 = [h EXCEPT !.array = arr] BY DEF setarrayvector
<1>6. g = [g1 EXCEPT !.node = nds, !.dummy = (m = 0), !.lastfree = lf]
  BY DEF setnodevector, full
<1>7. lf \in 0 .. full BY <1>1
<1> HIDE DEF arr, nds, lf, g1, g, NodeRec
<1>8. /\ g1.array = arr /\ g1.ok = h.ok /\ g1.ok \in BOOLEAN
      /\ g1 \in [array : Seq(Value), node : {h.node}, dummy : {h.dummy},
                 lastfree : {h.lastfree}, ok : BOOLEAN]
  BY <1>2, <1>5 DEF Bare
<1>9. /\ g.array = arr /\ g.node = nds /\ g.dummy = (m = 0) /\ g.lastfree = lf /\ g.ok = h.ok
      /\ g \in TableRec(full)
  BY <1>2, <1>4, <1>6, <1>7, <1>8 DEF TableRec
<1>10. DOMAIN g.node = 0 .. full - 1 /\ \A x \in DOMAIN g.node : g.node[x] = EmptyNode
  BY <1>4, <1>9 DEF nds
<1>11. sizenode(g) = full /\ sizearray(g) = a
  <2>1. Cardinality(0 .. full - 1) = full BY <1>1, FS_Interval, SMTT(30)
  <2> QED BY <1>2, <1>9, <1>10, <2>1 DEF sizenode, sizearray
<1>12. \A i \in 1 .. a : g.array[i] = IF i <= sizearray(h) THEN h.array[i] ELSE Nil
  BY <1>9 DEF arr
<1>13. Shape(g)
  <2>1. \A i \in 1 .. a : g.array[i] # Nil => i \in Ints
    <3>1. sizearray(h) \in Nat BY DEF Bare, sizearray
    <3> QED BY <1>12, <3>1 DEF Bare
  <2>2. g.dummy => full = 1 /\ g.lastfree = 0 /\ g.node[0] = EmptyNode
    <3>1. ASSUME g.dummy PROVE full = 1 /\ lf = 0 BY <1>9, <3>1 DEF full, lf
    <3> QED BY <1>1, <1>9, <1>10, <3>1
  <2> QED BY <1>0, <1>1, <1>9, <1>11, <2>1, <2>2 DEF Shape
<1>14. EmptyNode.key = Nil /\ EmptyNode.val = Nil /\ EmptyNode.next = NoNode /\ ~EmptyNode.dead
  BY DEF EmptyNode
<1>15. Linked(g)
  <2>1. \A x \in DOMAIN g.node : x # NoNode BY <1>1, <1>10 DEF NoNode
  <2>2. Nil \notin 1 .. a
    <3>1. Nil \in 1 .. a => FALSE
      <4> SUFFICES ASSUME Nil \in 1 .. a PROVE FALSE OBVIOUS
      <4>1. Nil \in 1 .. MAX_INT BY <1>0, SizesAssumption
      <4> QED BY <4>1, KeysAssumption
    <3> QED BY <3>1
  <2>3. \A i \in g.lastfree .. full - 1 : ~g.dummy => g.node[i].key # Nil
    <3>1. ASSUME ~g.dummy PROVE lf = full BY <1>9, <3>1 DEF lf
    <3> QED BY <1>1, <1>9, <3>1
  <2> QED BY <1>10, <1>11, <1>14, <2>1, <2>2, <2>3 DEF Linked
<1>16. \A x : ~Live(g, x) BY <1>10, <1>14 DEF Live
<1>17. Good(g) BY <1>13, <1>15, <1>16 DEF Good, Chained, Unique
<1> QED BY <1>1, <1>9, <1>10, <1>11, <1>12, <1>17 DEF NewTable, g, g1

(* The keys that are present and do not go to an array part of size a      *)
Beyond(h, a) == {k \in Keys : Get(h, k) # Nil /\ k \notin 1 .. a}

(* A key that is present is in the array or in a live node.                *)
LEMMA WherePresent ==
  ASSUME NEW h, Good(h), NEW k \in Keys, Get(h, k) # Nil
  PROVE  \/ k \in 1 .. sizearray(h) /\ Get(h, k) = h.array[k]
         \/ \E x \in DOMAIN h.node : /\ Live(h, x) /\ h.node[x].key = k
                                     /\ h.node[x].val = Get(h, k)
<1>1. CASE k \in 1 .. sizearray(h) BY <1>1, GetValue
<1>2. CASE k \notin 1 .. sizearray(h)
  <2>1. PICK x : Live(h, x) /\ h.node[x].key = k BY <1>2, GetValue
  <2> QED BY <2>1, GetValue DEF Live
<1> QED BY <1>1, <1>2

(* The items that resize inserts again                                     *)
Items(h, a) ==
  [i \in 1 .. sizearray(h) |->
      [key |-> i, val |-> IF i <= a THEN Nil ELSE h.array[i]]]
  \o [i \in 1 .. sizenode(h) |-> h.node[sizenode(h) - i]]

(* They are the slots of the array beyond a and all nodes.                 *)
LEMMA ItemsAre ==
  ASSUME NEW h, Shape(h), NEW a \in Nat
  PROVE  /\ Len(Items(h, a)) = sizearray(h) + sizenode(h)
         /\ \A i \in 1 .. sizearray(h) :
               /\ Items(h, a)[i].key = i
               /\ Items(h, a)[i].val = IF i <= a THEN Nil ELSE h.array[i]
         /\ \A x \in DOMAIN h.node :
               Items(h, a)[sizearray(h) + sizenode(h) - x] = h.node[x]
<1> DEFINE A == sizearray(h)
           N == sizenode(h)
           v == [i \in 1 .. A |-> [key |-> i, val |-> IF i <= a THEN Nil ELSE h.array[i]]]
           o == [i \in 1 .. N |-> h.node[N - i]]
           S == [key : Nat, val : Value] \cup NodeRec(N)
<1>1. /\ N \in Nat \ {0} /\ DOMAIN h.node = 0 .. N - 1 /\ A \in Nat
      /\ \A x \in DOMAIN h.node : h.node[x] \in NodeRec(N)
      /\ \A i \in 1 .. A : h.array[i] \in Value
  BY Parts
<1>2. v \in Seq(S) /\ Len(v) = A
  <2>1. \A i \in 1 .. A : (IF i <= a THEN Nil ELSE h.array[i]) \in Value BY <1>1 DEF Value
  <2>2. v \in [1 .. A -> S] BY <2>1
  <2> HIDE DEF v, S, A
  <2> QED BY <1>1, <2>2
<1>3. o \in Seq(S) /\ Len(o) = N
  <2>1. \A i \in 1 .. N : N - i \in DOMAIN h.node BY <1>1
  <2>2. o \in [1 .. N -> S] BY <1>1, <2>1
  <2> HIDE DEF o, S, N
  <2> QED BY <1>1, <2>2
<1>4. Items(h, a) = v \o o BY DEF Items
<1>5. ASSUME NEW i \in 1 .. A
      PROVE  v[i].key = i /\ v[i].val = IF i <= a THEN Nil ELSE h.array[i]
  OBVIOUS
<1>6. ASSUME NEW x \in DOMAIN h.node PROVE o[N - x] = h.node[x] /\ N - x \in 1 .. N
  <2>1. N - x \in 1 .. N /\ N - (N - x) = x BY <1>1
  <2> HIDE DEF N
  <2> QED BY <2>1
<1> HIDE DEF v, o, S, A, N
<1>7. /\ Len(v \o o) = A + N
      /\ \A i \in 1 .. A + N : (v \o o)[i] = IF i <= A THEN v[i] ELSE o[i - A]
  BY <1>2, <1>3, ConcatProperties
<1>8. \A i \in 1 .. A : i \in 1 .. A + N /\ (v \o o)[i] = v[i]
  <2>1. \A i \in 1 .. A : i \in 1 .. A + N /\ i <= A BY <1>1
  <2> DEFINE u == v \o o
  <2>2. \A i \in 1 .. A + N : u[i] = IF i <= A THEN v[i] ELSE o[i - A] BY <1>7
  <2> HIDE DEF u
  <2>3. \A i \in 1 .. A : u[i] = v[i] BY <2>1, <2>2
  <2> QED BY <2>1, <2>3 DEF u
<1>9. ASSUME NEW x \in DOMAIN h.node PROVE (v \o o)[A + N - x] = h.node[x]
  <2> DEFINE u == v \o o
             j == A + N - x
  <2>2. \A i \in 1 .. A + N : u[i] = IF i <= A THEN v[i] ELSE o[i - A] BY <1>7
  <2>3. j \in 1 .. A + N /\ ~(j <= A) /\ j - A = N - x BY <1>1, <1>6
  <2> HIDE DEF u, j
  <2>4. u[j] = o[j - A] BY <2>2, <2>3
  <2>5. u[j] = h.node[x] BY <1>6, <2>3, <2>4
  <2> QED BY <2>5 DEF u, j
<1>10. /\ Len(Items(h, a)) = A + N
       /\ \A i \in 1 .. A :
            Items(h, a)[i].key = i /\ Items(h, a)[i].val = IF i <= a THEN Nil ELSE h.array[i]
       /\ \A x \in DOMAIN h.node : Items(h, a)[A + N - x] = h.node[x]
  BY <1>4, <1>5, <1>7, <1>8, <1>9
<1> QED BY <1>10 DEF A, N

(* A table as it was, with a slots of the array and room for the keys of K *)
Resized(r, h, a, K) ==
  /\ Good(r) /\ Fresh(r, K) /\ r.ok = h.ok /\ sizearray(r) = a
  /\ \A k \in Keys : Get(r, k) = Get(h, k)

(* Whatever the sizes, if they leave room for its keys resize keeps the    *)
(* content.                                                                *)
LEMMA ResizeKeeps ==
  ASSUME NEW h, Good(h), NEW a \in 0 .. MAXASIZE, a < MAX_INT, NEW m \in 0 .. MAXASIZE,
         NEW K \in SUBSET Keys, Beyond(h, a) \subseteq K, Cardinality(K) <= m
  PROVE  Resized(resize(h, a, m), h, a, K)
<1> DEFINE g == setnodevector(setarrayvector(h, a), m)
           items == Items(h, a)
           c == [k \in Keys |-> Get(h, k)]
           r == Refill(g, items)
           A == sizearray(h)
           N == sizenode(h)
<1>1. r = resize(h, a, m) BY DEF resize, Items
<1>2. Shape(h) /\ Linked(h) BY DEF Good
<1>3. MAXASIZE \in Nat /\ a \in Nat /\ m \in Nat BY Powers, SizesAssumption DEF MAXASIZE
<1>4. /\ N \in Nat \ {0} /\ DOMAIN h.node = 0 .. N - 1 /\ A \in Nat
      /\ \A x \in DOMAIN h.node : h.node[x] \in NodeRec(N)
      /\ \A i \in 1 .. A : h.array[i] \in Value
  BY <1>2, Parts
<1>5. Bare(h) BY <1>2 DEF Shape, TableRec, Bare
<1>6. NewTable(g, h, a, m) BY <1>5, NewParts
<1> HIDE DEF g
<1>7. Good(g) /\ g.ok = h.ok /\ sizearray(g) = a BY <1>6 DEF NewTable
<1>8. \A x : ~Live(g, x) BY <1>6 DEF NewTable, Live, EmptyNode
<1>9. IsFiniteSet(K) /\ Cardinality(K) \in Nat
  BY FS_Subset, FS_CardinalityType, SizesAssumption
<1>10. Fresh(g, K)
  <2>1. \A x \in DOMAIN g.node : ~g.node[x].dead /\ g.node[x].key \in K \cup {Nil}
    BY <1>6 DEF NewTable, EmptyNode
  <2>2. Shape(g) BY <1>7 DEF Good
  <2>3. sizenode(g) \in Nat BY <2>2, Parts
  <2>4. Cardinality(K) <= sizenode(g) BY <1>3, <1>6, <1>9, <2>3 DEF NewTable
  <2>5. g.dummy => K = {}
    <3>1. ASSUME g.dummy PROVE K = {}
      <4>1. m = 0 BY <1>6, <3>1 DEF NewTable
      <4>2. Cardinality(K) = 0 BY <1>9, <4>1
      <4> QED BY <1>9, <4>2, FS_EmptySet
    <3> QED BY <3>1
  <2> QED BY <2>1, <2>4, <2>5 DEF Fresh
<1>11. /\ Len(items) = A + N
       /\ \A i \in 1 .. A :
            items[i].key = i /\ items[i].val = IF i <= a THEN Nil ELSE h.array[i]
       /\ \A x \in DOMAIN h.node : items[A + N - x] = h.node[x]
  BY <1>2, <1>3, ItemsAre
<1> HIDE DEF items
<1>12. ASSUME NEW x \in DOMAIN h.node, h.node[x].val # Nil
       PROVE  /\ Live(h, x) /\ h.node[x].key \in Keys /\ h.node[x].val \in Value
              /\ Get(h, h.node[x].key) = h.node[x].val
  <2>1. Live(h, x) /\ h.node[x].key \in Keys /\ h.node[x].val \in Value
    BY <1>2, <1>4, <1>12 DEF Linked, Live, NodeRec
  <2> QED BY <2>1, GetValue
<1>13. ASSUME NEW n \in 1 .. A + N, n \notin 1 .. A
       PROVE  \E x \in DOMAIN h.node : items[n] = h.node[x]
  <2>1. A + N - n \in DOMAIN h.node /\ A + N - (A + N - n) = n BY <1>4, <1>13
  <2> HIDE DEF A, N
  <2> QED BY <1>11, <2>1
<1>14. ASSUME NEW n \in 1 .. A + N, items[n].val # Nil
       PROVE  /\ items[n].key \in Keys /\ items[n].val \in Value
              /\ items[n].val = Get(h, items[n].key)
  <2>1. CASE n \in 1 .. A
    <3>1. ~(n <= a) /\ items[n].val = h.array[n] /\ items[n].key = n
      BY <1>3, <1>11, <1>14, <2>1
    <3>2. n \in Keys BY <1>2, <1>14, <2>1, <3>1 DEF Shape, Keys
    <3> QED BY <1>4, <2>1, <3>1, <3>2, GetValue
  <2>2. CASE n \notin 1 .. A BY <1>12, <1>13, <1>14, <2>2
  <2> QED BY <2>1, <2>2
<1> HIDE DEF A, N
<1>15. Fits(items, K, sizearray(g), c)
  <2>1. ASSUME NEW n \in 1 .. A + N, items[n].val # Nil
        PROVE  items[n].key \in K \cup 1 .. a
    BY <1>14, <2>1 DEF Beyond
  <2> QED BY <1>7, <1>11, <1>14, <2>1 DEF Fits
<1>16. Len(items) \in Nat BY <1>4, <1>11
<1>17. /\ Good(r) /\ Fresh(r, K) /\ r.ok = g.ok
       /\ sizearray(r) = sizearray(g) /\ sizenode(r) = sizenode(g)
       /\ \A k \in Keys :
             \/ Get(r, k) = c[k]
             \/ /\ Get(r, k) = Get(g, k)
                /\ \A n \in 1 .. Len(items) : items[n].val # Nil => items[n].key # k
  <2> HIDE DEF c
  <2> QED BY <1>7, <1>10, <1>15, <1>16, RefillFresh
<1> HIDE DEF r
<1>18. ASSUME NEW k \in Keys PROVE Get(r, k) = Get(h, k)
  <2>1. CASE Get(r, k) = c[k] BY <2>1
  <2>2. CASE Get(r, k) = Get(g, k)
             /\ \A n \in 1 .. Len(items) : items[n].val # Nil => items[n].key # k
    <3>1. CASE Get(h, k) = Nil
      <4>1. CASE k \in 1 .. a
        <5>1. Get(g, k) = IF k <= A THEN h.array[k] ELSE Nil
          BY <1>6, <1>7, <4>1, GetValue DEF NewTable, A
        <5>2. k \in 1 .. A => Get(h, k) = h.array[k] BY GetValue DEF A
        <5>3. k <= A => k \in 1 .. A BY <1>3, <1>4, <4>1
        <5> QED BY <2>2, <3>1, <5>1, <5>2, <5>3
      <4>2. CASE k \notin 1 .. a
        <5>1. Get(g, k) = Nil BY <1>7, <1>8, <4>2, GetValue
        <5> QED BY <2>2, <3>1, <5>1
      <4> QED BY <4>1, <4>2
    <3>2. CASE Get(h, k) # Nil /\ k \in 1 .. A
      <4>1. Get(h, k) = h.array[k] BY <3>2, GetValue DEF A
      <4>2. k \in 1 .. Len(items) BY <1>4, <1>11, <3>2
      <4>3. items[k].val = Nil BY <1>11, <2>2, <3>2, <4>2
      <4>4. k <= a BY <1>11, <3>2, <4>1, <4>3
      <4>5. k \in 1 .. a /\ k <= A BY <1>3, <1>4, <3>2, <4>4
      <4>6. Get(g, k) = h.array[k] BY <1>6, <1>7, <4>5, GetValue DEF NewTable, A
      <4> QED BY <2>2, <4>1, <4>6
    <3>3. CASE Get(h, k) # Nil /\ k \notin 1 .. A
      <4>1. PICK x \in DOMAIN h.node : h.node[x].key = k /\ h.node[x].val = Get(h, k)
        BY <3>3, WherePresent DEF A
      <4>2. A + N - x \in 1 .. A + N BY <1>4
      <4> QED BY <1>11, <2>2, <3>3, <4>1, <4>2
    <3> QED BY <3>1, <3>2, <3>3
  <2> QED BY <1>17, <2>1, <2>2
<1> QED BY <1>1, <1>7, <1>17, <1>18 DEF Resized

-----------------------------------------------------------------------------
(* rehash                                                                  *)

(* The candidates up to n                                                  *)
UpTo(C, n) == {k \in C : k <= n}

(* The sizes suit the candidates C for the array part.                     *)
Sizes(c, C) ==
  /\ c.n \in 0 .. MAXASIZE /\ c.n < MAX_INT
  /\ c.na = Cardinality(UpTo(C, c.n)) /\ c.n \div 2 <= c.na /\ c.na <= c.n

(* Adding up the slices counts the candidates up to a power of two.        *)
LEMMA SlicesAdd ==
  ASSUME NEW C \in SUBSET (1 .. MAXASIZE), NEW i \in 0 .. MAXBITS
  PROVE  LET nums == Slices(C)
         IN  /\ nums[i] \in Nat /\ Cardinality(UpTo(C, twoto[i])) \in Nat
             /\ i = 0 => Cardinality(UpTo(C, twoto[i])) = nums[i]
             /\ i # 0 => Cardinality(UpTo(C, twoto[i]))
                           = nums[i] + Cardinality(UpTo(C, twoto[i - 1]))
<1> DEFINE D(j) == {k \in C : ceillog2[k] = j}
           U(j) == UpTo(C, twoto[j])
<1>0. MAXASIZE \in Nat /\ MAXBITS \in Nat BY Powers, SizesAssumption DEF MAXASIZE
<1>1. IsFiniteSet(C)
  <2>1. IsFiniteSet(1 .. MAXASIZE) BY <1>0, FS_Interval
  <2> QED BY <2>1, FS_Subset
<1>2. Slices(C)[i] = Cardinality(D(i)) BY DEF Slices
<1>3. ASSUME NEW j \in 0 .. MAXBITS
      PROVE  U(j) = {k \in C : ceillog2[k] <= j} /\ U(j) \in SUBSET C
  <2>1. \A k \in C : k <= twoto[j] <=> ceillog2[k] <= j BY <1>0, <1>3, CeilLog
  <2> QED BY <2>1 DEF UpTo
<1>4. \A k \in C : ceillog2[k] \in 0 .. MAXBITS BY CeilLog
<1>5. D(i) \in SUBSET C /\ U(i) \in SUBSET C BY <1>3
<1>6. /\ IsFiniteSet(D(i)) /\ Cardinality(D(i)) \in Nat
      /\ IsFiniteSet(U(i)) /\ Cardinality(U(i)) \in Nat
  <2> HIDE DEF D, U
  <2> QED BY <1>1, <1>5, FS_Subset, FS_CardinalityType
<1>7. CASE i = 0
  <2>1. U(0) = D(0)
    <3>1. 0 \in 0 .. MAXBITS BY <1>0
    <3>2. U(0) = {k \in C : ceillog2[k] <= 0} BY <1>3, <3>1
    <3>3. \A k \in C : ceillog2[k] <= 0 <=> ceillog2[k] = 0 BY <1>0, <1>4
    <3> HIDE DEF U
    <3> QED BY <3>2, <3>3
  <2> QED BY <1>2, <1>6, <1>7, <2>1
<1>8. CASE i # 0
  <2>1. i - 1 \in 0 .. MAXBITS BY <1>0, <1>8
  <2>2. U(i - 1) = {k \in C : ceillog2[k] <= i - 1} /\ U(i - 1) \in SUBSET C BY <1>3, <2>1
  <2>3. U(i) = {k \in C : ceillog2[k] <= i} BY <1>3
  <2> HIDE DEF U
  <2>4. \A k \in C : /\ ceillog2[k] <= i <=> (ceillog2[k] <= i - 1 \/ ceillog2[k] = i)
                     /\ ~(ceillog2[k] <= i - 1 /\ ceillog2[k] = i)
    BY <1>0, <1>4, <1>8
  <2>5. U(i) = D(i) \cup U(i - 1) /\ D(i) \cap U(i - 1) = {} BY <2>2, <2>3, <2>4
  <2>6. IsFiniteSet(U(i - 1)) /\ Cardinality(U(i - 1)) \in Nat
    BY <1>1, <2>2, FS_Subset, FS_CardinalityType
  <2> HIDE DEF D
  <2>7. Cardinality(U(i)) = Cardinality(D(i)) + Cardinality(U(i - 1)) - Cardinality({})
    BY <1>6, <2>5, <2>6, FS_Union
  <2>8. Cardinality(U(i)) = Cardinality(D(i)) + Cardinality(U(i - 1))
    BY <1>6, <2>6, <2>7, FS_EmptySet
  <2> QED BY <1>2, <1>6, <1>8, <2>8 DEF U
<1> QED BY <1>7, <1>8

(* computesizes finds sizes that suit.                                     *)
LEMMA SizesSuit ==
  ASSUME NEW C \in SUBSET (Ints \cap 1 .. MAXASIZE)
  PROVE  Sizes(computesizes(Slices(C), Cardinality(C)), C)
<1> DEFINE nums == Slices(C)
           W == [i \in 0 .. MAXBITS |-> Cardinality(UpTo(C, twoto[i]))]
           Rec(f) == f = [i \in 0 .. MAXBITS |->
                            IF i = 0 THEN nums[0] ELSE nums[i] + f[i - 1]]
           upto == CHOOSE f : Rec(f)
           good == {i \in 0 .. MAXBITS : /\ twoto[i] \div 2 < Cardinality(C)
                                         /\ nums[i] > 0
                                         /\ upto[i] > twoto[i] \div 2}
           c == computesizes(Slices(C), Cardinality(C))
<1>0. /\ MAXASIZE \in Nat /\ MAXBITS \in Nat /\ MAX_INT \in Nat /\ 1 < MAX_INT
      /\ MAXASIZE = twoto[MAXBITS]
  BY Powers, SizesAssumption DEF MAXASIZE
<1>1. C \in SUBSET (1 .. MAXASIZE) OBVIOUS
<1>2. \A i \in 0 .. MAXBITS :
        /\ nums[i] \in Nat /\ W[i] \in Nat /\ (i = 0 => W[i] = nums[i])
        /\ i # 0 => i - 1 \in 0 .. MAXBITS /\ W[i] = nums[i] + W[i - 1]
  <2>1. \A i \in 0 .. MAXBITS : i # 0 => i - 1 \in 0 .. MAXBITS BY <1>0
  <2>2. \A i \in 0 .. MAXBITS : W[i] = Cardinality(UpTo(C, twoto[i])) OBVIOUS
  <2> HIDE DEF W
  <2> QED BY <1>1, <2>1, <2>2, SlicesAdd
<1>3. c = IF good = {} THEN [n |-> 0, na |-> 0]
          ELSE [n |-> twoto[Max(good)], na |-> upto[Max(good)]]
  BY DEF computesizes
<1> HIDE DEF nums
<1>4. Rec(W)
  <2>1. \A i \in 0 .. MAXBITS : W[i] = IF i = 0 THEN nums[0] ELSE nums[i] + W[i - 1]
    <3> HIDE DEF W
    <3>1. ASSUME NEW i \in 0 .. MAXBITS
          PROVE  W[i] = IF i = 0 THEN nums[0] ELSE nums[i] + W[i - 1]
      <4>1. CASE i = 0 BY <1>2, <4>1
      <4>2. CASE i # 0 BY <1>2, <4>2
      <4> QED BY <4>1, <4>2
    <3> QED BY <3>1
  <2> QED BY <2>1
<1>5. Rec(upto)
  <2> HIDE DEF Rec
  <2> QED BY <1>4
<1> HIDE DEF upto
<1>6. \A i \in 0 .. MAXBITS : upto[i] = IF i = 0 THEN nums[0] ELSE nums[i] + upto[i - 1]
  BY <1>5
<1>7. \A i \in 0 .. MAXBITS : upto[i] = W[i]
  <2> DEFINE S == {i \in 0 .. MAXBITS : upto[i] = W[i]}
  <2> HIDE DEF W
  <2>1. 0 \in S BY <1>0, <1>2, <1>6
  <2>2. ASSUME NEW n \in 1 .. MAXBITS, n - 1 \in S PROVE n \in S
    <3>1. n \in 0 .. MAXBITS /\ n # 0 BY <1>0
    <3>2. upto[n - 1] = W[n - 1] BY <2>2
    <3> QED BY <1>2, <1>6, <3>1, <3>2
  <2> HIDE DEF S
  <2>3. 0 .. MAXBITS \subseteq S BY <1>0, <2>1, <2>2, Onward
  <2> QED BY <2>3 DEF S
<1>8. ASSUME good = {} PROVE Sizes(c, C)
  <2>1. c.n = 0 /\ c.na = 0 BY <1>3, <1>8
  <2>2. UpTo(C, 0) = {} BY <1>0 DEF UpTo
  <2>3. 0 \div 2 <= 0 OBVIOUS
  <2> HIDE DEF c
  <2> QED BY <1>0, <2>1, <2>2, <2>3, FS_EmptySet DEF Sizes
<1>9. ASSUME good # {} PROVE Sizes(c, C)
  <2> DEFINE i == Max(good)
             n == twoto[i]
  <2>1. c.n = twoto[i] /\ c.na = upto[i] BY <1>3, <1>9
  <2>2. i \in good
    <3>1. good \in SUBSET (0 .. MAXBITS) OBVIOUS
    <3> HIDE DEF good
    <3> QED BY <1>0, <1>9, <3>1, GreatestIsMax
  <2>3. i \in 0 .. MAXBITS /\ nums[i] > 0 /\ upto[i] > twoto[i] \div 2
    <3> HIDE DEF i
    <3> QED BY <2>2
  <2> HIDE DEF i, c, good
  <2>4. n \in Nat \ {0} /\ n <= MAXASIZE
    BY <1>0, <2>3, Powers, PowersGrow
  <2>5. upto[i] = Cardinality(UpTo(C, n)) BY <1>7, <2>3
  <2>6. Cardinality(UpTo(C, n)) <= n
    <3>1. UpTo(C, n) \in SUBSET (1 .. n) BY <1>0, <2>4 DEF UpTo
    <3>2. IsFiniteSet(1 .. n) /\ Cardinality(1 .. n) = n BY <2>4, FS_Interval, SMTT(30)
    <3> HIDE DEF n
    <3>3. Cardinality(UpTo(C, n)) <= Cardinality(1 .. n) BY <3>1, <3>2, FS_Subset
    <3> QED BY <3>2, <3>3
  <2>7. PICK k \in C : ceillog2[k] = i
    <3>1. nums[i] = Cardinality({k \in C : ceillog2[k] = i}) BY <2>3 DEF Slices, nums
    <3>2. {k \in C : ceillog2[k] = i} # {} BY <2>3, <3>1, FS_EmptySet
    <3> QED BY <3>2
  <2>8. n < MAX_INT
    <3>1. CASE i = 0 BY <1>0, <3>1, Powers
    <3>2. CASE i # 0
      <4>1. i - 1 \in 0 .. MAXBITS /\ i \in 1 .. MAXBITS BY <1>0, <2>3, <3>2
      <4>2. k \in 1 .. MAXASIZE /\ k \in Ints OBVIOUS
      <4>3. k <= twoto[i - 1] <=> ceillog2[k] <= i - 1 BY <4>1, <4>2, CeilLog
      <4>4. ~(k <= twoto[i - 1]) BY <1>0, <2>3, <2>7, <4>3
      <4>5. n = 2 * twoto[i - 1] /\ twoto[i - 1] \in Nat BY <4>1, Powers
      <4>6. 2 * k - 1 <= MAX_INT BY <1>0, <4>2, SizesAssumption
      <4> HIDE DEF n
      <4> QED BY <1>0, <4>2, <4>4, <4>5, <4>6
    <3> QED BY <3>1, <3>2
  <2>9. n \div 2 <= upto[i]
    <3>1. upto[i] \in Nat
      <4>1. upto[i] = W[i] BY <1>7, <2>3
      <4> HIDE DEF W
      <4> QED BY <1>2, <2>3, <4>1
    <3> QED BY <2>3, <2>4, <3>1
  <2>10. c.n = n /\ c.na = upto[i] BY <2>1
  <2> HIDE DEF n
  <2>11. n \in 0 .. MAXASIZE BY <1>0, <2>4
  <2> QED BY <2>5, <2>6, <2>8, <2>9, <2>10, <2>11 DEF Sizes
<1> QED BY <1>8, <1>9

(* An assertion that holds changes nothing.                                *)
LEMMA AssertTrue ==
  ASSUME NEW h, Good(h), NEW b, b
  PROVE  Asserting(h, b) = h
<1>1. h \in TableRec(sizenode(h)) BY DEF Good, Shape
<1> HIDE DEF sizenode
<1>2. h.ok \in BOOLEAN /\ (h.ok /\ b) = h.ok BY <1>1 DEF TableRec
<1>3. Asserting(h, b) = [h EXCEPT !.ok = h.ok] BY <1>2 DEF Asserting
<1>4. [h EXCEPT !.ok = h.ok] = h BY <1>1 DEF TableRec
<1> QED BY <1>3, <1>4

(* The keys that rehash counts are those that are present.                 *)
LEMMA CountedKeys ==
  ASSUME NEW h, Good(h)
  PROVE  /\ numusearray(h) = {j \in Keys : Get(h, j) # Nil /\ j \in 1 .. sizearray(h)}
         /\ numusehash(h) = {j \in Keys : Get(h, j) # Nil /\ j \notin 1 .. sizearray(h)}
<1>1. Shape(h) /\ Linked(h) BY DEF Good
<1>2. \A x \in DOMAIN h.node : h.node[x] \in NodeRec(sizenode(h)) BY <1>1, Parts
<1>3. ASSUME NEW j \in numusearray(h)
      PROVE  j \in Keys /\ Get(h, j) # Nil /\ j \in 1 .. sizearray(h)
  <2>1. j \in 1 .. sizearray(h) /\ h.array[j] # Nil BY DEF numusearray
  <2>2. j \in Keys BY <1>1, <2>1 DEF Shape, Keys
  <2> QED BY <2>1, <2>2, GetValue
<1>4. ASSUME NEW j \in Keys, Get(h, j) # Nil, j \in 1 .. sizearray(h)
      PROVE  j \in numusearray(h)
  BY <1>4, GetValue DEF numusearray
<1>5. ASSUME NEW j \in numusehash(h)
      PROVE  j \in Keys /\ Get(h, j) # Nil /\ j \notin 1 .. sizearray(h)
  <2>1. PICK x \in DOMAIN h.node : h.node[x].val # Nil /\ j = h.node[x].key
    BY DEF numusehash
  <2>2. Live(h, x) /\ j \in Keys /\ j \notin 1 .. sizearray(h)
    BY <1>1, <1>2, <2>1 DEF Linked, Live, NodeRec
  <2> QED BY <2>1, <2>2, GetValue
<1>6. ASSUME NEW j \in Keys, Get(h, j) # Nil, j \notin 1 .. sizearray(h)
      PROVE  j \in numusehash(h)
  <2>1. PICK x \in DOMAIN h.node : h.node[x].key = j /\ h.node[x].val = Get(h, j)
    BY <1>6, WherePresent
  <2> QED BY <1>6, <2>1 DEF numusehash
<1> QED BY <1>3, <1>4, <1>5, <1>6

(* Room for the key k has been made.                                       *)
Rehashed(r, h, k) ==
  \E a \in Nat : \E K \in SUBSET Keys : Resized(r, h, a, K) /\ k \in K \cup 1 .. a

(* rehash keeps the content and makes room for the new key.                *)
LEMMA RehashMakesRoom ==
  ASSUME NEW h, Good(h), NEW k \in Keys, luaH_get(h, k) = NoSlot
  PROVE  Rehashed(rehash(h, k), h, k)
<1> DEFINE X == numusearray(h)
           Y == numusehash(h)
           P == {j \in Keys : Get(h, j) # Nil}
           Q == P \cup {k}
           C == X \cup {j \in Y \cup {k} : countint(j)}
           c == computesizes(Slices(C), Cardinality(C))
           a == c.n
           K == {j \in Q : j \notin 1 .. a}
           total == Cardinality(X) + Cardinality(Y) + 1
           m == total - c.na
<1>0. /\ MAXASIZE \in Nat /\ MAX_INT \in Nat /\ IsFiniteSet(Keys)
      /\ Cardinality(Keys) \in Nat /\ Cardinality(Keys) <= MAXASIZE
  BY Powers, SizesAssumption, FS_CardinalityType DEF MAXASIZE
<1>1. rehash(h, k) = Asserting(resize(h, a, m), a \div 2 <= c.na /\ c.na <= a)
  BY DEF rehash
<1>2. Shape(h) BY DEF Good
<1>3. sizearray(h) \in Nat /\ sizearray(h) <= MAXASIZE BY <1>2, Parts DEF Shape
<1>4. /\ X = {j \in Keys : Get(h, j) # Nil /\ j \in 1 .. sizearray(h)}
      /\ Y = {j \in Keys : Get(h, j) # Nil /\ j \notin 1 .. sizearray(h)}
  BY CountedKeys
<1>5. Get(h, k) = Nil BY Absent, GetValue
<1> HIDE DEF X, Y
<1>6. X \cup Y = P /\ X \cap Y = {} /\ P \in SUBSET Keys /\ k \notin P BY <1>4, <1>5
<1>7. \A j \in Keys : j \in 1 .. MAX_INT => j \in Ints BY KeysAssumption DEF Keys
<1>8. X \subseteq Ints
  <2>1. \A j \in X : j \in 1 .. MAX_INT BY <1>0, <1>2, <1>3, <1>4 DEF Shape
  <2> QED BY <1>4, <1>7, <2>1
<1>9. \A j \in Ints : j \in 1 .. MAX_INT BY KeysAssumption
<1>10. C \in SUBSET (Ints \cap 1 .. MAXASIZE)
  <2>1. \A j \in X : j \in Ints \cap 1 .. MAXASIZE BY <1>0, <1>3, <1>4, <1>8
  <2>2. \A j : countint(j) => j \in Ints \cap 1 .. MAXASIZE BY <1>0, <1>9 DEF countint
  <2> QED BY <2>1, <2>2
<1>11. Sizes(c, C)
  <2> HIDE DEF C
  <2> QED BY <1>10, SizesSuit
<1> HIDE DEF c
<1>12. /\ a \in 0 .. MAXASIZE /\ a < MAX_INT /\ c.na = Cardinality(UpTo(C, a))
       /\ a \div 2 <= c.na /\ c.na <= a
  BY <1>11 DEF Sizes
<1>13. UpTo(C, a) = {j \in Q : j \in 1 .. a}
  <2> HIDE DEF a
  <2>1. ASSUME NEW j \in UpTo(C, a) PROVE j \in Q /\ j \in 1 .. a
    <3>1. j \in C /\ j <= a BY DEF UpTo
    <3>2. j \in 1 .. a BY <1>0, <1>10, <1>12, <3>1
    <3> QED BY <1>6, <3>1, <3>2
  <2>2. ASSUME NEW j \in Q, j \in 1 .. a PROVE j \in UpTo(C, a)
    <3>1. j \in 1 .. MAX_INT /\ j <= MAXASIZE /\ j <= a BY <1>0, <1>12, <2>2
    <3>2. countint(j) BY <1>6, <1>7, <3>1 DEF countint
    <3>3. j \in C BY <1>6, <3>2
    <3> QED BY <3>1, <3>3 DEF UpTo
  <2> QED BY <2>1, <2>2
<1>14. /\ IsFiniteSet(X) /\ IsFiniteSet(Y) /\ IsFiniteSet(P)
       /\ Cardinality(X) \in Nat /\ Cardinality(Y) \in Nat /\ Cardinality(P) \in Nat
       /\ Cardinality(P) = Cardinality(X) + Cardinality(Y)
  <2>1. X \in SUBSET Keys /\ Y \in SUBSET Keys BY <1>6
  <2>2. IsFiniteSet(X) /\ IsFiniteSet(Y) BY <1>0, <2>1, FS_Subset
  <2>3. Cardinality(X \cup Y) = Cardinality(X) + Cardinality(Y) - Cardinality({})
    BY <1>6, <2>2, FS_Union
  <2>4. Cardinality(X) \in Nat /\ Cardinality(Y) \in Nat BY <2>2, FS_CardinalityType
  <2>5. Cardinality(X \cup Y) = Cardinality(X) + Cardinality(Y) BY <2>3, <2>4, FS_EmptySet
  <2> HIDE DEF P
  <2>6. IsFiniteSet(P) BY <1>0, <1>6, FS_Subset
  <2> QED BY <1>6, <2>2, <2>4, <2>5, <2>6, FS_CardinalityType
<1> HIDE DEF P
<1>15. /\ Q \in SUBSET Keys /\ IsFiniteSet(Q) /\ Cardinality(Q) = total
       /\ Cardinality(Q) \in Nat /\ Cardinality(Q) <= MAXASIZE
  <2>1. Q \in SUBSET Keys BY <1>6
  <2>2. IsFiniteSet(Q) /\ Cardinality(Q) = Cardinality(P) + 1
    BY <1>6, <1>14, FS_AddElement
  <2> HIDE DEF Q
  <2>3. Cardinality(Q) <= Cardinality(Keys) /\ Cardinality(Q) \in Nat
    BY <1>0, <2>1, <2>2, FS_Subset, FS_CardinalityType
  <2> QED BY <1>0, <1>14, <2>1, <2>2, <2>3
<1> HIDE DEF Q, total, C, a
<1>16. /\ K \in SUBSET Keys /\ Cardinality(K) = m /\ m \in 0 .. MAXASIZE
  <2> DEFINE J == {j \in Q : j \in 1 .. a}
  <2>1. K = Q \ J /\ J = Q \cap J /\ J \in SUBSET Q OBVIOUS
  <2>2. IsFiniteSet(J) /\ Cardinality(J) \in Nat /\ Cardinality(J) <= Cardinality(Q)
    <3> HIDE DEF J
    <3> QED BY <1>15, <2>1, FS_Subset, FS_CardinalityType
  <2>3. c.na = Cardinality(J) BY <1>12, <1>13
  <2>4. Cardinality(K) = Cardinality(Q) - Cardinality(J)
    <3> HIDE DEF J, K
    <3>1. Cardinality(Q \ J) = Cardinality(Q) - Cardinality(Q \cap J) BY <1>15, FS_Difference
    <3>2. Q \cap J = J /\ Q \ J = K BY <2>1
    <3> QED BY <3>1, <3>2
  <2>5. K \in SUBSET Keys BY <1>15
  <2> HIDE DEF J, K
  <2> QED BY <1>0, <1>15, <2>2, <2>3, <2>4, <2>5
<1>17. Beyond(h, a) \subseteq K /\ k \in K \cup 1 .. a BY DEF Beyond, P, Q
<1>18. Cardinality(K) <= m BY <1>0, <1>16
<1> HIDE DEF K, m
<1>19. Resized(resize(h, a, m), h, a, K)
  BY <1>12, <1>16, <1>17, <1>18, ResizeKeeps
<1>20. rehash(h, k) = resize(h, a, m)
  <2>1. Good(resize(h, a, m)) BY <1>19 DEF Resized
  <2>2. a \div 2 <= c.na /\ c.na <= a BY <1>12
  <2> QED BY <1>1, <2>1, <2>2, AssertTrue
<1> QED BY <1>0, <1>12, <1>16, <1>17, <1>19, <1>20 DEF Rehashed

(* newkey always finds a slot for the key, and all else is as it was.      *)
LEMMA NewKeyReady ==
  ASSUME NEW h, Good(h), NEW k \in Keys, luaH_get(h, k) = NoSlot
  PROVE  Ready(newkey(h, k), h, k)
<1>1. Placed(PlaceKey(h, k), h, k) BY PlaceInRoom
<1>2. CASE PlaceKey(h, k).slot # NoSlot
  <2>1. newkey(h, k) = PlaceKey(h, k) BY <1>2 DEF newkey
  <2>2. PICK i \in DOMAIN h.node :
           PlaceKey(h, k).slot = NodeSlot(i) /\ Inserted(PlaceKey(h, k).t, h, k, i)
    BY <1>1, <1>2 DEF Placed
  <2> QED BY <1>2, <2>1, <2>2 DEF Ready, Inserted
<1>3. CASE PlaceKey(h, k).slot = NoSlot
  <2> DEFINE g == rehash(h, k)
  <2>1. newkey(h, k) = SetIn(g, k) BY <1>3 DEF newkey
  <2>2. Rehashed(g, h, k) BY RehashMakesRoom
  <2> HIDE DEF g
  <2>3. PICK a \in Nat, K \in SUBSET Keys : Resized(g, h, a, K) /\ k \in K \cup 1 .. a
    BY <2>2 DEF Rehashed
  <2>4. /\ Good(g) /\ Fresh(g, K) /\ g.ok = h.ok /\ sizearray(g) = a
        /\ \A j \in Keys : Get(g, j) = Get(h, j)
    BY <2>3 DEF Resized
  <2>5. Ready(SetIn(g, k), g, k)
    <3> SUFFICES ASSUME ~Ready(SetIn(g, k), g, k) PROVE FALSE OBVIOUS
    <3>1. /\ luaH_get(g, k) = NoSlot
          /\ g.dummy \/ \A x \in DOMAIN g.node : g.node[x].key # Nil
      BY <2>4, SetInReady
    <3>2. k \notin 1 .. a BY <2>4, <3>1, Absent
    <3>3. k \in K BY <2>3, <3>2
    <3> QED BY <2>4, <3>1, <3>3, RoomLeft
  <2> QED BY <2>1, <2>4, <2>5 DEF Ready
<1> QED BY <1>2, <1>3

(* luaH_set finds or makes the slot of the key.                            *)
LEMMA SetReady ==
  ASSUME NEW h, Good(h), NEW k \in Keys
  PROVE  /\ Ready(luaH_set(h, k), h, k)
         /\ k \in Ints => Ready(luaH_setnum(h, k), h, k)
         /\ k \in Strings => Ready(luaH_setstr(h, k), h, k)
<1> DEFINE r == IF luaH_get(h, k) # NoSlot THEN [t |-> h, slot |-> luaH_get(h, k)]
                ELSE newkey(h, k)
<1>1. Ready(r, h, k)
  <2>1. CASE luaH_get(h, k) # NoSlot BY <2>1 DEF Ready
  <2>2. CASE luaH_get(h, k) = NoSlot BY <2>2, NewKeyReady
  <2> QED BY <2>1, <2>2
<1>2. /\ luaH_set(h, k) = r
      /\ k \in Ints => luaH_setnum(h, k) = r
      /\ k \in Strings => luaH_setstr(h, k) = r
  BY GetSpecial DEF luaH_set, luaH_setnum, luaH_setstr
<1> QED BY <1>1, <1>2

(* Growing the array part keeps the content: the nodes hold what is        *)
(* beyond it.                                                              *)
LEMMA GrowKeeps ==
  ASSUME NEW h, Good(h), NEW a \in 0 .. MAXASIZE, a < MAX_INT, sizearray(h) <= a
  PROVE  Resized(luaH_resizearray(h, a), h, a, Beyond(h, a))
<1> DEFINE m == IF h.dummy THEN 0 ELSE sizenode(h)
           K == Beyond(h, a)
           D == DOMAIN h.node
           f == [k \in K |-> CHOOSE x \in D : Live(h, x) /\ h.node[x].key = k]
<1>1. Shape(h) BY DEF Good
<1>2. /\ sizenode(h) \in Nat \ {0} /\ sizenode(h) <= MAXASIZE /\ D = 0 .. sizenode(h) - 1
      /\ sizearray(h) \in Nat
  BY <1>1, Parts
<1>3. MAXASIZE \in Nat /\ a \in Nat BY Powers, SizesAssumption DEF MAXASIZE
<1>4. IsFiniteSet(D) /\ Cardinality(D) = sizenode(h) BY <1>2, FS_Interval DEF sizenode
<1>5. ASSUME NEW k \in K
      PROVE  \E x \in D : Live(h, x) /\ h.node[x].key = k
  <2>1. k \in Keys /\ Get(h, k) # Nil /\ k \notin 1 .. a BY DEF Beyond
  <2>2. k \notin 1 .. sizearray(h) BY <1>2, <1>3, <2>1
  <2> QED BY <2>1, <2>2, WherePresent
<1>6. \A k \in K : f[k] \in D /\ Live(h, f[k]) /\ h.node[f[k]].key = k BY <1>5
<1>7. K \in SUBSET Keys BY DEF Beyond
<1>8. IsFiniteSet(K) /\ Cardinality(K) \in Nat
  BY <1>7, FS_Subset, FS_CardinalityType, SizesAssumption
<1>9. f \in [K -> D] /\ \A k, j \in K : f[k] = f[j] => k = j
  <2>1. f \in [K -> D] BY <1>6
  <2> HIDE DEF f
  <2> QED BY <1>6, <2>1
<1>10. Cardinality(K) <= Cardinality(D)
  <2> SUFFICES ASSUME Cardinality(D) < Cardinality(K) PROVE FALSE BY <1>2, <1>4, <1>8
  <2> HIDE DEF f, K, D
  <2>1. \E k, j \in K : k # j /\ f[k] = f[j] BY <1>4, <1>8, <1>9, FS_PigeonHole
  <2> QED BY <1>9, <2>1
<1>11. Cardinality(K) <= m
  <2>1. CASE h.dummy
    <3>1. \A x \in D : ~Live(h, x) BY <1>1, <1>2, <2>1 DEF Shape, Live, EmptyNode
    <3>2. K = {} BY <1>5, <3>1
    <3> HIDE DEF K
    <3> QED BY <2>1, <3>2, FS_EmptySet
  <2>2. CASE ~h.dummy BY <1>4, <1>10, <2>2
  <2> QED BY <2>1, <2>2
<1>12. m \in 0 .. MAXASIZE BY <1>2, <1>3
<1>13. luaH_resizearray(h, a) = resize(h, a, m) BY DEF luaH_resizearray
<1> HIDE DEF m, K
<1>14. Beyond(h, a) \subseteq K BY DEF K
<1>15. Resized(resize(h, a, m), h, a, K) BY <1>7, <1>11, <1>12, <1>14, ResizeKeeps
<1> QED BY <1>13, <1>15 DEF K

(* v has been assigned to k.                                               *)
AssignedIn(g, h, k, v) ==
  /\ Good(g) /\ g.ok = h.ok
  /\ \A j \in Keys : Get(g, j) = IF j = k THEN v ELSE Get(h, j)

(* An assignment through the slot that luaH_set returned                   *)
LEMMA AssignReady ==
  ASSUME NEW h, NEW k \in Keys, NEW r, Ready(r, h, k), NEW v \in Value
  PROVE  /\ AssignedIn(Store(r.t, r.slot, v), h, k, v)
         /\ ValueAt(r.t, r.slot) = Get(h, k)
<1> DEFINE q == r.t
           g == Store(q, r.slot, v)
<1>1. /\ Good(q) /\ r.slot = luaH_get(q, k) /\ r.slot # NoSlot
      /\ q.ok = h.ok /\ \A j \in Keys : Get(q, j) = Get(h, j)
  BY DEF Ready
<1>2. ValueAt(q, r.slot) = Get(h, k) BY <1>1 DEF Get
<1> HIDE DEF q
<1>3. /\ Good(g) /\ g.ok = q.ok
      /\ \A j \in Keys : Get(g, j) = IF j = k THEN v ELSE Get(q, j)
  BY <1>1, StoreFound
<1> HIDE DEF g
<1>4. \A j \in Keys : Get(g, j) = IF j = k THEN v ELSE Get(h, j) BY <1>1, <1>3
<1> QED BY <1>1, <1>2, <1>3, <1>4 DEF AssignedIn, g, q

-----------------------------------------------------------------------------
(* Traversal                                                               *)

(* A dead key marks its place like a live one.                             *)
LEMMA FindIndexIs ==
  ASSUME NEW h, Good(h), NEW k \in Keys \cup {Nil}
  PROVE  /\ k = Nil => findindex(h, k) = 0
         /\ k \in 1 .. sizearray(h) => findindex(h, k) = k
         /\ k # Nil /\ k \notin 1 .. sizearray(h) =>
              LET i == InChain(Links(h), mainposition(h, k), AllWithKey(h, k))
              IN  /\ i \in DOMAIN h.node \cup {NoNode}
                  /\ findindex(h, k) = IF i = NoNode THEN NoNode ELSE sizearray(h) + i + 1
<1> DEFINE marks == {j \in DOMAIN h.node : /\ h.node[j].key = k
                                           /\ h.node[j].dead => k \in Strings \cup Objects}
           i == InChain(Links(h), mainposition(h, k), AllWithKey(h, k))
<1>1. Shape(h) /\ Linked(h) BY DEF Good
<1>2. marks = AllWithKey(h, k) BY <1>1 DEF Linked, AllWithKey, Collectable
<1>3. k \in 1 .. sizearray(h) => k # Nil
  <2>1. sizearray(h) \in Nat /\ sizearray(h) < MAX_INT /\ MAX_INT \in Nat
    BY <1>1, Parts, SizesAssumption DEF Shape
  <2>2. k \in 1 .. sizearray(h) => k \in 1 .. MAX_INT BY <2>1
  <2> QED BY <2>2, KeysAssumption
<1>4. findindex(h, k) = IF k = Nil THEN 0 ELSE IF k \in 1 .. sizearray(h) THEN k
                        ELSE IF i = NoNode THEN NoNode ELSE sizearray(h) + i + 1
  BY <1>2 DEF findindex
<1>5. ASSUME k # Nil PROVE i \in DOMAIN h.node \cup {NoNode}
  <2> DEFINE N == sizenode(h)
             q == mainposition(h, k)
             W == AllWithKey(h, k)
  <2>1. N \in Nat \ {0} /\ Links(h) \in Linking(N) BY <1>1, Parts
  <2>2. q \in 0 .. N - 1 BY <1>5, <2>1, MainPosition
  <2>3. W \subseteq DOMAIN h.node BY DEF AllWithKey
  <2> HIDE DEF N, q, W
  <2>4. InChain(Links(h), q, W) \in W \cup {NoNode} BY <2>1, <2>2, ChainType
  <2>5. InChain(Links(h), q, W) \in DOMAIN h.node \cup {NoNode} BY <2>3, <2>4
  <2> QED BY <2>5 DEF q, W
<1> HIDE DEF i
<1>6. k # Nil /\ k \notin 1 .. sizearray(h) =>
        /\ i \in DOMAIN h.node \cup {NoNode}
        /\ findindex(h, k) = IF i = NoNode THEN NoNode ELSE sizearray(h) + i + 1
  BY <1>4, <1>5
<1> QED BY <1>3, <1>4, <1>6 DEF i

(* The element that follows no other has a number.                         *)
LEMMA FindIndexType ==
  ASSUME NEW h, Good(h), NEW k \in Keys \cup {Nil}, findindex(h, k) # NoNode
  PROVE  findindex(h, k) \in Nat
<1>1. Shape(h) BY DEF Good
<1>2. DOMAIN h.node = 0 .. sizenode(h) - 1 /\ sizenode(h) \in Nat /\ sizearray(h) \in Nat
  BY <1>1, Parts
<1> DEFINE i == InChain(Links(h), mainposition(h, k), AllWithKey(h, k))
<1>3. CASE k = Nil BY <1>3, FindIndexIs
<1>4. CASE k \in 1 .. sizearray(h) BY <1>2, <1>4, FindIndexIs
<1>5. CASE k # Nil /\ k \notin 1 .. sizearray(h)
  <2>1. /\ i \in DOMAIN h.node \cup {NoNode}
        /\ findindex(h, k) = IF i = NoNode THEN NoNode ELSE sizearray(h) + i + 1
    BY <1>5, FindIndexIs
  <2> HIDE DEF i
  <2> QED BY <1>2, <2>1
<1> QED BY <1>3, <1>4, <1>5

(* A key that is present has a number, where its element is found.         *)
LEMMA PresentElement ==
  ASSUME NEW h, Good(h), NEW k \in Keys, Get(h, k) # Nil
  PROVE  /\ Number(h, k) \in 1 .. sizearray(h) + sizenode(h)
         /\ Element(h, Number(h, k)) = [error |-> FALSE, key |-> k, val |-> Get(h, k)]
         /\ findindex(h, k) = Number(h, k)
<1> DEFINE A == sizearray(h)
           N == sizenode(h)
<1>1. Shape(h) /\ Chained(h) BY DEF Good
<1>2. /\ N \in Nat \ {0} /\ DOMAIN h.node = 0 .. N - 1 /\ A \in Nat
      /\ Links(h) \in Linking(N)
  BY <1>1, Parts
<1>3. CASE k \in 1 .. A
  <2>1. luaH_get(h, k) = ArraySlot(k) /\ Get(h, k) = h.array[k] BY <1>3, Lookup, GetValue
  <2>2. Number(h, k) = k BY <2>1 DEF Number, ArraySlot
  <2>3. k <= A /\ k \in 1 .. A + N BY <1>2, <1>3
  <2>4. Element(h, k) = [error |-> FALSE, key |-> k, val |-> Get(h, k)]
    BY <2>1, <2>3 DEF Element
  <2> QED BY <1>3, <2>2, <2>3, <2>4, FindIndexIs
<1>4. CASE k \notin 1 .. A
  <2>1. PICK x \in DOMAIN h.node : Live(h, x) /\ h.node[x].key = k /\ h.node[x].val = Get(h, k)
    BY <1>4, WherePresent
  <2>2. luaH_get(h, k) = NodeSlot(x) BY <2>1, Lookup
  <2>3. Number(h, k) = A + x + 1 BY <2>2 DEF Number, NodeSlot
  <2>4. A + x + 1 \in 1 .. A + N /\ ~(A + x + 1 <= A) /\ (A + x + 1) - A - 1 = x BY <1>2
  <2> DEFINE q == mainposition(h, k)
             W == AllWithKey(h, k)
             j == A + x + 1
  <2>5. Element(h, j) = [error |-> FALSE, key |-> k, val |-> Get(h, k)]
    <3>1. j - A - 1 = x /\ ~(j <= A) BY <2>4
    <3> HIDE DEF j
    <3> QED BY <2>1, <3>1 DEF Element
  <2>6. q \in 0 .. N - 1 BY <1>2, MainPosition
  <2>7. Reach(Links(h), q, x) /\ First(Links(h), q, x, W)
    BY <1>1, <2>1 DEF Chained, InPlace, Home
  <2>8. W \in SUBSET (0 .. N - 1) /\ x \in W BY <1>2, <2>1 DEF AllWithKey
  <2>9. InChain(Links(h), q, W) = x
    <3> HIDE DEF q, W, N
    <3> QED BY <1>2, <2>6, <2>7, <2>8, ChainFinds
  <2>10. k # Nil /\ x # NoNode BY <1>2, <2>1 DEF Live, NoNode
  <2>11. findindex(h, k) = j BY <1>4, <2>9, <2>10, FindIndexIs
  <2> QED BY <2>3, <2>4, <2>5, <2>11
<1> QED BY <1>3, <1>4

(* An element with a value is that of a key that is present.               *)
LEMMA ElementPresent ==
  ASSUME NEW h, Good(h), NEW m \in 1 .. sizearray(h) + sizenode(h), Element(h, m).val # Nil
  PROVE  LET e == Element(h, m)
         IN  /\ e.key \in Keys /\ Get(h, e.key) = e.val /\ Number(h, e.key) = m /\ ~e.error
<1> DEFINE A == sizearray(h)
           N == sizenode(h)
           e == Element(h, m)
<1>1. Shape(h) /\ Linked(h) BY DEF Good
<1>2. /\ N \in Nat \ {0} /\ DOMAIN h.node = 0 .. N - 1 /\ A \in Nat
      /\ \A x \in DOMAIN h.node : h.node[x] \in NodeRec(N)
  BY <1>1, Parts
<1>3. CASE m <= A
  <2>1. m \in 1 .. A BY <1>2, <1>3
  <2>2. e = [error |-> FALSE, key |-> m, val |-> h.array[m]] BY <1>3 DEF Element
  <2>3. e.key = m /\ e.val = h.array[m] /\ ~e.error /\ e.val # Nil BY <2>2
  <2>4. m \in Keys BY <1>1, <2>1, <2>3 DEF Shape, Keys
  <2>5. luaH_get(h, m) = ArraySlot(m) /\ Get(h, m) = h.array[m] BY <2>1, <2>4, Lookup, GetValue
  <2>6. Number(h, m) = m BY <2>5 DEF Number, ArraySlot
  <2> HIDE DEF e
  <2>7. e.key \in Keys /\ Get(h, e.key) = e.val /\ Number(h, e.key) = m /\ ~e.error
    BY <2>3, <2>4, <2>5, <2>6
  <2> QED BY <2>7 DEF e
<1>4. CASE ~(m <= A)
  <2> DEFINE x == m - A - 1
  <2>1. x \in DOMAIN h.node /\ A + x + 1 = m BY <1>2, <1>4
  <2>2. e = [error |-> FALSE, key |-> h.node[x].key, val |-> h.node[x].val]
    BY <1>4 DEF Element
  <2>3. e.key = h.node[x].key /\ e.val = h.node[x].val /\ ~e.error /\ e.val # Nil BY <2>2
  <2> HIDE DEF x, e
  <2>4. Live(h, x) /\ h.node[x].key \in Keys
    BY <1>1, <1>2, <2>1, <2>3 DEF Linked, Live, NodeRec
  <2>5. luaH_get(h, e.key) = NodeSlot(x) /\ Get(h, e.key) = h.node[x].val
    BY <2>3, <2>4, Lookup, GetValue
  <2>6. Number(h, e.key) = m BY <2>1, <2>5 DEF Number, NodeSlot
  <2>7. e.key \in Keys /\ Get(h, e.key) = e.val /\ Number(h, e.key) = m /\ ~e.error
    BY <2>3, <2>4, <2>5, <2>6
  <2> QED BY <2>7 DEF e
<1> QED BY <1>3, <1>4

(* Where the nodes keep their keys and links, a key keeps its place.       *)
LEMMA SameIndex ==
  ASSUME NEW h, Good(h), NEW g, Good(g), SameNodes(g, h), NEW k \in Keys \cup {Nil}
  PROVE  findindex(g, k) = findindex(h, k)
<1>1. Shape(g) BY DEF Good
<1>2. Links(g) = Links(h) /\ sizenode(g) = sizenode(h) /\ AllWithKey(g, k) = AllWithKey(h, k)
  BY <1>1, SameChains
<1>3. mainposition(g, k) = mainposition(h, k) BY <1>2, SamePosition
<1>4. sizearray(g) = sizearray(h) BY DEF SameNodes
<1>5. CASE k = Nil BY <1>5, FindIndexIs
<1>6. CASE k \in 1 .. sizearray(h) BY <1>4, <1>6, FindIndexIs
<1>7. CASE k # Nil /\ k \notin 1 .. sizearray(h)
  <2> DEFINE i == InChain(Links(h), mainposition(h, k), AllWithKey(h, k))
  <2>1. findindex(h, k) = IF i = NoNode THEN NoNode ELSE sizearray(h) + i + 1
    BY <1>7, FindIndexIs
  <2>2. findindex(g, k) = IF i = NoNode THEN NoNode ELSE sizearray(h) + i + 1
    BY <1>2, <1>3, <1>4, <1>7, FindIndexIs
  <2> HIDE DEF i
  <2> QED BY <2>1, <2>2
<1> QED BY <1>5, <1>6, <1>7

(* and its number.                                                         *)
LEMMA SameNumber ==
  ASSUME NEW h, NEW g, NEW k, sizearray(g) = sizearray(h), luaH_get(g, k) = luaH_get(h, k)
  PROVE  Number(g, k) = Number(h, k)
BY DEF Number

(* The collector kills keys                                                *)
Killed(h) == [h EXCEPT !.node = [i \in DOMAIN h.node |-> removeentry(h.node[i])]]

(* of empty nodes only: nothing is read otherwise, and every key that is   *)
(* present keeps its number.                                               *)
LEMMA CollectKeeps ==
  ASSUME NEW h, Good(h)
  PROVE  LET g == Killed(h)
         IN  /\ Good(g) /\ SameNodes(g, h) /\ g.ok = h.ok
             /\ \A k \in Keys : Get(g, k) = Get(h, k)
             /\ \A k \in Keys : Get(h, k) # Nil => Number(g, k) = Number(h, k)
<1> DEFINE N == sizenode(h)
           nds == [i \in DOMAIN h.node |-> removeentry(h.node[i])]
           g == Killed(h)
<1>1. Shape(h) /\ Linked(h) BY DEF Good
<1>2. /\ N \in Nat \ {0} /\ DOMAIN h.node = 0 .. N - 1
      /\ \A i \in DOMAIN h.node : h.node[i] \in NodeRec(N)
  BY <1>1, Parts
<1>3. h \in TableRec(N) BY <1>1 DEF Shape
<1>4. ASSUME NEW n \in NodeRec(N)
      PROVE  LET m == removeentry(n)
             IN  /\ m \in NodeRec(N) /\ m.key = n.key /\ m.val = n.val /\ m.next = n.next
                 /\ m.dead = (n.dead \/ (n.val = Nil /\ n.key \in Collectable))
  <2>1. CASE n.val = Nil /\ n.key \in Strings \cup Objects
    <3>1. removeentry(n) = [n EXCEPT !.dead = TRUE] BY <2>1 DEF removeentry
    <3> QED BY <2>1, <3>1 DEF NodeRec, Collectable
  <2>2. CASE ~(n.val = Nil /\ n.key \in Strings \cup Objects)
    <3>1. removeentry(n) = n BY <2>2 DEF removeentry
    <3> QED BY <2>2, <3>1 DEF NodeRec, Collectable
  <2> QED BY <2>1, <2>2
<1>5. /\ nds \in [0 .. N - 1 -> NodeRec(N)]
      /\ \A i \in DOMAIN h.node :
           /\ nds[i].key = h.node[i].key /\ nds[i].val = h.node[i].val
           /\ nds[i].next = h.node[i].next
           /\ nds[i].dead = (h.node[i].dead \/ (h.node[i].val = Nil
                                                 /\ h.node[i].key \in Collectable))
  BY <1>2, <1>4
<1>6. /\ g \in TableRec(N) /\ g.node = nds /\ g.array = h.array /\ g.dummy = h.dummy
      /\ g.lastfree = h.lastfree /\ g.ok = h.ok
  <2>1. g = [h EXCEPT !.node = nds] BY DEF Killed
  <2> HIDE DEF g, nds, N
  <2> QED BY <1>3, <1>5, <2>1 DEF TableRec
<1> HIDE DEF g, nds
<1>7. DOMAIN g.node = 0 .. N - 1 /\ sizenode(g) = N /\ sizearray(g) = sizearray(h)
  <2>1. DOMAIN g.node = DOMAIN h.node BY <1>2, <1>5, <1>6
  <2> QED BY <1>2, <1>6, <2>1 DEF sizenode, sizearray
<1>8. ASSUME NEW i \in 0 .. N - 1
      PROVE  /\ g.node[i].key = h.node[i].key /\ g.node[i].val = h.node[i].val
             /\ g.node[i].next = h.node[i].next
             /\ g.node[i].dead = (h.node[i].dead \/ (h.node[i].val = Nil
                                                       /\ h.node[i].key \in Collectable))
             /\ g.node[i] \in NodeRec(N) /\ h.node[i] \in NodeRec(N)
  <2> HIDE DEF N
  <2> QED BY <1>2, <1>5, <1>6
<1>9. Nil \notin Collectable BY KeysAssumption DEF Keys, Collectable
<1>10. Shape(g)
  <2>1. g.dummy => g.node[0] = EmptyNode
    <3>1. ASSUME h.dummy PROVE g.node[0] = EmptyNode
      <4>1. N = 1 /\ h.node[0] = EmptyNode BY <1>1, <3>1 DEF Shape
      <4>2. 0 \in 0 .. N - 1 BY <4>1
      <4>3. /\ g.node[0].key = Nil /\ g.node[0].val = Nil /\ g.node[0].next = NoNode
            /\ g.node[0].dead = FALSE /\ g.node[0] \in NodeRec(N)
        <5>1. /\ h.node[0].key = Nil /\ h.node[0].val = Nil /\ h.node[0].next = NoNode
              /\ h.node[0].dead = FALSE
          BY <4>1 DEF EmptyNode
        <5> HIDE DEF N
        <5>2. /\ g.node[0].key = Nil /\ g.node[0].val = Nil /\ g.node[0].next = NoNode
              /\ g.node[0] \in NodeRec(N)
          BY <1>8, <4>2, <5>1
        <5>3. g.node[0].dead = FALSE BY <1>8, <1>9, <4>2, <5>1
        <5> QED BY <5>2, <5>3
      <4> QED BY <4>3 DEF NodeRec, EmptyNode
    <3> QED BY <1>6, <3>1
  <2> QED BY <1>1, <1>6, <1>7, <2>1 DEF Shape
<1>11. Linked(g)
  <2>1. ASSUME NEW i \in DOMAIN g.node
        PROVE  /\ g.node[i].key = Nil => /\ g.node[i].val = Nil
                                         /\ g.node[i].next = NoNode
                                         /\ ~g.node[i].dead
                                         /\ \A j \in DOMAIN g.node : g.node[j].next # i
               /\ g.node[i].dead => g.node[i].val = Nil /\ g.node[i].key \in Collectable
               /\ g.node[i].key \notin 1 .. sizearray(g)
    <3>1. i \in 0 .. N - 1 /\ i \in DOMAIN h.node BY <1>2, <1>7
    <3> HIDE DEF N
    <3>2. /\ g.node[i].key = h.node[i].key /\ g.node[i].val = h.node[i].val
          /\ g.node[i].next = h.node[i].next
          /\ g.node[i].dead => h.node[i].dead
                                \/ (h.node[i].val = Nil /\ h.node[i].key \in Collectable)
      BY <1>8, <3>1
    <3>3. \A j \in DOMAIN g.node : g.node[j].next = h.node[j].next BY <1>7, <1>8
    <3>4. /\ h.node[i].key = Nil => /\ h.node[i].val = Nil
                                    /\ h.node[i].next = NoNode
                                    /\ ~h.node[i].dead
                                    /\ \A j \in DOMAIN h.node : h.node[j].next # i
          /\ h.node[i].dead => h.node[i].val = Nil /\ h.node[i].key \in Collectable
          /\ h.node[i].key \notin 1 .. sizearray(h)
      BY <1>1, <3>1 DEF Linked
    <3> QED BY <1>2, <1>7, <1>9, <3>2, <3>3, <3>4
  <2>2. \A i, j \in DOMAIN g.node :
           g.node[i].next = g.node[j].next /\ g.node[i].next # NoNode => i = j
    BY <1>1, <1>2, <1>7, <1>8 DEF Linked
  <2>3. \A i \in g.lastfree .. sizenode(g) - 1 : ~g.dummy => g.node[i].key # Nil
    <3>1. h.lastfree \in 0 .. N BY <1>3 DEF TableRec
    <3>2. \A i \in h.lastfree .. N - 1 : i \in 0 .. N - 1 BY <1>2, <3>1
    <3> QED BY <1>1, <1>6, <1>7, <1>8, <3>2 DEF Linked
  <2> QED BY <2>1, <2>2, <2>3 DEF Linked
<1>12. SameNodes(g, h) BY <1>2, <1>6, <1>7, <1>8 DEF SameNodes
<1>13. Good(g) BY <1>10, <1>11, <1>12, SameChains DEF Good
<1>14. \A x : Live(g, x) <=> /\ Live(h, x)
                            /\ ~(h.node[x].val = Nil /\ h.node[x].key \in Collectable)
  BY <1>2, <1>7, <1>8 DEF Live
<1>15. ASSUME NEW k \in Keys PROVE Get(g, k) = Get(h, k)
  <2>1. CASE k \in 1 .. sizearray(h) BY <1>6, <1>7, <1>13, <2>1, GetValue
  <2>2. CASE k \notin 1 .. sizearray(h)
    <3>1. CASE \E x : Live(g, x) /\ g.node[x].key = k
      <4>1. PICK x : Live(g, x) /\ g.node[x].key = k BY <3>1
      <4>2. x \in 0 .. N - 1 BY <1>7, <4>1 DEF Live
      <4>3. Live(h, x) /\ h.node[x].key = k /\ g.node[x].val = h.node[x].val
        BY <1>8, <1>14, <4>1, <4>2
      <4> QED BY <1>13, <4>1, <4>3, GetValue
    <3>2. CASE \A x : ~(Live(g, x) /\ g.node[x].key = k)
      <4>1. Get(g, k) = Nil BY <1>7, <1>13, <2>2, <3>2, GetValue
      <4>2. Get(h, k) = Nil
        <5> SUFFICES ASSUME Get(h, k) # Nil PROVE FALSE OBVIOUS
        <5>1. PICK x \in DOMAIN h.node :
                 Live(h, x) /\ h.node[x].key = k /\ h.node[x].val = Get(h, k)
          BY <2>2, WherePresent
        <5> QED BY <1>2, <1>8, <1>14, <3>2, <5>1
      <4> QED BY <4>1, <4>2
    <3> QED BY <3>1, <3>2
  <2> QED BY <2>1, <2>2
<1>16. ASSUME NEW k \in Keys, Get(h, k) # Nil PROVE luaH_get(g, k) = luaH_get(h, k)
  <2>1. CASE k \in 1 .. sizearray(h) BY <1>7, <1>13, <2>1, Lookup
  <2>2. CASE k \notin 1 .. sizearray(h)
    <3>1. PICK x \in DOMAIN h.node :
             Live(h, x) /\ h.node[x].key = k /\ h.node[x].val = Get(h, k)
      BY <1>16, <2>2, WherePresent
    <3>2. Live(g, x) /\ g.node[x].key = k BY <1>2, <1>8, <1>14, <1>16, <3>1
    <3> QED BY <1>13, <3>1, <3>2, Lookup
  <2> QED BY <2>1, <2>2
<1>17. \A k \in Keys : Get(h, k) # Nil => Number(g, k) = Number(h, k)
  BY <1>7, <1>16, SameNumber
<1>18. /\ Good(g) /\ SameNodes(g, h) /\ g.ok = h.ok
       /\ \A k \in Keys : Get(g, k) = Get(h, k)
       /\ \A k \in Keys : Get(h, k) # Nil => Number(g, k) = Number(h, k)
  BY <1>6, <1>12, <1>13, <1>15, <1>17
<1> QED BY <1>18 DEF g

-----------------------------------------------------------------------------
(* The invariant                                                           *)

(* A new table is empty.                                                   *)
LEMMA InitInv == Init => Inv
<1> SUFFICES ASSUME Init PROVE Inv OBVIOUS
<1> DEFINE bare == [array |-> <<>>, node |-> <<>>, dummy |-> TRUE,
                    lastfree |-> 0, ok |-> TRUE]
<1>1. PICK s \in NewSizes : t = luaH_new(s[1], s[2]) BY DEF Init
<1>2. s[1] \in 0 .. MAXASIZE /\ s[2] \in 0 .. MAXASIZE /\ s[1] < MAX_INT
  BY SizesAssumption
<1>3. t = setnodevector(setarrayvector(bare, s[1]), s[2]) BY <1>1 DEF luaH_new
<1>4. Bare(bare) /\ bare.ok = TRUE /\ sizearray(bare) = 0
  <2>1. bare.array = <<>> /\ bare.node = <<>> /\ bare.dummy = TRUE /\ bare.lastfree = 0
        /\ bare.ok = TRUE
    OBVIOUS
  <2>2. sizearray(bare) = 0 BY <2>1 DEF sizearray
  <2>3. <<>> \in Seq(Value) OBVIOUS
  <2>4. bare \in [array : Seq(Value), node : {bare.node}, dummy : {bare.dummy},
                  lastfree : {bare.lastfree}, ok : BOOLEAN]
    BY <2>1, <2>3
  <2> QED BY <2>1, <2>2, <2>4 DEF Bare
<1> HIDE DEF bare
<1>5. NewTable(t, bare, s[1], s[2]) BY <1>2, <1>3, <1>4, NewParts
<1>6. /\ Good(t) /\ t.ok = TRUE /\ \A x \in DOMAIN t.node : t.node[x] = EmptyNode
      /\ \A i \in 1 .. sizearray(t) : t.array[i] = IF i <= 0 THEN bare.array[i] ELSE Nil
  BY <1>4, <1>5 DEF NewTable
<1>7. content = [k \in Keys |-> Nil] BY DEF Init, Map!Init
<1>8. ASSUME NEW k \in Keys PROVE Get(t, k) = Nil
  <2>1. \A x : ~Live(t, x) BY <1>6 DEF Live, EmptyNode
  <2>2. CASE k \in 1 .. sizearray(t)
    <3>1. Shape(t) BY <1>6 DEF Good
    <3>2. sizearray(t) \in Nat BY <3>1, Parts
    <3>3. t.array[k] = Nil BY <1>6, <2>2, <3>2
    <3> QED BY <1>6, <2>2, <3>3, GetValue
  <2>3. CASE k \notin 1 .. sizearray(t) BY <1>6, <2>1, <2>3, GetValue
  <2> QED BY <2>2, <2>3
<1>9. ReadsWhatWasAssigned BY <1>7, <1>8 DEF ReadsWhatWasAssigned
<1>10. ProgramType /\ ~trav.on
  <2>1. trav = [on |-> FALSE, at |-> Nil, seen |-> {}] BY DEF Init, NoTraversal
  <2>2. ctor \in [open : BOOLEAN, built : Nat, pending : Seq(Ints)] /\ ctor.pending = <<>>
    <3>1. \/ ctor = [open |-> FALSE, built |-> 0, pending |-> <<>>]
          \/ ctor = [open |-> TRUE, built |-> 0, pending |-> <<>>]
      BY DEF Init, Complete
    <3>2. <<>> \in Seq(Ints) OBVIOUS
    <3>3. CASE ctor = [open |-> FALSE, built |-> 0, pending |-> <<>>] BY <3>2, <3>3
    <3>4. CASE ctor = [open |-> TRUE, built |-> 0, pending |-> <<>>] BY <3>2, <3>4
    <3> QED BY <3>1, <3>3, <3>4
  <2>3. content \in [Keys -> Value] BY <1>7 DEF Value
  <2> QED BY <2>1, <2>2, <2>3 DEF ProgramType
<1>11. Met BY <1>10 DEF Met
<1> QED BY <1>6, <1>9, <1>10, <1>11 DEF Inv

(* What an assignment makes of the content                                 *)
LEMMA ContentAssigned ==
  ASSUME Inv, NEW k \in Keys, NEW v \in Value, Map!Assign(k, v)
  PROVE  /\ content' \in [Keys -> Value]
         /\ \A j \in Keys : content'[j] = IF j = k THEN v ELSE content[j]
<1>1. content' = [content EXCEPT ![k] = v] BY DEF Map!Assign
<1>2. content \in [Keys -> Value] BY DEF Inv, ProgramType
<1> QED BY <1>1, <1>2

(* The table follows.                                                      *)
LEMMA AssignInv ==
  ASSUME Inv, NEW k \in Keys, NEW v \in Value, NEW STATE r, Ready(r, t, k), Assigned(r, k, v)
  PROVE  /\ Good(t') /\ t'.ok /\ content' \in [Keys -> Value] /\ ReadsWhatWasAssigned'
         /\ \A j \in Keys : content'[j] = IF j = k THEN v ELSE content[j]
<1>1. t' = Store(r.t, r.slot, v) /\ Map!Assign(k, v) BY DEF Assigned
<1>2. /\ content' \in [Keys -> Value]
      /\ \A j \in Keys : content'[j] = IF j = k THEN v ELSE content[j]
  BY <1>1, ContentAssigned
<1> DEFINE g == Store(r.t, r.slot, v)
<1>3. /\ Good(g) /\ g.ok = t.ok
      /\ \A j \in Keys : Get(g, j) = IF j = k THEN v ELSE Get(t, j)
  <2>1. AssignedIn(g, t, k, v) BY AssignReady
  <2> HIDE DEF g
  <2> QED BY <2>1 DEF AssignedIn
<1>4. t' = g /\ t.ok /\ \A j \in Keys : Get(t, j) = content[j]
  BY <1>1 DEF Inv, ReadsWhatWasAssigned
<1> HIDE DEF g
<1>5. \A j \in Keys : Get(t', j) = content'[j] BY <1>2, <1>3, <1>4
<1> QED BY <1>2, <1>3, <1>4, <1>5 DEF ReadsWhatWasAssigned

(* The parts of the invariant                                              *)
LEMMA InvParts ==
  ASSUME Inv
  PROVE  /\ Good(t) /\ t.ok /\ content \in [Keys -> Value]
         /\ ctor \in [open : BOOLEAN, built : Nat, pending : Seq(Ints)]
         /\ ctor.pending # <<>> => ctor.open
         /\ trav \in [on : BOOLEAN, at : Keys \cup {Nil}, seen : SUBSET Keys]
         /\ \A k \in Keys : Get(t, k) = content[k]
         /\ trav.on => /\ ~ctor.open /\ findindex(t, trav.at) # NoNode
                       /\ trav.seen = {k \in Present : Number(t, k) <= findindex(t, trav.at)}
BY DEF Inv, ProgramType, ReadsWhatWasAssigned, Met

(* No traversal is a traversal of the right type that has met nothing.     *)
LEMMA NoTraversalType ==
  /\ NoTraversal \in [on : BOOLEAN, at : Keys \cup {Nil}, seen : SUBSET Keys]
  /\ ~NoTraversal.on
BY DEF NoTraversal

(* An assignment to a key that is present lets the traversal go on.        *)
LEMMA GoesOn ==
  ASSUME Inv, NEW k \in Present, NEW v \in Value, trav.on, ctor' = ctor,
         Assigned(luaH_set(t, k), k, v), trav' = AfterAssign(k, v)
  PROVE  Met'
<1>1. k \in Keys /\ content[k] # Nil BY DEF Present
<1>2. /\ Good(t) /\ \A j \in Keys : Get(t, j) = content[j]
      /\ trav \in [on : BOOLEAN, at : Keys \cup {Nil}, seen : SUBSET Keys]
      /\ ~ctor.open /\ findindex(t, trav.at) # NoNode
      /\ trav.seen = {j \in Present : Number(t, j) <= findindex(t, trav.at)}
  BY InvParts
<1>3. luaH_get(t, k) # NoSlot BY <1>1, <1>2, Slots DEF Get
<1>4. t' = Store(t, luaH_get(t, k), v) /\ Map!Assign(k, v)
  <2>1. luaH_set(t, k) = [t |-> t, slot |-> luaH_get(t, k)] BY <1>3 DEF luaH_set
  <2> QED BY <2>1 DEF Assigned
<1> DEFINE g == Store(t, luaH_get(t, k), v)
<1>5. Good(g) /\ SameNodes(g, t) /\ \A j \in Keys : luaH_get(g, j) = luaH_get(t, j)
  BY <1>1, <1>2, <1>3, StoreFound
<1>6. t' = g BY <1>4
<1> HIDE DEF g
<1>7. trav.at \in Keys \cup {Nil} BY <1>2
<1>8. findindex(g, trav.at) = findindex(t, trav.at) BY <1>2, <1>5, <1>7, SameIndex
<1>9. \A j \in Keys : Number(g, j) = Number(t, j)
  <2>1. sizearray(g) = sizearray(t) BY <1>5 DEF SameNodes
  <2> QED BY <1>5, <2>1, SameNumber
<1>10. \A j \in Keys : content'[j] = IF j = k THEN v ELSE content[j]
  BY <1>1, <1>4, ContentAssigned
<1>11. trav' = [trav EXCEPT !.seen = IF v = Nil THEN trav.seen \ {k} ELSE trav.seen]
  BY DEF AfterAssign
<1>12. trav'.at = trav.at /\ trav'.seen = IF v = Nil THEN trav.seen \ {k} ELSE trav.seen
  BY <1>2, <1>11
<1>13. Present' = IF v = Nil THEN Present \ {k} ELSE Present
  <2>1. Present' = {j \in Keys : content'[j] # Nil} BY DEF Present
  <2>2. CASE v = Nil BY <1>1, <1>10, <2>1, <2>2 DEF Present
  <2>3. CASE v # Nil BY <1>1, <1>10, <2>1, <2>3 DEF Present
  <2> QED BY <2>2, <2>3
<1>14. Present \subseteq Keys BY DEF Present
<1>15. trav'.seen = {j \in Present' : Number(t', j) <= findindex(t', trav'.at)}
  <2>1. {j \in Present' : Number(t', j) <= findindex(t', trav'.at)}
          = {j \in Present' : Number(t, j) <= findindex(t, trav.at)}
    BY <1>6, <1>8, <1>9, <1>12, <1>13, <1>14
  <2>2. CASE v = Nil BY <1>2, <1>12, <1>13, <2>1, <2>2
  <2>3. CASE v # Nil BY <1>2, <1>12, <1>13, <2>1, <2>3
  <2> QED BY <2>2, <2>3
<1> QED BY <1>2, <1>6, <1>8, <1>12, <1>15 DEF Met

(* Any assignment keeps the invariant.                                     *)
LEMMA RawSetInv ==
  ASSUME Inv, NEW k \in Keys, NEW v \in Value, RawSet(k, v)
  PROVE  Inv'
<1>1. /\ Assigned(luaH_set(t, k), k, v) /\ trav' = AfterAssign(k, v) /\ ctor' = ctor
  BY DEF RawSet
<1>2. /\ Good(t) /\ content \in [Keys -> Value]
      /\ ctor \in [open : BOOLEAN, built : Nat, pending : Seq(Ints)]
      /\ ctor.pending # <<>> => ctor.open
      /\ trav \in [on : BOOLEAN, at : Keys \cup {Nil}, seen : SUBSET Keys]
  BY InvParts
<1>3. Ready(luaH_set(t, k), t, k) BY <1>2, SetReady
<1>4. Good(t') /\ t'.ok /\ content' \in [Keys -> Value] /\ ReadsWhatWasAssigned'
  BY <1>1, <1>3, AssignInv
<1>5. trav' \in [on : BOOLEAN, at : Keys \cup {Nil}, seen : SUBSET Keys] /\ Met'
  <2>1. CASE k \notin Present \/ ~trav.on
    <3>1. trav' = NoTraversal BY <1>1, <2>1 DEF AfterAssign
    <3> QED BY <3>1, NoTraversalType DEF Met
  <2>2. CASE k \in Present /\ trav.on
    <3>1. trav' = [trav EXCEPT !.seen = IF v = Nil THEN trav.seen \ {k} ELSE trav.seen]
      BY <1>1, <2>2 DEF AfterAssign
    <3>2. (IF v = Nil THEN trav.seen \ {k} ELSE trav.seen) \in SUBSET Keys BY <1>2
    <3>3. trav' \in [on : BOOLEAN, at : Keys \cup {Nil}, seen : SUBSET Keys]
      BY <1>2, <3>1, <3>2
    <3> QED BY <1>1, <2>2, <3>3, GoesOn
  <2> QED BY <2>1, <2>2
<1>6. ProgramType' BY <1>1, <1>2, <1>4, <1>5 DEF ProgramType
<1> QED BY <1>4, <1>5, <1>6 DEF Inv

(* So does entering a name into the table of constants.                    *)
LEMMA NewStringInv ==
  ASSUME Inv, NEW s \in Strings, NEW v \in Vals, NewString(s, v)
  PROVE  Inv'
<1> DEFINE r == luaH_setstr(t, s)
<1>1. /\ IF ValueAt(r.t, r.slot) = Nil THEN Assigned(r, s, v) ELSE t' = r.t /\ content' = content
      /\ trav' = IF s \in Present THEN trav ELSE NoTraversal
      /\ ctor' = ctor
  BY DEF NewString
<1>2. /\ Good(t) /\ t.ok /\ content \in [Keys -> Value]
      /\ ctor \in [open : BOOLEAN, built : Nat, pending : Seq(Ints)]
      /\ ctor.pending # <<>> => ctor.open
      /\ trav \in [on : BOOLEAN, at : Keys \cup {Nil}, seen : SUBSET Keys]
      /\ \A k \in Keys : Get(t, k) = content[k]
  BY InvParts
<1>3. s \in Keys /\ v \in Value BY DEF Keys, Value
<1>4. Ready(r, t, s) BY <1>2, <1>3, SetReady
<1>5. ValueAt(r.t, r.slot) = content[s]
  <2> HIDE DEF r
  <2> QED BY <1>2, <1>3, <1>4, AssignReady
<1>6. CASE s \in Present
  <2>1. content[s] # Nil BY <1>6 DEF Present
  <2>2. luaH_get(t, s) # NoSlot BY <1>2, <1>3, <2>1, Slots DEF Get
  <2>3. luaH_getstr(t, s) = luaH_get(t, s) BY GetSpecial
  <2>4. r.t = t BY <2>2, <2>3 DEF luaH_setstr
  <2>5. t' = t /\ content' = content /\ trav' = trav
    <3> HIDE DEF r
    <3> QED BY <1>1, <1>5, <1>6, <2>1, <2>4
  <2> QED BY <1>1, <2>5 DEF Inv, ProgramType, ReadsWhatWasAssigned, Met, Present
<1>7. CASE s \notin Present
  <2>1. content[s] = Nil BY <1>3, <1>7 DEF Present
  <2>2. Assigned(r, s, v)
    <3> HIDE DEF r
    <3> QED BY <1>1, <1>5, <2>1
  <2>3. Good(t') /\ t'.ok /\ content' \in [Keys -> Value] /\ ReadsWhatWasAssigned'
    <3> HIDE DEF r
    <3> QED BY <1>3, <1>4, <2>2, AssignInv
  <2>4. trav' = NoTraversal BY <1>1, <1>7
  <2>5. ProgramType' BY <1>1, <1>2, <2>3, <2>4, NoTraversalType DEF ProgramType
  <2>6. Met' BY <2>4, NoTraversalType DEF Met
  <2> QED BY <2>3, <2>5, <2>6 DEF Inv
<1> QED BY <1>6, <1>7

(* OP_SETLIST sizes the array part, and the items to come are integers.    *)
LEMMA SetListBeginInv ==
  ASSUME Inv, NEW n \in 1 .. MaxItems, SetListBegin(n)
  PROVE  Inv'
<1> DEFINE last == ctor.built + n
           pend == [i \in 1 .. n |-> last + 1 - i]
<1>1. /\ ctor.open /\ ctor.pending = <<>>
      /\ 1 .. last \subseteq Ints /\ last <= MAXASIZE
      /\ t' = IF last > sizearray(t) THEN luaH_resizearray(t, last) ELSE t
      /\ ctor' = [ctor EXCEPT !.built = last, !.pending = pend]
      /\ trav' = trav /\ content' = content
  BY DEF SetListBegin
<1>2. /\ Good(t) /\ t.ok /\ content \in [Keys -> Value]
      /\ ctor \in [open : BOOLEAN, built : Nat, pending : Seq(Ints)]
      /\ trav \in [on : BOOLEAN, at : Keys \cup {Nil}, seen : SUBSET Keys]
      /\ \A k \in Keys : Get(t, k) = content[k] /\ (trav.on => ~ctor.open)
  BY InvParts
<1>3. n \in Nat \ {0} BY SizesAssumption
<1>4. ctor.built \in Nat BY <1>2
<1>5. last \in Nat \ {0} BY <1>3, <1>4
<1>6. pend \in Seq(Ints)
  <2>1. \A i \in 1 .. n : last + 1 - i \in 1 .. last BY <1>3, <1>4
  <2> HIDE DEF last
  <2>2. pend \in [1 .. n -> Ints] BY <1>1, <2>1
  <2> HIDE DEF pend
  <2> QED BY <1>3, <2>2
<1>7. MAXASIZE \in Nat /\ MAX_INT \in Nat /\ 1 < MAX_INT
  BY Powers, SizesAssumption DEF MAXASIZE
<1> HIDE DEF last, pend
<1>8. last \in 0 .. MAXASIZE /\ last < MAX_INT
  <2>1. last \in Ints BY <1>1, <1>5
  <2>2. 2 * last - 1 <= MAX_INT BY <1>1, <2>1, SizesAssumption
  <2> QED BY <1>1, <1>5, <1>7, <2>2
<1>9. Good(t') /\ t'.ok /\ \A k \in Keys : Get(t', k) = content[k]
  <2>1. CASE last > sizearray(t)
    <3> DEFINE g == luaH_resizearray(t, last)
    <3>1. Shape(t) BY <1>2 DEF Good
    <3>2. sizearray(t) \in Nat BY <3>1, Parts
    <3>3. sizearray(t) <= last BY <1>5, <2>1, <3>2
    <3>4. Resized(g, t, last, Beyond(t, last)) BY <1>2, <1>8, <3>3, GrowKeeps
    <3>5. t' = g BY <1>1, <2>1
    <3> HIDE DEF g
    <3> QED BY <1>2, <3>4, <3>5 DEF Resized
  <2>2. CASE ~(last > sizearray(t)) BY <1>1, <1>2, <2>2
  <2> QED BY <2>1, <2>2
<1>10. ctor' \in [open : BOOLEAN, built : Nat, pending : Seq(Ints)] /\ ctor'.open
  BY <1>1, <1>2, <1>5, <1>6
<1>11. ProgramType' BY <1>1, <1>2, <1>10 DEF ProgramType
<1>12. ~trav.on
  <2> SUFFICES ASSUME trav.on PROVE FALSE OBVIOUS
  <2> QED BY <1>1, InvParts
<1>13. Met' BY <1>1, <1>12 DEF Met
<1>14. ReadsWhatWasAssigned' BY <1>1, <1>9 DEF ReadsWhatWasAssigned
<1> QED BY <1>9, <1>11, <1>13, <1>14 DEF Inv

(* Every item is stored.                                                   *)
LEMMA SetListItemInv ==
  ASSUME Inv, NEW v \in Value, SetListItem(v)
  PROVE  Inv'
<1> DEFINE i == Head(ctor.pending)
           r == luaH_setnum(t, i)
<1>1. /\ ctor.pending # <<>> /\ Assigned(r, i, v)
      /\ ctor' = [ctor EXCEPT !.pending = Tail(ctor.pending)] /\ trav' = trav
  BY DEF SetListItem
<1>2. /\ Good(t) /\ content \in [Keys -> Value]
      /\ ctor \in [open : BOOLEAN, built : Nat, pending : Seq(Ints)]
      /\ ctor.pending # <<>> => ctor.open
      /\ trav \in [on : BOOLEAN, at : Keys \cup {Nil}, seen : SUBSET Keys]
  BY InvParts
<1>3. ctor.pending \in Seq(Ints) BY <1>2
<1>4. i \in Ints /\ Tail(ctor.pending) \in Seq(Ints) BY <1>1, <1>3
<1> HIDE DEF i
<1>5. i \in Keys BY <1>4 DEF Keys
<1>6. Ready(r, t, i) BY <1>2, <1>4, <1>5, SetReady
<1> HIDE DEF r
<1>7. Good(t') /\ t'.ok /\ content' \in [Keys -> Value] /\ ReadsWhatWasAssigned'
  <2>1. t' = Store(r.t, r.slot, v) /\ content' = [content EXCEPT ![i] = v]
    BY <1>1 DEF Assigned, Map!Assign
  <2> DEFINE g == Store(r.t, r.slot, v)
  <2>2. AssignedIn(g, t, i, v) BY <1>5, <1>6, AssignReady
  <2>3. t' = g BY <2>1
  <2> HIDE DEF g
  <2>4. content' \in [Keys -> Value]
        /\ \A j \in Keys : content'[j] = IF j = i THEN v ELSE content[j]
    BY <1>2, <1>5, <2>1
  <2>5. t.ok /\ \A j \in Keys : Get(t, j) = content[j] BY InvParts
  <2>6. \A j \in Keys : Get(t', j) = content'[j] BY <2>2, <2>3, <2>4, <2>5 DEF AssignedIn
  <2> QED BY <2>2, <2>3, <2>4, <2>5, <2>6 DEF AssignedIn, ReadsWhatWasAssigned
<1>8. ctor' \in [open : BOOLEAN, built : Nat, pending : Seq(Ints)] /\ ctor'.open
  BY <1>1, <1>2, <1>4
<1>9. ProgramType' BY <1>1, <1>2, <1>7, <1>8 DEF ProgramType
<1>10. ~trav.on
  <2> SUFFICES ASSUME trav.on PROVE FALSE OBVIOUS
  <2> QED BY <1>1, InvParts
<1>11. Met' BY <1>1, <1>10 DEF Met
<1> QED BY <1>7, <1>9, <1>11 DEF Inv

(* The constructor is done.                                                *)
LEMMA EndConstructorInv ==
  ASSUME Inv, EndConstructor
  PROVE  Inv'
<1>1. ctor.open /\ ctor' = Complete /\ t' = t /\ trav' = trav /\ content' = content
  BY DEF EndConstructor
<1>2. ctor' \in [open : BOOLEAN, built : Nat, pending : Seq(Ints)] /\ ctor'.pending = <<>>
  <2>1. <<>> \in Seq(Ints) OBVIOUS
  <2> QED BY <1>1, <2>1 DEF Complete
<1>3. ~trav.on
  <2> SUFFICES ASSUME trav.on PROVE FALSE OBVIOUS
  <2> QED BY <1>1, InvParts
<1>4. ProgramType' BY <1>1, <1>2 DEF Inv, ProgramType
<1> QED BY <1>1, <1>3, <1>4 DEF Inv, ReadsWhatWasAssigned, Met

(* A traversal begins before the first element.                            *)
LEMMA BeginTraversalInv ==
  ASSUME Inv, BeginTraversal
  PROVE  Inv'
<1>1. /\ ~ctor.open /\ trav' = [on |-> TRUE, at |-> Nil, seen |-> {}]
      /\ t' = t /\ ctor' = ctor /\ content' = content
  BY DEF BeginTraversal
<1>2. Good(t) /\ \A k \in Keys : Get(t, k) = content[k] BY InvParts
<1>3. findindex(t, Nil) = 0 BY <1>2, FindIndexIs
<1>4. {k \in Present : Number(t, k) <= 0} = {}
  <2>1. Shape(t) BY <1>2 DEF Good
  <2>2. sizearray(t) \in Nat /\ sizenode(t) \in Nat BY <2>1, Parts
  <2>3. ASSUME NEW k \in Present PROVE ~(Number(t, k) <= 0)
    <3>1. k \in Keys /\ Get(t, k) # Nil BY <1>2 DEF Present
    <3>2. Number(t, k) \in 1 .. sizearray(t) + sizenode(t) BY <1>2, <3>1, PresentElement
    <3> QED BY <2>2, <3>2
  <2> QED BY <2>3
<1>5. Met'
  <2>1. Present' = Present BY <1>1 DEF Present
  <2>2. trav'.at = Nil /\ trav'.seen = {} BY <1>1
  <2>3. findindex(t', trav'.at) = 0 /\ 0 # NoNode BY <1>1, <1>3, <2>2 DEF NoNode
  <2>4. trav'.seen = {k \in Present' : Number(t', k) <= findindex(t', trav'.at)}
    BY <1>1, <1>4, <2>1, <2>2, <2>3
  <2> QED BY <1>1, <2>3, <2>4 DEF Met
<1>6. ProgramType' BY <1>1 DEF Inv, ProgramType
<1> QED BY <1>1, <1>5, <1>6 DEF Inv, ReadsWhatWasAssigned

(* r is the first element after number i that is present, or there is none *)
Follows(r, h, i) ==
  /\ ~r.error
  /\ \/ r.key = Nil /\ \A j \in Keys : Get(h, j) # Nil => Number(h, j) <= i
     \/ /\ r.key \in Keys /\ r.val = Get(h, r.key) /\ r.val # Nil
        /\ i < Number(h, r.key) /\ findindex(h, r.key) = Number(h, r.key)
        /\ \A j \in Keys : Get(h, j) # Nil /\ j # r.key =>
              Number(h, j) <= i \/ Number(h, r.key) < Number(h, j)

(* luaH_next goes on to the next key that is present.                      *)
LEMMA NextElement ==
  ASSUME NEW h, Good(h), NEW k \in Keys \cup {Nil}, findindex(h, k) # NoNode
  PROVE  Follows(luaH_next(h, k), h, findindex(h, k))
<1> DEFINE i == findindex(h, k)
           A == sizearray(h)
           N == sizenode(h)
           rest == {j \in i + 1 .. A + N : Element(h, j).val # Nil}
           r == luaH_next(h, k)
<1>1. i \in Nat BY FindIndexType
<1>2. Shape(h) BY DEF Good
<1>3. A \in Nat /\ N \in Nat BY <1>2, Parts
<1>4. r = IF rest = {} THEN NoMore ELSE Element(h, Min(rest)) BY DEF luaH_next
<1>5. ASSUME NEW j \in Keys, Get(h, j) # Nil
      PROVE  /\ Number(h, j) \in 1 .. A + N /\ Element(h, Number(h, j)).val # Nil
             /\ Element(h, Number(h, j)).key = j /\ findindex(h, j) = Number(h, j)
  BY <1>5, PresentElement
<1>6. ASSUME NEW j \in Keys, Get(h, j) # Nil, ~(Number(h, j) <= i)
      PROVE  Number(h, j) \in rest
  <2> HIDE DEF i
  <2> QED BY <1>1, <1>3, <1>5, <1>6
<1>7. CASE rest = {}
  <2>1. r = NoMore BY <1>4, <1>7
  <2>2. r.key = Nil /\ ~r.error BY <2>1 DEF NoMore
  <2> HIDE DEF r, rest
  <2>3. Follows(r, h, i) BY <1>6, <1>7, <2>2 DEF Follows
  <2> QED BY <2>3 DEF r
<1>8. CASE rest # {}
  <2> DEFINE m == Min(rest)
  <2>1. m \in rest /\ \A y \in rest : m <= y
    <3>1. rest \in SUBSET Nat BY <1>1
    <3> HIDE DEF rest
    <3> QED BY <1>8, <3>1, LeastIsMin
  <2>2. r = Element(h, m) BY <1>4, <1>8
  <2> HIDE DEF m, r, i
  <2>3. m \in i + 1 .. A + N /\ Element(h, m).val # Nil BY <2>1
  <2> HIDE DEF rest
  <2>4. m \in 1 .. A + N /\ i < m /\ m \in Nat BY <1>1, <1>3, <2>3
  <2>5. /\ r.key \in Keys /\ Get(h, r.key) = r.val /\ Number(h, r.key) = m /\ ~r.error
        /\ r.val # Nil
    BY <2>2, <2>3, <2>4, ElementPresent
  <2>6. findindex(h, r.key) = Number(h, r.key) BY <1>5, <2>5
  <2>7. ASSUME NEW j \in Keys, Get(h, j) # Nil, j # r.key
        PROVE  Number(h, j) <= i \/ Number(h, r.key) < Number(h, j)
    <3> SUFFICES ASSUME ~(Number(h, j) <= i) PROVE m < Number(h, j) BY <2>5
    <3>1. Number(h, j) \in rest BY <1>6, <2>7
    <3>2. m <= Number(h, j) BY <2>1, <3>1
    <3>3. m # Number(h, j) BY <1>5, <2>2, <2>7
    <3>4. Number(h, j) \in Nat BY <1>3, <1>5, <2>7
    <3> QED BY <2>4, <3>2, <3>3, <3>4
  <2>8. Follows(r, h, i) BY <2>4, <2>5, <2>6, <2>7 DEF Follows
  <2> QED BY <2>8 DEF r, i
<1> QED BY <1>7, <1>8

(* A step of the traversal meets that key.                                 *)
LEMMA TraverseInv ==
  ASSUME Inv, Traverse
  PROVE  Inv'
<1> DEFINE r == luaH_next(t, trav.at)
           i == findindex(t, trav.at)
<1>1. /\ trav.on /\ t' = t /\ ctor' = ctor /\ content' = content
      /\ trav' = IF r.key = Nil THEN NoTraversal
                 ELSE [trav EXCEPT !.at = r.key, !.seen = trav.seen \cup {r.key}]
  BY DEF Traverse
<1>2. /\ Good(t) /\ \A k \in Keys : Get(t, k) = content[k]
      /\ trav \in [on : BOOLEAN, at : Keys \cup {Nil}, seen : SUBSET Keys]
      /\ ~ctor.open /\ i # NoNode
      /\ trav.seen = {k \in Present : Number(t, k) <= i}
  BY <1>1, InvParts
<1>3. trav.at \in Keys \cup {Nil} BY <1>2
<1>4. Follows(r, t, i) /\ i \in Nat BY <1>2, <1>3, NextElement, FindIndexType
<1> HIDE DEF r, i
<1>5. CASE r.key = Nil
  <2>1. trav' = NoTraversal BY <1>1, <1>5
  <2>2. ProgramType' BY <1>1, <2>1, NoTraversalType DEF Inv, ProgramType
  <2>3. Met' BY <2>1, NoTraversalType DEF Met
  <2> QED BY <1>1, <2>2, <2>3 DEF Inv, ReadsWhatWasAssigned
<1>6. CASE r.key # Nil
  <2>1. /\ r.key \in Keys /\ r.val = Get(t, r.key) /\ r.val # Nil
        /\ i < Number(t, r.key) /\ findindex(t, r.key) = Number(t, r.key)
        /\ \A j \in Keys : Get(t, j) # Nil /\ j # r.key =>
              Number(t, j) <= i \/ Number(t, r.key) < Number(t, j)
    BY <1>4, <1>6 DEF Follows
  <2>2. trav' = [trav EXCEPT !.at = r.key, !.seen = trav.seen \cup {r.key}] BY <1>1, <1>6
  <2>3. /\ trav'.at = r.key /\ trav'.seen = trav.seen \cup {r.key}
        /\ trav' \in [on : BOOLEAN, at : Keys \cup {Nil}, seen : SUBSET Keys]
    <3>1. trav.seen \cup {r.key} \in SUBSET Keys BY <1>2, <2>1
    <3> QED BY <1>2, <2>1, <2>2, <3>1
  <2>4. ProgramType' BY <1>1, <2>3 DEF Inv, ProgramType
  <2>5. Present' = Present /\ Present = {k \in Keys : Get(t, k) # Nil}
    BY <1>1, <1>2 DEF Present
  <2>6. Shape(t) BY <1>2 DEF Good
  <2>7. sizearray(t) \in Nat /\ sizenode(t) \in Nat BY <2>6, Parts
  <2>8. \A k \in Present : Number(t, k) \in Nat
    <3>1. \A k \in Present : Number(t, k) \in 1 .. sizearray(t) + sizenode(t)
      BY <1>2, <2>5, PresentElement
    <3> QED BY <2>7, <3>1
  <2>9. r.key \in Present BY <2>1, <2>5
  <2>10. ASSUME NEW k \in Present
         PROVE  Number(t, k) <= Number(t, r.key) <=> Number(t, k) <= i \/ k = r.key
    <3>1. Number(t, k) \in Nat /\ Number(t, r.key) \in Nat BY <2>8, <2>9
    <3>2. CASE k = r.key BY <3>1, <3>2
    <3>3. CASE k # r.key
      <4>1. Number(t, k) <= i \/ Number(t, r.key) < Number(t, k) BY <2>1, <2>5, <3>3
      <4> QED BY <1>4, <2>1, <3>1, <3>3, <4>1
    <3> QED BY <3>2, <3>3
  <2>11. trav.seen \cup {r.key} = {k \in Present : Number(t, k) <= Number(t, r.key)}
    BY <1>2, <2>9, <2>10
  <2>12. findindex(t', trav'.at) = Number(t, r.key) /\ Number(t, r.key) # NoNode
    BY <1>1, <2>1, <2>3, <2>8, <2>9 DEF NoNode
  <2>13. trav'.seen = {k \in Present' : Number(t', k) <= findindex(t', trav'.at)}
    BY <1>1, <2>3, <2>5, <2>11, <2>12
  <2>14. Met' BY <1>1, <1>2, <2>12, <2>13 DEF Met
  <2> QED BY <1>1, <2>4, <2>14 DEF Inv, ReadsWhatWasAssigned
<1> QED BY <1>5, <1>6

(* The collector leaves the traversal where it stands.                     *)
LEMMA CollectInv ==
  ASSUME Inv, Collect
  PROVE  Inv'
<1> DEFINE g == Killed(t)
<1>1. t' = g /\ ctor' = ctor /\ trav' = trav /\ content' = content
  BY DEF Collect, Killed
<1>2. Good(t) /\ t.ok /\ \A k \in Keys : Get(t, k) = content[k] BY InvParts
<1>3. /\ Good(g) /\ SameNodes(g, t) /\ g.ok = t.ok
      /\ \A k \in Keys : Get(g, k) = Get(t, k)
      /\ \A k \in Keys : Get(t, k) # Nil => Number(g, k) = Number(t, k)
  BY <1>2, CollectKeeps
<1> HIDE DEF g
<1>4. ProgramType' BY <1>1 DEF Inv, ProgramType
<1>5. ReadsWhatWasAssigned' BY <1>1, <1>2, <1>3 DEF ReadsWhatWasAssigned
<1>6. Met'
  <2> SUFFICES ASSUME trav.on
               PROVE  /\ ~ctor.open /\ findindex(g, trav.at) # NoNode
                      /\ trav.seen = {k \in Present : Number(g, k) <= findindex(g, trav.at)}
    BY <1>1 DEF Met, Present
  <2>1. /\ trav \in [on : BOOLEAN, at : Keys \cup {Nil}, seen : SUBSET Keys]
        /\ ~ctor.open /\ findindex(t, trav.at) # NoNode
        /\ trav.seen = {k \in Present : Number(t, k) <= findindex(t, trav.at)}
    BY InvParts
  <2>2. trav.at \in Keys \cup {Nil} BY <2>1
  <2>3. findindex(g, trav.at) = findindex(t, trav.at) BY <1>2, <1>3, <2>2, SameIndex
  <2>4. \A k \in Present : Number(g, k) = Number(t, k) BY <1>2, <1>3 DEF Present
  <2> QED BY <2>1, <2>3, <2>4
<1> QED BY <1>1, <1>2, <1>3, <1>4, <1>5, <1>6 DEF Inv

(* Every step keeps the invariant.                                         *)
LEMMA NextInv == Inv /\ [Next]_vars => Inv'
<1> SUFFICES ASSUME Inv, [Next]_vars PROVE Inv' OBVIOUS
<1>1. ASSUME NEW k \in Keys, NEW v \in Vals \cup {Nil}, RawSet(k, v) PROVE Inv'
  BY <1>1, RawSetInv DEF Value
<1>2. ASSUME NEW s \in Strings, NEW v \in Vals, NewString(s, v) PROVE Inv'
  BY <1>2, NewStringInv
<1>3. ASSUME NEW n \in 1 .. MaxItems, SetListBegin(n) PROVE Inv' BY <1>3, SetListBeginInv
<1>4. ASSUME NEW v \in Vals \cup {Nil}, SetListItem(v) PROVE Inv'
  BY <1>4, SetListItemInv DEF Value
<1>5. CASE EndConstructor BY <1>5, EndConstructorInv
<1>6. CASE BeginTraversal BY <1>6, BeginTraversalInv
<1>7. CASE Traverse BY <1>7, TraverseInv
<1>8. CASE Collect BY <1>8, CollectInv
<1>9. CASE UNCHANGED vars
  BY <1>9 DEF vars, Inv, ProgramType, ReadsWhatWasAssigned, Met, Present
<1> QED BY <1>1, <1>2, <1>3, <1>4, <1>5, <1>6, <1>7, <1>8, <1>9 DEF Next

(* The invariant holds throughout.                                         *)
THEOREM Invariance == Spec => []Inv
<1> QED BY InitInv, NextInv, PTL DEF Spec

-----------------------------------------------------------------------------
(* The length                                                              *)

(* Bounds of a search between i and j                                      *)
Bounds(present, i, j) ==
  {b \in [lo : i .. j, hi : i .. j] :
     b.lo < b.hi /\ (b.lo = 0 \/ b.lo \in present) /\ b.hi \notin present}

(* A round of the search keeps the bounds and brings them closer.          *)
LEMMA HalveBounds ==
  ASSUME NEW present, NEW i \in Nat, NEW j \in Nat, NEW b \in Bounds(present, i, j)
  PROVE  LET c == Halve(b, present)
         IN  /\ c \in Bounds(present, i, j) /\ c.hi - c.lo <= b.hi - b.lo
             /\ b.hi - b.lo > 1 => c.hi - c.lo < b.hi - b.lo
<1> DEFINE m == (b.lo + b.hi) \div 2
           c == Halve(b, present)
           R == [lo : i .. j, hi : i .. j]
<1>1. /\ b \in R /\ b.lo \in i .. j /\ b.hi \in i .. j
      /\ b.lo < b.hi /\ (b.lo = 0 \/ b.lo \in present) /\ b.hi \notin present
  BY DEF Bounds
<1>2. CASE b.hi - b.lo <= 1
  <2>1. c = b BY <1>2 DEF Halve
  <2> QED BY <1>1, <1>2, <2>1
<1>3. CASE ~(b.hi - b.lo <= 1)
  <2>1. m \in i .. j /\ b.lo < m /\ m < b.hi BY <1>1, <1>3
  <2>2. c = IF m \in present THEN [b EXCEPT !.lo = m] ELSE [b EXCEPT !.hi = m]
    BY <1>3 DEF Halve
  <2> HIDE DEF m, c
  <2>3. CASE m \in present
    <3>1. c = [b EXCEPT !.lo = m] BY <2>2, <2>3
    <3>2. c \in R /\ c.lo = m /\ c.hi = b.hi BY <1>1, <2>1, <3>1
    <3>3. c \in Bounds(present, i, j) BY <1>1, <2>1, <2>3, <3>2 DEF Bounds
    <3>4. c.hi - c.lo < b.hi - b.lo BY <1>1, <2>1, <3>2
    <3> QED BY <1>1, <2>1, <3>2, <3>3, <3>4 DEF c
  <2>4. CASE m \notin present
    <3>1. c = [b EXCEPT !.hi = m] BY <2>2, <2>4
    <3>2. c \in R /\ c.hi = m /\ c.lo = b.lo BY <1>1, <2>1, <3>1
    <3>3. c \in Bounds(present, i, j) BY <1>1, <2>1, <2>4, <3>2 DEF Bounds
    <3>4. c.hi - c.lo < b.hi - b.lo BY <1>1, <2>1, <3>2
    <3> QED BY <1>1, <2>1, <3>2, <3>3, <3>4 DEF c
  <2> QED BY <2>3, <2>4
<1> QED BY <1>2, <1>3

(* Between a present index, or zero, and an absent one Bisect finds a      *)
(* boundary.                                                               *)
LEMMA BisectBoundary ==
  ASSUME NEW present, NEW i \in Nat, NEW j \in Nat, i < j,
         i = 0 \/ i \in present, j \notin present
  PROVE  LET n == Bisect(present, i, j)
         IN  n \in i .. j - 1 /\ (n = 0 \/ n \in present) /\ n + 1 \notin present
<1> DEFINE T == Bounds(present, i, j)
           L == j - i
           z == [lo |-> i, hi |-> j]
           F == [b \in T |-> Halve(b, present)]
           Rec(f) == f = [n \in 0 .. L |-> IF n = 0 THEN z ELSE Halve(f[n - 1], present)]
           w == CHOOSE f : Rec(f)
<1>1. L \in Nat \ {0} OBVIOUS
<1>2. z \in T /\ z.hi = j /\ z.lo = i
  <2>1. z \in [lo : i .. j, hi : i .. j] OBVIOUS
  <2>2. z.hi = j /\ z.lo = i OBVIOUS
  <2> HIDE DEF z
  <2> QED BY <2>1, <2>2 DEF Bounds
<1>3. \A b \in T : Halve(b, present) \in T BY HalveBounds
<1>4. F \in [T -> T] BY <1>3
<1>5. Bisect(present, i, j) = w[L].lo BY DEF Bisect
<1> HIDE DEF T, L, z
<1>6. PICK f \in [0 .. L -> T] : Iterated(f, F, z, L)
  <2> HIDE DEF F
  <2> QED BY <1>1, <1>2, <1>4, Iterates
<1>7. f[0] = z /\ \A n \in 1 .. L : n - 1 \in 0 .. L /\ f[n] = Halve(f[n - 1], present)
  <2>1. f[0] = z /\ \A n \in 1 .. L : f[n] = F[f[n - 1]] BY <1>6 DEF Iterated
  <2>2. \A n \in 1 .. L : n - 1 \in 0 .. L /\ f[n - 1] \in T BY <1>1, <1>6
  <2> QED BY <2>1, <2>2
<1>8. Rec(f)
  <2>1. \A n \in 0 .. L : n # 0 => n \in 1 .. L BY <1>1
  <2>2. \A n \in 0 .. L : f[n] = IF n = 0 THEN z ELSE Halve(f[n - 1], present)
    BY <1>7, <2>1
  <2> QED BY <1>6, <2>2
<1>9. Rec(w)
  <2> HIDE DEF Rec
  <2> QED BY <1>8
<1> HIDE DEF w
<1>10. w[0] = z /\ \A n \in 1 .. L : n - 1 \in 0 .. L /\ w[n] = Halve(w[n - 1], present)
  <2>1. \A n \in 0 .. L : w[n] = IF n = 0 THEN z ELSE Halve(w[n - 1], present) BY <1>9
  <2>2. 0 \in 0 .. L /\ \A n \in 1 .. L : n \in 0 .. L /\ n # 0 /\ n - 1 \in 0 .. L
    BY <1>1
  <2> QED BY <2>1, <2>2
<1>11. \A n \in 0 .. L : w[n] \in T
  <2>1. w[0] \in T /\ \A n \in 1 .. L : w[n - 1] \in T => w[n] \in T
    BY <1>2, <1>3, <1>10
  <2> QED BY <1>1, <2>1, Throughout
<1>12. \A b \in T : b.hi \in Nat /\ b.lo \in Nat /\ b.lo < b.hi BY DEF T, Bounds
<1> DEFINE D(n) == w[n].hi - w[n].lo
           S == {n \in 0 .. L : D(n) <= 1 \/ D(n) <= L - n}
<1>13. 0 \in S
  <2>1. D(0) = L BY <1>2, <1>10 DEF L
  <2> HIDE DEF D
  <2> QED BY <1>1, <2>1
<1>14. ASSUME NEW n \in 1 .. L, n - 1 \in S PROVE n \in S
  <2>1. w[n - 1] \in T /\ w[n] \in T /\ w[n] = Halve(w[n - 1], present) BY <1>1, <1>10, <1>11
  <2>2. D(n) <= D(n - 1) /\ (D(n - 1) > 1 => D(n) < D(n - 1)) BY <2>1, HalveBounds DEF T
  <2>3. D(n) \in Int /\ D(n - 1) \in Int BY <1>12, <2>1
  <2>4. D(n - 1) <= 1 \/ D(n - 1) <= L - (n - 1)
    <3> HIDE DEF D
    <3> QED BY <1>14
  <2> HIDE DEF D
  <2> QED BY <1>1, <2>2, <2>3, <2>4
<1>15. L \in S
  <2> HIDE DEF S
  <2>1. \A n \in 1 .. L : n - 1 \in S => n \in S BY <1>14
  <2>2. 0 .. L \subseteq S BY <1>1, <1>13, <2>1, Onward
  <2>3. L \in 0 .. L BY <1>1
  <2> QED BY <2>2, <2>3
<1> DEFINE b == w[L]
<1>16. b \in T BY <1>1, <1>11
<1>17. b.hi = b.lo + 1
  <2>1. D(L) <= 1 \/ D(L) <= L - L
    <3> HIDE DEF D
    <3> QED BY <1>15
  <2>2. D(L) = b.hi - b.lo OBVIOUS
  <2> HIDE DEF b, D
  <2> QED BY <1>1, <1>12, <1>16, <2>1, <2>2
<1> HIDE DEF b
<1>18. /\ b.lo \in i .. j /\ b.hi \in i .. j
       /\ (b.lo = 0 \/ b.lo \in present) /\ b.hi \notin present
  BY <1>16 DEF T, Bounds
<1>19. Bisect(present, i, j) = b.lo BY <1>5 DEF b
<1> QED BY <1>17, <1>18, <1>19

(* What luaH_getnum finds at an index                                      *)
At(h, n) == ValueAt(h, luaH_getnum(h, n))

(* Only an integer key is present, and with the dummy node only the array  *)
(* part has any.                                                           *)
LEMMA AtIndex ==
  ASSUME NEW h, Good(h), NEW n \in 1 .. MAX_INT
  PROVE  /\ n \in 1 .. sizearray(h) => At(h, n) = h.array[n]
         /\ At(h, n) # Nil => n \in Ints
         /\ h.dummy /\ n \notin 1 .. sizearray(h) => At(h, n) = Nil
<1> DEFINE N == sizenode(h)
           q == mainposition(h, n)
           W == WithKey(h, n)
           c == InChain(Links(h), q, W)
<1>1. Shape(h) BY DEF Good
<1>2. N \in Nat \ {0} /\ DOMAIN h.node = 0 .. N - 1 /\ Links(h) \in Linking(N)
      /\ \A i \in DOMAIN h.node : h.node[i] \in NodeRec(N)
  BY <1>1, Parts
<1>3. q \in 0 .. N - 1 BY <1>2, MainPosition
<1>4. CASE n \in 1 .. sizearray(h)
  <2>1. luaH_getnum(h, n) = ArraySlot(n) BY <1>4 DEF luaH_getnum
  <2>2. At(h, n) = h.array[n]
    <3>1. ValueAt(h, ArraySlot(n)) = h.array[n] BY Slots
    <3> QED BY <2>1, <3>1 DEF At
  <2>3. h.array[n] # Nil => n \in Ints BY <1>1, <1>4 DEF Shape
  <2> QED BY <1>4, <2>2, <2>3
<1>5. CASE n \notin 1 .. sizearray(h)
  <2>1. luaH_getnum(h, n) = IF c = NoNode THEN NoSlot ELSE NodeSlot(c)
    BY <1>5 DEF luaH_getnum, NodeOfKey
  <2>2. c \in W \cup {NoNode}
    <3> HIDE DEF N, q, W
    <3> QED BY <1>2, <1>3, ChainType
  <2>3. n # Nil BY KeysAssumption
  <2>4. \A i \in W : i \in DOMAIN h.node /\ h.node[i].key = n BY DEF WithKey
  <2>5. W # {} => n \in Ints
    <3>1. ASSUME NEW i \in W PROVE n \in Ints
      <4>1. h.node[i].key \in Keys \cup {Nil} BY <1>2, <2>4 DEF NodeRec
      <4>2. n \in Keys BY <2>3, <2>4, <4>1
      <4> QED BY <4>2, KeysAssumption DEF Keys
    <3> QED BY <3>1
  <2>6. h.dummy => W = {}
    <3>1. h.dummy => N = 1 /\ h.node[0] = EmptyNode BY <1>1 DEF Shape
    <3>2. EmptyNode.key = Nil BY DEF EmptyNode
    <3> HIDE DEF N, W
    <3> QED BY <1>2, <2>3, <2>4, <3>1, <3>2
  <2> HIDE DEF W, c
  <2>7. W = {} => At(h, n) = Nil
    <3>1. W = {} => luaH_getnum(h, n) = NoSlot BY <2>1, <2>2
    <3> QED BY <3>1, Slots DEF At
  <2> QED BY <1>5, <2>5, <2>6, <2>7
<1> QED BY <1>4, <1>5

(* The indices that are present leave one absent.                          *)
LEMMA SomeAbsent ==
  ASSUME NEW present \in SUBSET Ints
  PROVE  1 .. MAX_INT \ present # {}
<1> SUFFICES ASSUME 1 .. MAX_INT \subseteq present PROVE FALSE OBVIOUS
<1>1. MAX_INT \in Nat /\ MAX_INT > 1 /\ MAX_INT \in Ints BY SizesAssumption
<1>2. 1 .. MAX_INT \subseteq Keys /\ IsFiniteSet(Keys) /\ Cardinality(Keys) <= MAXASIZE
  BY SizesAssumption DEF Keys
<1>3. IsFiniteSet(1 .. MAX_INT) /\ Cardinality(1 .. MAX_INT) = MAX_INT
  <2>1. 1 \in Int /\ MAX_INT \in Int BY <1>1
  <2>2. Cardinality(1 .. MAX_INT) = IF 1 > MAX_INT THEN 0 ELSE MAX_INT - 1 + 1
    BY <2>1, FS_Interval
  <2> QED BY <1>1, <2>1, <2>2, FS_Interval
<1>4. Cardinality(1 .. MAX_INT) <= Cardinality(Keys) /\ Cardinality(Keys) \in Nat
  BY <1>2, FS_Subset, FS_CardinalityType
<1>5. MAXASIZE \in Nat
  <2>1. MAXBITS \in 0 .. MAXBITS BY SizesAssumption
  <2> QED BY <2>1, Powers DEF MAXASIZE
<1>6. MAX_INT <= MAXASIZE BY <1>1, <1>2, <1>3, <1>4, <1>5
<1>7. 2 * MAX_INT - 1 <= MAX_INT BY <1>1, <1>6, SizesAssumption
<1> QED BY <1>1, <1>7

(* The search beyond the array part, from an index j0                      *)
Search(present, j0) ==
  LET j[n \in 0 .. MAX_INT] == IF n = 0 THEN j0 + 1 ELSE 2 * j[n - 1]
      last == Min({n \in 0 .. MAX_INT : j[n] \notin present})
  IN  IF j[last] > MAX_INT THEN Min(1 .. MAX_INT \ present) - 1
      ELSE Bisect(present, IF last = 0 THEN j0 ELSE j[last - 1], j[last])

(* A boundary of the indices that are present                              *)
Boundary(n, present) == n \in Nat /\ (n = 0 \/ n \in present) /\ n + 1 \notin present

(* It doubles the index until one is absent, and finds a boundary.         *)
LEMMA SearchFinds ==
  ASSUME NEW present \in SUBSET (1 .. MAX_INT), 1 .. MAX_INT \ present # {},
         NEW j0 \in Nat, j0 < MAX_INT, j0 = 0 \/ j0 \in present
  PROVE  Boundary(Search(present, j0), present)
<1> DEFINE L == MAX_INT
           z == j0 + 1
           F == [x \in Nat |-> 2 * x]
           Rec(f) == f = [n \in 0 .. L |-> IF n = 0 THEN z ELSE 2 * f[n - 1]]
           w == CHOOSE f : Rec(f)
           absent == 1 .. MAX_INT \ present
           gone == {n \in 0 .. L : w[n] \notin present}
           last == Min(gone)
           lo == IF last = 0 THEN j0 ELSE w[last - 1]
<1>1. L \in Nat /\ L > 1 BY SizesAssumption
<1>2. z \in Nat /\ F \in [Nat -> Nat] OBVIOUS
<1>3. Search(present, j0) = IF w[last] > L THEN Min(absent) - 1 ELSE Bisect(present, lo, w[last])
  BY DEF Search
<1>4. z >= 1 /\ j0 < z OBVIOUS
<1> HIDE DEF L, z
<1>5. PICK f \in [0 .. L -> Nat] : Iterated(f, F, z, L)
  <2> HIDE DEF F
  <2> QED BY <1>1, <1>2, Iterates
<1>6. f[0] = z /\ \A n \in 1 .. L : n - 1 \in 0 .. L /\ f[n] = 2 * f[n - 1]
  <2>1. f[0] = z /\ \A n \in 1 .. L : f[n] = F[f[n - 1]] BY <1>5 DEF Iterated
  <2>2. \A n \in 1 .. L : n - 1 \in 0 .. L BY <1>1
  <2>3. \A m \in 0 .. L : f[m] \in Nat
    <3> HIDE DEF F
    <3> QED BY <1>5
  <2> QED BY <2>1, <2>2, <2>3
<1>7. Rec(f)
  <2>1. \A n \in 0 .. L : n # 0 => n \in 1 .. L BY <1>1
  <2>2. \A n \in 0 .. L : f[n] = IF n = 0 THEN z ELSE 2 * f[n - 1] BY <1>6, <2>1
  <2> QED BY <1>5, <2>2
<1>8. Rec(w)
  <2> HIDE DEF Rec
  <2> QED BY <1>7
<1> HIDE DEF w
<1>9. w[0] = z /\ \A n \in 1 .. L : n - 1 \in 0 .. L /\ w[n] = 2 * w[n - 1]
  <2>1. \A n \in 0 .. L : w[n] = IF n = 0 THEN z ELSE 2 * w[n - 1] BY <1>8
  <2>2. 0 \in 0 .. L /\ \A n \in 1 .. L : n \in 0 .. L /\ n # 0 /\ n - 1 \in 0 .. L
    BY <1>1
  <2> QED BY <2>1, <2>2
<1>10. \A n \in 0 .. L : w[n] \in Nat /\ w[n] >= n + 1
  <2> DEFINE S == {n \in 0 .. L : w[n] \in Nat /\ w[n] >= n + 1}
  <2>1. 0 \in S BY <1>1, <1>2, <1>4, <1>9
  <2>2. ASSUME NEW n \in 1 .. L, n - 1 \in S PROVE n \in S
    <3>1. w[n] = 2 * w[n - 1] /\ w[n - 1] \in Nat /\ w[n - 1] >= n - 1 + 1 BY <1>9, <2>2
    <3>2. n \in 0 .. L /\ n \in Nat /\ n >= 1 BY <1>1
    <3>3. w[n] \in Nat /\ w[n] >= n + 1 BY <3>1, <3>2
    <3> QED BY <3>2, <3>3
  <2>3. \A n \in 1 .. L : n - 1 \in S => n \in S
    <3> HIDE DEF S
    <3> QED BY <2>2
  <2>4. 0 .. L \subseteq S
    <3> HIDE DEF S
    <3> QED BY <1>1, <2>1, <2>3, Onward
  <2> QED BY <2>4
<1>11. gone # {} /\ gone \in SUBSET Nat
  <2>1. L \in 0 .. L /\ w[L] \in Nat /\ w[L] >= L + 1 BY <1>1, <1>10
  <2>2. w[L] \notin present BY <1>1, <2>1 DEF L
  <2> QED BY <1>1, <2>1, <2>2
<1>12. last \in gone /\ \A y \in gone : last <= y
  <2> HIDE DEF gone
  <2> QED BY <1>11, LeastIsMin
<1>13. last \in 0 .. L /\ w[last] \notin present /\ w[last] \in Nat BY <1>10, <1>12
<1>14. last # 0 => /\ last - 1 \in 0 .. L /\ last \in 1 .. L /\ w[last] = 2 * w[last - 1]
                   /\ w[last - 1] \in present /\ w[last - 1] \in Nat /\ w[last - 1] >= 1
  <2> SUFFICES ASSUME last # 0
               PROVE /\ last - 1 \in 0 .. L /\ last \in 1 .. L /\ w[last] = 2 * w[last - 1]
                     /\ w[last - 1] \in present /\ w[last - 1] \in Nat /\ w[last - 1] >= 1
    OBVIOUS
  <2> HIDE DEF last
  <2>1. last \in 1 .. L /\ last - 1 \in 0 .. L /\ ~(last <= last - 1) BY <1>1, <1>13
  <2>2. last - 1 \notin gone BY <1>12, <2>1
  <2>3. w[last - 1] \in present BY <2>1, <2>2
  <2>4. w[last - 1] \in Nat /\ w[last - 1] >= last - 1 + 1 BY <1>10, <2>1
  <2> QED BY <1>9, <2>1, <2>3, <2>4
<1> HIDE DEF last, gone
<1>15. lo \in Nat /\ lo < w[last] /\ (lo = 0 \/ lo \in present)
  <2>1. CASE last = 0 BY <1>2, <1>4, <1>9, <2>1
  <2>2. CASE last # 0 BY <1>13, <1>14, <2>2
  <2> QED BY <2>1, <2>2
<1> HIDE DEF lo
<1>16. ASSUME w[last] > L PROVE Boundary(Search(present, j0), present)
  <2> DEFINE m == Min(absent)
  <2>1. m \in absent /\ \A y \in absent : m <= y
    <3>1. absent \in SUBSET Nat /\ absent # {} BY <1>1 DEF L
    <3> HIDE DEF absent
    <3> QED BY <3>1, LeastIsMin
  <2>2. Search(present, j0) = m - 1 BY <1>3, <1>16
  <2> HIDE DEF m
  <2>3. m \in 1 .. MAX_INT /\ m \notin present BY <2>1
  <2>4. m - 1 \in Nat /\ m - 1 + 1 = m /\ ~(m <= m - 1) BY <2>3
  <2>5. m - 1 = 0 \/ m - 1 \in 1 .. MAX_INT BY <1>1, <2>3 DEF L
  <2>6. m - 1 \notin absent BY <2>1, <2>4
  <2>7. m - 1 = 0 \/ m - 1 \in present BY <2>5, <2>6
  <2> QED BY <2>2, <2>3, <2>4, <2>7 DEF Boundary
<1>17. ASSUME ~(w[last] > L) PROVE Boundary(Search(present, j0), present)
  <2> DEFINE n == Bisect(present, lo, w[last])
             top == w[last]
  <2>1. Search(present, j0) = n BY <1>3, <1>17
  <2>2. top \in Nat /\ lo < top /\ top \notin present BY <1>13, <1>15
  <2>3. n \in lo .. top - 1 /\ (n = 0 \/ n \in present) /\ n + 1 \notin present
    <3> HIDE DEF top
    <3> QED BY <1>15, <2>2, BisectBoundary DEF top
  <2> HIDE DEF n, top
  <2>4. n \in Nat BY <1>15, <2>2, <2>3
  <2> QED BY <2>1, <2>3, <2>4 DEF Boundary
<1> QED BY <1>16, <1>17

(* The value at n, if any, is the last before an absent one.               *)
IsLength(n, h) == /\ n \in Nat
                  /\ n = 0 \/ (n \in 1 .. MAX_INT /\ At(h, n) # Nil)
                  /\ n < MAX_INT => At(h, n + 1) = Nil

(* luaH_getn finds a boundary.                                             *)
LEMMA LengthIs ==
  ASSUME NEW h, Good(h)
  PROVE  IsLength(luaH_getn(h), h)
<1> DEFINE A == sizearray(h)
           present == {i \in 1 .. MAX_INT : At(h, i) # Nil}
           n == luaH_getn(h)
<1>1. Shape(h) BY DEF Good
<1>2. A \in Nat /\ A < MAX_INT /\ MAX_INT \in Nat
  BY <1>1, Parts, SizesAssumption DEF Shape
<1>3. \A i \in 1 .. A : i \in 1 .. MAX_INT /\ At(h, i) = h.array[i] BY <1>2, AtIndex
<1>4. n = IF A > 0 /\ h.array[A] = Nil THEN Bisect(numusearray(h), 0, A)
          ELSE IF h.dummy THEN A ELSE unbound_search(h, A)
  BY DEF luaH_getn
<1> HIDE DEF A, n
<1>5. SUFFICES IsLength(n, h) BY DEF n
<1>6. CASE A > 0 /\ h.array[A] = Nil
  <2> DEFINE P == numusearray(h)
  <2>1. P = {i \in 1 .. A : h.array[i] # Nil} BY DEF numusearray, A
  <2>2. A \notin P BY <1>6, <2>1
  <2>3. n = Bisect(P, 0, A) BY <1>4, <1>6
  <2> HIDE DEF P
  <2>4. n \in 0 .. A - 1 /\ (n = 0 \/ n \in P) /\ n + 1 \notin P
    BY <1>2, <1>6, <2>2, <2>3, BisectBoundary
  <2>5. n + 1 \in 1 .. A /\ n \in Nat BY <1>2, <2>4
  <2>6. h.array[n + 1] = Nil BY <2>1, <2>4, <2>5
  <2>7. At(h, n + 1) = Nil BY <1>3, <2>5, <2>6
  <2>8. n = 0 \/ (n \in 1 .. MAX_INT /\ At(h, n) # Nil)
    <3>1. n \in P => n \in 1 .. A /\ h.array[n] # Nil BY <2>1
    <3> QED BY <1>3, <2>4, <3>1
  <2> QED BY <2>5, <2>7, <2>8 DEF IsLength
<1>7. CASE ~(A > 0 /\ h.array[A] = Nil)
  <2>1. A = 0 \/ (A \in 1 .. MAX_INT /\ At(h, A) # Nil)
    <3>1. A = 0 \/ A \in 1 .. A BY <1>2
    <3> QED BY <1>2, <1>3, <1>7, <3>1
  <2>2. CASE h.dummy
    <3>1. n = A BY <1>4, <1>7, <2>2
    <3>2. A + 1 \in 1 .. MAX_INT /\ A + 1 \notin 1 .. A BY <1>2
    <3>3. At(h, A + 1) = Nil BY <2>2, <3>2, AtIndex DEF A
    <3> QED BY <1>2, <2>1, <3>1, <3>3 DEF IsLength
  <2>3. CASE ~h.dummy
    <3>1. n = unbound_search(h, A) BY <1>4, <1>7, <2>3
    <3>2. unbound_search(h, A) = Search(present, A) BY DEF unbound_search, Search, At
    <3>3. present \in SUBSET Ints /\ present \in SUBSET (1 .. MAX_INT)
      <4>1. \A i \in present : i \in Ints BY AtIndex
      <4> QED BY <4>1
    <3>4. A = 0 \/ A \in present BY <2>1
    <3> HIDE DEF present
    <3>5. 1 .. MAX_INT \ present # {} BY <3>3, SomeAbsent
    <3>6. Boundary(n, present) BY <1>2, <3>1, <3>2, <3>3, <3>4, <3>5, SearchFinds
    <3>7. n \in Nat /\ (n = 0 \/ n \in present) /\ n + 1 \notin present BY <3>6 DEF Boundary
    <3>8. n < MAX_INT => n + 1 \in 1 .. MAX_INT BY <1>2, <3>7
    <3>9. n < MAX_INT => At(h, n + 1) = Nil BY <3>7, <3>8 DEF present
    <3>10. n = 0 \/ (n \in 1 .. MAX_INT /\ At(h, n) # Nil) BY <3>7 DEF present
    <3> QED BY <3>7, <3>9, <3>10 DEF IsLength
  <2> QED BY <2>2, <2>3
<1> QED BY <1>6, <1>7

-----------------------------------------------------------------------------
(* What the invariant gives                                                *)

(* The shape of both parts                                                 *)
LEMMA InvTypeOK == Inv => TypeOK
<1> SUFFICES ASSUME Inv PROVE TypeOK OBVIOUS
<1> DEFINE N == sizenode(t)
<1>1. Shape(t) /\ Linked(t) BY DEF Inv, Good
<1>2. N \in Nat \ {0} /\ DOMAIN t.node = 0 .. N - 1 BY <1>1, Parts
<1>3. t \in TableRec(N) BY <1>1 DEF Shape
<1>4. N \in {twoto[i] : i \in 0 .. MAXBITS} BY <1>1 DEF Shape
<1>5. t.dummy => t.node[0] = EmptyNode /\ N = 1 BY <1>1 DEF Shape
<1>6. \A i \in t.lastfree .. N - 1 : ~t.dummy => t.node[i].key # Nil BY <1>1 DEF Linked
<1>7. ctor.pending \in Seq(1 .. MAX_INT)
  <2> DEFINE s == ctor.pending
  <2>1. s \in Seq(Ints) BY InvParts
  <2> HIDE DEF s
  <2>2. Len(s) \in Nat /\ s \in [1 .. Len(s) -> Ints] BY <2>1
  <2>3. s \in [1 .. Len(s) -> 1 .. MAX_INT] BY <2>2, KeysAssumption
  <2>4. s \in Seq(1 .. MAX_INT) BY <2>2, <2>3, SeqDef
  <2> QED BY <2>4 DEF s
<1>8. trav.on \in BOOLEAN /\ trav.at \in Keys \cup {Nil} BY InvParts
<1> HIDE DEF N
<1>9. /\ t.array \in Seq(Value) /\ t.node \in [0 .. N - 1 -> NodeRec(N)]
      /\ t.lastfree \in 0 .. N
  BY <1>3 DEF TableRec
<1>10. NodeType = NodeRec(N) BY <1>2 DEF NodeType, NodeRec, Value
<1>11. t.node \in [0 .. N - 1 -> NodeType] BY <1>9, <1>10
<1>12. t.array \in Seq(Vals \cup {Nil}) BY <1>9 DEF Value
<1> HIDE DEF NodeType
<1> QED BY <1>4, <1>5, <1>6, <1>7, <1>8, <1>9, <1>11, <1>12 DEF TypeOK, N

(* Both parts keep their shape.                                            *)
THEOREM TypeCorrect == Spec => []TypeOK
<1> QED BY Invariance, InvTypeOK, PTL

(* No assertion of the table fails, no moved node is lost from its chain,  *)
(* and no rehash starts another: its sizes leave room for every key.       *)
THEOREM AssertionsNeverFail == Spec => []AssertionsHold
<1>1. Inv => AssertionsHold BY DEF Inv, AssertionsHold
<1> QED BY <1>1, Invariance, PTL

(* Every key reads as the value last assigned to it, through collisions,   *)
(* dead keys, rehashes and moves between the parts.                        *)
THEOREM ReadsAssigned == Spec => []ReadsWhatWasAssigned
<1>1. Inv => ReadsWhatWasAssigned BY DEF Inv
<1> QED BY <1>1, Invariance, PTL

(* What the next step of a traversal finds                                 *)
LEMMA InvTraversal == Inv => TraversalOnce
<1> SUFFICES ASSUME Inv, trav.on
             PROVE  LET r == luaH_next(t, trav.at)
                    IN  /\ ~r.error
                        /\ r.key = Nil => trav.seen = Present
                        /\ r.key # Nil => r.key \notin trav.seen /\ r.val = content[r.key]
  BY DEF TraversalOnce
<1> DEFINE r == luaH_next(t, trav.at)
           i == findindex(t, trav.at)
<1>1. /\ Good(t) /\ \A k \in Keys : Get(t, k) = content[k]
      /\ trav \in [on : BOOLEAN, at : Keys \cup {Nil}, seen : SUBSET Keys]
      /\ i # NoNode /\ trav.seen = {k \in Present : Number(t, k) <= i}
  BY InvParts
<1>2. trav.at \in Keys \cup {Nil} BY <1>1
<1>3. Follows(r, t, i) /\ i \in Nat BY <1>1, <1>2, NextElement, FindIndexType
<1> HIDE DEF i
<1>4. ~r.error
  <2> HIDE DEF r
  <2> QED BY <1>3 DEF Follows
<1>5. ASSUME r.key = Nil PROVE trav.seen = Present
  <2> HIDE DEF r
  <2>1. Nil \notin Keys BY KeysAssumption
  <2>2. \A k \in Keys : Get(t, k) # Nil => Number(t, k) <= i BY <1>3, <1>5, <2>1 DEF Follows
  <2> QED BY <1>1, <2>2 DEF Present
<1>6. ASSUME r.key # Nil PROVE r.key \notin trav.seen /\ r.val = content[r.key]
  <2> HIDE DEF r
  <2>1. /\ r.key \in Keys /\ r.val = Get(t, r.key) /\ r.val # Nil
        /\ i < Number(t, r.key)
    BY <1>3, <1>6 DEF Follows
  <2>2. Get(t, r.key) # Nil BY <2>1
  <2>3. Number(t, r.key) \in 1 .. sizearray(t) + sizenode(t) BY <1>1, <2>1, <2>2, PresentElement
  <2>4. sizearray(t) \in Nat /\ sizenode(t) \in Nat BY <1>1, Parts DEF Good
  <2>5. ~(Number(t, r.key) <= i) BY <1>3, <2>1, <2>3, <2>4
  <2> QED BY <1>1, <2>1, <2>5
<1> HIDE DEF r
<1> QED BY <1>4, <1>5, <1>6 DEF r

(* A traversal that clears fields while the collector kills their keys     *)
(* never fails, meets no key twice and misses none that stayed.            *)
THEOREM TraversalMeetsOnce == Spec => []TraversalOnce
<1> QED BY InvTraversal, Invariance, PTL

(* What luaH_getn says of the table                                        *)
LEMMA InvBoundary == Inv => BoundaryRight
<1> SUFFICES ASSUME Inv PROVE BoundaryRight OBVIOUS
<1> DEFINE n == luaH_getn(t)
<1>1. IsLength(n, t) BY LengthIs DEF Inv
<1> HIDE DEF n
<1>2. (n = 0 \/ At(t, n) # Nil) /\ (n < MAX_INT => At(t, n + 1) = Nil)
  BY <1>1 DEF IsLength
<1> QED BY <1>2 DEF BoundaryRight, At, n

(* The length is a boundary, in whichever part the elements are kept.      *)
THEOREM LengthIsBoundary == Spec => []BoundaryRight
<1> QED BY InvBoundary, Invariance, PTL

-----------------------------------------------------------------------------
(* The map that the table implements                                       *)

Reads == INSTANCE LuaMap WITH content <- [k \in Keys |-> Get(t, k)]

(* What reading the table finds, of every key                              *)
LEMMA InvReads == Inv => [k \in Keys |-> Get(t, k)] = content
<1> SUFFICES ASSUME Inv PROVE [k \in Keys |-> Get(t, k)] = content OBVIOUS
<1>1. content \in [Keys -> Value] /\ \A k \in Keys : Get(t, k) = content[k] BY InvParts
<1> QED BY <1>1

(* A step assigns to one key or leaves the map as it is.                   *)
LEMMA StepAssigns ==
  ASSUME Inv, [Next]_vars
  PROVE  content' = content \/ \E k \in Keys, v \in Value : Map!Assign(k, v)
<1>1. ASSUME NEW k \in Keys, NEW v \in Value, RawSet(k, v) PROVE Map!Assign(k, v)
  BY <1>1 DEF RawSet, Assigned
<1>2. ASSUME NEW s \in Strings, NEW v \in Vals, NewString(s, v)
      PROVE  content' = content \/ Map!Assign(s, v)
  <2> DEFINE r == luaH_setstr(t, s)
  <2>1. IF ValueAt(r.t, r.slot) = Nil THEN Assigned(r, s, v) ELSE t' = r.t /\ content' = content
    BY <1>2 DEF NewString
  <2> HIDE DEF r
  <2> QED BY <2>1 DEF Assigned
<1>3. ASSUME NEW v \in Value, SetListItem(v)
      PROVE  \E k \in Keys : Map!Assign(k, v)
  <2>1. ctor.pending # <<>> /\ Map!Assign(Head(ctor.pending), v)
    BY <1>3 DEF SetListItem, Assigned
  <2>2. ctor.pending \in Seq(Ints) BY InvParts
  <2>3. Head(ctor.pending) \in Keys
    <3>1. Head(ctor.pending) \in Ints BY <2>1, <2>2
    <3> QED BY <3>1 DEF Keys
  <2> QED BY <2>1, <2>3
<1>4. ASSUME NEW n \in 1 .. MaxItems, SetListBegin(n) PROVE content' = content
  BY <1>4 DEF SetListBegin
<1>5. ASSUME EndConstructor \/ BeginTraversal \/ Traverse \/ Collect \/ UNCHANGED vars
      PROVE  content' = content
  BY <1>5 DEF EndConstructor, BeginTraversal, Traverse, Collect, vars
<1>6. Strings \subseteq Keys /\ Vals \subseteq Value BY DEF Keys, Value
<1> HIDE DEF Map!Assign
<1> QED BY <1>1, <1>2, <1>3, <1>4, <1>5, <1>6 DEF Next, Value

(* Reading and assigning, the table is a Lua map: what a traversal, the    *)
(* collector, a rehash or a constructor's growth does cannot be read, and  *)
(* an assignment changes the key assigned to and no other.                 *)
THEOREM Refinement == Spec => Reads!Spec
<1> DEFINE m == [k \in Keys |-> Get(t, k)]
<1>1. Init => Reads!Init
  <2> SUFFICES ASSUME Init PROVE m = [k \in Keys |-> Nil] BY DEF Reads!Init
  <2>1. content = [k \in Keys |-> Nil] BY DEF Init, Map!Init
  <2>2. m = content BY InitInv, InvReads
  <2> QED BY <2>1, <2>2
<1>2. Inv /\ Inv' /\ [Next]_vars => [Reads!Next]_m
  <2> SUFFICES ASSUME Inv, Inv', [Next]_vars PROVE Reads!Next \/ m' = m OBVIOUS
  <2>1. m = content /\ m' = content'
    <3>1. m = content BY InvReads
    <3>2. content' \in [Keys -> Value] /\ \A k \in Keys : Get(t', k) = content'[k]
      BY DEF Inv, ProgramType, ReadsWhatWasAssigned
    <3>3. m' = content' BY <3>2
    <3> QED BY <3>1, <3>3
  <2> HIDE DEF m
  <2>2. CASE content' = content BY <2>1, <2>2
  <2>3. ASSUME NEW k \in Keys, NEW v \in Value, Map!Assign(k, v) PROVE Reads!Next
    <3>1. m' = [m EXCEPT ![k] = v] BY <2>1, <2>3 DEF Map!Assign
    <3>2. Reads!Assign(k, v) BY <3>1 DEF Reads!Assign, m
    <3> QED BY <3>2 DEF Reads!Next, Value
  <2> QED BY <2>2, <2>3, StepAssigns
<1> QED BY <1>1, <1>2, Invariance, PTL DEF Spec, Reads!Spec
=============================================================================
