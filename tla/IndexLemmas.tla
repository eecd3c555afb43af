---------------------------- MODULE IndexLemmas -----------------------------
(* Least and greatest indices, for the searches through an array, and what *)
(* a function defined by recursion up to some number computes.             *)
EXTENDS Integers, FiniteSetTheorems, WellFoundedInduction, TLAPS

(* Every nonempty set of naturals has a least element.                     *)
LEMMA LeastElement ==
  ASSUME NEW S \in SUBSET Nat, S # {}
  PROVE  \E x \in S : \A y \in S : x <= y
<1>1. PICK x \in S : \A y \in S : ~(<<y, x>> \in OpToRel(<, Nat))
  BY NatLessThanWellFounded, WFMin, Zenon
<1>2. \A y \in S : ~(y < x)
  BY <1>1 DEF OpToRel
<1> QED BY <1>2

(* Every nonempty set of indices up to n has a greatest element.           *)
LEMMA GreatestElement ==
  ASSUME NEW n \in Nat, NEW S \in SUBSET (1 .. n), S # {}
  PROVE  \E x \in S : \A y \in S : y <= x
<1> DEFINE T == {n - i : i \in S}
<1>1. T \in SUBSET Nat /\ T # {}
  <2>1. \A i \in S : n - i \in Nat
    OBVIOUS
  <2>2. PICK i \in S : TRUE
    OBVIOUS
  <2> QED BY <2>1, <2>2
<1>2. PICK t \in T : \A u \in T : t <= u
  BY <1>1, LeastElement
<1>3. PICK x \in S : t = n - x
  BY <1>2
<1>4. \A y \in S : n - x <= n - y
  BY <1>2, <1>3
<1> QED BY <1>4

-----------------------------------------------------------------------------
(* Definitions by recursion                                                *)

(* f has the first N iterates of F on A.                                   *)
Iterated(f, F, A, N) == f[0] = A /\ \A n \in 1 .. N : f[n] = F[f[n - 1]]

(* A function that is defined by recursion up to N exists.                 *)
LEMMA Iterates ==
  ASSUME NEW T, NEW A \in T, NEW F \in [T -> T], NEW N \in Nat
  PROVE  \E f \in [0 .. N -> T] : Iterated(f, F, A, N)
<1> USE DEF Iterated
<1> DEFINE Good(f, m) == Iterated(f, F, A, m)
           Bad == {m \in Nat : ~\E f \in [0 .. m -> T] : Good(f, m)}
<1>1. SUFFICES ASSUME Bad # {} PROVE FALSE OBVIOUS
<1>2. PICK m \in Bad : \A k \in Bad : m <= k
  <2>1. Bad \in SUBSET Nat OBVIOUS
  <2> HIDE DEF Bad
  <2> QED BY <1>1, <2>1, LeastElement
<1>3. m \in Nat /\ ~\E f \in [0 .. m -> T] : Good(f, m) BY <1>2
<1>4. m # 0
  <2>1. [n \in 0 .. 0 |-> A] \in [0 .. 0 -> T] /\ Good([n \in 0 .. 0 |-> A], 0) OBVIOUS
  <2> HIDE DEF Good
  <2> QED BY <1>3, <2>1
<1>5. m - 1 \in Nat /\ m - 1 \notin Bad
  <2> HIDE DEF Bad
  <2> QED BY <1>2, <1>3, <1>4
<1>6. PICK f \in [0 .. m - 1 -> T] : Good(f, m - 1) BY <1>5
<1> DEFINE g == [n \in 0 .. m |-> IF n = m THEN F[f[m - 1]] ELSE f[n]]
<1>7. g \in [0 .. m -> T]
  <2>1. F[f[m - 1]] \in T BY <1>5, <1>6
  <2>2. \A n \in 0 .. m : n # m => n \in 0 .. m - 1 BY <1>3
  <2> QED BY <2>1, <2>2
<1>8. g[0] = A BY <1>3, <1>4, <1>6
<1>9. ASSUME NEW n \in 1 .. m PROVE g[n] = F[g[n - 1]]
  <2>1. n - 1 \in 0 .. m /\ n - 1 # m /\ n \in 0 .. m BY <1>3
  <2>2. g[n - 1] = f[n - 1] BY <2>1
  <2>3. CASE n = m BY <2>1, <2>2, <2>3
  <2>4. CASE n # m
    <3>1. n \in 1 .. m - 1 BY <1>3, <2>4
    <3> QED BY <1>6, <2>1, <2>2, <2>4, <3>1
  <2> QED BY <2>3, <2>4
<1> HIDE DEF g
<1> QED BY <1>3, <1>7, <1>8, <1>9

(* What every step keeps holds at the end.                                 *)
LEMMA Throughout ==
  ASSUME NEW T, NEW N \in Nat, NEW f, f[0] \in T,
         \A n \in 1 .. N : f[n - 1] \in T => f[n] \in T
  PROVE  \A n \in 0 .. N : f[n] \in T
<1> DEFINE Bad == {n \in 0 .. N : f[n] \notin T}
<1>1. SUFFICES ASSUME Bad # {} PROVE FALSE OBVIOUS
<1>2. PICK m \in Bad : \A k \in Bad : m <= k
  <2>1. Bad \in SUBSET Nat OBVIOUS
  <2> HIDE DEF Bad
  <2> QED BY <1>1, <2>1, LeastElement
<1>3. m \in 1 .. N /\ m - 1 \in 0 .. N /\ f[m] \notin T BY <1>2
<1>4. m - 1 \notin Bad
  <2>1. ~(m <= m - 1) BY <1>3
  <2> HIDE DEF Bad
  <2> QED BY <1>2, <2>1
<1> QED BY <1>3, <1>4

(* The iterates of a function that only adds to a finite set U reach a     *)
(* fixed point in as many steps as U has members.                          *)
LEMMA Saturates ==
  ASSUME NEW U, IsFiniteSet(U), NEW F \in [SUBSET U -> SUBSET U],
         \A X \in SUBSET U : X \subseteq F[X],
         NEW A \in SUBSET U, NEW N, N = Cardinality(U),
         NEW f \in [0 .. N -> SUBSET U], Iterated(f, F, A, N)
  PROVE  F[f[N]] = f[N] /\ A \subseteq f[N]
<1>1. N \in Nat /\ N \in 0 .. N /\ 0 \in 0 .. N BY FS_CardinalityType
<1>2. f[0] = A /\ \A n \in 1 .. N : n - 1 \in 0 .. N /\ f[n] = F[f[n - 1]] BY <1>1 DEF Iterated
<1>3. A \subseteq f[N]
  <2> DEFINE T == {X \in SUBSET U : A \subseteq X}
  <2>1. f[0] \in T BY <1>2
  <2>2. ASSUME NEW n \in 1 .. N, f[n - 1] \in T PROVE f[n] \in T BY <1>2, <2>2
  <2> HIDE DEF T
  <2>3. \A n \in 0 .. N : f[n] \in T BY <1>1, <2>1, <2>2, Throughout
  <2> QED BY <1>1, <2>3 DEF T
<1>4. ASSUME NEW n \in 0 .. N, F[f[n]] = f[n] PROVE F[f[N]] = f[N]
  <2> DEFINE Bad == {m \in n .. N : f[m] # f[n]}
  <2>1. CASE Bad = {} BY <1>1, <1>4, <2>1
  <2>2. CASE Bad # {}
    <3>1. PICK m \in Bad : \A k \in Bad : m <= k
      <4>1. Bad \in SUBSET Nat BY <1>1
      <4> HIDE DEF Bad
      <4> QED BY <2>2, <4>1, LeastElement
    <3>2. m \in n .. N /\ m # n /\ f[m] # f[n] BY <3>1
    <3>3. m \in 1 .. N /\ m - 1 \in n .. N BY <1>1, <3>2
    <3>4. m - 1 \notin Bad
      <4>1. ~(m <= m - 1) BY <1>1, <3>3
      <4> HIDE DEF Bad
      <4> QED BY <3>1, <4>1
    <3>5. f[m - 1] = f[n] BY <3>3, <3>4
    <3> QED BY <1>2, <1>4, <3>2, <3>3, <3>5
  <2> QED BY <2>1, <2>2
<1>5. F[f[N]] = f[N]
  <2> SUFFICES ASSUME F[f[N]] # f[N] PROVE FALSE OBVIOUS
  <2>1. \A n \in 0 .. N : F[f[n]] # f[n] BY <1>4
  <2> DEFINE C(n) == Cardinality(f[n])
             Bad == {n \in 0 .. N : C(n) < n}
  <2>2. \A n \in 0 .. N : f[n] \in SUBSET U /\ IsFiniteSet(f[n]) /\ C(n) \in Nat /\ C(n) <= N
    BY FS_Subset, FS_CardinalityType
  <2>3. CASE Bad = {}
    <3>1. ~(C(N) < N)
      <4> HIDE DEF C
      <4> QED BY <1>1, <2>3
    <3>2. C(N) = N
      <4> HIDE DEF C
      <4> QED BY <1>1, <2>2, <3>1
    <3>3. f[N] = U BY <1>1, <3>2, FS_Subset
    <3>4. U \in SUBSET U /\ F[U] \in SUBSET U /\ U \subseteq F[U] OBVIOUS
    <3> QED BY <3>3, <3>4
  <2>4. CASE Bad # {}
    <3>1. PICK m \in Bad : \A k \in Bad : m <= k
      <4>1. Bad \in SUBSET Nat OBVIOUS
      <4> HIDE DEF Bad
      <4> QED BY <2>4, <4>1, LeastElement
    <3>2. m \in 0 .. N /\ C(m) < m BY <3>1
    <3>3. m \in 1 .. N /\ m - 1 \in 0 .. N
      <4> HIDE DEF C
      <4> QED BY <1>1, <2>2, <3>2
    <3>4. m - 1 \notin Bad
      <4>1. ~(m <= m - 1) BY <1>1, <3>3
      <4> HIDE DEF Bad
      <4> QED BY <3>1, <4>1
    <3>5. C(m - 1) >= m - 1
      <4>1. ~(C(m - 1) < m - 1) BY <3>3, <3>4
      <4> HIDE DEF C
      <4> QED BY <2>2, <3>3, <4>1
    <3>6. f[m - 1] \in SUBSET f[m] /\ f[m - 1] # f[m] BY <1>2, <2>1, <2>2, <3>3
    <3>7. C(m - 1) <= C(m) /\ C(m - 1) # C(m) BY <2>2, <3>2, <3>6, FS_Subset
    <3> HIDE DEF C
    <3> QED BY <1>1, <2>2, <3>2, <3>3, <3>5, <3>7, SMTT(30)
  <2> QED BY <2>3, <2>4
<1> QED BY <1>3, <1>5

(* What holds at 0 and goes on from each number to the next holds up to N. *)
LEMMA Onward ==
  ASSUME NEW N \in Nat, NEW S, 0 \in S, \A n \in 1 .. N : n - 1 \in S => n \in S
  PROVE  0 .. N \subseteq S
<1> DEFINE f == [n \in 0 .. N |-> n]
<1>1. f[0] \in S OBVIOUS
<1>2. \A n \in 1 .. N : f[n - 1] \in S => f[n] \in S
  <2>1. \A n \in 1 .. N : f[n - 1] = n - 1 /\ f[n] = n OBVIOUS
  <2> QED BY <2>1
<1>3. \A n \in 0 .. N : f[n] \in S
  <2> HIDE DEF f
  <2> QED BY <1>1, <1>2, Throughout
<1> QED BY <1>3

(* f starts at A and takes the N steps of F in turn.                       *)
Stepped(f, F, A, N) == f[0] = A /\ \A n \in 1 .. N : f[n] = F[n][f[n - 1]]

(* A function that is defined by a recursion that counts its steps exists. *)
LEMMA Recurs ==
  ASSUME NEW T, NEW A \in T, NEW N \in Nat, NEW F \in [1 .. N -> [T -> T]]
  PROVE  \E f \in [0 .. N -> T] : Stepped(f, F, A, N)
<1> DEFINE Has(m) == \E f \in [0 .. m -> T] : Stepped(f, F, A, m)
           S == {m \in 0 .. N : Has(m)}
<1>1. 0 \in S
  <2> DEFINE z == [n \in 0 .. 0 |-> A]
  <2>1. z \in [0 .. 0 -> T] /\ Stepped(z, F, A, 0) BY DEF Stepped
  <2>2. Has(0)
    <3> HIDE DEF z
    <3> QED BY <2>1
  <2> QED BY <2>2
<1>2. ASSUME NEW m \in 1 .. N, m - 1 \in S PROVE m \in S
  <2>1. PICK f \in [0 .. m - 1 -> T] : Stepped(f, F, A, m - 1) BY <1>2
  <2> DEFINE x == F[m][f[m - 1]]
             g == [n \in 0 .. m |-> IF n = m THEN x ELSE f[n]]
  <2>2. x \in T
    <3>1. f[m - 1] \in T BY <2>1
    <3> QED BY <3>1
  <2> HIDE DEF x
  <2>3. g \in [0 .. m -> T]
    <3>1. \A n \in 0 .. m : n # m => n \in 0 .. m - 1 OBVIOUS
    <3> QED BY <2>1, <2>2, <3>1
  <2>4. g[0] = A BY <2>1 DEF Stepped
  <2>5. ASSUME NEW n \in 1 .. m PROVE g[n] = F[n][g[n - 1]]
    <3>1. n - 1 \in 0 .. m /\ n - 1 # m /\ n \in 0 .. m OBVIOUS
    <3>2. g[n - 1] = f[n - 1] BY <3>1
    <3>3. CASE n = m BY <3>1, <3>2, <3>3 DEF x
    <3>4. CASE n # m
      <4>1. n \in 1 .. m - 1 BY <3>4
      <4>2. g[n] = f[n] BY <3>1, <3>4
      <4> QED BY <2>1, <3>2, <4>1, <4>2 DEF Stepped
    <3> QED BY <3>3, <3>4
  <2>6. Stepped(g, F, A, m)
    <3> HIDE DEF g
    <3> QED BY <2>4, <2>5 DEF Stepped
  <2>7. Has(m)
    <3> HIDE DEF g
    <3> QED BY <2>3, <2>6
  <2> QED BY <2>7
<1> HIDE DEF S
<1>3. 0 .. N \subseteq S BY <1>1, <1>2, Onward
<1> QED BY <1>3 DEF S
=============================================================================
