------------------------------ MODULE LDoProofs ------------------------------
(***************************************************************************)
(* Proof of the safety properties of LDo, for any number of coroutines,    *)
(* any program and any limits.                                             *)
(*                                                                         *)
(* None of them is inductive alone.  What a thread remembers can only be   *)
(* right after an error when what luaD_pcall saved was right, and after a  *)
(* return when the frames below are; a yield is harmless only because      *)
(* nCcalls counts every call frame; and what costatus reads off a          *)
(* coroutine depends on what became of its frames.  The invariant IInv     *)
(* therefore says of the whole native stack, and of every frame saved on   *)
(* it, that it agrees with the threads.                                    *)
(*                                                                         *)
(* The first part is about the two stacks: what the frames of the native   *)
(* stack say of a thread (levels of C calls, CallInfos, message handler),  *)
(* when what the threads remember agrees with them (Wf), and that pushing, *)
(* popping, replacing and cutting off frames keeps the agreement.  The     *)
(* second shows that the actions do nothing else.                          *)
(***************************************************************************)
EXTENDS LDo, IndexLemmas, FiniteSetTheorems, SequenceTheorems, TLAPS

(* The functions on a list of CallInfos                                    *)
Names == {"base", "lua", "fn", "pcall", "xpcall", "load", "create", "resume",
          "wrap", "yield"}

(* Types of the frames and of what a thread remembers                      *)
FrameSet ==
    [fn : {"call", "resume", "handler"}, L : Threads]
      \cup [fn : {"execute"}, L : Threads, n : Nat \ {0}]
      \cup [fn : {"cfunction"}, L : Threads, f : Names, at : {"start", "after", "failed"}]
      \cup [fn : {"parser"}, L : Threads, level : Nat]
      \cup [fn : {"pcall"}, L : Threads, ci : Nat, nCcalls : Nat, errfunc : BOOLEAN]

ThreadSet == [ci : Seq(Names), size_ci : Nat, status : {"ok", "yield", "err"},
              nCcalls : Nat, baseCcalls : Nat, errfunc : BOOLEAN,
              left : {"body", "nothing", "results"}]

(* CallInfos that the frame f stands for *)
Infos(f, L) ==
    CASE f.L = L /\ f.fn = "execute" -> f.n
      [] f.L = L /\ f.fn = "cfunction" -> 1
      [] OTHER -> 0
(* and all the frames up to the n-th                                       *)
Depth(s, L, n) == Total([i \in 1 .. n |-> Infos(s[i], L)], n)

(* luaD_pcall called by lua_pcall sets L->errfunc; called by               *)
(* luaD_protectedparser it leaves it.  Handled: the handler that is set in *)
(* L after the first n frames is one of xpcall.                            *)
Installs(s, i) == s[i].fn = "pcall" /\ (i > 1 => s[i - 1].f # "load")
Handled(s, L, n) ==
    \E i \in 2 .. n :
        /\ s[i].L = L /\ Installs(s, i) /\ s[i - 1].f = "xpcall"
        /\ \A j \in i + 1 .. n : s[j].L = L => ~Installs(s, j)

(* Which frame is found on top of which: the C stack of the interpreter    *)
Sits(s, i) ==
    LET f == s[i]
        g == s[i - 1]
    IN  /\ i = 1 => f.fn = "pcall" /\ f.L = Main
        /\ i > 1 =>
              /\ f.fn # "resume" => f.L = g.L
              /\ f.fn = "execute" => g.fn \in {"call", "resume"}
              /\ f.fn = "cfunction" => g.fn \in {"execute", "call"}
              /\ f.fn = "pcall" => g.fn = "cfunction" /\ g.f \in {"pcall", "xpcall", "load"}
              /\ f.fn = "resume" => /\ g.fn = "cfunction" /\ g.f \in {"resume", "wrap"}
                                    /\ f.L # Main
              /\ f.fn = "parser" => g.fn = "pcall" /\ i > 2
              /\ f.fn = "handler" => g.fn # "pcall"

(* The frames of a coroutine are together: a thread below a frame of       *)
(* lua_resume has none above it.                                           *)
Apart(s) == \A j \in DOMAIN s : s[j].fn = "resume" =>
    \A i \in 1 .. j - 1, k \in j .. Len(s) : s[i].L # s[k].L

(* What luaD_pcall has saved is what the frames below it say.              *)
Saved(s, i) == s[i].fn = "pcall" =>
    /\ s[i].ci = 1 + Depth(s, s[i].L, i - 1)
    /\ s[i].nCcalls = Counted(s, i - 1)
    /\ s[i].nCcalls < LUAI_MAXCCALLS + ErrorCcalls
    /\ s[i].errfunc <=> Handled(s, s[i].L, i - 1)

(* L has a frame; it is active; its last frame is the i-th                 *)
Has(s, L) == \E i \in DOMAIN s : s[i].L = L
Active(s, L) == L = Main \/ \E i \in DOMAIN s : s[i].L = L
IsLast(s, L, i) == i \in DOMAIN s /\ s[i].L = L /\ \A k \in i + 1 .. Len(s) : s[k].L # L

(* What an active thread remembers is what its frames say.                 *)
Exact(x, s, L) == Active(s, L) =>
    /\ x.status = "ok" => Len(x.ci) = 1 + Depth(s, L, Len(s))
    /\ x.errfunc <=> Handled(s, L, Len(s))
    /\ \A i \in DOMAIN s : IsLast(s, L, i) => x.nCcalls = Counted(s, i)

(* The CallInfos that a frame stands for are functions it can run.         *)
Content(t, s, i) ==
    LET ci == t[s[i].L].ci
    IN  /\ s[i].fn = "execute" =>
              \A k \in 2 + Depth(s, s[i].L, i - 1) .. 1 + Depth(s, s[i].L, i) : ci[k] = "lua"
        /\ s[i].fn = "cfunction" => ci[1 + Depth(s, s[i].L, i)] = s[i].f

(* The two stacks agree.                                                   *)
Wf(t, s) ==
    /\ t \in [Threads -> ThreadSet] /\ s \in Seq(FrameSet)
    /\ \A i \in DOMAIN s : Sits(s, i) /\ Saved(s, i) /\ Content(t, s, i)
    /\ Apart(s)
    /\ \A L \in Threads : Exact(t[L], s, L) /\ Len(t[L].ci) \in 1 .. t[L].size_ci
    /\ \A i \in DOMAIN s : s[i].fn = "resume" => t[s[i].L].baseCcalls = Counted(s, i)
    /\ t[Main].baseCcalls = 0
    /\ s = <<>> => t[Main].nCcalls = 0

-----------------------------------------------------------------------------
(* Sums                                                                    *)

(* The pairs that Total counts                                             *)
Cells(w, n) == UNION {{i} \X (1 .. w[i]) : i \in 1 .. n}

(* One more term: the pairs that Total counts are finitely many, and the   *)
(* new ones are as many as the term says.                                  *)
LEMMA CellsStep ==
  ASSUME NEW w, NEW n \in Nat, w[n + 1] \in Nat, IsFiniteSet(Cells(w, n))
  PROVE  /\ IsFiniteSet(Cells(w, n + 1))
         /\ Total(w, n + 1) = Total(w, n) + w[n + 1]
<1> DEFINE New == {n + 1} \X (1 .. w[n + 1])
<1>1. Cells(w, n + 1) = Cells(w, n) \cup New
  <2>1. 1 .. n + 1 = (1 .. n) \cup {n + 1} OBVIOUS
  <2> QED BY <2>1, Zenon DEF Cells
<1>2. Cells(w, n) \cap New = {}
  <2>1. SUFFICES ASSUME NEW p \in Cells(w, n), p \in New PROVE FALSE OBVIOUS
  <2>2. PICK i \in 1 .. n : p \in {i} \X (1 .. w[i]) BY <2>1, Zenon DEF Cells
  <2>3. p[1] = i /\ p[1] = n + 1 BY <2>1, <2>2
  <2> QED BY <2>3
<1>3. IsFiniteSet(New) /\ Cardinality(New) = w[n + 1]
  <2>1. IsFiniteSet(1 .. w[n + 1]) /\ Cardinality(1 .. w[n + 1]) = w[n + 1]
    <3>1. ASSUME NEW m \in Nat PROVE IsFiniteSet(1 .. m) /\ Cardinality(1 .. m) = m
      <4>1. 1 \in Int /\ m \in Int OBVIOUS
      <4>2. IsFiniteSet(1 .. m) /\ Cardinality(1 .. m) = IF 1 > m THEN 0 ELSE m - 1 + 1
        BY <4>1, FS_Interval
      <4> QED BY <4>2
    <3> QED BY <3>1
  <2>2. IsFiniteSet({n + 1}) /\ Cardinality({n + 1}) = 1 BY FS_Singleton
  <2>3. /\ IsFiniteSet(New)
        /\ Cardinality(New) = Cardinality({n + 1}) * Cardinality(1 .. w[n + 1])
    BY <2>1, <2>2, FS_Product
  <2> QED BY <2>1, <2>2, <2>3
<1>4. Cardinality(Cells(w, n)) \in Nat BY FS_CardinalityType
<1>5. Cardinality(Cells(w, n) \cap New) = 0 BY <1>2, FS_EmptySet
<1> HIDE DEF New
<1>6. /\ IsFiniteSet(Cells(w, n) \cup New)
      /\ Cardinality(Cells(w, n) \cup New) = Cardinality(Cells(w, n)) + w[n + 1]
  BY <1>3, <1>4, <1>5, FS_Union
<1> QED BY <1>1, <1>6 DEF Total, Cells

(* The pairs that Total counts are finitely many, for any number of terms. *)
LEMMA CellsFinite ==
  ASSUME NEW w, NEW N \in Nat, \A i \in 1 .. N : w[i] \in Nat
  PROVE  \A n \in 0 .. N : IsFiniteSet(Cells(w, n))
<1> DEFINE Bad == {n \in 0 .. N : ~IsFiniteSet(Cells(w, n))}
<1>1. SUFFICES Bad = {} OBVIOUS
<1>2. SUFFICES ASSUME Bad # {} PROVE FALSE OBVIOUS
<1>3. PICK n \in Bad : \A m \in Bad : n <= m
  <2>1. Bad \in SUBSET Nat OBVIOUS
  <2> HIDE DEF Bad
  <2> QED BY <1>2, <2>1, LeastElement
<1>4. CASE n = 0
  <2>1. 1 .. 0 = {} OBVIOUS
  <2>2. Cells(w, 0) = {} BY <2>1, Zenon DEF Cells
  <2> QED BY <1>3, <1>4, <2>2, FS_EmptySet
<1>5. CASE n # 0
  <2>1. n - 1 \in 0 .. N /\ n - 1 \in Nat /\ n \in 1 .. N /\ n = (n - 1) + 1 BY <1>5
  <2>2. n - 1 \notin Bad BY <1>3, <2>1
  <2>3. IsFiniteSet(Cells(w, n - 1)) BY <2>1, <2>2
  <2>4. w[(n - 1) + 1] \in Nat BY <2>1
  <2>5. IsFiniteSet(Cells(w, (n - 1) + 1)) BY <2>1, <2>3, <2>4, CellsStep
  <2> QED BY <1>3, <2>1, <2>5
<1> QED BY <1>4, <1>5

(* Total is the sum: it starts at zero and grows by each term.             *)
LEMMA TotalStep ==
  ASSUME NEW w, NEW N \in Nat, \A i \in 1 .. N : w[i] \in Nat
  PROVE  /\ Total(w, 0) = 0
         /\ \A n \in 0 .. N : Total(w, n) \in Nat
         /\ \A n \in 0 .. N - 1 : Total(w, n + 1) = Total(w, n) + w[n + 1]
<1>1. Total(w, 0) = 0
  <2>1. 1 .. 0 = {} OBVIOUS
  <2>2. Cells(w, 0) = {} BY <2>1, Zenon DEF Cells
  <2> QED BY <2>2, FS_EmptySet DEF Total, Cells
<1>2. \A n \in 0 .. N : Total(w, n) \in Nat
  BY CellsFinite, FS_CardinalityType DEF Total, Cells
<1>3. ASSUME NEW n \in 0 .. N - 1 PROVE Total(w, n + 1) = Total(w, n) + w[n + 1]
  <2>1. n \in Nat /\ n \in 0 .. N /\ w[n + 1] \in Nat OBVIOUS
  <2>2. IsFiniteSet(Cells(w, n)) BY <2>1, CellsFinite
  <2> QED BY <2>1, <2>2, CellsStep
<1> QED BY <1>1, <1>2, <1>3

(* Sums of equal terms are equal.                                          *)
LEMMA TotalSame ==
  ASSUME NEW w, NEW v, NEW n \in Nat, \A i \in 1 .. n : w[i] = v[i]
  PROVE  Total(w, n) = Total(v, n)
<1>1. Cells(w, n) = Cells(v, n) BY Zenon DEF Cells
<1> QED BY <1>1 DEF Total, Cells

(* A longer sum is no smaller, and the same when it only adds zeros.       *)
LEMMA TotalMonotone ==
  ASSUME NEW w, NEW N \in Nat, \A i \in 1 .. N : w[i] \in Nat,
         NEW k \in 0 .. N, NEW n \in k .. N
  PROVE  /\ Total(w, k) <= Total(w, n)
         /\ (\A i \in k + 1 .. n : w[i] = 0) => Total(w, k) = Total(w, n)
<1>1. Cells(w, k) \subseteq Cells(w, n)
  <2>1. 1 .. k \subseteq 1 .. n OBVIOUS
  <2> QED BY <2>1, Zenon DEF Cells
<1>2. IsFiniteSet(Cells(w, n)) BY CellsFinite
<1>3. Total(w, k) <= Total(w, n) BY <1>1, <1>2, FS_Subset DEF Total, Cells
<1>4. ASSUME \A i \in k + 1 .. n : w[i] = 0 PROVE Total(w, k) = Total(w, n)
  <2>1. 1 .. n = (1 .. k) \cup (k + 1 .. n) OBVIOUS
  <2>2. \A i \in k + 1 .. n : 1 .. w[i] = {} BY <1>4
  <2>3. Cells(w, n) \subseteq Cells(w, k)
    <3>1. SUFFICES ASSUME NEW p \in Cells(w, n) PROVE p \in Cells(w, k) OBVIOUS
    <3>2. PICK i \in 1 .. n : p \in {i} \X (1 .. w[i]) BY <3>1, Zenon DEF Cells
    <3>3. i \notin k + 1 .. n BY <2>2, <3>2
    <3>4. i \in 1 .. k BY <2>1, <3>3
    <3> QED BY <3>2, <3>4, Zenon DEF Cells
  <2>4. Cells(w, k) = Cells(w, n) BY <1>1, <2>3
  <2> QED BY <2>4 DEF Total, Cells
<1> QED BY <1>3, <1>4
-----------------------------------------------------------------------------
(* Frames and what is counted over them                                    *)

(* The fields of a frame of the native stack, by its kind; what it counts  *)
(* of nCcalls and of the CallInfos is a natural number.                    *)
LEMMA FrameFacts ==
  ASSUME NEW f \in FrameSet
  PROVE  /\ f.L \in Threads
         /\ f.fn \in {"call", "resume", "handler", "execute", "cfunction", "parser", "pcall"}
         /\ f.fn = "execute" => f.n \in Nat /\ f.n > 0
         /\ f.fn = "cfunction" => f.f \in Names
         /\ f.fn = "parser" => f.level \in Nat
         /\ f.fn = "pcall" => f.ci \in Nat /\ f.nCcalls \in Nat /\ f.errfunc \in BOOLEAN
         /\ Levels(f) \in Nat
         /\ \A L : Infos(f, L) \in Nat
         /\ \A L : f.L # L => Infos(f, L) = 0
<1>1. f \in [fn : {"call", "resume", "handler"}, L : Threads]
      \/ f \in [fn : {"execute"}, L : Threads, n : Nat \ {0}]
      \/ f \in [fn : {"cfunction"}, L : Threads, f : Names, at : {"start", "after", "failed"}]
      \/ f \in [fn : {"parser"}, L : Threads, level : Nat]
      \/ f \in [fn : {"pcall"}, L : Threads, ci : Nat, nCcalls : Nat, errfunc : BOOLEAN]
  BY DEF FrameSet
<1>2. /\ f.L \in Threads
      /\ f.fn \in {"call", "resume", "handler", "execute", "cfunction", "parser", "pcall"}
      /\ f.fn = "execute" => f.n \in Nat /\ f.n > 0
      /\ f.fn = "cfunction" => f.f \in Names
      /\ f.fn = "parser" => f.level \in Nat
      /\ f.fn = "pcall" => f.ci \in Nat /\ f.nCcalls \in Nat /\ f.errfunc \in BOOLEAN
  BY <1>1
<1>3. Levels(f) \in Nat BY <1>2 DEF Levels
<1>4. \A L : Infos(f, L) \in Nat BY <1>2 DEF Infos
<1>5. \A L : f.L # L => Infos(f, L) = 0 BY DEF Infos
<1> QED BY <1>2, <1>3, <1>4, <1>5

(* The levels below a frame: each frame adds its own, none takes any away. *)
LEMMA CountedFacts ==
  ASSUME NEW s \in Seq(FrameSet)
  PROVE  /\ Counted(s, 0) = 0
         /\ \A n \in 0 .. Len(s) : Counted(s, n) \in Nat
         /\ \A n \in 0 .. Len(s) - 1 : Counted(s, n + 1) = Counted(s, n) + Levels(s[n + 1])
         /\ \A n \in 0 .. Len(s) : \A k \in 0 .. n : Counted(s, k) <= Counted(s, n)
<1> DEFINE W == [i \in 1 .. Len(s) |-> Levels(s[i])]
<1>0. Len(s) \in Nat /\ \A i \in 1 .. Len(s) : s[i] \in FrameSet BY LenProperties
<1>1. \A i \in 1 .. Len(s) : W[i] \in Nat /\ W[i] = Levels(s[i]) BY <1>0, FrameFacts
<1>2. ASSUME NEW n \in 0 .. Len(s) PROVE Counted(s, n) = Total(W, n)
  <2> DEFINE V == [i \in 1 .. n |-> Levels(s[i])]
  <2>1. n \in Nat /\ \A i \in 1 .. n : V[i] = W[i] BY <1>0
  <2>2. Counted(s, n) = Total(V, n) BY DEF Counted
  <2> HIDE DEF V, W
  <2> QED BY <2>1, <2>2, TotalSame
<1> HIDE DEF W
<1>3. /\ Total(W, 0) = 0
      /\ \A n \in 0 .. Len(s) : Total(W, n) \in Nat
      /\ \A n \in 0 .. Len(s) - 1 : Total(W, n + 1) = Total(W, n) + W[n + 1]
  BY <1>0, <1>1, TotalStep
<1>4. \A n \in 0 .. Len(s) : \A k \in 0 .. n : Total(W, k) <= Total(W, n)
  <2>1. SUFFICES ASSUME NEW n \in 0 .. Len(s), NEW k \in 0 .. n
                 PROVE  Total(W, k) <= Total(W, n)
    OBVIOUS
  <2>2. k \in 0 .. Len(s) /\ n \in k .. Len(s) BY <1>0
  <2> QED BY <1>0, <1>1, <2>2, TotalMonotone
<1>5. \A n \in 0 .. Len(s) - 1 : Counted(s, n + 1) = Counted(s, n) + Levels(s[n + 1])
  <2>1. SUFFICES ASSUME NEW n \in 0 .. Len(s) - 1
                 PROVE  Counted(s, n + 1) = Counted(s, n) + Levels(s[n + 1])
    OBVIOUS
  <2>2. n \in 0 .. Len(s) /\ n + 1 \in 0 .. Len(s) /\ n + 1 \in 1 .. Len(s) BY <1>0
  <2> QED BY <1>1, <1>2, <1>3, <2>2
<1>6. \A n \in 0 .. Len(s) : \A k \in 0 .. n : k \in 0 .. Len(s) BY <1>0
<1>7. 0 \in 0 .. Len(s) BY <1>0
<1> QED BY <1>2, <1>3, <1>4, <1>5, <1>6, <1>7

(* The CallInfos of L that the frames below stand for: frames of other     *)
(* threads add none.                                                       *)
LEMMA DepthFacts ==
  ASSUME NEW s \in Seq(FrameSet), NEW L
  PROVE  /\ Depth(s, L, 0) = 0
         /\ \A n \in 0 .. Len(s) : Depth(s, L, n) \in Nat
         /\ \A n \in 0 .. Len(s) - 1 : Depth(s, L, n + 1) = Depth(s, L, n) + Infos(s[n + 1], L)
         /\ \A n \in 0 .. Len(s) : \A k \in 0 .. n :
               /\ Depth(s, L, k) <= Depth(s, L, n)
               /\ (\A i \in k + 1 .. n : s[i].L # L) => Depth(s, L, k) = Depth(s, L, n)
<1> DEFINE W == [i \in 1 .. Len(s) |-> Infos(s[i], L)]
<1>0. Len(s) \in Nat /\ \A i \in 1 .. Len(s) : s[i] \in FrameSet BY LenProperties
<1>1. \A i \in 1 .. Len(s) : W[i] \in Nat /\ W[i] = Infos(s[i], L) BY <1>0, FrameFacts
<1>2. ASSUME NEW n \in 0 .. Len(s) PROVE Depth(s, L, n) = Total(W, n)
  <2> DEFINE V == [i \in 1 .. n |-> Infos(s[i], L)]
  <2>1. n \in Nat /\ \A i \in 1 .. n : V[i] = W[i] BY <1>0
  <2>2. Depth(s, L, n) = Total(V, n) BY DEF Depth
  <2> HIDE DEF V, W
  <2> QED BY <2>1, <2>2, TotalSame
<1> HIDE DEF W
<1>3. /\ Total(W, 0) = 0
      /\ \A n \in 0 .. Len(s) : Total(W, n) \in Nat
      /\ \A n \in 0 .. Len(s) - 1 : Total(W, n + 1) = Total(W, n) + W[n + 1]
  BY <1>0, <1>1, TotalStep
<1>4. ASSUME NEW n \in 0 .. Len(s), NEW k \in 0 .. n
      PROVE  /\ Depth(s, L, k) <= Depth(s, L, n)
             /\ (\A i \in k + 1 .. n : s[i].L # L) => Depth(s, L, k) = Depth(s, L, n)
  <2>1. k \in 0 .. Len(s) /\ n \in k .. Len(s) BY <1>0
  <2>2. /\ Total(W, k) <= Total(W, n)
        /\ (\A i \in k + 1 .. n : W[i] = 0) => Total(W, k) = Total(W, n)
    BY <1>0, <1>1, <2>1, TotalMonotone
  <2>3. \A i \in k + 1 .. n : i \in 1 .. Len(s) BY <1>0
  <2>4. \A i \in k + 1 .. n : s[i].L # L => W[i] = 0 BY <1>0, <1>1, <2>3, FrameFacts
  <2> QED BY <1>2, <2>1, <2>2, <2>4
<1>5. \A n \in 0 .. Len(s) - 1 : Depth(s, L, n + 1) = Depth(s, L, n) + Infos(s[n + 1], L)
  <2>1. SUFFICES ASSUME NEW n \in 0 .. Len(s) - 1
                 PROVE  Depth(s, L, n + 1) = Depth(s, L, n) + Infos(s[n + 1], L)
    OBVIOUS
  <2>2. n \in 0 .. Len(s) /\ n + 1 \in 0 .. Len(s) /\ n + 1 \in 1 .. Len(s) BY <1>0
  <2> QED BY <1>1, <1>2, <1>3, <2>2
<1>7. 0 \in 0 .. Len(s) BY <1>0
<1> QED BY <1>2, <1>3, <1>4, <1>5, <1>7

(* Whether L has a message handler is decided by the last pcall or xpcall  *)
(* frame of L; frames of other threads, and luaD_pcall called by load, do  *)
(* not change it.                                                          *)
LEMMA HandledFacts ==
  ASSUME NEW s \in Seq(FrameSet), NEW L
  PROVE  /\ ~Handled(s, L, 0)
         /\ \A n \in 0 .. Len(s) - 1 : Handled(s, L, n + 1) <=>
               IF s[n + 1].L = L /\ Installs(s, n + 1)
               THEN n > 0 /\ s[n].f = "xpcall" ELSE Handled(s, L, n)
         /\ \A n \in 0 .. Len(s) : \A k \in 0 .. n :
               (\A i \in k + 1 .. n : s[i].L # L) => (Handled(s, L, k) <=> Handled(s, L, n))
<1>0. Len(s) \in Nat BY LenProperties
<1>1. ~Handled(s, L, 0) BY DEF Handled
<1>2. ASSUME NEW n \in 0 .. Len(s) - 1, s[n + 1].L = L, Installs(s, n + 1)
      PROVE  Handled(s, L, n + 1) <=> n > 0 /\ s[n].f = "xpcall"
  <2>1. ASSUME Handled(s, L, n + 1) PROVE n > 0 /\ s[n].f = "xpcall"
    <3>1. PICK i \in 2 .. n + 1 : /\ s[i - 1].f = "xpcall"
             /\ \A j \in i + 1 .. n + 1 : s[j].L = L => ~Installs(s, j)
      BY <2>1 DEF Handled
    <3>2. i = n + 1 BY <1>0, <1>2, <3>1
    <3> QED BY <3>1, <3>2
  <2>2. ASSUME n > 0, s[n].f = "xpcall" PROVE Handled(s, L, n + 1)
    <3>1. n + 1 \in 2 .. n + 1 /\ (n + 1) - 1 = n /\ (n + 1) + 1 .. n + 1 = {} BY <2>2, <1>0
    <3> QED BY <1>2, <2>2, <3>1 DEF Handled
  <2> QED BY <2>1, <2>2
<1>3. ASSUME NEW n \in 0 .. Len(s) - 1, ~(s[n + 1].L = L /\ Installs(s, n + 1))
      PROVE  Handled(s, L, n + 1) <=> Handled(s, L, n)
  <2>1. ASSUME Handled(s, L, n + 1) PROVE Handled(s, L, n)
    <3>1. PICK i \in 2 .. n + 1 : /\ s[i].L = L /\ Installs(s, i) /\ s[i - 1].f = "xpcall"
             /\ \A j \in i + 1 .. n + 1 : s[j].L = L => ~Installs(s, j)
      BY <2>1 DEF Handled
    <3>2. i \in 2 .. n /\ i + 1 .. n \subseteq i + 1 .. n + 1 BY <1>3, <3>1
    <3> QED BY <3>1, <3>2 DEF Handled
  <2>2. ASSUME Handled(s, L, n) PROVE Handled(s, L, n + 1)
    <3>1. PICK i \in 2 .. n : /\ s[i].L = L /\ Installs(s, i) /\ s[i - 1].f = "xpcall"
             /\ \A j \in i + 1 .. n : s[j].L = L => ~Installs(s, j)
      BY <2>2 DEF Handled
    <3>2. i \in 2 .. n + 1 /\ \A j \in i + 1 .. n + 1 : j \in i + 1 .. n \/ j = n + 1 BY <3>1
    <3> QED BY <1>3, <3>1, <3>2 DEF Handled
  <2> QED BY <2>1, <2>2
<1>4. ASSUME NEW n \in 0 .. Len(s), NEW k \in 0 .. n, \A i \in k + 1 .. n : s[i].L # L
      PROVE  Handled(s, L, k) <=> Handled(s, L, n)
  <2>1. ASSUME Handled(s, L, n) PROVE Handled(s, L, k)
    <3>1. PICK i \in 2 .. n : /\ s[i].L = L /\ Installs(s, i) /\ s[i - 1].f = "xpcall"
             /\ \A j \in i + 1 .. n : s[j].L = L => ~Installs(s, j)
      BY <2>1 DEF Handled
    <3>2. i \in 2 .. k /\ i + 1 .. k \subseteq i + 1 .. n BY <1>4, <3>1
    <3> QED BY <3>1, <3>2 DEF Handled
  <2>2. ASSUME Handled(s, L, k) PROVE Handled(s, L, n)
    <3>1. PICK i \in 2 .. k : /\ s[i].L = L /\ Installs(s, i) /\ s[i - 1].f = "xpcall"
             /\ \A j \in i + 1 .. k : s[j].L = L => ~Installs(s, j)
      BY <2>2 DEF Handled
    <3>2. i \in 2 .. n /\ \A j \in i + 1 .. n : j \in i + 1 .. k \/ j \in k + 1 .. n BY <3>1
    <3> QED BY <1>4, <3>1, <3>2 DEF Handled
  <2> QED BY <2>1, <2>2
<1> QED BY <1>1, <1>2, <1>3, <1>4

(* All of it depends on the frames below only.                             *)
LEMMA SamePrefix ==
  ASSUME NEW s, NEW u, NEW n \in Nat, \A i \in 1 .. n : s[i] = u[i]
  PROVE  /\ \A i \in 0 .. n : /\ Counted(s, i) = Counted(u, i)
                              /\ \A L : Depth(s, L, i) = Depth(u, L, i)
                              /\ \A L : Handled(s, L, i) <=> Handled(u, L, i)
         /\ \A i \in 1 .. n : /\ Sits(s, i) <=> Sits(u, i)
                              /\ Saved(s, i) <=> Saved(u, i)
                              /\ \A t : Content(t, s, i) <=> Content(t, u, i)
<1>1. ASSUME NEW i \in 0 .. n
      PROVE  /\ Counted(s, i) = Counted(u, i)
             /\ \A L : Depth(s, L, i) = Depth(u, L, i)
             /\ \A L : Handled(s, L, i) <=> Handled(u, L, i)
  <2>1. \A j \in 1 .. i : j \in 1 .. n /\ s[j] = u[j] OBVIOUS
  <2>2. [j \in 1 .. i |-> Levels(s[j])] = [j \in 1 .. i |-> Levels(u[j])] BY <2>1
  <2>3. \A L : [j \in 1 .. i |-> Infos(s[j], L)] = [j \in 1 .. i |-> Infos(u[j], L)] BY <2>1
  <2>4. \A j \in 1 .. i : Installs(s, j) <=> Installs(u, j) BY <2>1 DEF Installs
  <2>5. \A j \in 2 .. i : s[j] = u[j] /\ s[j - 1] = u[j - 1] BY <2>1
  <2>6. ASSUME NEW L PROVE Handled(s, L, i) <=> Handled(u, L, i)
    <3>1. \A j \in 2 .. i : j \in 1 .. i /\ \A m \in j + 1 .. i : m \in 1 .. i OBVIOUS
    <3> QED BY <2>1, <2>4, <2>5, <3>1 DEF Handled
  <2> QED BY <2>2, <2>3, <2>6 DEF Counted, Depth
<1>2. ASSUME NEW i \in 1 .. n
      PROVE  /\ Sits(s, i) <=> Sits(u, i)
             /\ Saved(s, i) <=> Saved(u, i)
             /\ \A t : Content(t, s, i) <=> Content(t, u, i)
  <2>1. s[i] = u[i] /\ i \in 0 .. n /\ i - 1 \in 0 .. n OBVIOUS
  <2>2. i > 1 => s[i - 1] = u[i - 1] OBVIOUS
  <2>3. Sits(s, i) <=> Sits(u, i) BY <2>1, <2>2 DEF Sits
  <2>4. Saved(s, i) <=> Saved(u, i) BY <1>1, <2>1 DEF Saved
  <2>5. \A t : Content(t, s, i) <=> Content(t, u, i) BY <1>1, <2>1 DEF Content
  <2> QED BY <2>3, <2>4, <2>5
<1> QED BY <1>1, <1>2
-----------------------------------------------------------------------------
(* The stack is cut off above its k-th frame: all that goes are frames of  *)
(* L, which is left as x.                                                  *)
LEMMA CutWf ==
  ASSUME NEW t, NEW s, Wf(t, s), NEW k \in 0 .. Len(s),
         NEW L \in Threads, NEW x \in ThreadSet,
         \A i \in k + 1 .. Len(s) : s[i].L = L,
         Len(x.ci) \in 1 .. x.size_ci,
         (L = Main \/ \E i \in 1 .. k : s[i].L = L) =>
            /\ k > 0 => s[k].L = L
            /\ x.status = "ok" => Len(x.ci) = 1 + Depth(s, L, k)
            /\ x.errfunc <=> Handled(s, L, k)
            /\ x.nCcalls = Counted(s, k)
            /\ x.baseCcalls = t[L].baseCcalls
            /\ \A j \in 1 .. 1 + Depth(s, L, k) : x.ci[j] = t[L].ci[j]
  PROVE  Wf([t EXCEPT ![L] = x], SubSeq(s, 1, k))
<1> DEFINE u == SubSeq(s, 1, k)
           v == [t EXCEPT ![L] = x]
<1>1. /\ t \in [Threads -> ThreadSet] /\ s \in Seq(FrameSet)
      /\ \A i \in 1 .. Len(s) : Sits(s, i) /\ Saved(s, i) /\ Content(t, s, i)
      /\ Apart(s)
      /\ \A M \in Threads : Exact(t[M], s, M) /\ Len(t[M].ci) \in 1 .. t[M].size_ci
      /\ \A i \in 1 .. Len(s) : s[i].fn = "resume" => t[s[i].L].baseCcalls = Counted(s, i)
      /\ t[Main].baseCcalls = 0
      /\ s = <<>> => t[Main].nCcalls = 0
  BY LenProperties DEF Wf
<1>2. Len(s) \in Nat /\ DOMAIN s = 1 .. Len(s) /\ \A i \in 1 .. Len(s) : s[i] \in FrameSet
  BY <1>1, LenProperties
<1>3. /\ u \in Seq(FrameSet) /\ Len(u) = k /\ k \in Nat /\ DOMAIN u = 1 .. k
      /\ \A i \in 1 .. k : u[i] = s[i] /\ i \in 1 .. Len(s)
  <2>1. \A i \in 1 .. k : s[i] \in FrameSet BY <1>2
  <2>2. u \in Seq(FrameSet) /\ Len(u) = k /\ \A i \in 1 .. k : u[i] = s[i]
    BY <1>2, <2>1, SubSeqProperties
  <2> HIDE DEF u
  <2> QED BY <1>2, <2>2, LenProperties
<1>4. /\ v \in [Threads -> ThreadSet] /\ v[L] = x
      /\ \A M \in Threads : M # L => v[M] = t[M]
  BY <1>1
<1> HIDE DEF u, v
<1>5. /\ \A i \in 0 .. k : /\ Counted(u, i) = Counted(s, i)
                           /\ \A M : Depth(u, M, i) = Depth(s, M, i)
                           /\ \A M : Handled(u, M, i) <=> Handled(s, M, i)
      /\ \A i \in 1 .. k : /\ Sits(u, i) <=> Sits(s, i)
                           /\ Saved(u, i) <=> Saved(s, i)
                           /\ Content(v, u, i) <=> Content(v, s, i)
  BY <1>3, SamePrefix
<1>6. \A M \in Threads : /\ \A n \in 0 .. Len(s) : Depth(s, M, n) \in Nat
                         /\ \A n \in 0 .. k : Depth(s, M, n) <= Depth(s, M, k)
  BY <1>1, <1>2, DepthFacts
<1>7. ASSUME NEW i \in 1 .. k PROVE Sits(u, i) /\ Saved(u, i) /\ Content(v, u, i)
  <2>1. Content(v, s, i)
    <3>1. CASE s[i].L # L
      <4>1. v[s[i].L] = t[s[i].L] BY <1>2, <1>3, <1>4, <3>1, FrameFacts
      <4> QED BY <1>1, <1>3, <4>1 DEF Content
    <3>2. CASE s[i].L = L
      <4>1. \A j \in 1 .. 1 + Depth(s, L, k) : x.ci[j] = t[L].ci[j] BY <3>2
      <4>2. /\ Depth(s, L, i) \in Nat /\ Depth(s, L, i - 1) \in Nat /\ Depth(s, L, k) \in Nat
            /\ Depth(s, L, i) <= Depth(s, L, k)
        BY <1>2, <1>3, <1>6
      <4>3. Content(t, s, i) BY <1>1, <1>3
      <4>4. /\ \A j \in 2 + Depth(s, L, i - 1) .. 1 + Depth(s, L, i) : x.ci[j] = t[L].ci[j]
            /\ x.ci[1 + Depth(s, L, i)] = t[L].ci[1 + Depth(s, L, i)]
        <5> DEFINE a == Depth(s, L, i - 1)
                   b == Depth(s, L, i)
                   d == Depth(s, L, k)
        <5>1. a \in Nat /\ b \in Nat /\ d \in Nat /\ b <= d BY <4>2
        <5> HIDE DEF a, b, d
        <5>2. 1 + b \in 1 .. 1 + d /\ \A j \in 2 + a .. 1 + b : j \in 1 .. 1 + d BY <5>1
        <5> QED BY <4>1, <5>2 DEF a, b, d
      <4> QED BY <1>4, <3>2, <4>3, <4>4 DEF Content
    <3> QED BY <3>1, <3>2
  <2> QED BY <1>1, <1>3, <1>5, <2>1
<1>8. Apart(u)
  <2>1. SUFFICES ASSUME NEW j \in 1 .. k, u[j].fn = "resume",
                        NEW i \in 1 .. j - 1, NEW m \in j .. k
                 PROVE  u[i].L # u[m].L
    BY <1>3 DEF Apart
  <2>2. /\ j \in 1 .. Len(s) /\ m \in j .. Len(s) /\ i \in 1 .. k /\ m \in 1 .. k
        /\ s[j].fn = "resume"
    BY <1>2, <1>3, <2>1
  <2>3. s[i].L # s[m].L BY <1>1, <1>2, <2>2 DEF Apart
  <2> QED BY <1>3, <2>2, <2>3
<1>9. ASSUME NEW M \in Threads PROVE Exact(v[M], u, M) /\ Len(v[M].ci) \in 1 .. v[M].size_ci
  <2>1. CASE M = L
    <3>1. Active(u, L) => L = Main \/ \E i \in 1 .. k : s[i].L = L
      BY <1>3 DEF Active
    <3>2. ASSUME Active(u, L), NEW i \in 1 .. k, IsLast(u, L, i) PROVE i = k
      <4>1. s[k].L = L BY <3>1, <3>2
      <4>2. u[k].L = L /\ k \in 1 .. k BY <1>3, <4>1
      <4>3. i < k => k \in i + 1 .. Len(u) BY <1>3
      <4> QED BY <1>3, <3>2, <4>2, <4>3 DEF IsLast
    <3>3. k \in 0 .. k BY <1>3
    <3> QED BY <1>3, <1>4, <1>5, <2>1, <3>1, <3>2, <3>3 DEF Exact
  <2>2. CASE M # L
    <3>1. v[M] = t[M] BY <1>4, <2>2
    <3>2. \A i \in k + 1 .. Len(s) : s[i].L # M BY <2>2
    <3>3. Active(u, M) => Active(s, M) BY <1>2, <1>3 DEF Active
    <3>4. Depth(s, M, k) = Depth(s, M, Len(s)) /\ (Handled(s, M, k) <=> Handled(s, M, Len(s)))
      <4>1. Len(s) \in 0 .. Len(s) BY <1>2
      <4>2. Depth(s, M, k) = Depth(s, M, Len(s))
        <5>1. s \in Seq(FrameSet) BY <1>1
        <5>2. \A n \in 0 .. Len(s) : \A m \in 0 .. n :
                 (\A i \in m + 1 .. n : s[i].L # M) => Depth(s, M, m) = Depth(s, M, n)
          BY <5>1, DepthFacts
        <5> QED BY <3>2, <4>1, <5>2
      <4>3. Handled(s, M, k) <=> Handled(s, M, Len(s)) BY <1>1, <3>2, <4>1, HandledFacts
      <4> QED BY <4>2, <4>3
    <3>5. ASSUME NEW i \in 1 .. k, IsLast(u, M, i) PROVE IsLast(s, M, i)
      <4>1. \A m \in i + 1 .. Len(s) : m \in i + 1 .. k \/ m \in k + 1 .. Len(s) BY <1>2, <1>3
      <4>2. \A m \in i + 1 .. k : u[m] = s[m] BY <1>3
      <4> QED BY <1>2, <1>3, <3>2, <3>5, <4>1, <4>2 DEF IsLast
    <3>6. k \in 0 .. k /\ \A i \in 1 .. k : i \in 0 .. k BY <1>3
    <3>7. Exact(t[M], s, M) /\ Len(t[M].ci) \in 1 .. t[M].size_ci BY <1>1
    <3> QED BY <1>2, <1>3, <1>5, <3>1, <3>3, <3>4, <3>5, <3>6, <3>7 DEF Exact
  <2> QED BY <2>1, <2>2
<1>10. ASSUME NEW i \in 1 .. k, u[i].fn = "resume"
       PROVE  v[u[i].L].baseCcalls = Counted(u, i)
  <2>1. t[s[i].L].baseCcalls = Counted(s, i) BY <1>1, <1>3, <1>10
  <2>2. v[s[i].L].baseCcalls = t[s[i].L].baseCcalls
    <3>1. CASE s[i].L = L BY <1>4, <3>1
    <3>2. CASE s[i].L # L BY <1>2, <1>3, <1>4, <3>2, FrameFacts
    <3> QED BY <3>1, <3>2
  <2> QED BY <1>3, <1>5, <2>1, <2>2
<1>11. v[Main].baseCcalls = 0
  <2>1. CASE L = Main BY <1>1, <1>4, <2>1
  <2>2. CASE L # Main BY <1>1, <1>4, <2>2 DEF Threads
  <2> QED BY <2>1, <2>2
<1>12. ASSUME u = <<>> PROVE v[Main].nCcalls = 0
  <2>1. k = 0 BY <1>3, <1>12, EmptySeq
  <2>2. Counted(s, 0) = 0 BY <1>1, CountedFacts
  <2>3. CASE L = Main BY <1>4, <2>1, <2>2, <2>3
  <2>4. CASE L # Main
    <3>1. Len(s) = 0
      <4>1. SUFFICES ASSUME Len(s) # 0 PROVE FALSE OBVIOUS
      <4>2. 1 \in 1 .. Len(s) /\ 1 \in k + 1 .. Len(s) BY <1>2, <2>1, <4>1
      <4>3. s[1].L = Main BY <1>1, <4>2 DEF Sits
      <4> QED BY <2>4, <4>2, <4>3
    <3>2. s = <<>> BY <1>1, <3>1, EmptySeq
    <3> QED BY <1>1, <1>4, <2>4, <3>2 DEF Threads
  <2> QED BY <2>3, <2>4
<1> QED BY <1>3, <1>4, <1>7, <1>8, <1>9, <1>10, <1>11, <1>12 DEF Wf, u, v
(* A frame is pushed.                                                      *)
LEMMA Appended ==
  ASSUME NEW s \in Seq(FrameSet), NEW f \in FrameSet
  PROVE  LET u == Append(s, f)
             n == Len(s)
         IN  /\ n \in Nat /\ DOMAIN s = 1 .. n
             /\ u \in Seq(FrameSet) /\ Len(u) = n + 1 /\ DOMAIN u = 1 .. n + 1
             /\ u # <<>>
             /\ u[n + 1] = f
             /\ \A i \in 1 .. n : u[i] = s[i] /\ i \in 1 .. n + 1
             /\ \A i \in 0 .. n : /\ Counted(u, i) = Counted(s, i)
                                  /\ \A M : Depth(u, M, i) = Depth(s, M, i)
                                  /\ \A M : Handled(u, M, i) <=> Handled(s, M, i)
             /\ \A i \in 1 .. n : /\ Sits(u, i) <=> Sits(s, i)
                                  /\ Saved(u, i) <=> Saved(s, i)
                                  /\ \A t : Content(t, u, i) <=> Content(t, s, i)
             /\ Counted(u, n + 1) = Counted(s, n) + Levels(f)
             /\ \A M : Depth(u, M, n + 1) = Depth(s, M, n) + Infos(f, M)
             /\ \A M : Handled(u, M, n + 1) <=>
                   IF f.L = M /\ Installs(u, n + 1)
                   THEN n > 0 /\ s[n].f = "xpcall" ELSE Handled(s, M, n)
<1> DEFINE u == Append(s, f)
           n == Len(s)
<1>1. n \in Nat /\ DOMAIN s = 1 .. n BY LenProperties
<1>2. /\ u \in Seq(FrameSet) /\ Len(u) = n + 1 /\ u[n + 1] = f /\ \A i \in 1 .. n : u[i] = s[i]
  BY <1>1, AppendProperties
<1> HIDE DEF u, n
<1>3. DOMAIN u = 1 .. n + 1 /\ u # <<>> BY <1>1, <1>2, LenProperties, EmptySeq
<1>4. /\ \A i \in 0 .. n : /\ Counted(u, i) = Counted(s, i)
                           /\ \A M : Depth(u, M, i) = Depth(s, M, i)
                           /\ \A M : Handled(u, M, i) <=> Handled(s, M, i)
      /\ \A i \in 1 .. n : /\ Sits(u, i) <=> Sits(s, i)
                           /\ Saved(u, i) <=> Saved(s, i)
                           /\ \A t : Content(t, u, i) <=> Content(t, s, i)
  BY <1>1, <1>2, SamePrefix
<1>5. n \in 0 .. Len(u) - 1 /\ n \in 0 .. n BY <1>1, <1>2
<1>6. Counted(u, n + 1) = Counted(s, n) + Levels(f)
  BY <1>2, <1>4, <1>5, CountedFacts
<1>7. ASSUME NEW M PROVE Depth(u, M, n + 1) = Depth(s, M, n) + Infos(f, M)
  <2>1. Depth(u, M, n + 1) = Depth(u, M, n) + Infos(u[n + 1], M)
    BY <1>2, <1>5, DepthFacts
  <2> QED BY <1>2, <1>4, <1>5, <2>1
<1>8. ASSUME NEW M
      PROVE  Handled(u, M, n + 1) <=>
                   IF f.L = M /\ Installs(u, n + 1)
                   THEN n > 0 /\ s[n].f = "xpcall" ELSE Handled(s, M, n)
  <2>1. n > 0 => u[n] = s[n] BY <1>1, <1>2
  <2>2. Handled(u, M, n + 1) <=>
               IF u[n + 1].L = M /\ Installs(u, n + 1)
               THEN n > 0 /\ u[n].f = "xpcall" ELSE Handled(u, M, n)
    BY <1>2, <1>5, HandledFacts
  <2> QED BY <1>2, <1>4, <1>5, <2>1, <2>2
<1>9. \A i \in 1 .. n : i \in 1 .. n + 1 BY <1>1
<1> QED BY <1>1, <1>2, <1>3, <1>4, <1>6, <1>7, <1>8, <1>9 DEF u, n

(* What the running thread L remembers is what its frames say.             *)
LEMMA RunningExact ==
  ASSUME NEW t, NEW s, Wf(t, s), NEW L \in Threads,
         IF s = <<>> THEN L = Main ELSE s[Len(s)].L = L
  PROVE  /\ t[L].nCcalls = Counted(s, Len(s))
         /\ t[L].errfunc <=> Handled(s, L, Len(s))
         /\ t[L].status = "ok" => Len(t[L].ci) = 1 + Depth(s, L, Len(s))
<1>1. s \in Seq(FrameSet) /\ Exact(t[L], s, L) /\ (s = <<>> => t[Main].nCcalls = 0)
  BY DEF Wf
<1>2. Len(s) \in Nat /\ DOMAIN s = 1 .. Len(s) /\ (s # <<>> => Len(s) \in 1 .. Len(s))
  BY <1>1, LenProperties, EmptySeq
<1>3. Active(s, L) BY <1>2 DEF Active
<1>4. t[L].nCcalls = Counted(s, Len(s))
  <2>1. CASE s = <<>>
    <3>1. Len(s) = 0 BY <2>1, EmptySeq
    <3>2. Counted(s, 0) = 0 BY <1>1, CountedFacts
    <3> QED BY <1>1, <2>1, <3>1, <3>2
  <2>2. CASE s # <<>>
    <3>1. IsLast(s, L, Len(s)) BY <1>2, <2>2 DEF IsLast
    <3> QED BY <1>1, <1>2, <1>3, <2>2, <3>1 DEF Exact
  <2> QED BY <2>1, <2>2
<1> QED BY <1>1, <1>3, <1>4 DEF Exact

(* luaV_execute, luaD_call, luaD_pcall, luaY_parser or a C function is     *)
(* entered by the running thread: its frame is pushed and the thread is    *)
(* left as x, with the level, the CallInfos and the handler that the frame *)
(* stands for.                                                             *)
LEMMA PushWf ==
  ASSUME NEW t, NEW s, Wf(t, s), NEW f \in FrameSet, NEW L \in Threads, NEW x \in ThreadSet,
         IF s = <<>> THEN L = Main ELSE s[Len(s)].L = L,
         f.L = L, f.fn # "resume", Sits(Append(s, f), Len(s) + 1),
         t[L].status = "ok",
         x.nCcalls = t[L].nCcalls + Levels(f), x.baseCcalls = t[L].baseCcalls,
         Len(x.ci) = Len(t[L].ci) + Infos(f, L), Len(x.ci) \in 1 .. x.size_ci,
         \A j \in 1 .. Len(t[L].ci) : x.ci[j] = t[L].ci[j],
         f.fn = "execute" => \A j \in Len(t[L].ci) + 1 .. Len(x.ci) : x.ci[j] = "lua",
         f.fn = "cfunction" => x.ci[Len(x.ci)] = f.f,
         f.fn = "pcall" =>
            /\ f.ci = Len(t[L].ci) /\ f.nCcalls = t[L].nCcalls
            /\ f.nCcalls < LUAI_MAXCCALLS + ErrorCcalls
            /\ f.errfunc <=> t[L].errfunc,
         x.errfunc <=> IF Installs(Append(s, f), Len(s) + 1)
                       THEN Len(s) > 0 /\ s[Len(s)].f = "xpcall" ELSE t[L].errfunc
  PROVE  Wf([t EXCEPT ![L] = x], Append(s, f))
<1> DEFINE u == Append(s, f)
           v == [t EXCEPT ![L] = x]
           n == Len(s)
<1>0. s \in Seq(FrameSet) BY DEF Wf
<1>1. /\ t \in [Threads -> ThreadSet]
      /\ \A i \in 1 .. n : Sits(s, i) /\ Saved(s, i) /\ Content(t, s, i)
      /\ Apart(s)
      /\ \A M \in Threads : Exact(t[M], s, M) /\ Len(t[M].ci) \in 1 .. t[M].size_ci
      /\ \A i \in 1 .. n : s[i].fn = "resume" => t[s[i].L].baseCcalls = Counted(s, i)
      /\ t[Main].baseCcalls = 0
  BY LenProperties DEF Wf
<1>2. \A i \in 1 .. n : s[i] \in FrameSet /\ s[i].L \in Threads BY <1>0, FrameFacts, ElementOfSeq
<1>3. /\ n \in Nat /\ DOMAIN s = 1 .. n
      /\ u \in Seq(FrameSet) /\ Len(u) = n + 1 /\ DOMAIN u = 1 .. n + 1
      /\ u # <<>>
      /\ u[n + 1] = f
      /\ \A i \in 1 .. n : u[i] = s[i] /\ i \in 1 .. n + 1
  BY <1>0, Appended
<1>4. /\ \A i \in 0 .. n : /\ Counted(u, i) = Counted(s, i)
                           /\ \A M : Depth(u, M, i) = Depth(s, M, i)
                           /\ \A M : Handled(u, M, i) <=> Handled(s, M, i)
      /\ \A i \in 1 .. n : /\ Sits(u, i) <=> Sits(s, i)
                           /\ Saved(u, i) <=> Saved(s, i)
                           /\ Content(v, u, i) <=> Content(v, s, i)
  BY <1>0, Appended
<1>5. /\ Counted(u, n + 1) = Counted(s, n) + Levels(f)
      /\ \A M : Depth(u, M, n + 1) = Depth(s, M, n) + Infos(f, M)
      /\ \A M : Handled(u, M, n + 1) <=>
                   IF f.L = M /\ Installs(u, n + 1)
                   THEN n > 0 /\ s[n].f = "xpcall" ELSE Handled(s, M, n)
  BY <1>0, Appended
<1>6. /\ v \in [Threads -> ThreadSet] /\ v[L] = x
      /\ \A M \in Threads : M # L => v[M] = t[M]
  BY <1>1
<1>7. /\ t[L].nCcalls = Counted(s, n)
      /\ t[L].errfunc <=> Handled(s, L, n)
      /\ Len(t[L].ci) = 1 + Depth(s, L, n)
  BY RunningExact
<1>8. \A M \in Threads : /\ \A i \in 0 .. n : Depth(s, M, i) \in Nat
                         /\ \A i \in 0 .. n : Depth(s, M, i) <= Depth(s, M, n)
  <2>1. ASSUME NEW M \in Threads
        PROVE  /\ \A i \in 0 .. n : Depth(s, M, i) \in Nat
               /\ \A i \in 0 .. n : Depth(s, M, i) <= Depth(s, M, n)
    <3>1. n \in 0 .. n BY <1>3
    <3> QED BY <1>0, <3>1, DepthFacts
  <2> QED BY <2>1
<1>9. /\ Levels(f) \in Nat /\ Infos(f, L) \in Nat
      /\ \A M : M # L => Infos(f, M) = 0
      /\ f.fn = "execute" => Infos(f, L) = f.n
      /\ f.fn = "cfunction" => Infos(f, L) = 1
  BY FrameFacts DEF Infos
<1>10. n \in 0 .. n /\ \A i \in 1 .. n : i \in 0 .. n /\ i - 1 \in 0 .. n BY <1>3
<1>11. Installs(u, n + 1) <=> Installs(Append(s, f), Len(s) + 1) OBVIOUS
<1>12. Sits(u, n + 1) OBVIOUS
<1>13. x.errfunc <=> IF Installs(u, n + 1) THEN n > 0 /\ s[n].f = "xpcall" ELSE t[L].errfunc
  OBVIOUS
<1>14. IF n = 0 THEN L = Main ELSE s[n].L = L BY <1>0, EmptySeq
<1> HIDE DEF u, v, n
<1>15. ASSUME NEW i \in 1 .. n PROVE Content(v, s, i)
  <2>1. CASE s[i].L # L
    <3>1. v[s[i].L] = t[s[i].L] BY <1>2, <1>6, <2>1
    <3> QED BY <1>1, <3>1 DEF Content
  <2>2. CASE s[i].L = L
    <3>1. \A j \in 1 .. 1 + Depth(s, L, n) : x.ci[j] = t[L].ci[j] BY <1>7
    <3>2. Content(t, s, i) BY <1>1
    <3>3. /\ \A j \in 2 + Depth(s, L, i - 1) .. 1 + Depth(s, L, i) : x.ci[j] = t[L].ci[j]
          /\ x.ci[1 + Depth(s, L, i)] = t[L].ci[1 + Depth(s, L, i)]
      <4> DEFINE a == Depth(s, L, i - 1)
                 b == Depth(s, L, i)
                 d == Depth(s, L, n)
      <4>1. a \in Nat /\ b \in Nat /\ d \in Nat /\ b <= d BY <1>8, <1>10
      <4> HIDE DEF a, b, d
      <4>2. 1 + b \in 1 .. 1 + d /\ \A j \in 2 + a .. 1 + b : j \in 1 .. 1 + d BY <4>1
      <4> QED BY <3>1, <4>2 DEF a, b, d
    <3> QED BY <1>6, <2>2, <3>2, <3>3, SMTT(30) DEF Content
  <2> QED BY <2>1, <2>2
<1>16. Content(v, u, n + 1)
  <2>1. Depth(u, L, n) = Depth(s, L, n) /\ Depth(u, L, n + 1) = Depth(s, L, n) + Infos(f, L)
    BY <1>4, <1>5, <1>10
  <2>2. (n + 1) - 1 = n BY <1>3
  <2>3. Depth(s, L, n) \in Nat BY <1>8, <1>10
  <2>4. /\ Len(t[L].ci) + 1 = 2 + Depth(u, L, n)
        /\ Len(x.ci) = 1 + Depth(u, L, n + 1)
    BY <1>7, <1>9, <2>1, <2>3
  <2> QED BY <1>3, <1>6, <2>2, <2>4 DEF Content
<1>17. Saved(u, n + 1)
  <2>1. (n + 1) - 1 = n BY <1>3
  <2> QED BY <1>3, <1>4, <1>7, <1>10, <2>1 DEF Saved
<1>18. \A i \in 1 .. n + 1 : Sits(u, i) /\ Saved(u, i) /\ Content(v, u, i)
  <2>1. \A i \in 1 .. n + 1 : i \in 1 .. n \/ i = n + 1 BY <1>3
  <2> QED BY <1>1, <1>4, <1>12, <1>15, <1>16, <1>17, <2>1
<1>19. Apart(u)
  <2>1. SUFFICES ASSUME NEW j \in 1 .. n + 1, u[j].fn = "resume",
                        NEW i \in 1 .. j - 1, NEW m \in j .. n + 1
                 PROVE  u[i].L # u[m].L
    BY <1>3 DEF Apart
  <2>2. j \in 1 .. n /\ i \in 1 .. n /\ s[j].fn = "resume" BY <1>3, <2>1
  <2>3. \A k \in j .. n : s[i].L # s[k].L BY <1>1, <1>3, <2>2 DEF Apart, n
  <2>4. CASE m \in j .. n
    <3>1. m \in 1 .. n BY <2>2, <2>4
    <3> QED BY <1>3, <2>2, <2>3, <2>4, <3>1
  <2>5. CASE m = n + 1
    <3>1. n \in j .. n /\ s[n].L = L BY <1>3, <1>14, <2>2
    <3> QED BY <1>3, <2>2, <2>3, <2>5, <3>1
  <2> QED BY <1>3, <2>4, <2>5
<1>20. ASSUME NEW M \in Threads PROVE Exact(v[M], u, M) /\ Len(v[M].ci) \in 1 .. v[M].size_ci
  <2>1. CASE M = L
    <3>1. Len(x.ci) = 1 + Depth(u, L, n + 1)
      <4>1. Depth(s, L, n) \in Nat BY <1>8, <1>10
      <4> QED BY <1>5, <1>7, <1>9, <4>1
    <3>2. x.errfunc <=> Handled(u, L, n + 1) BY <1>5, <1>7, <1>13
    <3>3. x.nCcalls = Counted(u, n + 1) BY <1>5, <1>7
    <3>4. ASSUME NEW i \in 1 .. n + 1, IsLast(u, L, i) PROVE i = n + 1
      <4>1. i # n + 1 => n + 1 \in i + 1 .. Len(u) BY <1>3
      <4> QED BY <1>3, <3>4, <4>1 DEF IsLast
    <3> QED BY <1>3, <1>6, <2>1, <3>1, <3>2, <3>3, <3>4 DEF Exact
  <2>2. CASE M # L
    <3>1. v[M] = t[M] /\ Exact(t[M], s, M) /\ Len(t[M].ci) \in 1 .. t[M].size_ci
      BY <1>1, <1>6, <2>2
    <3>2. Active(u, M) => Active(s, M)
      <4>1. \A i \in 1 .. n + 1 : i \in 1 .. n \/ i = n + 1 BY <1>3
      <4> QED BY <1>3, <2>2, <4>1 DEF Active
    <3>3. Depth(u, M, n + 1) = Depth(s, M, n)
      <4>1. Depth(s, M, n) \in Nat BY <1>8, <1>10
      <4> QED BY <1>5, <1>9, <2>2, <4>1
    <3>4. Handled(u, M, n + 1) <=> Handled(s, M, n) BY <1>5, <2>2
    <3>5. ASSUME NEW i \in 1 .. n + 1, IsLast(u, M, i)
          PROVE  i \in 1 .. n /\ IsLast(s, M, i) /\ Counted(u, i) = Counted(s, i)
      <4>1. i \in 1 .. n BY <1>3, <2>2, <3>5 DEF IsLast
      <4>2. \A m \in i + 1 .. n : m \in i + 1 .. n + 1 /\ m \in 1 .. n BY <1>3, <4>1
      <4> QED BY <1>3, <1>4, <1>10, <3>5, <4>1, <4>2 DEF IsLast, n
    <3> QED BY <1>3, <3>1, <3>2, <3>3, <3>4, <3>5 DEF Exact, n
  <2> QED BY <2>1, <2>2
<1>21. ASSUME NEW i \in 1 .. n + 1, u[i].fn = "resume"
       PROVE  v[u[i].L].baseCcalls = Counted(u, i)
  <2>1. i \in 1 .. n BY <1>3, <1>21
  <2>2. t[s[i].L].baseCcalls = Counted(s, i) BY <1>1, <1>3, <1>21, <2>1
  <2>3. v[s[i].L].baseCcalls = t[s[i].L].baseCcalls BY <1>2, <1>6, <2>1
  <2> QED BY <1>3, <1>4, <1>10, <2>1, <2>2, <2>3
<1>22. v[Main].baseCcalls = 0
  <2>1. Main \in Threads BY DEF Threads
  <2> QED BY <1>1, <1>6, <2>1
<1> QED BY <1>3, <1>6, <1>18, <1>19, <1>20, <1>21, <1>22 DEF Wf, u, v
(* The frame of lua_resume is pushed: the first of the coroutine.          *)
LEMMA ResumeWf ==
  ASSUME NEW t, NEW s, Wf(t, s), NEW co \in Threads, NEW x \in ThreadSet,
         co # Main, \A i \in DOMAIN s : s[i].L # co,
         s # <<>>, s[Len(s)].fn = "cfunction", s[Len(s)].f \in {"resume", "wrap"},
         x.nCcalls = t[s[Len(s)].L].nCcalls + 1, x.baseCcalls = x.nCcalls,
         ~x.errfunc, Len(x.ci) = 1, Len(x.ci) \in 1 .. x.size_ci
  PROVE  Wf([t EXCEPT ![co] = x], Append(s, Frame("resume", co)))
<1> DEFINE f == Frame("resume", co)
           u == Append(s, f)
           v == [t EXCEPT ![co] = x]
           n == Len(s)
<1>0. s \in Seq(FrameSet) BY DEF Wf
<1>1. /\ t \in [Threads -> ThreadSet]
      /\ \A i \in 1 .. n : Sits(s, i) /\ Saved(s, i) /\ Content(t, s, i)
      /\ Apart(s)
      /\ \A M \in Threads : Exact(t[M], s, M) /\ Len(t[M].ci) \in 1 .. t[M].size_ci
      /\ \A i \in 1 .. n : s[i].fn = "resume" => t[s[i].L].baseCcalls = Counted(s, i)
      /\ t[Main].baseCcalls = 0
  BY LenProperties DEF Wf
<1>2. \A i \in 1 .. n : s[i] \in FrameSet /\ s[i].L \in Threads BY <1>0, FrameFacts, ElementOfSeq
<1>3. f \in FrameSet /\ f.fn = "resume" /\ f.L = co BY DEF Frame, FrameSet
<1> HIDE DEF f
<1>4. /\ n \in Nat /\ DOMAIN s = 1 .. n
      /\ u \in Seq(FrameSet) /\ Len(u) = n + 1 /\ DOMAIN u = 1 .. n + 1
      /\ u # <<>>
      /\ u[n + 1] = f
      /\ \A i \in 1 .. n : u[i] = s[i] /\ i \in 1 .. n + 1
  BY <1>0, <1>3, Appended
<1>5. /\ \A i \in 0 .. n : /\ Counted(u, i) = Counted(s, i)
                           /\ \A M : Depth(u, M, i) = Depth(s, M, i)
                           /\ \A M : Handled(u, M, i) <=> Handled(s, M, i)
      /\ \A i \in 1 .. n : /\ Sits(u, i) <=> Sits(s, i)
                           /\ Saved(u, i) <=> Saved(s, i)
                           /\ Content(v, u, i) <=> Content(v, s, i)
  BY <1>0, <1>3, Appended
<1>6. /\ Counted(u, n + 1) = Counted(s, n) + Levels(f)
      /\ \A M : Depth(u, M, n + 1) = Depth(s, M, n) + Infos(f, M)
      /\ \A M : Handled(u, M, n + 1) <=>
                   IF f.L = M /\ Installs(u, n + 1)
                   THEN n > 0 /\ s[n].f = "xpcall" ELSE Handled(s, M, n)
  BY <1>0, <1>3, Appended
<1>7. ~Installs(u, n + 1) BY <1>3, <1>4 DEF Installs
<1>8. /\ v \in [Threads -> ThreadSet] /\ v[co] = x
      /\ \A M \in Threads : M # co => v[M] = t[M]
  BY <1>1
<1>9. n > 0 /\ n \in 1 .. n /\ n \in 0 .. n /\ \A i \in 1 .. n : i \in 0 .. n
  BY <1>0, <1>4, EmptySeq
<1>10. Levels(f) = 1 /\ \A M : Infos(f, M) = 0 BY <1>3 DEF Levels, Infos
<1>11. x.nCcalls = Counted(u, n + 1)
  <2>1. t[s[n].L].nCcalls = Counted(s, n) BY <1>2, <1>9, RunningExact
  <2> QED BY <1>6, <1>10, <2>1
<1>12. s[n].fn = "cfunction" /\ s[n].f \in {"resume", "wrap"} /\ \A i \in 1 .. n : s[i].L # co
  BY <1>4
<1> HIDE DEF u, v, n
<1>13. Sits(u, n + 1)
  <2>1. (n + 1) - 1 = n /\ n + 1 > 1 /\ u[n] = s[n] BY <1>4, <1>9
  <2> QED BY <1>3, <1>4, <1>12, <2>1 DEF Sits
<1>14. Saved(u, n + 1) /\ Content(v, u, n + 1) BY <1>3, <1>4 DEF Saved, Content
<1>15. \A i \in 1 .. n + 1 : Sits(u, i) /\ Saved(u, i) /\ Content(v, u, i)
  <2>1. \A i \in 1 .. n + 1 : i \in 1 .. n \/ i = n + 1 BY <1>4
  <2>2. ASSUME NEW i \in 1 .. n PROVE Content(v, s, i)
    <3>1. v[s[i].L] = t[s[i].L] BY <1>2, <1>8, <1>12
    <3> QED BY <1>1, <3>1 DEF Content
  <2> QED BY <1>1, <1>5, <1>13, <1>14, <2>1, <2>2
<1>16. Apart(u)
  <2>1. SUFFICES ASSUME NEW j \in 1 .. n + 1, u[j].fn = "resume",
                        NEW i \in 1 .. j - 1, NEW m \in j .. n + 1
                 PROVE  u[i].L # u[m].L
    BY <1>4 DEF Apart
  <2>2. i \in 1 .. n /\ u[i] = s[i] BY <1>4, <2>1
  <2>3. CASE m = n + 1 BY <1>3, <1>4, <1>12, <2>2, <2>3
  <2>4. CASE m # n + 1
    <3>1. m \in 1 .. n /\ j \in 1 .. n /\ m \in j .. n BY <1>4, <2>1, <2>4
    <3>2. s[i].L # s[m].L BY <1>1, <1>4, <2>1, <2>2, <3>1 DEF Apart, n
    <3> QED BY <1>4, <2>2, <3>1, <3>2
  <2> QED BY <2>3, <2>4
<1>17. ASSUME NEW M \in Threads PROVE Exact(v[M], u, M) /\ Len(v[M].ci) \in 1 .. v[M].size_ci
  <2>1. CASE M = co
    <3>1. Depth(u, co, n + 1) = 0
      <4>1. \A i \in 0 + 1 .. n : s[i].L # co BY <1>4, <1>12
      <4>2. 0 \in 0 .. n BY <1>9
      <4>3. Depth(s, co, 0) = Depth(s, co, n)
        BY <1>0, <1>9, <4>1, <4>2, DepthFacts DEF n
      <4>4. Depth(s, co, 0) = 0 BY <1>0, DepthFacts
      <4> QED BY <1>6, <1>10, <4>3, <4>4
    <3>2. ~Handled(u, co, n + 1)
      <4>1. ~Handled(s, co, n) BY <1>9, <1>12 DEF Handled
      <4> QED BY <1>6, <1>7, <4>1
    <3>3. ASSUME NEW i \in 1 .. n + 1, IsLast(u, co, i) PROVE i = n + 1
      <4>1. i # n + 1 => i \in 1 .. n BY <1>4
      <4> QED BY <1>4, <1>12, <3>3, <4>1 DEF IsLast
    <3>4. Len(x.ci) = 1 + Depth(u, co, n + 1) BY <3>1
    <3>5. \A i \in DOMAIN u : IsLast(u, co, i) => x.nCcalls = Counted(u, i)
      BY <1>4, <1>11, <3>3
    <3>6. Exact(x, u, co) BY <1>4, <3>2, <3>4, <3>5 DEF Exact
    <3> QED BY <1>8, <2>1, <3>6
  <2>2. CASE M # co
    <3>1. v[M] = t[M] /\ Exact(t[M], s, M) /\ Len(t[M].ci) \in 1 .. t[M].size_ci
      BY <1>1, <1>8, <2>2
    <3>2. Active(u, M) => Active(s, M)
      <4>1. \A i \in 1 .. n + 1 : i \in 1 .. n \/ i = n + 1 BY <1>4
      <4> QED BY <1>3, <1>4, <2>2, <4>1 DEF Active
    <3>3. Depth(u, M, n + 1) = Depth(s, M, n)
      <4>1. Depth(s, M, n) \in Nat BY <1>0, <1>9, DepthFacts DEF n
      <4> QED BY <1>6, <1>10, <4>1
    <3>4. Handled(u, M, n + 1) <=> Handled(s, M, n) BY <1>6, <1>7
    <3>5. ASSUME NEW i \in 1 .. n + 1, IsLast(u, M, i)
          PROVE  i \in 1 .. n /\ IsLast(s, M, i) /\ Counted(u, i) = Counted(s, i)
      <4>1. i \in 1 .. n BY <1>3, <1>4, <2>2, <3>5 DEF IsLast
      <4>2. \A m \in i + 1 .. n : m \in i + 1 .. n + 1 /\ m \in 1 .. n BY <1>4, <4>1
      <4> QED BY <1>4, <1>5, <1>9, <3>5, <4>1, <4>2 DEF IsLast, n
    <3> QED BY <1>4, <3>1, <3>2, <3>3, <3>4, <3>5 DEF Exact, n
  <2> QED BY <2>1, <2>2
<1>18. ASSUME NEW i \in 1 .. n + 1, u[i].fn = "resume"
       PROVE  v[u[i].L].baseCcalls = Counted(u, i)
  <2>1. CASE i = n + 1 BY <1>3, <1>4, <1>8, <1>11, <2>1
  <2>2. CASE i # n + 1
    <3>1. i \in 1 .. n BY <1>4, <2>2
    <3> QED BY <1>1, <1>2, <1>4, <1>5, <1>8, <1>9, <1>12, <1>18, <3>1
  <2> QED BY <2>1, <2>2
<1>19. v[Main].baseCcalls = 0
  <2>1. Main \in Threads BY DEF Threads
  <2> QED BY <1>1, <1>8, <2>1
<1> QED BY <1>4, <1>8, <1>15, <1>16, <1>17, <1>18, <1>19 DEF Wf, u, v, f

(* A thread changes in nothing that the native stack has to do with.       *)
LEMMA KeepWf ==
  ASSUME NEW t, NEW s, Wf(t, s), NEW L \in Threads, NEW x \in ThreadSet,
         x.ci = t[L].ci, x.status = t[L].status, x.nCcalls = t[L].nCcalls,
         x.baseCcalls = t[L].baseCcalls, x.errfunc = t[L].errfunc,
         Len(x.ci) \in 1 .. x.size_ci
  PROVE  Wf([t EXCEPT ![L] = x], s)
<1> DEFINE v == [t EXCEPT ![L] = x]
<1>0. s \in Seq(FrameSet) BY DEF Wf
<1>1. /\ t \in [Threads -> ThreadSet]
      /\ \A i \in 1 .. Len(s) : Sits(s, i) /\ Saved(s, i) /\ Content(t, s, i)
      /\ Apart(s)
      /\ \A M \in Threads : Exact(t[M], s, M) /\ Len(t[M].ci) \in 1 .. t[M].size_ci
      /\ \A i \in 1 .. Len(s) : s[i].fn = "resume" => t[s[i].L].baseCcalls = Counted(s, i)
      /\ t[Main].baseCcalls = 0
      /\ s = <<>> => t[Main].nCcalls = 0
  BY LenProperties DEF Wf
<1>2. DOMAIN s = 1 .. Len(s) /\ \A i \in 1 .. Len(s) : s[i].L \in Threads
  BY <1>0, FrameFacts, ElementOfSeq, LenProperties
<1>3. /\ v \in [Threads -> ThreadSet]
      /\ \A M \in Threads : /\ v[M].ci = t[M].ci /\ v[M].status = t[M].status
                            /\ v[M].nCcalls = t[M].nCcalls
                            /\ v[M].baseCcalls = t[M].baseCcalls
                            /\ v[M].errfunc = t[M].errfunc
                            /\ Len(v[M].ci) \in 1 .. v[M].size_ci
  BY <1>1
<1> HIDE DEF v
<1>4. \A i \in 1 .. Len(s) : Content(v, s, i) BY <1>1, <1>2, <1>3 DEF Content
<1>5. \A M \in Threads : Exact(v[M], s, M) BY <1>1, <1>3 DEF Exact
<1>6. Main \in Threads BY DEF Threads
<1> QED BY <1>0, <1>1, <1>2, <1>3, <1>4, <1>5, <1>6 DEF Wf, v
-----------------------------------------------------------------------------
(* Pops and replacements of the top frame, from the lemmas above           *)

(* The fields of a lua_State.                                              *)
LEMMA ThreadFacts ==
  ASSUME NEW x \in ThreadSet
  PROVE  /\ x.ci \in Seq(Names) /\ x.size_ci \in Nat /\ x.status \in {"ok", "yield", "err"}
         /\ x.nCcalls \in Nat /\ x.baseCcalls \in Nat /\ x.errfunc \in BOOLEAN
         /\ x.left \in {"body", "nothing", "results"}
         /\ Len(x.ci) \in Nat
  BY LenProperties DEF ThreadSet

(* Plain consequences of well-formedness: types, the host's lua_cpcall at  *)
(* the bottom, and a thread that changes only at a frame of lua_resume.    *)
LEMMA WfFacts ==
  ASSUME NEW t, NEW s, Wf(t, s)
  PROVE  /\ t \in [Threads -> ThreadSet] /\ s \in Seq(FrameSet)
         /\ Len(s) \in Nat /\ DOMAIN s = 1 .. Len(s) /\ (s = <<>> <=> Len(s) = 0)
         /\ \A i \in 1 .. Len(s) : s[i] \in FrameSet /\ s[i].L \in Threads
         /\ s # <<>> => Len(s) \in 1 .. Len(s) /\ s[1].fn = "pcall" /\ s[1].L = Main
         /\ \A L \in Threads : Len(t[L].ci) \in 1 .. t[L].size_ci
         /\ \A i \in 2 .. Len(s) : s[i].fn # "resume" => s[i].L = s[i - 1].L
<1>1. /\ t \in [Threads -> ThreadSet] /\ s \in Seq(FrameSet)
      /\ \A i \in DOMAIN s : Sits(s, i)
      /\ \A L \in Threads : Len(t[L].ci) \in 1 .. t[L].size_ci
  BY DEF Wf
<1>2. Len(s) \in Nat /\ DOMAIN s = 1 .. Len(s) /\ (s = <<>> <=> Len(s) = 0)
  BY <1>1, LenProperties, EmptySeq
<1>3. \A i \in 1 .. Len(s) : s[i] \in FrameSet /\ s[i].L \in Threads
  BY <1>1, ElementOfSeq, FrameFacts
<1>4. s # <<>> => Len(s) \in 1 .. Len(s) /\ s[1].fn = "pcall" /\ s[1].L = Main
  <2>1. s # <<>> => Len(s) \in 1 .. Len(s) /\ 1 \in DOMAIN s BY <1>2
  <2> QED BY <1>1, <2>1 DEF Sits
<1>5. \A i \in 2 .. Len(s) : s[i].fn # "resume" => s[i].L = s[i - 1].L
  <2>1. \A i \in 2 .. Len(s) : i \in DOMAIN s /\ i > 1 /\ i # 1 BY <1>2
  <2> QED BY <1>1, <2>1 DEF Sits
<1> QED BY <1>1, <1>2, <1>3, <1>4, <1>5

(* The CallInfos on top are those of the top frame.                        *)
LEMMA TopContent ==
  ASSUME NEW t, NEW s, Wf(t, s), s # <<>>, t[s[Len(s)].L].status = "ok"
  PROVE  LET n == Len(s)
             f == s[n]
             ci == t[f.L].ci
         IN  /\ Len(ci) = 1 + Depth(s, f.L, n)
             /\ Depth(s, f.L, n - 1) \in Nat
             /\ Depth(s, f.L, n) = Depth(s, f.L, n - 1) + Infos(f, f.L)
             /\ f.fn = "execute" => \A j \in Len(ci) - f.n + 1 .. Len(ci) : ci[j] = "lua"
             /\ f.fn = "cfunction" => ci[Len(ci)] = f.f
<1> DEFINE n == Len(s)
           f == s[n]
           L == f.L
           ci == t[L].ci
<1>1. n \in Nat /\ n > 0 /\ n \in 1 .. n /\ n - 1 \in 0 .. n - 1 /\ n - 1 \in 0 .. n
  BY WfFacts
<1>2. f \in FrameSet /\ L \in Threads /\ s \in Seq(FrameSet) BY <1>1, WfFacts
<1>3. Len(ci) = 1 + Depth(s, L, n) BY <1>2, RunningExact
<1>4. /\ Depth(s, L, n - 1) \in Nat
      /\ Depth(s, L, (n - 1) + 1) = Depth(s, L, n - 1) + Infos(s[(n - 1) + 1], L)
  BY <1>1, <1>2, DepthFacts
<1>5. Content(t, s, n) BY <1>1, WfFacts DEF Wf
<1> HIDE DEF n
<1>6. (n - 1) + 1 = n BY <1>1
<1>7. Depth(s, L, n) = Depth(s, L, n - 1) + Infos(f, L) BY <1>4, <1>6
<1>8. ASSUME f.fn = "execute" PROVE \A j \in Len(ci) - f.n + 1 .. Len(ci) : ci[j] = "lua"
  <2>1. f.n \in Nat /\ Infos(f, L) = f.n BY <1>2, <1>8, FrameFacts DEF Infos
  <2>2. 2 + Depth(s, L, n - 1) = Len(ci) - f.n + 1 BY <1>3, <1>4, <1>7, <2>1
  <2> QED BY <1>3, <1>5, <1>8, <2>2 DEF Content
<1>9. f.fn = "cfunction" => ci[Len(ci)] = f.f BY <1>3, <1>5 DEF Content
<1> QED BY <1>3, <1>4, <1>7, <1>8, <1>9 DEF n

(* A frame that installs no handler leaves it as it was.                   *)
LEMMA HandledBelow ==
  ASSUME NEW s \in Seq(FrameSet), NEW L, NEW n \in 1 .. Len(s), ~Installs(s, n)
  PROVE  Handled(s, L, n) <=> Handled(s, L, n - 1)
<1> DEFINE k == n - 1
<1>1. Len(s) \in Nat BY LenProperties
<1>2. k \in 0 .. Len(s) - 1 /\ k + 1 = n BY <1>1
<1> HIDE DEF k
<1>3. Handled(s, L, k + 1) <=>
        IF s[k + 1].L = L /\ Installs(s, k + 1) THEN k > 0 /\ s[k].f = "xpcall" ELSE Handled(s, L, k)
  BY <1>2, HandledFacts
<1>4. Handled(s, L, n) <=> Handled(s, L, k) BY <1>2, <1>3
<1> QED BY <1>4 DEF k

(* The top frame, not that of lua_resume, returns: the thread gives up the *)
(* level, the CallInfos and the handler it stands for.                     *)
LEMMA PopWf ==
  ASSUME NEW t, NEW s, Wf(t, s), s # <<>>, NEW L \in Threads, NEW x \in ThreadSet,
         s[Len(s)].L = L, s[Len(s)].fn # "resume",
         t[L].status = "ok", x.status = "ok",
         Len(x.ci) = Len(t[L].ci) - Infos(s[Len(s)], L), Len(x.ci) \in 1 .. x.size_ci,
         \A j \in 1 .. Len(x.ci) : x.ci[j] = t[L].ci[j],
         x.nCcalls = t[L].nCcalls - Levels(s[Len(s)]), x.baseCcalls = t[L].baseCcalls,
         x.errfunc <=> IF s[Len(s)].fn = "pcall" THEN s[Len(s)].errfunc ELSE t[L].errfunc
  PROVE  Wf([t EXCEPT ![L] = x], SubSeq(s, 1, Len(s) - 1))
<1> DEFINE n == Len(s)
           k == n - 1
           f == s[n]
<1>1. /\ n \in Nat /\ n > 0 /\ n \in 1 .. n /\ k \in 0 .. n /\ k \in 0 .. n - 1 /\ k + 1 = n
      /\ n \in 0 .. n
      /\ f \in FrameSet /\ s \in Seq(FrameSet)
  BY WfFacts
<1>2. /\ Len(t[L].ci) = 1 + Depth(s, L, n)
      /\ Depth(s, L, k) \in Nat
      /\ Depth(s, L, n) = Depth(s, L, k) + Infos(f, L)
  BY TopContent
<1>3. t[L].nCcalls = Counted(s, n) /\ (t[L].errfunc <=> Handled(s, L, n)) BY RunningExact
<1>4. Saved(s, n) BY <1>1, WfFacts DEF Wf
<1>5. IF k = 0 THEN L = Main ELSE s[k].L = L
  <2>1. CASE k = 0 BY <1>1, <2>1, WfFacts
  <2>2. CASE k # 0
    <3>1. n \in 2 .. n BY <1>1, <2>2
    <3> QED BY <2>2, <3>1, WfFacts
  <2> QED BY <2>1, <2>2
<1>6. \A i \in k + 1 .. n : s[i].L = L BY <1>1
<1> HIDE DEF n, k
<1>7. Infos(f, L) \in Nat /\ Levels(f) \in Nat BY <1>1, FrameFacts
<1>8. Len(x.ci) = 1 + Depth(s, L, k) BY <1>2, <1>7 DEF n
<1>9. x.nCcalls = Counted(s, k)
  <2>1. Counted(s, k) \in Nat /\ Counted(s, k + 1) = Counted(s, k) + Levels(s[k + 1])
    BY <1>1, CountedFacts DEF n
  <2> QED BY <1>1, <1>3, <1>7, <2>1 DEF n
<1>10. x.errfunc <=> Handled(s, L, k)
  <2>1. CASE f.fn = "pcall" BY <1>4, <2>1 DEF Saved, n, k
  <2>2. CASE f.fn # "pcall"
    <3>1. ~Installs(s, n) BY <2>2 DEF Installs
    <3>2. s \in Seq(FrameSet) /\ n \in 1 .. Len(s) /\ n - 1 = k BY <1>1 DEF n, k
    <3>3. Handled(s, L, n) <=> Handled(s, L, k) BY <3>1, <3>2, HandledBelow
    <3> QED BY <1>3, <2>2, <3>3 DEF n
  <2> QED BY <2>1, <2>2
<1>11. \A j \in 1 .. 1 + Depth(s, L, k) : x.ci[j] = t[L].ci[j] BY <1>8
<1>12. k > 0 => s[k].L = L BY <1>5
<1>13. Wf([t EXCEPT ![L] = x], SubSeq(s, 1, k))
  BY <1>1, <1>6, <1>8, <1>9, <1>10, <1>11, <1>12, CutWf DEF n
<1> QED BY <1>13 DEF k, n

(* The frame of lua_resume goes; the coroutine may be anything.            *)
LEMMA PopResumeWf ==
  ASSUME NEW t, NEW s, Wf(t, s), NEW k \in 1 .. Len(s), NEW x \in ThreadSet,
         s[k].fn = "resume", \A i \in k .. Len(s) : s[i].L = s[k].L,
         Len(x.ci) \in 1 .. x.size_ci
  PROVE  /\ Wf([t EXCEPT ![s[k].L] = x], SubSeq(s, 1, k - 1))
         /\ \A i \in 1 .. k - 1 : s[i].L # s[k].L
         /\ s[k].L # Main /\ k > 1
         /\ s[k - 1].fn = "cfunction" /\ s[k - 1].f \in {"resume", "wrap"}
<1>1. /\ Len(s) \in Nat /\ DOMAIN s = 1 .. Len(s) /\ k - 1 \in 0 .. Len(s)
      /\ s[k].L \in Threads /\ k \in DOMAIN s
  BY WfFacts
<1>2. Apart(s) /\ Sits(s, k) BY <1>1 DEF Wf
<1>3. \A i \in 1 .. k - 1 : s[i].L # s[k].L
  <2>1. k \in k .. Len(s) BY <1>1
  <2> QED BY <1>1, <1>2, <2>1 DEF Apart
<1>4. k > 1 BY <1>2 DEF Sits
<1>5. s[k].L # Main /\ s[k - 1].fn = "cfunction" /\ s[k - 1].f \in {"resume", "wrap"}
  BY <1>2, <1>4 DEF Sits
<1>6. \A i \in (k - 1) + 1 .. Len(s) : s[i].L = s[k].L BY <1>1
<1>7. Wf([t EXCEPT ![s[k].L] = x], SubSeq(s, 1, k - 1))
  BY <1>1, <1>3, <1>5, <1>6, CutWf
<1> QED BY <1>3, <1>4, <1>5, <1>7

(* The top frame is replaced by another of its kind.                       *)
LEMMA ReplaceWf ==
  ASSUME NEW t, NEW s, Wf(t, s), s # <<>>, NEW L \in Threads, NEW x \in ThreadSet,
         NEW f \in FrameSet,
         s[Len(s)].L = L, s[Len(s)].fn \in {"execute", "cfunction", "parser"},
         f.fn = s[Len(s)].fn, f.L = L,
         t[L].status = "ok", x.status = "ok",
         Len(x.ci) = Len(t[L].ci) - Infos(s[Len(s)], L) + Infos(f, L),
         Len(x.ci) \in 1 .. x.size_ci,
         \A j \in 1 .. Len(t[L].ci) - Infos(s[Len(s)], L) : x.ci[j] = t[L].ci[j],
         f.fn = "execute" => \A j \in Len(t[L].ci) - Infos(s[Len(s)], L) + 1 .. Len(x.ci) :
                                x.ci[j] = "lua",
         f.fn = "cfunction" => x.ci[Len(x.ci)] = f.f,
         x.nCcalls = t[L].nCcalls - Levels(s[Len(s)]) + Levels(f),
         x.baseCcalls = t[L].baseCcalls,
         x.errfunc = t[L].errfunc
  PROVE  Wf([t EXCEPT ![L] = x], Append(SubSeq(s, 1, Len(s) - 1), f))
<1> DEFINE n == Len(s)
           d == Len(t[L].ci) - Infos(s[n], L)
           x0 == [t[L] EXCEPT !.ci = SubSeq(@, 1, d), !.nCcalls = @ - Levels(s[n])]
           t0 == [t EXCEPT ![L] = x0]
           u0 == SubSeq(s, 1, n - 1)
<1>1. /\ n \in Nat /\ n > 0 /\ n \in 1 .. n /\ s \in Seq(FrameSet)
      /\ s[n] \in FrameSet /\ t \in [Threads -> ThreadSet] /\ t[L] \in ThreadSet
      /\ \A i \in 1 .. n : s[i] \in FrameSet
      /\ Len(t[L].ci) \in 1 .. t[L].size_ci
      /\ DOMAIN s = 1 .. n
  BY WfFacts
<1>2. n > 1 /\ s[n - 1].L = L
  <2>1. n # 1 BY WfFacts
  <2>2. n \in 2 .. n BY <1>1, <2>1
  <2> QED BY <2>2, WfFacts
<1>3. Infos(s[n], L) \in Nat /\ Levels(s[n]) \in Nat /\ Infos(f, L) \in Nat /\ Levels(f) \in Nat
  BY <1>1, FrameFacts
<1>4. /\ Len(t[L].ci) = 1 + Depth(s, L, n)
      /\ Depth(s, L, n - 1) \in Nat
      /\ Depth(s, L, n) = Depth(s, L, n - 1) + Infos(s[n], L)
  BY TopContent
<1>5. d \in 1 .. Len(t[L].ci) /\ d \in Nat BY <1>3, <1>4, SMTT(30)
<1>6. t[L].nCcalls - Levels(s[n]) \in Nat
  <2>1. t[L].nCcalls = Counted(s, n) BY RunningExact
  <2>2. n - 1 \in 0 .. n - 1 /\ n - 1 \in 0 .. n /\ (n - 1) + 1 = n BY <1>1
  <2>3. /\ Counted(s, n - 1) \in Nat
        /\ Counted(s, (n - 1) + 1) = Counted(s, n - 1) + Levels(s[(n - 1) + 1])
    BY <1>1, <2>2, CountedFacts
  <2> QED BY <1>3, <2>1, <2>2, <2>3
<1>7. /\ t[L].ci \in Seq(Names) /\ t[L].size_ci \in Nat /\ t[L].nCcalls \in Nat
  BY <1>1, ThreadFacts
<1> HIDE DEF d, n
<1>8. /\ SubSeq(t[L].ci, 1, d) \in Seq(Names) /\ Len(SubSeq(t[L].ci, 1, d)) = d
      /\ \A j \in 1 .. d : SubSeq(t[L].ci, 1, d)[j] = t[L].ci[j]
  <2>1. \A j \in 1 .. d : t[L].ci[j] \in Names
    <3>1. \A j \in 1 .. d : j \in 1 .. Len(t[L].ci) BY <1>5
    <3> QED BY <1>7, <3>1, ElementOfSeq
  <2> QED BY <1>5, <2>1, SubSeqProperties
<1>9. /\ x0 \in ThreadSet /\ x0.ci = SubSeq(t[L].ci, 1, d) /\ x0.status = "ok"
      /\ x0.nCcalls = t[L].nCcalls - Levels(s[n]) /\ x0.baseCcalls = t[L].baseCcalls
      /\ x0.errfunc = t[L].errfunc /\ x0.size_ci = t[L].size_ci
  BY <1>1, <1>6, <1>8 DEF ThreadSet
<1> HIDE DEF x0
<1>10. Len(x0.ci) \in 1 .. x0.size_ci BY <1>1, <1>5, <1>7, <1>8, <1>9
<1>11. Wf(t0, u0)
  <2>1. \A j \in 1 .. Len(x0.ci) : x0.ci[j] = t[L].ci[j] BY <1>8, <1>9
  <2>2. Len(x0.ci) = Len(t[L].ci) - Infos(s[Len(s)], L) BY <1>8, <1>9 DEF d, n
  <2>3. /\ x0.nCcalls = t[L].nCcalls - Levels(s[Len(s)])
        /\ x0.errfunc <=> IF s[Len(s)].fn = "pcall" THEN s[Len(s)].errfunc ELSE t[L].errfunc
        /\ s[Len(s)].fn # "resume"
    BY <1>9 DEF n
  <2>4. Wf([t EXCEPT ![L] = x0], SubSeq(s, 1, Len(s) - 1))
    BY <1>9, <1>10, <2>1, <2>2, <2>3, PopWf
  <2> QED BY <2>4 DEF n
<1>12. /\ u0 \in Seq(FrameSet) /\ Len(u0) = n - 1 /\ \A i \in 1 .. n - 1 : u0[i] = s[i]
  <2>1. \A i \in 1 .. n - 1 : s[i] \in FrameSet BY <1>1
  <2> QED BY <1>1, <1>2, <2>1, SubSeqProperties
<1>13. t0[L] = x0 BY <1>1
<1> HIDE DEF u0
<1>14. u0 # <<>> /\ u0[Len(u0)].L = L
  BY <1>1, <1>2, <1>12, EmptySeq
<1>15. /\ Append(u0, f)[Len(u0) + 1] = f
       /\ Append(u0, f)[Len(u0)] = s[n - 1]
       /\ Len(u0) + 1 = n
  BY <1>1, <1>2, <1>12, AppendProperties
<1>16. Sits(Append(u0, f), Len(u0) + 1)
  <2>1. Sits(s, n) BY <1>1 DEF Wf
  <2>2. s[n].fn \in {"execute", "cfunction", "parser"} /\ f.fn = s[n].fn /\ f.L = s[n].L BY DEF n
  <2>3. Append(u0, f)[(Len(u0) + 1) - 1] = s[n - 1] BY <1>1, <1>12, <1>15
  <2> QED BY <1>2, <1>15, <2>1, <2>2, <2>3 DEF Sits
<1>17. ~Installs(Append(u0, f), Len(u0) + 1) BY <1>15 DEF Installs
<1>18. /\ x.nCcalls = t0[L].nCcalls + Levels(f) /\ x.baseCcalls = t0[L].baseCcalls
       /\ Len(x.ci) = Len(t0[L].ci) + Infos(f, L)
       /\ \A j \in 1 .. Len(t0[L].ci) : x.ci[j] = t0[L].ci[j]
       /\ f.fn = "execute" => \A j \in Len(t0[L].ci) + 1 .. Len(x.ci) : x.ci[j] = "lua"
       /\ t0[L].status = "ok"
       /\ x.errfunc <=> t0[L].errfunc
  BY <1>8, <1>9, <1>13 DEF d, n
<1> HIDE DEF t0
<1>19. f.fn # "pcall" /\ f.fn # "resume" OBVIOUS
<1>20. Wf([t0 EXCEPT ![L] = x], Append(u0, f))
  BY <1>11, <1>14, <1>16, <1>17, <1>18, <1>19, PushWf
<1>21. [t0 EXCEPT ![L] = x] = [t EXCEPT ![L] = x] BY <1>1 DEF t0
<1> QED BY <1>20, <1>21 DEF u0, n

-----------------------------------------------------------------------------
(* The actions                                                             *)


(* The top frame fits the mode.                                            *)
TopFits(s, m) ==
    /\ m \in {"run", "return", "error", "errrun", "errerr"}
    /\ s = <<>> => m = "return"
    /\ m = "run" => s[Len(s)].fn \in {"execute", "cfunction", "parser"}
    /\ m = "error" => s[Len(s)].fn # "pcall"

(* The limit of nCcalls, reached only by an error in error handling        *)
Bounded(n, L, s, m) ==
    \/ n < LUAI_MAXCCALLS + ErrorCcalls
    \/ /\ n = LUAI_MAXCCALLS + ErrorCcalls
       /\ m \in {"errrun", "errerr"} /\ s[Len(s)].L = L

(* A thread that has yielded, one that has died, and one that is idle      *)
Status(x, L, s, m) ==
    /\ x.status = "yield" =>
          /\ L # Main /\ Len(x.ci) >= 3
          /\ \A i \in 2 .. Len(x.ci) - 1 : x.ci[i] = "lua"
          /\ x.ci[Len(x.ci)] = "yield"
          /\ \A i \in DOMAIN s : s[i].L = L =>
                i = Len(s) /\ s[i].fn = "resume" /\ m = "return"
    /\ x.status = "err" => L # Main /\ ~Has(s, L)
    /\ L # Main /\ ~Has(s, L) => /\ x.status # "err" => ~x.errfunc
                                 /\ x.status = "ok" => Len(x.ci) = 1

(* The coroutines whose body is over, when none returns too many results   *)
Over(x, L, s, ov) ==
    /\ Has(s, L) => L \notin ov /\ x.left = "nothing"
    /\ ~Has(s, L) => (L \in ov <=> x.status = "err" \/ (x.status = "ok" /\ x.left = "nothing"))

(* The invariant, of any state; and of the present one                     *)
Inv(t, s, m, ov) ==
    /\ Wf(t, s)
    /\ TopFits(s, m)
    /\ \A L \in Threads : Has(s, L) => Bounded(t[L].nCcalls, L, s, m)
    /\ \A L \in Threads : Status(t[L], L, s, m)
    /\ \A co \in Coroutines : t[co].status = "err" => co \in ov
    /\ ~ManyResults => \A co \in Coroutines : Over(t[co], co, s, ov)

IInv == Inv(th, cs, mode, over) /\ program \in Programs

-----------------------------------------------------------------------------
(* One thread changes, with the frames it has                              *)

(* The threads but L are on the native stack or off it as before.          *)
SameOthers(s, u, L) == \A M \in Threads : M # L => (Has(s, M) <=> Has(u, M))

(* A step that changes one thread and only frames of that thread keeps the *)
(* invariant when it does so for that thread.                              *)
LEMMA StepInv ==
  ASSUME NEW t, NEW s, NEW m, NEW ov, Inv(t, s, m, ov),
         NEW L \in Threads, NEW y \in ThreadSet, NEW u, NEW m2, NEW ov2,
         m = "run" \/ s = <<>> \/ s[Len(s)].L = L,
         Wf([t EXCEPT ![L] = y], u), SameOthers(s, u, L),
         TopFits(u, m2), Has(u, L) => Bounded(y.nCcalls, L, u, m2),
         Status(y, L, u, m2), y.status = "err" => L \in ov2,
         \A M \in Threads : M # L => (M \in ov <=> M \in ov2),
         ~ManyResults /\ L # Main => Over(y, L, u, ov2)
  PROVE  Inv([t EXCEPT ![L] = y], u, m2, ov2)
<1> DEFINE v == [t EXCEPT ![L] = y]
<1>1. /\ Wf(t, s) /\ TopFits(s, m)
      /\ \A M \in Threads : Has(s, M) => Bounded(t[M].nCcalls, M, s, m)
      /\ \A M \in Threads : Status(t[M], M, s, m)
      /\ ~ManyResults => \A co \in Coroutines : Over(t[co], co, s, ov)
  BY DEF Inv
<1>2. v[L] = y /\ \A M \in Threads : M # L => v[M] = t[M] BY <1>1, WfFacts
<1>3. DOMAIN s = 1 .. Len(s) /\ Len(s) \in Nat /\ (s = <<>> <=> Len(s) = 0) BY <1>1, WfFacts
<1> HIDE DEF v
<1>4. ASSUME NEW M \in Threads, M # L, Has(s, M) PROVE s # <<>> /\ (s[Len(s)].L = M => m = "run")
  BY <1>3, <1>4 DEF Has
<1>5. ASSUME NEW M \in Threads, Has(u, M) PROVE Bounded(v[M].nCcalls, M, u, m2)
  <2>1. CASE M = L BY <1>2, <1>5, <2>1
  <2>2. CASE M # L
    <3>1. Has(s, M) BY <1>5, <2>2 DEF SameOthers
    <3>2. Bounded(t[M].nCcalls, M, s, m) BY <1>1, <3>1
    <3>3. t[M].nCcalls < LUAI_MAXCCALLS + ErrorCcalls
      <4>1. s[Len(s)].L = M => m = "run" BY <1>4, <2>2, <3>1
      <4> QED BY <3>2, <4>1 DEF Bounded
    <3> QED BY <1>2, <2>2, <3>3 DEF Bounded
  <2> QED BY <2>1, <2>2
<1>6. ASSUME NEW M \in Threads PROVE Status(v[M], M, u, m2)
  <2>1. CASE M = L BY <1>2, <2>1
  <2>2. CASE M # L
    <3>1. Status(t[M], M, s, m) /\ v[M] = t[M] /\ (Has(s, M) <=> Has(u, M))
      BY <1>1, <1>2, <2>2 DEF SameOthers
    <3>2. t[M].status = "yield" => ~Has(s, M)
      <4>1. SUFFICES ASSUME t[M].status = "yield", Has(s, M) PROVE FALSE OBVIOUS
      <4>2. PICK i \in DOMAIN s : s[i].L = M BY <4>1 DEF Has
      <4>3. i = Len(s) /\ m = "return" BY <3>1, <4>1, <4>2 DEF Status
      <4> QED BY <1>4, <2>2, <4>1, <4>2, <4>3
    <3>3. \A i \in DOMAIN u : u[i].L = M => Has(u, M) BY DEF Has
    <3> QED BY <3>1, <3>2, <3>3 DEF Status
  <2> QED BY <2>1, <2>2
<1>7. ASSUME ~ManyResults, NEW co \in Coroutines PROVE Over(v[co], co, u, ov2)
  <2>1. co \in Threads /\ co # Main BY LimitsAssumption DEF Threads
  <2>2. CASE co = L BY <1>2, <1>7, <2>1, <2>2
  <2>3. CASE co # L
    <3>1. Over(t[co], co, s, ov) /\ v[co] = t[co] /\ (Has(s, co) <=> Has(u, co))
          /\ (co \in ov <=> co \in ov2)
      BY <1>1, <1>2, <1>7, <2>1, <2>3 DEF SameOthers
    <3> QED BY <3>1 DEF Over
  <2> QED BY <2>2, <2>3
<1>8. ASSUME NEW co \in Coroutines, v[co].status = "err" PROVE co \in ov2
  <2>1. co \in Threads BY DEF Threads
  <2>2. CASE co = L BY <1>2, <1>8, <2>2
  <2>3. CASE co # L
    <3>1. t[co].status = "err" => co \in ov BY DEF Inv
    <3> QED BY <1>2, <1>8, <2>1, <2>3, <3>1
  <2> QED BY <2>2, <2>3
<1> QED BY <1>5, <1>6, <1>7, <1>8 DEF Inv, v

(* Pushing a frame of f.L leaves the other threads on or off the native    *)
(* stack.                                                                  *)
LEMMA SamePush ==
  ASSUME NEW s \in Seq(FrameSet), NEW f \in FrameSet
  PROVE  SameOthers(s, Append(s, f), f.L) /\ Has(Append(s, f), f.L)
<1> DEFINE u == Append(s, f)
           n == Len(s)
<1>1. /\ n \in Nat /\ DOMAIN s = 1 .. n /\ DOMAIN u = 1 .. n + 1 /\ u[n + 1] = f
      /\ \A i \in 1 .. n : u[i] = s[i] /\ i \in 1 .. n + 1
  BY Appended
<1> HIDE DEF u, n
<1>2. n + 1 \in 1 .. n + 1 /\ \A i \in 1 .. n + 1 : i \in 1 .. n \/ i = n + 1 BY <1>1
<1> QED BY <1>1, <1>2 DEF SameOthers, Has, u

(* So does cutting off frames of one thread.                               *)
LEMMA SameCut ==
  ASSUME NEW s \in Seq(FrameSet), NEW k \in 0 .. Len(s), NEW L,
         \A i \in k + 1 .. Len(s) : s[i].L = L
  PROVE  LET u == SubSeq(s, 1, k)
         IN  /\ SameOthers(s, u, L)
             /\ u \in Seq(FrameSet) /\ Len(u) = k /\ DOMAIN u = 1 .. k
             /\ \A i \in 1 .. k : u[i] = s[i]
             /\ u = <<>> <=> k = 0
<1> DEFINE u == SubSeq(s, 1, k)
<1>1. Len(s) \in Nat /\ DOMAIN s = 1 .. Len(s) BY LenProperties
<1>2. \A i \in 1 .. k : i \in 1 .. Len(s) /\ s[i] \in FrameSet BY <1>1, ElementOfSeq
<1>3. u \in Seq(FrameSet) /\ Len(u) = k /\ \A i \in 1 .. k : u[i] = s[i]
  BY <1>1, <1>2, SubSeqProperties
<1> HIDE DEF u
<1>4. DOMAIN u = 1 .. k /\ (u = <<>> <=> k = 0) BY <1>1, <1>3, LenProperties, EmptySeq
<1>5. \A i \in 1 .. Len(s) : i \in 1 .. k \/ i \in k + 1 .. Len(s) BY <1>1
<1>6. SameOthers(s, u, L) BY <1>1, <1>2, <1>3, <1>4, <1>5 DEF SameOthers, Has
<1> QED BY <1>3, <1>4, <1>6 DEF u

(* And doing one after the other.                                          *)
LEMMA SameTrans ==
  ASSUME NEW s, NEW u, NEW w, NEW L, SameOthers(s, u, L), SameOthers(u, w, L)
  PROVE  SameOthers(s, w, L)
  BY DEF SameOthers

(* What the running thread is, in a state of the program.                  *)
LEMMA RunningFacts ==
  ASSUME IInv, cs # <<>>
  PROVE  /\ Wf(th, cs) /\ th \in [Threads -> ThreadSet] /\ cs \in Seq(FrameSet)
         /\ Len(cs) \in Nat /\ Len(cs) > 0 /\ Len(cs) \in DOMAIN cs /\ DOMAIN cs = 1 .. Len(cs)
         /\ Len(cs) - 1 \in 0 .. Len(cs)
         /\ \A i \in Len(cs) - 1 + 1 .. Len(cs) : cs[i].L = Running
         /\ Running \in Threads /\ th[Running] \in ThreadSet
         /\ Len(th[Running].ci) \in 1 .. th[Running].size_ci
         /\ Top = cs[Len(cs)] /\ Top \in FrameSet /\ Running = cs[Len(cs)].L
         /\ Below = SubSeq(cs, 1, Len(cs) - 1)
         /\ Has(cs, Running)
         /\ ~Returns("resume") => th[Running].status = "ok"
         /\ mode \notin {"errrun", "errerr"} =>
                th[Running].nCcalls < LUAI_MAXCCALLS + ErrorCcalls
<1>1. Wf(th, cs) BY DEF IInv, Inv
<1>2. /\ th \in [Threads -> ThreadSet] /\ cs \in Seq(FrameSet)
      /\ Len(cs) \in Nat /\ Len(cs) > 0 /\ Len(cs) \in DOMAIN cs /\ DOMAIN cs = 1 .. Len(cs)
      /\ Len(cs) - 1 \in 0 .. Len(cs)
      /\ cs[Len(cs)] \in FrameSet /\ cs[Len(cs)].L \in Threads
      /\ \A L \in Threads : Len(th[L].ci) \in 1 .. th[L].size_ci
  BY <1>1, WfFacts
<1>3. Top = cs[Len(cs)] /\ Running = cs[Len(cs)].L /\ Below = SubSeq(cs, 1, Len(cs) - 1)
  BY DEF Top, Running, Below, Last, Front
<1>4. Has(cs, Running) BY <1>2, <1>3 DEF Has
<1>5. ~Returns("resume") => th[Running].status = "ok"
  <2>1. Status(th[Running], Running, cs, mode) BY <1>2, <1>3 DEF IInv, Inv
  <2>2. th[Running].status \in {"ok", "yield", "err"} BY <1>2, <1>3, ThreadFacts
  <2> QED BY <1>2, <1>3, <1>4, <2>1, <2>2 DEF Status, Returns, On
<1>6. mode \notin {"errrun", "errerr"} => th[Running].nCcalls < LUAI_MAXCCALLS + ErrorCcalls
  <2>1. Bounded(th[Running].nCcalls, Running, cs, mode) BY <1>2, <1>3, <1>4 DEF IInv, Inv
  <2> QED BY <2>1 DEF Bounded
<1>7. \A i \in Len(cs) - 1 + 1 .. Len(cs) : cs[i].L = Running BY <1>2, <1>3
<1> QED BY <1>1, <1>2, <1>3, <1>4, <1>5, <1>6, <1>7

(* A step of the running thread, or of the main one when none is running.  *)
LEMMA Ordinary ==
  ASSUME IInv, NEW L \in Threads, IF cs = <<>> THEN L = Main ELSE L = Running,
         NEW y \in ThreadSet, y.status = "ok", y.left = th[L].left,
         NEW u, Wf([th EXCEPT ![L] = y], u), SameOthers(cs, u, L),
         L = Main \/ Has(u, L), NEW m, TopFits(u, m),
         Has(u, L) => Bounded(y.nCcalls, L, u, m)
  PROVE  Inv([th EXCEPT ![L] = y], u, m, over)
<1>1. mode = "run" \/ cs = <<>> \/ cs[Len(cs)].L = L BY DEF Running, Top, Last
<1>2. Status(y, L, u, m) BY DEF Status
<1>3. ~ManyResults /\ L # Main => Over(y, L, u, over)
  <2>1. SUFFICES ASSUME ~ManyResults, L # Main PROVE Over(y, L, u, over) OBVIOUS
  <2>2. L \in Coroutines /\ Has(cs, L) BY <2>1, RunningFacts DEF Threads
  <2>3. Over(th[L], L, cs, over) BY <2>1, <2>2 DEF IInv, Inv
  <2> QED BY <2>1, <2>2, <2>3 DEF Over
<1>4. Inv(th, cs, mode, over) BY DEF IInv
<1> QED BY <1>1, <1>2, <1>3, <1>4, StepInv
-----------------------------------------------------------------------------
(* luaD_precall and luaD_call                                              *)

(* The frames that the actions build.                                      *)
LEMMA Constructors ==
  ASSUME NEW L \in Threads
  PROVE  /\ \A n \in Nat \ {0} : LET f == Execute(L, n)
                                 IN  /\ f \in FrameSet /\ f.fn = "execute" /\ f.L = L /\ f.n = n
                                     /\ Levels(f) = 0 /\ Infos(f, L) = n
         /\ \A g \in Names, at \in {"start", "after", "failed"} :
               LET f == CFunction(L, g, at)
               IN  /\ f \in FrameSet /\ f.fn = "cfunction" /\ f.L = L /\ f.f = g /\ f.at = at
                   /\ Levels(f) = 0 /\ Infos(f, L) = 1
         /\ \A n \in Nat : LET f == Parser(L, n)
                           IN  /\ f \in FrameSet /\ f.fn = "parser" /\ f.L = L /\ f.level = n
                               /\ Levels(f) = n /\ Infos(f, L) = 0
         /\ \A fn \in {"call", "handler"} :
               LET f == Frame(fn, L)
               IN  /\ f \in FrameSet /\ f.fn = fn /\ f.L = L
                   /\ Levels(f) = (IF fn = "call" THEN 1 ELSE 0) /\ Infos(f, L) = 0
<1>1. ASSUME NEW n \in Nat \ {0}
      PROVE  LET f == Execute(L, n)
             IN  /\ f \in FrameSet /\ f.fn = "execute" /\ f.L = L /\ f.n = n
                 /\ Levels(f) = 0 /\ Infos(f, L) = n
  BY DEF Execute, FrameSet, Levels, Infos
<1>2. ASSUME NEW g \in Names, NEW at \in {"start", "after", "failed"}
      PROVE  LET f == CFunction(L, g, at)
             IN  /\ f \in FrameSet /\ f.fn = "cfunction" /\ f.L = L /\ f.f = g /\ f.at = at
                 /\ Levels(f) = 0 /\ Infos(f, L) = 1
  BY DEF CFunction, FrameSet, Levels, Infos
<1>3. ASSUME NEW n \in Nat
      PROVE  LET f == Parser(L, n)
             IN  /\ f \in FrameSet /\ f.fn = "parser" /\ f.L = L /\ f.level = n
                 /\ Levels(f) = n /\ Infos(f, L) = 0
  BY DEF Parser, FrameSet, Levels, Infos
<1>4. ASSUME NEW fn \in {"call", "handler"}
      PROVE  LET f == Frame(fn, L)
             IN  /\ f \in FrameSet /\ f.fn = fn /\ f.L = L
                 /\ Levels(f) = (IF fn = "call" THEN 1 ELSE 0) /\ Infos(f, L) = 0
  BY DEF Frame, FrameSet, Levels, Infos
<1> QED BY <1>1, <1>2, <1>3, <1>4

(* inc_ci and growCI: the list of CallInfos never shrinks, and has room    *)
(* for one more when the call goes on.                                     *)
LEMMA IncCiFacts ==
  ASSUME NEW x \in ThreadSet, Len(x.ci) \in 1 .. x.size_ci
  PROVE  LET g == IncCi(x)
         IN  /\ g.m \in {"run", "error", "errerr"}
             /\ g.size \in Nat /\ g.size >= x.size_ci
             /\ g.m = "run" => Len(x.ci) + 1 <= g.size
<1>1. x.size_ci \in Nat /\ Len(x.ci) \in Nat BY ThreadFacts
<1>2. LUAI_MAXCALLS \in Nat BY LimitsAssumption
<1>3. CASE Len(x.ci) < x.size_ci BY <1>1, <1>3 DEF IncCi
<1>4. CASE ~(Len(x.ci) < x.size_ci) /\ x.size_ci > LUAI_MAXCALLS BY <1>1, <1>4 DEF IncCi
<1>5. CASE /\ ~(Len(x.ci) < x.size_ci) /\ ~(x.size_ci > LUAI_MAXCALLS)
           /\ 2 * x.size_ci > LUAI_MAXCALLS
  BY <1>1, <1>5 DEF IncCi
<1>6. CASE /\ ~(Len(x.ci) < x.size_ci) /\ ~(x.size_ci > LUAI_MAXCALLS)
           /\ ~(2 * x.size_ci > LUAI_MAXCALLS)
  BY <1>1, <1>6 DEF IncCi
<1> QED BY <1>3, <1>4, <1>5, <1>6

(* The running thread L has become x, on the stack s, when the function f  *)
(* is called: either it is entered or an error is raised.                  *)
Ran(L, x, s) == \E y \in ThreadSet :
    /\ th' = [th EXCEPT ![L] = y]
    /\ y.status = "ok" /\ y.left = x.left
    /\ Wf([th EXCEPT ![L] = y], cs')
    /\ SameOthers(s, cs', L) /\ Has(cs', L) /\ cs'[Len(cs')].L = L
    /\ TopFits(cs', mode') /\ Bounded(y.nCcalls, L, cs', mode')

(* luaD_precall from a well-formed stack: the callee is entered, or the    *)
(* list of CallInfos is full and an error is raised.                       *)
LEMMA PrecallStep ==
  ASSUME th \in [Threads -> ThreadSet], NEW L \in Threads, NEW x \in ThreadSet,
         x.status = "ok", NEW s, Wf([th EXCEPT ![L] = x], s), s # <<>>, s[Len(s)].L = L,
         NEW f \in Names \ {"base"},
         s[Len(s)].fn \in {"execute", "call"} \/ (s[Len(s)].fn = "resume" /\ f = "lua"),
         x.nCcalls < LUAI_MAXCCALLS + ErrorCcalls,
         luaD_precall(L, x, f, s)
  PROVE  Ran(L, x, s)
<1> DEFINE t == [th EXCEPT ![L] = x]
           g == IncCi(x)
           n == Len(s)
<1>1. /\ t \in [Threads -> ThreadSet] /\ t[L] = x
      /\ \A y : [t EXCEPT ![L] = y] = [th EXCEPT ![L] = y]
  OBVIOUS
<1>2. /\ s \in Seq(FrameSet) /\ n \in Nat /\ n > 0 /\ n \in 1 .. n /\ DOMAIN s = 1 .. n
      /\ s[n] \in FrameSet
      /\ s[1].fn = "pcall" /\ \A i \in n - 1 + 1 .. n : s[i].L = L
  BY WfFacts
<1>20. Len(x.ci) \in 1 .. x.size_ci
  <2>1. Len(t[L].ci) \in 1 .. t[L].size_ci BY WfFacts
  <2> QED BY <1>1, <2>1
<1>3. /\ x.ci \in Seq(Names) /\ Len(x.ci) \in Nat /\ x.size_ci \in Nat /\ x.errfunc \in BOOLEAN
      /\ x.nCcalls \in Nat
  BY ThreadFacts
<1>4. /\ g.m \in {"run", "error", "errerr"}
      /\ g.size \in Nat /\ g.size >= x.size_ci
      /\ g.m = "run" => Len(x.ci) + 1 <= g.size
  BY <1>20, IncCiFacts
<1>5. Wf(t, s) OBVIOUS
<1>6. n > 1
  <2>1. s[n].fn # "pcall" OBVIOUS
  <2>2. n # 1 BY <1>2, <2>1
  <2>3. n \in Nat /\ n > 0 BY <1>2
  <2> HIDE DEF n
  <2> QED BY <2>2, <2>3
<1> HIDE DEF t, g
<1>7. CASE g.m # "run"
  <2> DEFINE y == [x EXCEPT !.size_ci = g.size]
  <2>1. /\ th' = [th EXCEPT ![L] = y] /\ cs' = s /\ mode' = g.m
    BY <1>7 DEF luaD_precall, Step, g
  <2>2. /\ y \in ThreadSet /\ y.status = x.status /\ y.left = x.left /\ y.ci = x.ci
        /\ y.nCcalls = x.nCcalls /\ y.baseCcalls = x.baseCcalls /\ y.errfunc = x.errfunc
        /\ y.size_ci = g.size
    BY <1>4 DEF ThreadSet
  <2> HIDE DEF y
  <2>3. Len(y.ci) \in 1 .. y.size_ci BY <1>20, <1>3, <1>4, <2>2
  <2>4. Wf([t EXCEPT ![L] = y], s) BY <1>1, <1>5, <2>2, <2>3, KeepWf
  <2>5. SameOthers(s, s, L) BY DEF SameOthers
  <2>6. Has(s, L) BY <1>2 DEF Has
  <2>7. TopFits(s, g.m) BY <1>4, <1>7 DEF TopFits
  <2>8. Bounded(y.nCcalls, L, s, g.m) BY <2>2 DEF Bounded
  <2> QED BY <1>1, <2>1, <2>2, <2>4, <2>5, <2>6, <2>7, <2>8 DEF Ran
<1>8. CASE g.m = "run"
  <2> DEFINE y == [x EXCEPT !.ci = Append(@, f), !.size_ci = g.size]
  <2>1. /\ th' = [th EXCEPT ![L] = y] /\ cs' = Entered(L, f, s) /\ mode' = "run"
    BY <1>8 DEF luaD_precall, Step, g
  <2>2. /\ Append(x.ci, f) \in Seq(Names) /\ Len(Append(x.ci, f)) = Len(x.ci) + 1
        /\ \A j \in 1 .. Len(x.ci) : Append(x.ci, f)[j] = x.ci[j]
        /\ Append(x.ci, f)[Len(x.ci) + 1] = f
    BY <1>3, AppendProperties
  <2>3. /\ y \in ThreadSet /\ y.status = "ok" /\ y.left = x.left /\ y.ci = Append(x.ci, f)
        /\ y.nCcalls = x.nCcalls /\ y.baseCcalls = x.baseCcalls /\ y.errfunc = x.errfunc
        /\ y.size_ci = g.size
    BY <1>4, <2>2 DEF ThreadSet
  <2> HIDE DEF y
  <2>4. /\ Len(y.ci) = Len(x.ci) + 1 /\ Len(y.ci) \in 1 .. y.size_ci
        /\ \A j \in 1 .. Len(x.ci) : y.ci[j] = x.ci[j]
        /\ y.ci[Len(y.ci)] = f
    BY <1>20, <1>3, <1>4, <1>8, <2>2, <2>3
  <2>5. ASSUME NEW u, u \in Seq(FrameSet), cs' = u, Wf([t EXCEPT ![L] = y], u),
               SameOthers(s, u, L), Has(u, L), u # <<>>,
               u[Len(u)].L = L, u[Len(u)].fn \in {"execute", "cfunction"}
        PROVE  Ran(L, x, s)
    <3>1. TopFits(u, "run") BY <2>5 DEF TopFits
    <3>2. Bounded(y.nCcalls, L, u, "run") BY <2>3 DEF Bounded
    <3> QED BY <1>1, <2>1, <2>3, <2>5, <3>1, <3>2 DEF Ran
  <2>6. ASSUME NEW e \in FrameSet, e.L = L, e.fn \in {"execute", "cfunction"},
               cs' = Append(s, e), Sits(Append(s, e), n + 1),
               Infos(e, L) = 1, Levels(e) = 0,
               e.fn = "execute" => f = "lua", e.fn = "cfunction" => f = e.f
        PROVE  Ran(L, x, s)
    <3>1. /\ Append(s, e) \in Seq(FrameSet) /\ Append(s, e) # <<>> /\ Len(Append(s, e)) = n + 1
          /\ Append(s, e)[n + 1] = e
      BY <1>2, Appended
    <3>2. SameOthers(s, Append(s, e), L) /\ Has(Append(s, e), L) BY <1>2, <2>6, SamePush
    <3>3. ~Installs(Append(s, e), n + 1) BY <2>6, <3>1 DEF Installs
    <3>4. e.fn = "execute" => \A j \in Len(x.ci) + 1 .. Len(y.ci) : y.ci[j] = "lua"
      BY <1>3, <2>4, <2>6
    <3>5. /\ y.nCcalls = x.nCcalls + Levels(e)
          /\ Len(y.ci) = Len(x.ci) + Infos(e, L)
      BY <1>3, <2>3, <2>4, <2>6
    <3>6. e.fn # "pcall" /\ e.fn # "resume" BY <2>6
    <3>7. Wf([t EXCEPT ![L] = y], Append(s, e))
      <4>1. s # <<>> /\ s[Len(s)].L = L OBVIOUS
      <4>2. y \in ThreadSet /\ y.baseCcalls = t[L].baseCcalls /\ t[L].status = "ok"
        BY <1>1, <2>3
      <4>3. /\ y.nCcalls = t[L].nCcalls + Levels(e)
            /\ Len(y.ci) = Len(t[L].ci) + Infos(e, L) /\ Len(y.ci) \in 1 .. y.size_ci
        BY <1>1, <2>4, <3>5
      <4>4. /\ \A j \in 1 .. Len(t[L].ci) : y.ci[j] = t[L].ci[j]
            /\ e.fn = "execute" => \A j \in Len(t[L].ci) + 1 .. Len(y.ci) : y.ci[j] = "lua"
            /\ e.fn = "cfunction" => y.ci[Len(y.ci)] = e.f
        BY <1>1, <2>4, <2>6, <3>4
      <4>5. ~Installs(Append(s, e), Len(s) + 1) /\ Sits(Append(s, e), Len(s) + 1)
            /\ (y.errfunc <=> t[L].errfunc)
        BY <1>1, <2>3, <2>6, <3>3
      <4> QED BY <1>5, <2>6, <3>6, <4>1, <4>2, <4>3, <4>4, <4>5, PushWf
    <3> QED BY <2>5, <2>6, <3>1, <3>2, <3>7
  <2>7. CASE f # "lua"
    <3> DEFINE e == CFunction(L, f, "start")
    <3>1. /\ e \in FrameSet /\ e.fn = "cfunction" /\ e.L = L /\ e.f = f
          /\ Levels(e) = 0 /\ Infos(e, L) = 1
      BY Constructors
    <3>2. cs' = Append(s, e) BY <2>1, <2>7 DEF Entered
    <3> HIDE DEF e
    <3>3. Sits(Append(s, e), n + 1)
      <4>1. Append(s, e)[n + 1] = e /\ Append(s, e)[(n + 1) - 1] = s[n]
        <5>1. (n + 1) - 1 = n /\ n \in 1 .. n /\ s \in Seq(FrameSet) BY <1>2
        <5> QED BY <3>1, <5>1, Appended
      <4>2. s[n].fn \in {"execute", "call"} /\ s[n].L = L BY <2>7
      <4>3. n + 1 > 1 /\ n + 1 # 1 BY <1>6
      <4> QED BY <3>1, <4>1, <4>2, <4>3 DEF Sits
    <3> QED BY <2>6, <3>1, <3>2, <3>3
  <2>8. CASE f = "lua" /\ s[n].fn # "execute"
    <3> DEFINE e == Execute(L, 1)
    <3>1. /\ e \in FrameSet /\ e.fn = "execute" /\ e.L = L
          /\ Levels(e) = 0 /\ Infos(e, L) = 1
      BY Constructors
    <3>2. cs' = Append(s, e) BY <2>1, <2>8 DEF Entered, Last
    <3> HIDE DEF e
    <3>3. Sits(Append(s, e), n + 1)
      <4>1. Append(s, e)[n + 1] = e /\ Append(s, e)[(n + 1) - 1] = s[n]
        <5>1. (n + 1) - 1 = n /\ n \in 1 .. n /\ s \in Seq(FrameSet) BY <1>2
        <5> QED BY <3>1, <5>1, Appended
      <4>2. s[n].fn \in {"call", "resume"} /\ s[n].L = L BY <2>8
      <4>3. n + 1 > 1 /\ n + 1 # 1 BY <1>6
      <4> QED BY <3>1, <4>1, <4>2, <4>3 DEF Sits
    <3> QED BY <2>6, <2>8, <3>1, <3>2, <3>3
  <2>9. CASE f = "lua" /\ s[n].fn = "execute"
    <3> DEFINE k == s[n].n
               e == Execute(L, k + 1)
               u0 == SubSeq(s, 1, n - 1)
    <3>1. k \in Nat /\ k > 0 /\ k + 1 \in Nat \ {0} /\ Infos(s[n], L) = k /\ Levels(s[n]) = 0
      BY <1>2, <2>9, FrameFacts DEF Infos, Levels
    <3>2. /\ e \in FrameSet /\ e.fn = "execute" /\ e.L = L
          /\ Levels(e) = 0 /\ Infos(e, L) = k + 1
      BY <3>1, Constructors
    <3>3. cs' = Append(u0, e) BY <2>1, <2>9 DEF Entered, Last, Front
    <3> HIDE DEF e
    <3>4. n - 1 \in 0 .. n
      <4>1. n \in Nat /\ n > 0 BY <1>2
      <4> QED BY <4>1
    <3>5. u0 \in Seq(FrameSet) /\ SameOthers(s, u0, L) BY <1>2, <3>4, SameCut
    <3> HIDE DEF u0
    <3>6. /\ Append(u0, e) \in Seq(FrameSet) /\ Append(u0, e) # <<>>
          /\ Append(u0, e)[Len(Append(u0, e))] = e
      BY <3>2, <3>5, Appended
    <3>7. SameOthers(s, Append(u0, e), L) /\ Has(Append(u0, e), L)
      BY <3>2, <3>5, SamePush, SameTrans
    <3>8. \A j \in Len(x.ci) - k + 1 .. Len(y.ci) : y.ci[j] = "lua"
      <4>1. \A j \in Len(x.ci) - k + 1 .. Len(x.ci) : x.ci[j] = "lua"
        BY <1>1, <1>5, <2>9, TopContent
      <4>2. Len(x.ci) - k \in Nat
        <5>1. /\ Len(x.ci) = 1 + Depth(s, L, n) /\ Depth(s, L, n - 1) \in Nat
              /\ Depth(s, L, n) = Depth(s, L, n - 1) + Infos(s[n], L)
          BY <1>1, <1>5, TopContent
        <5> QED BY <3>1, <5>1
      <4>3. \A j \in Len(x.ci) - k + 1 .. Len(y.ci) :
               \/ j \in Len(x.ci) - k + 1 .. Len(x.ci) /\ j \in 1 .. Len(x.ci)
               \/ j = Len(y.ci)
        BY <1>3, <2>4, <3>1, <4>2
      <4> QED BY <2>4, <2>9, <4>1, <4>3
    <3>9. \A j \in 1 .. Len(x.ci) - k : y.ci[j] = x.ci[j]
      <4>1. \A j \in 1 .. Len(x.ci) - k : j \in 1 .. Len(x.ci) BY <1>3, <3>1
      <4> QED BY <2>4, <4>1
    <3>10. /\ Len(y.ci) = Len(x.ci) - Infos(s[n], L) + Infos(e, L)
           /\ y.nCcalls = x.nCcalls - Levels(s[n]) + Levels(e)
      BY <1>3, <2>3, <2>4, <3>1, <3>2
    <3> HIDE DEF k
    <3>11. Wf([t EXCEPT ![L] = y], Append(u0, e))
      BY <1>1, <1>2, <1>5, <2>3, <2>4, <2>9, <3>1, <3>2, <3>8, <3>9, <3>10, ReplaceWf DEF u0
    <3> QED BY <2>5, <3>2, <3>3, <3>6, <3>7, <3>11
  <2> QED BY <2>7, <2>8, <2>9
<1> QED BY <1>7, <1>8

(* luaD_call counts a level before luaD_precall; at either limit of        *)
(* nCcalls it raises an error instead.                                     *)
LEMMA CallStep ==
  ASSUME th \in [Threads -> ThreadSet], NEW L \in Threads, NEW x \in ThreadSet,
         x.status = "ok", NEW s, Wf([th EXCEPT ![L] = x], s), s # <<>>, s[Len(s)].L = L,
         NEW f \in Names \ {"base"},
         x.nCcalls < LUAI_MAXCCALLS + ErrorCcalls,
         luaD_call(L, x, f, s)
  PROVE  Ran(L, x, s)
<1> DEFINE t == [th EXCEPT ![L] = x]
           n == Len(s)
           y == [x EXCEPT !.nCcalls = x.nCcalls + 1]
           c == Frame("call", L)
           u == Append(s, c)
<1>1. /\ t \in [Threads -> ThreadSet] /\ t[L] = x
      /\ \A z : [t EXCEPT ![L] = z] = [th EXCEPT ![L] = z]
  OBVIOUS
<1>2. /\ s \in Seq(FrameSet) /\ n \in Nat /\ n > 0 /\ n \in 1 .. n
      /\ Len(x.ci) \in 1 .. x.size_ci
  <2>1. Len(t[L].ci) \in 1 .. t[L].size_ci BY WfFacts
  <2> QED BY <1>1, <2>1, WfFacts
<1>3. /\ y \in ThreadSet /\ y.ci = x.ci /\ y.status = "ok" /\ y.left = x.left
      /\ y.nCcalls = x.nCcalls + 1 /\ y.baseCcalls = x.baseCcalls
      /\ y.errfunc = x.errfunc /\ y.size_ci = x.size_ci
      /\ x.nCcalls \in Nat /\ Len(x.ci) \in Nat
  <2>1. x.nCcalls \in Nat /\ Len(x.ci) \in Nat BY ThreadFacts
  <2>2. x.nCcalls + 1 \in Nat BY <2>1
  <2> QED BY <2>1, <2>2 DEF ThreadSet
<1>4. /\ c \in FrameSet /\ c.fn = "call" /\ c.L = L /\ Levels(c) = 1 /\ Infos(c, L) = 0
  BY Constructors
<1>5. \/ Step(L, y, u, "error") /\ y.nCcalls = LUAI_MAXCCALLS
      \/ Step(L, y, u, "errerr")
      \/ luaD_precall(L, y, f, u) /\ y.nCcalls < LUAI_MAXCCALLS + ErrorCcalls
  <2>1. LUAI_MAXCCALLS \in Nat /\ ErrorCcalls \in Nat BY LimitsAssumption
  <2> QED BY <1>3, <2>1 DEF luaD_call
<1> HIDE DEF y, c
<1>6. /\ u \in Seq(FrameSet) /\ u # <<>> /\ Len(u) = n + 1 /\ u[n + 1] = c /\ u[n] = s[n]
  BY <1>2, <1>4, Appended
<1>7. SameOthers(s, u, L) /\ Has(u, L) BY <1>2, <1>4, SamePush
<1>8. Wf([th EXCEPT ![L] = y], u)
  <2>1. Sits(u, n + 1)
    <3>1. (n + 1) - 1 = n BY <1>2
    <3> QED BY <1>2, <1>4, <1>6, <3>1 DEF Sits
  <2>2. ~Installs(u, n + 1) BY <1>4, <1>6 DEF Installs
  <2>3. /\ y.nCcalls = t[L].nCcalls + Levels(c)
        /\ Len(y.ci) = Len(t[L].ci) + Infos(c, L)
        /\ \A j \in 1 .. Len(t[L].ci) : y.ci[j] = t[L].ci[j]
        /\ t[L].status = "ok" /\ y.baseCcalls = t[L].baseCcalls
        /\ y.errfunc <=> t[L].errfunc
        /\ Len(y.ci) \in 1 .. y.size_ci
    BY <1>1, <1>2, <1>3, <1>4
  <2>4. Wf(t, s) OBVIOUS
  <2> HIDE DEF t
  <2>5. Wf([t EXCEPT ![L] = y], u)
    BY <1>3, <1>4, <2>1, <2>2, <2>3, <2>4, PushWf
  <2> QED BY <1>1, <2>5
<1>9. y.nCcalls <= LUAI_MAXCCALLS + ErrorCcalls
  BY <1>3, LimitsAssumption
<1>10. ASSUME NEW m \in {"error", "errerr"}, Step(L, y, u, m), Bounded(y.nCcalls, L, u, m)
       PROVE  Ran(L, x, s)
  <2>1. TopFits(u, m) BY <1>4, <1>6 DEF TopFits
  <2>2. th' = [th EXCEPT ![L] = y] /\ cs' = u /\ mode' = m BY <1>10 DEF Step
  <2> QED BY <1>3, <1>4, <1>6, <1>7, <1>8, <1>10, <2>1, <2>2 DEF Ran
<1>11. CASE Step(L, y, u, "error") /\ y.nCcalls = LUAI_MAXCCALLS
  <2>1. Bounded(y.nCcalls, L, u, "error") BY <1>11, LimitsAssumption DEF Bounded
  <2> QED BY <1>10, <1>11, <2>1
<1>12. CASE Step(L, y, u, "errerr")
  <2>1. Bounded(y.nCcalls, L, u, "errerr")
    BY <1>3, <1>4, <1>6, <1>9, LimitsAssumption DEF Bounded
  <2> QED BY <1>10, <1>12, <2>1
<1>13. CASE luaD_precall(L, y, f, u) /\ y.nCcalls < LUAI_MAXCCALLS + ErrorCcalls
  <2>1. Ran(L, y, u) BY <1>3, <1>4, <1>6, <1>8, <1>13, PrecallStep
  <2> QED BY <1>3, <1>7, <2>1, SameTrans DEF Ran
<1> QED BY <1>5, <1>11, <1>12, <1>13
-----------------------------------------------------------------------------
(* The actions, by what they do to the stack                               *)

(* A call by the running thread keeps the invariant.                       *)
LEMMA RanInv ==
  ASSUME IInv, NEW L \in Threads, IF cs = <<>> THEN L = Main ELSE L = Running,
         NEW x, x.left = th[L].left, NEW s, SameOthers(cs, s, L), Ran(L, x, s),
         UNCHANGED <<over, program>>
  PROVE  IInv'
<1>1. PICK y \in ThreadSet :
         /\ th' = [th EXCEPT ![L] = y]
         /\ y.status = "ok" /\ y.left = x.left
         /\ Wf([th EXCEPT ![L] = y], cs')
         /\ SameOthers(s, cs', L) /\ Has(cs', L)
         /\ TopFits(cs', mode') /\ Bounded(y.nCcalls, L, cs', mode')
  BY DEF Ran
<1>2. SameOthers(cs, cs', L) BY <1>1, SameTrans
<1>3. Inv([th EXCEPT ![L] = y], cs', mode', over) BY <1>1, <1>2, Ordinary
<1> QED BY <1>1, <1>3 DEF IInv

(* Only the mode changes.                                                  *)
LEMMA ModeStep ==
  ASSUME IInv, cs # <<>>, ~Returns("resume"), mode \notin {"errrun", "errerr"},
         NEW m, TopFits(cs, m), Step(Running, th[Running], cs, m), UNCHANGED <<over, program>>
  PROVE  IInv'
<1>1. /\ Running \in Threads /\ th[Running] \in ThreadSet /\ th[Running].status = "ok"
      /\ Wf(th, cs) /\ Has(cs, Running) /\ th \in [Threads -> ThreadSet]
      /\ th[Running].nCcalls < LUAI_MAXCCALLS + ErrorCcalls
  BY RunningFacts
<1>2. [th EXCEPT ![Running] = th[Running]] = th BY <1>1
<1>3. SameOthers(cs, cs, Running) BY DEF SameOthers
<1>4. Bounded(th[Running].nCcalls, Running, cs, m) BY <1>1 DEF Bounded
<1>5. Inv([th EXCEPT ![Running] = th[Running]], cs, m, over)
  BY <1>1, <1>2, <1>3, <1>4, Ordinary
<1> QED BY <1>5 DEF IInv, Step

(* The native stack below its top frame.                                   *)
LEMMA BelowFacts ==
  ASSUME IInv, cs # <<>>
  PROVE  /\ Below \in Seq(FrameSet) /\ Len(Below) = Len(cs) - 1 /\ DOMAIN Below = 1 .. Len(cs) - 1
         /\ \A i \in 1 .. Len(cs) - 1 : Below[i] = cs[i]
         /\ SameOthers(cs, Below, Running)
         /\ Top.fn # "resume" => Running = Main \/ Has(Below, Running)
         /\ Top.fn \notin {"resume", "pcall"} => Len(cs) > 1 /\ cs[Len(cs) - 1].L = Running
<1> DEFINE n == Len(cs)
           L == Running
<1>1. /\ cs \in Seq(FrameSet) /\ n - 1 \in 0 .. n /\ \A i \in n - 1 + 1 .. n : cs[i].L = L
      /\ Below = SubSeq(cs, 1, n - 1) /\ Top = cs[n] /\ L = cs[n].L
  BY RunningFacts
<1>2. n \in Nat /\ n > 0 /\ Wf(th, cs) BY RunningFacts
<1>3. /\ Below \in Seq(FrameSet) /\ Len(Below) = n - 1 /\ DOMAIN Below = 1 .. n - 1
      /\ \A i \in 1 .. n - 1 : Below[i] = cs[i]
      /\ SameOthers(cs, Below, L)
  BY <1>1, SameCut
<1>4. CASE n = 1
  <2>1. Top.fn = "pcall" /\ L = Main BY <1>1, <1>2, <1>4, WfFacts
  <2> QED BY <1>3, <2>1
<1>5. CASE n # 1
  <2> HIDE DEF n
  <2>1. n \in 2 .. n /\ n - 1 \in 1 .. n - 1 /\ n > 1 BY <1>2, <1>5
  <2>2. cs[n].fn # "resume" => cs[n].L = cs[n - 1].L BY <1>2, <2>1, WfFacts DEF n
  <2>3. Top.fn # "resume" => cs[n - 1].L = L /\ Has(Below, L)
    BY <1>1, <1>3, <2>1, <2>2 DEF Has, n
  <2> QED BY <1>3, <2>1, <2>3 DEF n
<1> QED BY <1>4, <1>5

(* The running thread and the top frame agree: it has the levels and the   *)
(* CallInfos that the frame would give up, and the CallInfos are functions *)
(* of the kind the frame runs.                                             *)
LEMMA TopFacts ==
  ASSUME IInv, cs # <<>>, ~Returns("resume")
  PROVE  LET L == Running
             ci == th[L].ci
         IN  /\ Len(ci) \in Nat /\ th[L].size_ci \in Nat /\ Len(ci) <= th[L].size_ci
             /\ th[L].nCcalls \in Nat
             /\ Infos(Top, L) \in Nat /\ Levels(Top) \in Nat
             /\ Levels(Top) <= th[L].nCcalls
             /\ Len(ci) - Infos(Top, L) \in Nat /\ Len(ci) - Infos(Top, L) > 0
             /\ Top.fn = "execute" =>
                   /\ Infos(Top, L) = Top.n
                   /\ \A j \in Len(ci) - Top.n + 1 .. Len(ci) : ci[j] = "lua"
             /\ Top.fn = "cfunction" => Infos(Top, L) = 1 /\ ci[Len(ci)] = Top.f
<1> DEFINE L == Running
           n == Len(cs)
           ci == th[L].ci
<1>1. /\ Wf(th, cs) /\ L \in Threads /\ th[L].status = "ok" /\ Top = cs[n] /\ L = cs[n].L
      /\ Top \in FrameSet /\ Len(ci) \in 1 .. th[L].size_ci /\ th[L] \in ThreadSet
      /\ n \in Nat /\ n > 0 /\ cs \in Seq(FrameSet)
  BY RunningFacts
<1>2. Len(ci) \in Nat /\ th[L].size_ci \in Nat /\ th[L].nCcalls \in Nat BY <1>1, ThreadFacts
<1>3. /\ Len(ci) = 1 + Depth(cs, L, n) /\ Depth(cs, L, n - 1) \in Nat
      /\ Depth(cs, L, n) = Depth(cs, L, n - 1) + Infos(Top, L)
      /\ Top.fn = "execute" => \A j \in Len(ci) - Top.n + 1 .. Len(ci) : ci[j] = "lua"
      /\ Top.fn = "cfunction" => ci[Len(ci)] = Top.f
  BY <1>1, TopContent
<1>4. Infos(Top, L) \in Nat /\ Levels(Top) \in Nat BY <1>1, FrameFacts
<1>5. Levels(Top) <= th[L].nCcalls
  <2>1. th[L].nCcalls = Counted(cs, n) BY <1>1, RunningExact
  <2>2. n - 1 \in 0 .. n /\ n - 1 \in 0 .. n - 1 /\ (n - 1) + 1 = n BY <1>1
  <2>3. Counted(cs, n - 1) \in Nat
        /\ Counted(cs, (n - 1) + 1) = Counted(cs, n - 1) + Levels(cs[(n - 1) + 1])
    BY <1>1, <2>2, CountedFacts
  <2> HIDE DEF n
  <2> QED BY <1>1, <1>4, <2>1, <2>2, <2>3
<1>6. Len(ci) - Infos(Top, L) \in Nat /\ Len(ci) - Infos(Top, L) > 0 BY <1>3, <1>4
<1>7. /\ Top.fn = "execute" => Infos(Top, L) = Top.n
      /\ Top.fn = "cfunction" => Infos(Top, L) = 1
  BY <1>1 DEF Infos
<1>8. Len(ci) <= th[L].size_ci BY <1>1, <1>2
<1> QED BY <1>2, <1>3, <1>4, <1>5, <1>6, <1>7, <1>8

(* The top frame, not that of lua_resume, is popped, and the running       *)
(* thread is left as y.                                                    *)
LEMMA PopStep ==
  ASSUME IInv, cs # <<>>, Top.fn # "resume", mode \notin {"errrun", "errerr"},
         NEW y \in ThreadSet, y.status = "ok", y.left = th[Running].left,
         Len(y.ci) = Len(th[Running].ci) - Infos(Top, Running), Len(y.ci) \in 1 .. y.size_ci,
         \A j \in 1 .. Len(y.ci) : y.ci[j] = th[Running].ci[j],
         y.nCcalls = th[Running].nCcalls - Levels(Top),
         y.baseCcalls = th[Running].baseCcalls,
         y.errfunc <=> IF Top.fn = "pcall" THEN Top.errfunc ELSE th[Running].errfunc,
         Step(Running, y, Below, "return"), UNCHANGED <<over, program>>
  PROVE  IInv'
<1> DEFINE L == Running
<1>1. /\ Wf(th, cs) /\ L \in Threads /\ th[L].status = "ok" /\ Top = cs[Len(cs)]
      /\ L = cs[Len(cs)].L
      /\ Below = SubSeq(cs, 1, Len(cs) - 1)
      /\ th[L].nCcalls < LUAI_MAXCCALLS + ErrorCcalls
  BY RunningFacts DEF Returns, On
<1>2. Wf([th EXCEPT ![L] = y], Below) BY <1>1, PopWf
<1>3. SameOthers(cs, Below, L) /\ (L = Main \/ Has(Below, L)) BY BelowFacts
<1>4. TopFits(Below, "return") BY DEF TopFits
<1>5. Bounded(y.nCcalls, L, Below, "return")
  <2>1. Levels(Top) \in Nat /\ th[L].nCcalls \in Nat BY TopFacts DEF Returns, On
  <2>2. y.nCcalls < LUAI_MAXCCALLS + ErrorCcalls BY <1>1, <2>1, LimitsAssumption
  <2> QED BY <2>2 DEF Bounded
<1>6. Inv([th EXCEPT ![L] = y], Below, "return", over)
  BY <1>1, <1>2, <1>3, <1>4, <1>5, Ordinary
<1> QED BY <1>6 DEF IInv, Step

(* The top frame is replaced by f.                                         *)
LEMMA ReplaceStep ==
  ASSUME IInv, cs # <<>>, Top.fn \in {"execute", "cfunction", "parser"},
         mode \notin {"errrun", "errerr"},
         NEW f \in FrameSet, f.fn = Top.fn, f.L = Running,
         f.fn = "cfunction" => f.f = Top.f,
         NEW y \in ThreadSet, y.status = "ok", y.left = th[Running].left,
         Len(y.ci) = Len(th[Running].ci) - Infos(Top, Running) + Infos(f, Running),
         \A j \in 1 .. Len(y.ci) : y.ci[j] = th[Running].ci[j],
         Len(y.ci) <= Len(th[Running].ci), Len(y.ci) > 0, y.size_ci = th[Running].size_ci,
         y.nCcalls = th[Running].nCcalls - Levels(Top) + Levels(f),
         y.nCcalls <= th[Running].nCcalls + 1,
         y.baseCcalls = th[Running].baseCcalls, y.errfunc = th[Running].errfunc,
         NEW m \in {"run", "errrun"},
         m = "run" => y.nCcalls < LUAI_MAXCCALLS + ErrorCcalls,
         Step(Running, y, Append(Below, f), m), UNCHANGED <<over, program>>
  PROVE  IInv'
<1> DEFINE L == Running
           u == Append(Below, f)
           ci == th[L].ci
           d == Len(ci) - Infos(Top, L)
<1>1. /\ Wf(th, cs) /\ L \in Threads /\ th[L].status = "ok" /\ Top = cs[Len(cs)]
      /\ L = cs[Len(cs)].L
      /\ Below = SubSeq(cs, 1, Len(cs) - 1)
      /\ th[L].nCcalls < LUAI_MAXCCALLS + ErrorCcalls
  BY RunningFacts DEF Returns, On
<1>2. /\ Len(ci) \in Nat /\ th[L].size_ci \in Nat /\ Len(ci) <= th[L].size_ci
      /\ th[L].nCcalls \in Nat /\ Infos(Top, L) \in Nat /\ d \in Nat
  BY TopFacts DEF Returns, On
<1>3. /\ Top.fn = "execute" => \A j \in d + 1 .. Len(ci) : ci[j] = "lua"
      /\ Top.fn = "cfunction" => Infos(Top, L) = 1 /\ ci[Len(ci)] = Top.f
  BY TopFacts DEF Returns, On
<1>4. Len(y.ci) \in Nat /\ y.nCcalls \in Nat /\ Infos(f, L) \in Nat BY ThreadFacts, FrameFacts
<1>5. Len(y.ci) = d + Infos(f, L) OBVIOUS
<1> HIDE DEF d
<1>6. ASSUME f.fn = "execute", NEW j \in d + 1 .. Len(y.ci) PROVE y.ci[j] = "lua"
  <2>1. j \in 1 .. Len(y.ci) /\ j \in d + 1 .. Len(ci) BY <1>2, <1>4
  <2> QED BY <1>3, <1>6, <2>1
<1>7. ASSUME f.fn = "cfunction" PROVE y.ci[Len(y.ci)] = f.f
  <2>1. Infos(f, L) = 1 BY <1>7 DEF Infos
  <2>2. Len(y.ci) = Len(ci) BY <1>2, <1>3, <1>5, <1>7, <2>1 DEF d
  <2>3. Len(y.ci) \in 1 .. Len(y.ci) BY <1>4
  <2> QED BY <1>3, <1>7, <2>2, <2>3
<1>8. \A j \in 1 .. d : y.ci[j] = ci[j]
  <2>1. \A j \in 1 .. d : j \in 1 .. Len(y.ci) BY <1>2, <1>4, <1>5
  <2> QED BY <2>1
<1>9. Len(y.ci) \in 1 .. y.size_ci
  <2>1. Len(y.ci) <= y.size_ci BY <1>2, <1>4, SMTT(30)
  <2>2. y.size_ci \in Nat BY <1>2
  <2> QED BY <1>4, <2>1, <2>2
<1>10. Wf([th EXCEPT ![L] = y], Append(SubSeq(cs, 1, Len(cs) - 1), f))
  BY <1>1, <1>5, <1>6, <1>7, <1>8, <1>9, ReplaceWf DEF d
<1>11. Below \in Seq(FrameSet) /\ SameOthers(cs, Below, L) BY BelowFacts
<1>12. SameOthers(cs, u, L) /\ Has(u, L) BY <1>11, SamePush, SameTrans
<1>13. u # <<>> /\ u[Len(u)] = f BY <1>11, Appended
<1>14. TopFits(u, m) BY <1>13 DEF TopFits
<1>15. Bounded(y.nCcalls, L, u, m)
  <2>1. LUAI_MAXCCALLS + ErrorCcalls \in Nat BY LimitsAssumption
  <2>2. y.nCcalls <= LUAI_MAXCCALLS + ErrorCcalls BY <1>1, <1>2, <1>4, <2>1, SMTT(30)
  <2>3. y.nCcalls < LUAI_MAXCCALLS + ErrorCcalls \/ y.nCcalls = LUAI_MAXCCALLS + ErrorCcalls
    BY <1>4, <2>1, <2>2
  <2> QED BY <1>13, <2>3 DEF Bounded
<1>16. Wf([th EXCEPT ![L] = y], u) BY <1>1, <1>10
<1>17. Inv([th EXCEPT ![L] = y], u, m, over)
  BY <1>1, <1>12, <1>14, <1>15, <1>16, Ordinary
<1> QED BY <1>17 DEF IInv, Step
-----------------------------------------------------------------------------
(* One lemma per action or group of actions                                *)

(* The functions of a program are those that have a model.                 *)
LEMMA CallableNames ==
  ASSUME IInv, NEW f \in Callable PROVE f \in Names \ {"base"}
<1>1. program \in Programs BY DEF IInv
<1>2. f \in program.calls BY DEF Callable
<1>3. program.calls \subseteq {"lua", "fn", "pcall", "xpcall", "load",
                               "create", "resume", "wrap", "yield"}
  BY <1>1, LimitsAssumption
<1> QED BY <1>2, <1>3 DEF Names

(* OP_CALL keeps the invariant.                                            *)
LEMMA PrecallInv ==
  ASSUME IInv, NEW f \in Names \ {"base"}, OP_CALL(f) PROVE IInv'
<1>1. cs # <<>> /\ mode = "run" /\ Top.fn = "execute" BY DEF OP_CALL, Runs, On
<1>2. /\ Wf(th, cs) /\ th \in [Threads -> ThreadSet] /\ Running \in Threads
      /\ th[Running] \in ThreadSet /\ th[Running].status = "ok"
      /\ Top = cs[Len(cs)] /\ Running = cs[Len(cs)].L
      /\ th[Running].nCcalls < LUAI_MAXCCALLS + ErrorCcalls
  BY <1>1, RunningFacts DEF Returns
<1>3. [th EXCEPT ![Running] = th[Running]] = th BY <1>2
<1>4. Ran(Running, th[Running], cs)
  BY <1>1, <1>2, <1>3, PrecallStep DEF OP_CALL
<1>5. SameOthers(cs, cs, Running) BY DEF SameOthers
<1>6. UNCHANGED <<over, program>> BY DEF OP_CALL
<1> QED BY <1>1, <1>2, <1>4, <1>5, <1>6, RanInv

(* luaD_call straight from the top frame                                   *)
LEMMA CallInv ==
  ASSUME IInv, NEW f \in Names \ {"base"}, cs # <<>>, mode = "run",
         luaD_call(Running, th[Running], f, cs), UNCHANGED <<over, program>>
  PROVE  IInv'
<1>1. /\ Wf(th, cs) /\ th \in [Threads -> ThreadSet] /\ Running \in Threads
      /\ th[Running] \in ThreadSet /\ th[Running].status = "ok"
      /\ Running = cs[Len(cs)].L
      /\ th[Running].nCcalls < LUAI_MAXCCALLS + ErrorCcalls
  BY RunningFacts DEF Returns
<1>2. [th EXCEPT ![Running] = th[Running]] = th BY <1>1
<1>3. Ran(Running, th[Running], cs) BY <1>1, <1>2, CallStep
<1>4. SameOthers(cs, cs, Running) BY DEF SameOthers
<1> QED BY <1>1, <1>3, <1>4, RanInv

(* A protected call sets up its frame: on top of the C function that makes *)
(* it, with the handler h.                                                 *)
LEMMA PushPcall ==
  ASSUME IInv, NEW L \in Threads, NEW h \in BOOLEAN,
         IF cs = <<>> THEN L = Main /\ ~h
         ELSE /\ L = Running /\ mode = "run" /\ Top.fn = "cfunction"
              /\ \/ Top.f \in {"pcall", "xpcall"} /\ (h <=> Top.f = "xpcall")
                 \/ Top.f = "load" /\ h = th[L].errfunc
  PROVE  LET x == [th[L] EXCEPT !.errfunc = h]
             s == Append(cs, Pcall(L))
         IN  /\ Wf([th EXCEPT ![L] = x], s) /\ x \in ThreadSet
             /\ x.status = "ok" /\ x.left = th[L].left /\ x.nCcalls = th[L].nCcalls
             /\ x.nCcalls < LUAI_MAXCCALLS + ErrorCcalls
             /\ s # <<>> /\ s \in Seq(FrameSet) /\ s[Len(s)] = Pcall(L) /\ Len(s) = Len(cs) + 1
             /\ Pcall(L).L = L /\ Pcall(L).fn = "pcall"
             /\ SameOthers(cs, s, L)
<1> DEFINE x == [th[L] EXCEPT !.errfunc = h]
           f == Pcall(L)
           s == Append(cs, f)
           n == Len(cs)
<1>1. Wf(th, cs) BY DEF IInv, Inv
<1>2. /\ th \in [Threads -> ThreadSet] /\ cs \in Seq(FrameSet) /\ th[L] \in ThreadSet
      /\ n \in Nat /\ (cs = <<>> <=> n = 0)
      /\ Len(th[L].ci) \in 1 .. th[L].size_ci
  BY <1>1, WfFacts
<1>3. /\ th[L].nCcalls \in Nat /\ Len(th[L].ci) \in Nat /\ th[L].errfunc \in BOOLEAN
      /\ th[L].status \in {"ok", "yield", "err"}
  BY <1>2, ThreadFacts
<1>4. th[L].status = "ok" /\ th[L].nCcalls < LUAI_MAXCCALLS + ErrorCcalls
  <2>1. CASE cs = <<>>
    <3>1. Status(th[Main], Main, cs, mode) /\ th[Main].nCcalls = 0 /\ L = Main
      BY <2>1 DEF IInv, Inv, Wf, Threads
    <3>2. 0 < LUAI_MAXCCALLS + ErrorCcalls BY LimitsAssumption
    <3> QED BY <1>3, <3>1, <3>2 DEF Status
  <2>2. CASE cs # <<>> BY <2>2, RunningFacts DEF Returns
  <2> QED BY <2>1, <2>2
<1>5. /\ x \in ThreadSet /\ x.ci = th[L].ci /\ x.status = "ok" /\ x.left = th[L].left
      /\ x.nCcalls = th[L].nCcalls /\ x.baseCcalls = th[L].baseCcalls /\ x.errfunc = h
      /\ x.size_ci = th[L].size_ci
  BY <1>2, <1>4 DEF ThreadSet
<1>6. /\ f \in FrameSet /\ f.fn = "pcall" /\ f.L = L /\ f.ci = Len(th[L].ci)
      /\ f.nCcalls = th[L].nCcalls /\ f.errfunc = th[L].errfunc
      /\ Levels(f) = 0 /\ Infos(f, L) = 0
  BY <1>3 DEF Pcall, FrameSet, Levels, Infos
<1> HIDE DEF x, f
<1>7. /\ s \in Seq(FrameSet) /\ s # <<>> /\ Len(s) = n + 1 /\ s[n + 1] = f
      /\ \A i \in 1 .. n : s[i] = cs[i]
  BY <1>2, <1>6, Appended
<1>8. SameOthers(cs, s, L) BY <1>2, <1>6, SamePush
<1> HIDE DEF s
<1>9. cs # <<>> => /\ cs[n].L = L /\ Top = cs[n] /\ s[n] = cs[n] /\ n > 0
                   /\ cs[n].fn = "cfunction"
  BY <1>2, <1>7, RunningFacts
<1>10. Sits(s, n + 1)
  <2>1. CASE cs = <<>> BY <1>2, <1>6, <1>7, <2>1 DEF Sits
  <2>2. CASE cs # <<>>
    <3>1. n + 1 > 1 /\ (n + 1) - 1 = n BY <1>2, <1>9, <2>2
    <3>2. cs[n].f \in {"pcall", "xpcall", "load"} BY <1>9, <2>2
    <3> QED BY <1>6, <1>7, <1>9, <2>2, <3>1, <3>2 DEF Sits
  <2> QED BY <2>1, <2>2
<1>11. x.errfunc <=> IF Installs(s, n + 1) THEN n > 0 /\ cs[n].f = "xpcall" ELSE th[L].errfunc
  <2>1. CASE cs = <<>>
    <3>1. Installs(s, n + 1) BY <1>2, <1>6, <1>7, <2>1 DEF Installs
    <3> QED BY <1>2, <1>5, <2>1, <3>1
  <2>2. CASE cs # <<>>
    <3>1. n + 1 > 1 /\ (n + 1) - 1 = n BY <1>2, <1>9, <2>2
    <3>2. Installs(s, n + 1) <=> cs[n].f # "load" BY <1>6, <1>7, <1>9, <2>2, <3>1 DEF Installs
    <3> QED BY <1>5, <1>9, <2>2, <3>2
  <2> QED BY <2>1, <2>2
<1>12. IF cs = <<>> THEN L = Main ELSE cs[n].L = L BY <1>9
<1>13. /\ x.nCcalls = th[L].nCcalls + Levels(f) /\ Len(x.ci) = Len(th[L].ci) + Infos(f, L)
       /\ Len(x.ci) \in 1 .. x.size_ci
       /\ \A j \in 1 .. Len(th[L].ci) : x.ci[j] = th[L].ci[j]
       /\ f.fn # "resume" /\ f.fn # "execute" /\ f.fn # "cfunction"
       /\ f.nCcalls < LUAI_MAXCCALLS + ErrorCcalls
  BY <1>2, <1>3, <1>4, <1>5, <1>6
<1>14. Wf([th EXCEPT ![L] = x], s)
  BY <1>1, <1>4, <1>5, <1>6, <1>10, <1>11, <1>12, <1>13, PushWf DEF s
<1> QED BY <1>4, <1>5, <1>6, <1>7, <1>8, <1>14 DEF x, f, s

(* luaB_pcall and luaB_xpcall keep the invariant: the old handler is saved *)
(* with the frame of luaD_pcall.                                           *)
LEMMA PcallInv ==
  ASSUME IInv, NEW f \in Names \ {"base"}, luaB_pcall(f) PROVE IInv'
<1> DEFINE L == Running
           h == (Top.f = "xpcall")
           x == [th[L] EXCEPT !.errfunc = h]
           s == Append(cs, Pcall(L))
<1>1. /\ cs # <<>> /\ mode = "run" /\ Top.fn = "cfunction" /\ Top.f \in {"pcall", "xpcall"}
      /\ luaD_call(L, x, f, s) /\ UNCHANGED <<over, program>>
  BY DEF luaB_pcall, InC, Runs, On
<1>2. L \in Threads /\ th \in [Threads -> ThreadSet] BY <1>1, RunningFacts
<1>5. h \in BOOLEAN /\ (h <=> Top.f = "xpcall") OBVIOUS
<1> HIDE DEF h
<1>3. /\ Wf([th EXCEPT ![L] = x], s) /\ x \in ThreadSet
      /\ x.status = "ok" /\ x.left = th[L].left
      /\ x.nCcalls < LUAI_MAXCCALLS + ErrorCcalls
      /\ s # <<>> /\ s[Len(s)].L = L /\ SameOthers(cs, s, L)
  <2>1. IF cs = <<>> THEN L = Main /\ ~h
        ELSE /\ L = Running /\ mode = "run" /\ Top.fn = "cfunction"
             /\ \/ Top.f \in {"pcall", "xpcall"} /\ (h <=> Top.f = "xpcall")
                \/ Top.f = "load" /\ h = th[L].errfunc
    BY <1>1, <1>5
  <2>2. L \in Threads /\ h \in BOOLEAN BY <1>2, <1>5
  <2> HIDE DEF L
  <2>3. /\ Wf([th EXCEPT ![L] = x], s) /\ x \in ThreadSet
        /\ x.status = "ok" /\ x.left = th[L].left
        /\ x.nCcalls < LUAI_MAXCCALLS + ErrorCcalls
        /\ s # <<>> /\ s[Len(s)] = Pcall(L) /\ Pcall(L).L = L /\ SameOthers(cs, s, L)
    BY <2>1, <2>2, PushPcall
  <2> HIDE DEF x, s
  <2> QED BY <2>3
<1> HIDE DEF x, s
<1>4. Ran(L, x, s) BY <1>1, <1>2, <1>3, CallStep
<1> QED BY <1>1, <1>2, <1>3, <1>4, RanInv

(* lua_cpcall, from the host program, keeps the invariant.                 *)
LEMMA CpcallInv ==
  ASSUME IInv, lua_cpcall PROVE IInv'
<1> DEFINE x == [th[Main] EXCEPT !.errfunc = FALSE]
           s == Append(cs, Pcall(Main))
<1>1. cs = <<>> /\ UNCHANGED <<over, program>> BY DEF lua_cpcall
<1>2. s = <<Pcall(Main)>> BY <1>1
<1>3. luaD_call(Main, x, "fn", s) BY <1>2 DEF lua_cpcall
<1>4. Main \in Threads BY DEF Threads
<1>5. th \in [Threads -> ThreadSet] BY WfFacts DEF IInv, Inv
<1>6. /\ Wf([th EXCEPT ![Main] = x], s) /\ x \in ThreadSet
      /\ x.status = "ok" /\ x.left = th[Main].left
      /\ x.nCcalls < LUAI_MAXCCALLS + ErrorCcalls
      /\ s # <<>> /\ s[Len(s)].L = Main /\ SameOthers(cs, s, Main)
  BY <1>1, <1>4, PushPcall
<1> HIDE DEF x, s
<1>7. "fn" \in Names \ {"base"} BY DEF Names
<1>8. Ran(Main, x, s) BY <1>3, <1>4, <1>5, <1>6, <1>7, CallStep
<1> QED BY <1>1, <1>4, <1>6, <1>8, RanInv

(* luaB_load keeps the invariant: the parser runs under the handler of the *)
(* caller.                                                                 *)
LEMMA LoadInv ==
  ASSUME IInv, luaB_load PROVE IInv'
<1> DEFINE L == Running
           x == [th[L] EXCEPT !.errfunc = th[L].errfunc]
           s == Append(cs, Pcall(L))
           f == Parser(L, 0)
           u == Append(s, f)
           n == Len(cs)
<1>1. /\ cs # <<>> /\ mode = "run" /\ Top.fn = "cfunction" /\ Top.f = "load"
      /\ Step(L, th[L], cs \o <<Pcall(L), f>>, "run") /\ UNCHANGED <<over, program>>
  BY DEF luaB_load, InC, Runs, On
<1>2. /\ L \in Threads /\ th \in [Threads -> ThreadSet] /\ th[L] \in ThreadSet
      /\ cs \in Seq(FrameSet) /\ n \in Nat /\ n > 0 /\ th[L].errfunc \in BOOLEAN
      /\ th[L].nCcalls \in Nat /\ Len(th[L].ci) \in Nat
      /\ Len(th[L].ci) \in 1 .. th[L].size_ci
  BY <1>1, RunningFacts, ThreadFacts
<1>3. x = th[L] BY <1>2 DEF ThreadSet
<1>4. [th EXCEPT ![L] = th[L]] = th BY <1>2
<1>5. /\ Wf([th EXCEPT ![L] = x], s)
      /\ x.status = "ok" /\ x.nCcalls < LUAI_MAXCCALLS + ErrorCcalls
      /\ s # <<>> /\ s \in Seq(FrameSet) /\ s[Len(s)] = Pcall(L) /\ Len(s) = n + 1
      /\ Pcall(L).L = L /\ Pcall(L).fn = "pcall" /\ SameOthers(cs, s, L)
  BY <1>1, <1>2, PushPcall
<1>6. /\ f \in FrameSet /\ f.fn = "parser" /\ f.L = L /\ Levels(f) = 0 /\ Infos(f, L) = 0
  BY <1>2, Constructors
<1>7. cs \o <<Pcall(L), f>> = u
  BY <1>2
<1> HIDE DEF x, s, f
<1>8. /\ u # <<>> /\ u[Len(u)] = f /\ Len(u) = (n + 1) + 1 /\ u[(n + 1) + 1] = f
      /\ u[n + 1] = Pcall(L)
  <2>1. n + 1 \in 1 .. n + 1 BY <1>2
  <2> QED BY <1>5, <1>6, <2>1, Appended
<1>9. Sits(u, (n + 1) + 1)
  <2>1. ((n + 1) + 1) - 1 = n + 1 /\ (n + 1) + 1 > 2 BY <1>2
  <2> QED BY <1>5, <1>6, <1>8, <2>1 DEF Sits
<1>10. ~Installs(u, (n + 1) + 1) BY <1>6, <1>8 DEF Installs
<1>11. Wf(th, s) /\ th[L].status = "ok" BY <1>3, <1>4, <1>5
<1>12. /\ th[L].nCcalls = th[L].nCcalls + Levels(f)
       /\ Len(th[L].ci) = Len(th[L].ci) + Infos(f, L)
       /\ f.fn # "resume" /\ f.fn # "execute" /\ f.fn # "cfunction" /\ f.fn # "pcall"
  BY <1>2, <1>6
<1>13. Wf([th EXCEPT ![L] = th[L]], u)
  BY <1>2, <1>5, <1>6, <1>9, <1>10, <1>11, <1>12, PushWf
<1>14. SameOthers(cs, u, L) /\ Has(u, L) BY <1>5, <1>6, SamePush, SameTrans
<1>15. TopFits(u, "run") BY <1>6, <1>8 DEF TopFits
<1>16. Bounded(th[L].nCcalls, L, u, "run") BY <1>3, <1>5 DEF Bounded
<1>17. Inv([th EXCEPT ![L] = th[L]], u, "run", over)
  BY <1>1, <1>2, <1>11, <1>13, <1>14, <1>15, <1>16, Ordinary
<1> QED BY <1>1, <1>7, <1>17 DEF IInv, Step

(* luaG_errormsg keeps the invariant, with and without a handler.          *)
LEMMA ErrormsgInv ==
  ASSUME IInv, NEW f \in Names \ {"base"}, luaG_errormsg(f) PROVE IInv'
<1> DEFINE L == Running
           e == Frame("handler", L)
           s == Append(cs, e)
           n == Len(cs)
<1>1. mode = "error" /\ UNCHANGED <<over, program>> BY DEF luaG_errormsg
<1>2. cs # <<>> /\ Top.fn # "pcall" BY <1>1 DEF IInv, Inv, TopFits, Top, Last
<1>3. /\ Wf(th, cs) /\ th \in [Threads -> ThreadSet] /\ L \in Threads
      /\ th[L] \in ThreadSet /\ th[L].status = "ok"
      /\ L = cs[n].L /\ Top = cs[n] /\ n \in Nat /\ n > 0 /\ cs \in Seq(FrameSet)
      /\ th[L].nCcalls < LUAI_MAXCCALLS + ErrorCcalls
      /\ Len(th[L].ci) \in 1 .. th[L].size_ci
  BY <1>1, <1>2, RunningFacts DEF Returns
<1>4. CASE ~th[L].errfunc
  <2>1. Step(L, th[L], cs, "errrun") BY <1>4 DEF luaG_errormsg
  <2>2. TopFits(cs, "errrun") BY <1>2 DEF TopFits
  <2> QED BY <1>1, <1>2, <2>1, <2>2, ModeStep DEF Returns
<1>5. CASE th[L].errfunc
  <2>1. luaD_call(L, th[L], f, s) BY <1>5 DEF luaG_errormsg
  <2>2. /\ e \in FrameSet /\ e.fn = "handler" /\ e.L = L /\ Levels(e) = 0 /\ Infos(e, L) = 0
    BY <1>3, Constructors
  <2> HIDE DEF e
  <2>3. /\ s # <<>> /\ s[n + 1] = e /\ s[n] = cs[n] /\ Len(s) = n + 1
    <3>1. n \in 1 .. n BY <1>3
    <3> QED BY <1>3, <2>2, <3>1, Appended
  <2>4. Sits(s, n + 1)
    <3>1. (n + 1) - 1 = n /\ n + 1 > 1 BY <1>3
    <3>2. cs[n].fn # "pcall" /\ cs[n].L = L BY <1>2, <1>3
    <3> HIDE DEF s, n
    <3> QED BY <2>2, <2>3, <3>1, <3>2 DEF Sits
  <2>5. ~Installs(s, n + 1) BY <2>2, <2>3 DEF Installs
  <2>6. /\ th[L].nCcalls = th[L].nCcalls + Levels(e)
        /\ Len(th[L].ci) = Len(th[L].ci) + Infos(e, L)
        /\ e.fn # "resume" /\ e.fn # "execute" /\ e.fn # "cfunction" /\ e.fn # "pcall"
    <3>1. th[L].nCcalls \in Nat /\ Len(th[L].ci) \in Nat BY <1>3, ThreadFacts
    <3> QED BY <2>2, <3>1
  <2>7. Wf([th EXCEPT ![L] = th[L]], s)
    BY <1>2, <1>3, <2>2, <2>4, <2>5, <2>6, PushWf
  <2>8. SameOthers(cs, s, L) BY <1>3, <2>2, SamePush
  <2>9. s[Len(s)].L = L BY <2>2, <2>3
  <2> HIDE DEF s
  <2>10. Ran(L, th[L], s) BY <1>3, <2>1, <2>3, <2>7, <2>9, CallStep
  <2> QED BY <1>1, <1>2, <1>3, <2>8, <2>10, RanInv
<1> QED BY <1>4, <1>5

(* luaD_poscall drops the last CallInfo and nothing else.                  *)
LEMMA PoscallFacts ==
  ASSUME NEW x \in ThreadSet, Len(x.ci) > 0
  PROVE  LET y == luaD_poscall(x)
         IN  /\ y \in ThreadSet /\ Len(y.ci) = Len(x.ci) - 1
             /\ \A j \in 1 .. Len(y.ci) : y.ci[j] = x.ci[j]
             /\ y.size_ci = x.size_ci /\ y.status = x.status /\ y.nCcalls = x.nCcalls
             /\ y.baseCcalls = x.baseCcalls /\ y.errfunc = x.errfunc /\ y.left = x.left
<1>1. x.ci \in Seq(Names) /\ Len(x.ci) \in Nat BY ThreadFacts
<1> DEFINE c == SubSeq(x.ci, 1, Len(x.ci) - 1)
           y == [x EXCEPT !.ci = c]
<1>2. \A j \in 1 .. Len(x.ci) - 1 : j \in 1 .. Len(x.ci) /\ x.ci[j] \in Names
  BY <1>1, ElementOfSeq
<1>3. c \in Seq(Names) /\ Len(c) = Len(x.ci) - 1 /\ \A j \in 1 .. Len(x.ci) - 1 : c[j] = x.ci[j]
  BY <1>1, <1>2, SubSeqProperties
<1>4. luaD_poscall(x) = y BY DEF luaD_poscall, Front
<1> HIDE DEF c
<1>5. /\ y \in ThreadSet /\ y.ci = c
      /\ y.size_ci = x.size_ci /\ y.status = x.status /\ y.nCcalls = x.nCcalls
      /\ y.baseCcalls = x.baseCcalls /\ y.errfunc = x.errfunc /\ y.left = x.left
  BY <1>3 DEF ThreadSet
<1> QED BY <1>3, <1>4, <1>5

(* OP_RETURN keeps the invariant.                                          *)
LEMMA ReturnInv ==
  ASSUME IInv, OP_RETURN PROVE IInv'
<1> DEFINE L == Running
           x == luaD_poscall(th[L])
<1>1. cs # <<>> /\ mode = "run" /\ Top.fn = "execute" /\ UNCHANGED <<over, program>>
  BY DEF OP_RETURN, Runs, On
<1>2. IF Top.n > 1 THEN Step(L, x, Append(Below, Execute(L, Top.n - 1)), "run")
      ELSE Step(L, x, Below, "return")
  BY DEF OP_RETURN
<1>3. /\ L \in Threads /\ th[L] \in ThreadSet /\ th[L].status = "ok" /\ Top \in FrameSet
      /\ L = Top.L
      /\ th[L].nCcalls < LUAI_MAXCCALLS + ErrorCcalls
  BY <1>1, RunningFacts DEF Returns, Running
<1>4. /\ Len(th[L].ci) \in Nat /\ th[L].size_ci \in Nat /\ Len(th[L].ci) <= th[L].size_ci
      /\ th[L].nCcalls \in Nat
      /\ Len(th[L].ci) - Infos(Top, L) > 0
      /\ Infos(Top, L) = Top.n
  BY <1>1, TopFacts DEF Returns
<1>5. Top.n \in Nat /\ Top.n > 0 BY <1>1, <1>3, FrameFacts
<1>6. /\ x \in ThreadSet /\ Len(x.ci) = Len(th[L].ci) - 1
      /\ \A j \in 1 .. Len(x.ci) : x.ci[j] = th[L].ci[j]
      /\ x.size_ci = th[L].size_ci /\ x.status = "ok" /\ x.nCcalls = th[L].nCcalls
      /\ x.baseCcalls = th[L].baseCcalls /\ x.errfunc = th[L].errfunc /\ x.left = th[L].left
  <2>1. Len(th[L].ci) > 0 BY <1>4, <1>5
  <2> QED BY <1>3, <2>1, PoscallFacts
<1>8. Levels(Top) = 0 BY <1>1 DEF Levels
<1> HIDE DEF x
<1>7. Len(x.ci) > 0 /\ Len(x.ci) \in 1 .. x.size_ci /\ Len(x.ci) <= Len(th[L].ci)
  <2> DEFINE a == Len(th[L].ci)
             b == th[L].size_ci
             n == Top.n
  <2>1. a \in Nat /\ b \in Nat /\ a <= b /\ a - n > 0 /\ n \in Nat /\ n > 0 BY <1>4, <1>5
  <2>2. Len(x.ci) = a - 1 /\ x.size_ci = b BY <1>6
  <2> HIDE DEF a, b, n
  <2>3. a - 1 > 0 /\ a - 1 \in 1 .. b /\ a - 1 <= a BY <2>1
  <2> QED BY <2>2, <2>3 DEF a
<1>9. CASE Top.n > 1
  <2> DEFINE f == Execute(L, Top.n - 1)
  <2>1. Top.n - 1 \in Nat \ {0} BY <1>5, <1>9
  <2>2. /\ f \in FrameSet /\ f.fn = "execute" /\ f.L = L /\ Levels(f) = 0
        /\ Infos(f, L) = Top.n - 1
    <3> DEFINE k == Top.n - 1
    <3>1. k \in Nat \ {0} BY <2>1
    <3> HIDE DEF k
    <3>2. /\ Execute(L, k) \in FrameSet /\ Execute(L, k).fn = "execute" /\ Execute(L, k).L = L
          /\ Levels(Execute(L, k)) = 0 /\ Infos(Execute(L, k), L) = k
      BY <1>3, <3>1, Constructors
    <3> QED BY <3>2 DEF k
  <2>3. Step(L, x, Append(Below, f), "run") BY <1>2, <1>9
  <2> HIDE DEF f
  <2>4. /\ Len(x.ci) = Len(th[L].ci) - Infos(Top, L) + Infos(f, L)
        /\ x.nCcalls = th[L].nCcalls - Levels(Top) + Levels(f)
        /\ x.nCcalls <= th[L].nCcalls + 1
    BY <1>4, <1>5, <1>6, <1>8, <2>2
  <2> QED BY <1>1, <1>3, <1>6, <1>7, <2>2, <2>3, <2>4, ReplaceStep
<1>10. CASE ~(Top.n > 1)
  <2>1. Top.n = 1 BY <1>5, <1>10
  <2>2. /\ Len(x.ci) = Len(th[L].ci) - Infos(Top, L)
        /\ x.nCcalls = th[L].nCcalls - Levels(Top)
    BY <1>4, <1>6, <1>8, <2>1
  <2>3. Step(L, x, Below, "return") BY <1>2, <1>10
  <2> QED BY <1>1, <1>6, <1>7, <2>2, <2>3, PopStep
<1> QED BY <1>9, <1>10

(* The return of a C function keeps the invariant.                         *)
LEMMA ReturnCInv ==
  ASSUME IInv, Runs("cfunction"), ReturnC(Running), UNCHANGED <<over, program>>
  PROVE  IInv'
<1> DEFINE L == Running
           x == luaD_poscall(th[L])
<1>1. cs # <<>> /\ mode = "run" /\ Top.fn = "cfunction" BY DEF Runs, On
<1>2. L \in Threads /\ th[L] \in ThreadSet /\ th[L].status = "ok"
  BY <1>1, RunningFacts DEF Returns
<1>3. /\ Len(th[L].ci) \in Nat /\ th[L].size_ci \in Nat /\ Len(th[L].ci) <= th[L].size_ci
      /\ th[L].nCcalls \in Nat
      /\ Len(th[L].ci) - Infos(Top, L) > 0 /\ Infos(Top, L) = 1
  BY <1>1, TopFacts DEF Returns
<1>4. /\ x \in ThreadSet /\ Len(x.ci) = Len(th[L].ci) - 1
      /\ \A j \in 1 .. Len(x.ci) : x.ci[j] = th[L].ci[j]
      /\ x.size_ci = th[L].size_ci /\ x.status = "ok" /\ x.nCcalls = th[L].nCcalls
      /\ x.baseCcalls = th[L].baseCcalls /\ x.errfunc = th[L].errfunc /\ x.left = th[L].left
  <2>1. Len(th[L].ci) > 0 BY <1>3
  <2> QED BY <1>2, <2>1, PoscallFacts
<1>5. Levels(Top) = 0 BY <1>1 DEF Levels
<1>6. Step(L, x, Below, "return") BY DEF ReturnC
<1> HIDE DEF x
<1>7. /\ Len(x.ci) = Len(th[L].ci) - Infos(Top, L) /\ Len(x.ci) \in 1 .. x.size_ci
      /\ x.nCcalls = th[L].nCcalls - Levels(Top)
  BY <1>3, <1>4, <1>5
<1> QED BY <1>1, <1>4, <1>6, <1>7, PopStep

(* Parsed, FromCall and FromPcall: the thread keeps its CallInfos.         *)
LEMMA LeaveInv ==
  ASSUME IInv, Parsed \/ FromCall \/ FromPcall PROVE IInv'
<1> DEFINE L == Running
<1>1. /\ cs # <<>> /\ mode \in {"run", "return"} /\ UNCHANGED <<over, program>>
      /\ Top.fn \in {"parser", "call", "pcall"}
  BY DEF Parsed, FromCall, FromPcall, Runs, Returns, On
<1>2. L \in Threads /\ th[L] \in ThreadSet /\ th[L].status = "ok" /\ Top \in FrameSet
  BY <1>1, RunningFacts DEF Returns, On
<1>3. /\ Len(th[L].ci) \in Nat /\ th[L].size_ci \in Nat /\ Len(th[L].ci) <= th[L].size_ci
      /\ th[L].nCcalls \in Nat /\ Levels(Top) <= th[L].nCcalls /\ Levels(Top) \in Nat
      /\ Len(th[L].ci) - Infos(Top, L) > 0
  BY <1>1, TopFacts DEF Returns, On
<1>4. Infos(Top, L) = 0 BY <1>1 DEF Infos
<1>5. Len(th[L].ci) = Len(th[L].ci) - Infos(Top, L) /\ Len(th[L].ci) \in 1 .. th[L].size_ci
  BY <1>3, <1>4
<1>6. CASE Parsed
  <2>1. Levels(Top) = 0 /\ Top.fn = "parser" /\ Step(L, th[L], Below, "return")
    BY <1>6 DEF Parsed, Runs, On, Levels
  <2>2. th[L].nCcalls = th[L].nCcalls - Levels(Top) BY <1>3, <2>1
  <2> QED BY <1>1, <1>2, <1>5, <2>1, <2>2, PopStep
<1>7. CASE FromCall
  <2> DEFINE y == [th[L] EXCEPT !.nCcalls = @ - 1]
  <2>1. Levels(Top) = 1 /\ Top.fn = "call" /\ Step(L, y, Below, "return")
    BY <1>7 DEF FromCall, Returns, On, Levels
  <2>2. th[L].nCcalls - 1 \in Nat BY <1>3, <2>1
  <2>3. /\ y \in ThreadSet /\ y.ci = th[L].ci /\ y.size_ci = th[L].size_ci
        /\ y.status = "ok" /\ y.nCcalls = th[L].nCcalls - 1
        /\ y.baseCcalls = th[L].baseCcalls /\ y.errfunc = th[L].errfunc /\ y.left = th[L].left
    BY <1>2, <2>2 DEF ThreadSet
  <2> HIDE DEF y
  <2> QED BY <1>1, <1>5, <2>1, <2>3, PopStep
<1>8. CASE FromPcall
  <2> DEFINE y == [th[L] EXCEPT !.errfunc = Top.errfunc]
  <2>1. Levels(Top) = 0 /\ Top.fn = "pcall" /\ Step(L, y, Below, "return")
    BY <1>8 DEF FromPcall, Returns, On, Levels
  <2>2. Top.errfunc \in BOOLEAN BY <1>2, <2>1, FrameFacts
  <2>3. /\ y \in ThreadSet /\ y.ci = th[L].ci /\ y.size_ci = th[L].size_ci
        /\ y.status = "ok" /\ y.nCcalls = th[L].nCcalls
        /\ y.baseCcalls = th[L].baseCcalls /\ y.errfunc = Top.errfunc /\ y.left = th[L].left
    BY <1>2, <2>2 DEF ThreadSet
  <2>4. y.nCcalls = th[L].nCcalls - Levels(Top) BY <1>3, <2>1, <2>3
  <2> HIDE DEF y
  <2> QED BY <1>1, <1>5, <2>1, <2>3, <2>4, PopStep
<1> QED BY <1>6, <1>7, <1>8

(* enterlevel and leavelevel of the parser keep the invariant: the frame   *)
(* of luaY_parser knows how many levels it has counted.                    *)
LEMMA LevelInv ==
  ASSUME IInv, enterlevel \/ leavelevel PROVE IInv'
<1> DEFINE L == Running
           k == Top.level
<1>1. cs # <<>> /\ mode = "run" /\ Top.fn = "parser" /\ UNCHANGED <<over, program>>
  BY DEF enterlevel, leavelevel, Runs, On
<1>2. /\ L \in Threads /\ th[L] \in ThreadSet /\ th[L].status = "ok" /\ Top \in FrameSet
      /\ th[L].nCcalls < LUAI_MAXCCALLS + ErrorCcalls
  BY <1>1, RunningFacts DEF Returns
<1>3. /\ Len(th[L].ci) \in Nat /\ th[L].nCcalls \in Nat /\ Levels(Top) <= th[L].nCcalls
      /\ Len(th[L].ci) - Infos(Top, L) > 0
  BY <1>1, TopFacts DEF Returns
<1>4. Infos(Top, L) = 0 /\ Levels(Top) = k /\ k \in Nat BY <1>1, <1>2, FrameFacts DEF Infos, Levels
<1>5. LUAI_MAXCCALLS \in Nat /\ ErrorCcalls \in Nat /\ ErrorCcalls > 0 BY LimitsAssumption
<1> HIDE DEF k
<1>6. ASSUME NEW j \in Nat, NEW c \in Nat, c = th[L].nCcalls - k + j, c <= th[L].nCcalls + 1,
             NEW m \in {"run", "errrun"}, m = "run" => c < LUAI_MAXCCALLS + ErrorCcalls,
             Step(L, [th[L] EXCEPT !.nCcalls = c], Append(Below, Parser(L, j)), m)
      PROVE  IInv'
  <2> DEFINE y == [th[L] EXCEPT !.nCcalls = c]
             f == Parser(L, j)
  <2>1. f \in FrameSet /\ f.fn = "parser" /\ f.L = L /\ Levels(f) = j /\ Infos(f, L) = 0
    BY <1>2, Constructors
  <2>2. /\ y \in ThreadSet /\ y.ci = th[L].ci /\ y.size_ci = th[L].size_ci
        /\ y.status = "ok" /\ y.nCcalls = c
        /\ y.baseCcalls = th[L].baseCcalls /\ y.errfunc = th[L].errfunc /\ y.left = th[L].left
    BY <1>2 DEF ThreadSet
  <2>3. Step(L, y, Append(Below, f), m) BY <1>6
  <2> HIDE DEF y, f
  <2>4. /\ Len(y.ci) = Len(th[L].ci) - Infos(Top, L) + Infos(f, L)
        /\ y.nCcalls = th[L].nCcalls - Levels(Top) + Levels(f)
        /\ Len(y.ci) > 0 /\ Len(y.ci) <= Len(th[L].ci)
        /\ y.nCcalls <= th[L].nCcalls + 1
        /\ m = "run" => y.nCcalls < LUAI_MAXCCALLS + ErrorCcalls
    BY <1>3, <1>4, <1>6, <2>1, <2>2
  <2> QED BY <1>1, <2>1, <2>2, <2>3, <2>4, ReplaceStep
<1>7. CASE enterlevel
  <2> DEFINE c == th[L].nCcalls + 1
             m == IF c > LUAI_MAXCCALLS THEN "errrun" ELSE "run"
  <2>1. Step(L, [th[L] EXCEPT !.nCcalls = c], Append(Below, Parser(L, k + 1)), m)
    BY <1>7 DEF enterlevel, k
  <2>2. /\ k + 1 \in Nat /\ c \in Nat /\ c = th[L].nCcalls - k + (k + 1)
        /\ c <= th[L].nCcalls + 1
        /\ m \in {"run", "errrun"} /\ (m = "run" => c < LUAI_MAXCCALLS + ErrorCcalls)
    BY <1>3, <1>4, <1>5
  <2> HIDE DEF c, m
  <2> QED BY <1>6, <2>1, <2>2
<1>8. CASE leavelevel
  <2> DEFINE c == th[L].nCcalls - 1
  <2>1. k > 0 /\ Step(L, [th[L] EXCEPT !.nCcalls = c], Append(Below, Parser(L, k - 1)), "run")
    BY <1>8 DEF leavelevel, k
  <2>2. /\ k - 1 \in Nat /\ c \in Nat /\ c = th[L].nCcalls - k + (k - 1)
        /\ c <= th[L].nCcalls + 1 /\ c < LUAI_MAXCCALLS + ErrorCcalls
    BY <1>2, <1>3, <1>4, <1>5, <2>1
  <2> HIDE DEF c
  <2> QED BY <1>6, <2>1, <2>2
<1> QED BY <1>7, <1>8

(* The C function on top goes on at another point.                         *)
LEMMA GoesOnInv ==
  ASSUME IInv, cs # <<>>, Top.fn = "cfunction", mode \in {"run", "return"},
         NEW at \in {"start", "after", "failed"},
         Step(Running, th[Running], Append(Below, CFunction(Running, Top.f, at)), "run"),
         UNCHANGED <<over, program>>
  PROVE  IInv'
<1> DEFINE L == Running
           f == CFunction(L, Top.f, at)
<1>1. /\ L \in Threads /\ th[L] \in ThreadSet /\ th[L].status = "ok" /\ Top \in FrameSet
      /\ th[L].nCcalls < LUAI_MAXCCALLS + ErrorCcalls
  BY RunningFacts DEF Returns, On
<1>2. /\ Len(th[L].ci) \in Nat /\ th[L].nCcalls \in Nat
      /\ Len(th[L].ci) - Infos(Top, L) > 0 /\ Infos(Top, L) = 1
  BY TopFacts DEF Returns, On
<1>3. Levels(Top) = 0 /\ Top.f \in Names BY <1>1, FrameFacts DEF Levels
<1>4. f \in FrameSet /\ f.fn = "cfunction" /\ f.L = L /\ f.f = Top.f /\ Levels(f) = 0 /\ Infos(f, L) = 1
  BY <1>1, <1>3, Constructors
<1>5. Step(L, th[L], Append(Below, f), "run") OBVIOUS
<1> HIDE DEF f
<1>6. /\ Len(th[L].ci) = Len(th[L].ci) - Infos(Top, L) + Infos(f, L)
      /\ th[L].nCcalls = th[L].nCcalls - Levels(Top) + Levels(f)
      /\ Len(th[L].ci) > 0 /\ Len(th[L].ci) <= Len(th[L].ci)
      /\ th[L].nCcalls <= th[L].nCcalls + 1
      /\ mode \notin {"errrun", "errerr"} /\ "run" \in {"run", "errrun"}
  BY <1>2, <1>3, <1>4
<1> QED BY <1>1, <1>4, <1>5, <1>6, ReplaceStep

(* Raising an error, and going on after a call, change the mode only.      *)
LEMMA ModesInv ==
  ASSUME IInv, Raise \/ luaX_syntaxerror \/ WrapFails \/ ToExecute \/ HandlerReturns
  PROVE  IInv'
<1>1. /\ cs # <<>> /\ mode \in {"run", "return"} /\ UNCHANGED <<over, program>>
      /\ Top.fn \in {"execute", "cfunction", "parser", "handler"}
  BY DEF Raise, luaX_syntaxerror, WrapFails, ToExecute, HandlerReturns, Runs, InC, Returns, On
<1>2. PICK m \in {"run", "error", "errrun"} :
         /\ Step(Running, th[Running], cs, m)
         /\ m = "run" => Top.fn \in {"execute", "parser"}
  BY DEF Raise, luaX_syntaxerror, WrapFails, ToExecute, HandlerReturns, Returns, On
<1>3. TopFits(cs, m) BY <1>1, <1>2 DEF TopFits, Top, Last
<1> QED BY <1>1, <1>2, <1>3, ModeStep DEF Returns, On

-----------------------------------------------------------------------------
(* Coroutines                                                              *)

(* ToCFunction and ResumeRefused: a C function goes on.                    *)
LEMMA OnwardInv ==
  ASSUME IInv, ToCFunction \/ \E co \in Coroutines : ResumeRefused(co) PROVE IInv'
<1>1. CASE ToCFunction
  <2>1. /\ cs # <<>> /\ mode = "return" /\ Top.fn = "cfunction" /\ UNCHANGED <<over, program>>
        /\ Step(Running, th[Running], Append(Below, CFunction(Running, Top.f, "after")), "run")
    BY <1>1 DEF ToCFunction, Returns, On
  <2> QED BY <2>1, GoesOnInv
<1>2. CASE \E co \in Coroutines : ResumeRefused(co)
  <2>1. PICK at \in {"after", "failed"} :
           /\ cs # <<>> /\ mode = "run" /\ Top.fn = "cfunction" /\ UNCHANGED <<over, program>>
           /\ Step(Running, th[Running], Append(Below, CFunction(Running, Top.f, at)), "run")
    BY <1>2 DEF ResumeRefused, InC, Runs, On, Refused
  <2> QED BY <2>1, GoesOnInv
<1> QED BY <1>1, <1>2

(* While the program runs, a coroutine with frames on the native stack is  *)
(* the running one or has resumed another.                                 *)
LEMMA ResumedCoroutine ==
  ASSUME IInv, cs # <<>>, mode = "run", NEW co \in Coroutines, Has(cs, co), co # Running
  PROVE  th[co].status = "ok" /\ Len(th[co].ci) > 1
<1> DEFINE n == Len(cs)
           S == {i \in 1 .. n : cs[i].L = co}
<1>1. /\ Wf(th, cs) /\ cs \in Seq(FrameSet) /\ n \in Nat /\ DOMAIN cs = 1 .. n
      /\ Running = cs[n].L /\ th \in [Threads -> ThreadSet]
  BY RunningFacts
<1>2. co \in Threads BY DEF Threads
<1>3. S \in SUBSET (1 .. n) /\ S # {} BY <1>1 DEF Has
<1>4. PICK m \in S : \A i \in S : i <= m
  <2> HIDE DEF S
  <2> QED BY <1>1, <1>3, GreatestElement
<1>5. m \in 1 .. n /\ cs[m].L = co /\ \A i \in 1 .. n : cs[i].L = co => i <= m BY <1>4
<1> HIDE DEF n, S
<1>6. m < n /\ m + 1 \in 1 .. n /\ m + 1 > 1 /\ (m + 1) - 1 = m /\ m - 1 \in 0 .. n - 1
      /\ (m - 1) + 1 = m /\ m \in 0 .. n /\ n \in 0 .. n
  <2>1. m # n BY <1>1, <1>5
  <2> QED BY <1>1, <1>5, <2>1
<1>7. cs[m + 1].L # co BY <1>5, <1>6
<1>8. cs[m].fn = "cfunction"
  <2>1. Sits(cs, m + 1) BY <1>1, <1>6 DEF Wf
  <2>2. cs[m + 1].fn # "resume" => cs[m + 1].L = cs[m].L BY <1>6, <2>1 DEF Sits
  <2>3. cs[m + 1].fn = "resume" => cs[m].fn = "cfunction" BY <1>6, <2>1 DEF Sits
  <2> QED BY <1>5, <1>7, <2>2, <2>3
<1>9. th[co].status = "ok"
  <2>1. Status(th[co], co, cs, mode) BY <1>2 DEF IInv, Inv
  <2>2. th[co].status \in {"ok", "yield", "err"} BY <1>1, <1>2, ThreadFacts
  <2>3. th[co].status # "err" BY <2>1 DEF Status
  <2>4. th[co].status # "yield" BY <1>1, <1>5, <2>1 DEF Status
  <2> QED BY <2>2, <2>3, <2>4
<1>10. Len(th[co].ci) = 1 + Depth(cs, co, n)
  <2>1. Exact(th[co], cs, co) BY <1>1, <1>2 DEF Wf
  <2> QED BY <1>9, <2>1 DEF Exact, Active, Has, n
<1>11. Infos(cs[m], co) = 1 BY <1>5, <1>8 DEF Infos
<1>12. /\ Depth(cs, co, m - 1) \in Nat /\ Depth(cs, co, n) \in Nat
       /\ Depth(cs, co, m) = Depth(cs, co, m - 1) + 1
       /\ Depth(cs, co, m) <= Depth(cs, co, n)
  <2>1. m - 1 \in 0 .. n BY <1>6, <1>1
  <2>2. Depth(cs, co, m - 1) \in Nat /\ Depth(cs, co, n) \in Nat
    BY <1>1, <1>6, <2>1, DepthFacts DEF n
  <2>3. Depth(cs, co, (m - 1) + 1) = Depth(cs, co, m - 1) + Infos(cs[(m - 1) + 1], co)
    BY <1>1, <1>6, DepthFacts DEF n
  <2>4. m \in 0 .. n BY <1>6
  <2>5. Depth(cs, co, m) <= Depth(cs, co, n) BY <1>1, <1>6, <2>4, DepthFacts DEF n
  <2> QED BY <1>6, <1>11, <2>2, <2>3, <2>5
<1>13. Len(th[co].ci) > 1 BY <1>10, <1>12
<1> QED BY <1>9, <1>13

(* What costatus tells of a coroutine: it is dead or suspended only when   *)
(* it has no frame on the native stack.                                    *)
LEMMA CostatusFacts ==
  ASSUME IInv, cs # <<>>, mode = "run", NEW co \in Coroutines,
         costatus(Running, co) \in {"dead", "suspended"}
  PROVE  /\ co # Running /\ ~Has(cs, co) /\ co \in Threads /\ co # Main
         /\ th[co] \in ThreadSet /\ Status(th[co], co, cs, mode)
         /\ costatus(Running, co) = "suspended" =>
               \/ th[co].status = "yield"
               \/ th[co].status = "ok" /\ Len(th[co].ci) = 1 /\ th[co].left # "nothing"
<1>1. co \in Threads /\ co # Main BY LimitsAssumption DEF Threads
<1>2. th[co] \in ThreadSet BY <1>1, RunningFacts
<1>3. Status(th[co], co, cs, mode) BY <1>1 DEF IInv, Inv
<1>4. co # Running BY DEF costatus
<1>5. ~Has(cs, co)
  <2>1. SUFFICES ASSUME Has(cs, co) PROVE FALSE OBVIOUS
  <2>2. th[co].status = "ok" /\ Len(th[co].ci) > 1 BY <1>4, <2>1, ResumedCoroutine
  <2>3. costatus(Running, co) = "normal" BY <1>4, <2>2 DEF costatus
  <2> QED BY <2>3
<1>6. ASSUME costatus(Running, co) = "suspended", th[co].status # "yield"
      PROVE  th[co].status = "ok" /\ Len(th[co].ci) = 1 /\ th[co].left # "nothing"
  <2>1. th[co].status = "ok" BY <1>4, <1>6 DEF costatus
  <2>2. Len(th[co].ci) = 1 BY <1>1, <1>3, <1>5, <2>1 DEF Status
  <2>3. th[co].left # "nothing" BY <1>4, <1>6, <2>1, <2>2 DEF costatus
  <2> QED BY <2>1, <2>2, <2>3
<1> QED BY <1>1, <1>2, <1>3, <1>4, <1>5, <1>6

(* A coroutine that is not on the native stack is changed.                 *)
LEMMA IdleInv ==
  ASSUME IInv, cs # <<>>, mode = "run", NEW co \in Coroutines, ~Has(cs, co),
         NEW y \in ThreadSet, Len(y.ci) \in 1 .. y.size_ci, Status(y, co, cs, "run"),
         y.status # "err",
         NEW ov, \A M \in Threads : M # co => (M \in over <=> M \in ov),
         ~ManyResults => Over(y, co, cs, ov)
  PROVE  Inv([th EXCEPT ![co] = y], cs, "run", ov)
<1>1. co \in Threads /\ co # Main BY LimitsAssumption DEF Threads
<1>2. Wf(th, cs) /\ cs \in Seq(FrameSet) /\ Len(cs) \in Nat /\ DOMAIN cs = 1 .. Len(cs)
  BY RunningFacts
<1>3. SubSeq(cs, 1, Len(cs)) = cs BY <1>2, SubSeqFull
<1>4. /\ Len(cs) \in 0 .. Len(cs) /\ \A i \in Len(cs) + 1 .. Len(cs) : cs[i].L = co
      /\ ~(co = Main \/ \E i \in 1 .. Len(cs) : cs[i].L = co)
  BY <1>1, <1>2 DEF Has
<1>5. Wf([th EXCEPT ![co] = y], SubSeq(cs, 1, Len(cs))) BY <1>1, <1>2, <1>4, CutWf
<1>6. Wf([th EXCEPT ![co] = y], cs) BY <1>3, <1>5
<1>7. SameOthers(cs, cs, co) BY DEF SameOthers
<1>8. Inv(th, cs, mode, over) /\ TopFits(cs, "run") BY DEF IInv, Inv
<1> QED BY <1>1, <1>6, <1>7, <1>8, StepInv

(* Then the thread on top takes a step of its own.                         *)
LEMMA ThenInv ==
  ASSUME NEW t, NEW s, NEW ov, Inv(t, s, "run", ov), s # <<>>,
         NEW L \in Threads, L = s[Len(s)].L,
         NEW y \in ThreadSet, y.status = "ok", y.left = t[L].left,
         NEW u, Wf([t EXCEPT ![L] = y], u), SameOthers(s, u, L),
         L = Main \/ Has(u, L), NEW m, TopFits(u, m),
         y.nCcalls < LUAI_MAXCCALLS + ErrorCcalls
  PROVE  Inv([t EXCEPT ![L] = y], u, m, ov)
<1>1. Status(y, L, u, m) BY DEF Status
<1>2. ~ManyResults /\ L # Main => Over(y, L, u, ov)
  <2>1. SUFFICES ASSUME ~ManyResults, L # Main PROVE Over(y, L, u, ov) OBVIOUS
  <2>2. L \in Coroutines BY <2>1 DEF Threads
  <2>3. Over(t[L], L, s, ov) BY <2>1, <2>2 DEF Inv
  <2>4. Has(s, L)
    <3>1. Wf(t, s) BY DEF Inv
    <3> QED BY <3>1, WfFacts DEF Has
  <2> QED BY <2>1, <2>2, <2>3, <2>4 DEF Over
<1>3. Bounded(y.nCcalls, L, u, m) BY DEF Bounded
<1> QED BY <1>1, <1>2, <1>3, StepInv

(* The C function on top goes on at another point.                         *)
LEMMA GoesOn ==
  ASSUME NEW t, NEW s, NEW ov, Inv(t, s, "run", ov), s # <<>>,
         s[Len(s)].fn = "cfunction", NEW at \in {"start", "after", "failed"}
  PROVE  LET L == s[Len(s)].L
         IN  Inv(t, Append(SubSeq(s, 1, Len(s) - 1), CFunction(L, s[Len(s)].f, at)), "run", ov)
<1> DEFINE n == Len(s)
           L == s[n].L
           f == CFunction(L, s[n].f, at)
           v == SubSeq(s, 1, n - 1)
           u == Append(v, f)
<1>1. Wf(t, s) BY DEF Inv
<1>2. /\ t \in [Threads -> ThreadSet] /\ s \in Seq(FrameSet) /\ n \in Nat /\ n > 0
      /\ DOMAIN s = 1 .. n /\ n \in 1 .. n /\ s[n] \in FrameSet /\ L \in Threads
      /\ Len(t[L].ci) \in 1 .. t[L].size_ci /\ t[L] \in ThreadSet
  BY <1>1, WfFacts
<1>3. Has(s, L) BY <1>2 DEF Has
<1>4. t[L].status = "ok"
  <2>1. Status(t[L], L, s, "run") BY <1>2 DEF Inv
  <2>2. t[L].status \in {"ok", "yield", "err"} BY <1>2, ThreadFacts
  <2> QED BY <1>2, <1>3, <2>1, <2>2 DEF Status
<1>5. t[L].nCcalls < LUAI_MAXCCALLS + ErrorCcalls
  <2>1. Bounded(t[L].nCcalls, L, s, "run") BY <1>2, <1>3 DEF Inv
  <2> QED BY <2>1 DEF Bounded
<1>6. s[n].f \in Names BY <1>2, FrameFacts
<1>7. f \in FrameSet /\ f.fn = "cfunction" /\ f.L = L /\ f.f = s[n].f /\ Levels(f) = 0 /\ Infos(f, L) = 1
  BY <1>2, <1>6, Constructors
<1> HIDE DEF f
<1>8. Infos(s[n], L) = 1 /\ Levels(s[n]) = 0 BY DEF Infos, Levels
<1>9. Len(t[L].ci) \in Nat /\ t[L].nCcalls \in Nat BY <1>2, ThreadFacts
<1>10. t[L].ci[Len(t[L].ci)] = f.f BY <1>1, <1>4, <1>7, TopContent
<1>11. /\ Len(t[L].ci) = Len(t[L].ci) - Infos(s[n], L) + Infos(f, L)
       /\ t[L].nCcalls = t[L].nCcalls - Levels(s[n]) + Levels(f)
  BY <1>7, <1>8, <1>9
<1>12. Wf([t EXCEPT ![L] = t[L]], u) BY <1>1, <1>2, <1>4, <1>7, <1>10, <1>11, ReplaceWf
<1>13. v \in Seq(FrameSet) /\ SameOthers(s, v, L)
  <2> DEFINE k == n - 1
  <2>1. k \in 0 .. n /\ \A i \in k + 1 .. n : i = n BY <1>2
  <2> HIDE DEF k
  <2>2. SubSeq(s, 1, k) \in Seq(FrameSet) /\ SameOthers(s, SubSeq(s, 1, k), L) BY <1>2, <2>1, SameCut
  <2> QED BY <2>2 DEF k
<1> HIDE DEF v
<1>14. SameOthers(s, u, L) /\ Has(u, L) BY <1>7, <1>13, SamePush, SameTrans
<1>15. u # <<>> /\ u[Len(u)] = f BY <1>7, <1>13, Appended
<1>16. TopFits(u, "run") BY <1>7, <1>15 DEF TopFits
<1> HIDE DEF u
<1>17. Inv([t EXCEPT ![L] = t[L]], u, "run", ov)
  BY <1>2, <1>4, <1>5, <1>12, <1>14, <1>16, ThenInv
<1>18. [t EXCEPT ![L] = t[L]] = t BY <1>2
<1> QED BY <1>17, <1>18 DEF u, v, f

(* luaB_cocreate keeps the invariant: the place of a coroutine is taken    *)
(* only when it has no frame.                                              *)
LEMMA CocreateInv ==
  ASSUME IInv, NEW co \in Coroutines, luaB_cocreate(co) PROVE IInv'
<1> DEFINE L == Running
           t == [th EXCEPT ![co] = NewThread]
           ov == over \ {co}
           y == luaD_poscall(th[L])
<1>1. /\ cs # <<>> /\ mode = "run" /\ Top.fn = "cfunction" /\ costatus(L, co) = "dead"
      /\ th' = [th EXCEPT ![co] = NewThread, ![L] = luaD_poscall(@)]
      /\ cs' = Below /\ mode' = "return" /\ over' = ov /\ program' = program
  BY DEF luaB_cocreate, InC, Runs, On
<1>2. co # L /\ ~Has(cs, co) /\ co \in Threads /\ co # Main
  BY <1>1, CostatusFacts
<1>3. /\ NewThread \in ThreadSet /\ Len(NewThread.ci) = 1 /\ Len(NewThread.ci) \in 1 .. NewThread.size_ci
      /\ NewThread.status = "ok" /\ NewThread.left = "body" /\ ~NewThread.errfunc
  <2>1. BASIC_CI_SIZE \in Nat /\ BASIC_CI_SIZE >= 1 BY LimitsAssumption
  <2>2. <<"base">> \in Seq(Names) /\ Len(<<"base">>) = 1 BY DEF Names
  <2> QED BY <2>1, <2>2 DEF NewThread, ThreadSet
<1>4. Status(NewThread, co, cs, "run") BY <1>2, <1>3 DEF Status
<1>5. Over(NewThread, co, cs, ov) BY <1>2, <1>3 DEF Over
<1>6. Inv(t, cs, "run", ov)
  <2>1. \A M \in Threads : M # co => (M \in over <=> M \in ov) OBVIOUS
  <2> HIDE DEF ov
  <2> QED BY <1>1, <1>2, <1>3, <1>4, <1>5, <2>1, IdleInv
<1>7. /\ L \in Threads /\ th[L] \in ThreadSet /\ th[L].status = "ok" /\ Top = cs[Len(cs)]
      /\ L = cs[Len(cs)].L /\ Below = SubSeq(cs, 1, Len(cs) - 1)
      /\ th[L].nCcalls < LUAI_MAXCCALLS + ErrorCcalls
      /\ th \in [Threads -> ThreadSet]
  BY <1>1, RunningFacts DEF Returns, On
<1>8. /\ Len(th[L].ci) \in Nat /\ th[L].size_ci \in Nat /\ Len(th[L].ci) <= th[L].size_ci
      /\ th[L].nCcalls \in Nat /\ Infos(Top, L) = 1 /\ Len(th[L].ci) - Infos(Top, L) > 0
  BY <1>1, TopFacts DEF Returns
<1>9. t[L] = th[L] BY <1>2, <1>7
<1>10. /\ y \in ThreadSet /\ Len(y.ci) = Len(th[L].ci) - 1
       /\ \A j \in 1 .. Len(y.ci) : y.ci[j] = th[L].ci[j]
       /\ y.size_ci = th[L].size_ci /\ y.status = "ok" /\ y.nCcalls = th[L].nCcalls
       /\ y.baseCcalls = th[L].baseCcalls /\ y.errfunc = th[L].errfunc /\ y.left = th[L].left
  <2>1. Len(th[L].ci) > 0 BY <1>8
  <2> QED BY <1>7, <2>1, PoscallFacts
<1>11. th' = [t EXCEPT ![L] = y] BY <1>1, <1>2, <1>7
<1>12. Levels(Top) = 0 BY <1>1 DEF Levels
<1> HIDE DEF t, y, ov
<1>13. /\ Len(y.ci) = Len(t[L].ci) - Infos(Top, L) /\ y.nCcalls = t[L].nCcalls - Levels(Top)
       /\ Len(y.ci) \in 1 .. y.size_ci
  BY <1>8, <1>9, <1>10, <1>12
<1>14. Wf([t EXCEPT ![L] = y], Below)
  <2>1. Wf(t, cs) BY <1>6 DEF Inv
  <2>2. /\ y.errfunc <=> IF cs[Len(cs)].fn = "pcall" THEN cs[Len(cs)].errfunc ELSE t[L].errfunc
        /\ cs[Len(cs)].fn # "resume"
    BY <1>1, <1>7, <1>9, <1>10
  <2>3. /\ Len(y.ci) = Len(t[L].ci) - Infos(cs[Len(cs)], L)
        /\ y.nCcalls = t[L].nCcalls - Levels(cs[Len(cs)])
        /\ Len(y.ci) \in 1 .. y.size_ci
    BY <1>7, <1>13
  <2>4. /\ t[L].status = "ok" /\ y.status = "ok" /\ y.baseCcalls = t[L].baseCcalls
        /\ \A j \in 1 .. Len(y.ci) : y.ci[j] = t[L].ci[j]
    BY <1>7, <1>9, <1>10
  <2>5. Wf([t EXCEPT ![L] = y], SubSeq(cs, 1, Len(cs) - 1))
    BY <1>1, <1>7, <1>10, <2>1, <2>2, <2>3, <2>4, PopWf
  <2> QED BY <1>7, <2>5
<1>15. SameOthers(cs, Below, L) /\ (L = Main \/ Has(Below, L)) BY <1>1, BelowFacts
<1>16. TopFits(Below, "return") BY DEF TopFits
<1>17. Inv([t EXCEPT ![L] = y], Below, "return", ov)
  BY <1>1, <1>6, <1>7, <1>9, <1>10, <1>14, <1>15, <1>16, ThenInv
<1> QED BY <1>1, <1>11, <1>17 DEF IInv

(* A resume that lua_resume refuses for the level of its caller keeps the  *)
(* invariant, though it changes a coroutine that does not run.             *)
LEMMA OverflowInv ==
  ASSUME IInv, NEW co \in Coroutines, ResumeOverflow(co) PROVE IInv'
<1> DEFINE L == Running
           first == Len(th[co].ci) = 1
           x == [th[co] EXCEPT !.nCcalls = th[L].nCcalls, !.left = IF first THEN "nothing" ELSE @]
           t == [th EXCEPT ![co] = x]
           ov == IF first THEN over \cup {co} ELSE over
<1>1. /\ cs # <<>> /\ mode = "run" /\ Top.fn = "cfunction" /\ Top.f \in {"resume", "wrap"}
      /\ costatus(L, co) = "suspended"
      /\ th' = t /\ cs' = Refused(Top.f) /\ mode' = "run" /\ over' = ov /\ program' = program
  BY DEF ResumeOverflow, InC, Runs, On, Step
<1>2. /\ co # L /\ ~Has(cs, co) /\ co \in Threads /\ co # Main
      /\ th[co] \in ThreadSet /\ Status(th[co], co, cs, mode)
      /\ \/ th[co].status = "yield"
         \/ th[co].status = "ok" /\ Len(th[co].ci) = 1 /\ th[co].left # "nothing"
  BY <1>1, CostatusFacts
<1>3. /\ L \in Threads /\ th[L] \in ThreadSet /\ th[L].status = "ok" /\ Top = cs[Len(cs)]
      /\ L = cs[Len(cs)].L /\ Below = SubSeq(cs, 1, Len(cs) - 1)
      /\ th[L].nCcalls < LUAI_MAXCCALLS + ErrorCcalls
      /\ th \in [Threads -> ThreadSet] /\ Top \in FrameSet
      /\ Wf(th, cs)
  BY <1>1, RunningFacts DEF Returns, On
<1>4. th[L].nCcalls \in Nat /\ th[co].left \in {"body", "nothing", "results"} BY <1>2, <1>3, ThreadFacts
<1>5. /\ x \in ThreadSet /\ x.ci = th[co].ci /\ x.size_ci = th[co].size_ci
      /\ x.status = th[co].status /\ x.errfunc = th[co].errfunc
      /\ first => x.left = "nothing"
      /\ ~first => x.left = th[co].left
  BY <1>2, <1>4 DEF ThreadSet
<1>6. t[L] = th[L] BY <1>2, <1>3
<1> HIDE DEF x
<1>7. Status(x, co, cs, "run") BY <1>1, <1>2, <1>5 DEF Status
<1>8. th[co].status = "yield" => Len(th[co].ci) >= 3 BY <1>2 DEF Status
<1>9. ~ManyResults => Over(x, co, cs, ov)
  <2>1. SUFFICES ASSUME ~ManyResults PROVE Over(x, co, cs, ov) OBVIOUS
  <2>2. Over(th[co], co, cs, over) BY <2>1 DEF IInv, Inv
  <2>3. CASE th[co].status = "yield"
    <3>1. ~first BY <1>8, <2>3
    <3> QED BY <1>2, <1>5, <2>2, <2>3, <3>1 DEF Over
  <2>4. CASE th[co].status = "ok" /\ Len(th[co].ci) = 1
    <3> QED BY <1>2, <1>5, <2>4 DEF Over
  <2> QED BY <1>2, <2>3, <2>4
<1>10. Len(x.ci) \in 1 .. x.size_ci BY <1>2, <1>3, <1>5, WfFacts
<1>11. \A M \in Threads : M # co => (M \in over <=> M \in ov) OBVIOUS
<1> HIDE DEF ov, first
<1>12. Inv(t, cs, "run", ov) BY <1>1, <1>2, <1>5, <1>7, <1>9, <1>10, <1>11, IdleInv
<1> HIDE DEF t
<1>13. PICK at \in {"after", "failed"} : Refused(Top.f) = Append(Below, CFunction(L, Top.f, at))
  BY <1>1 DEF Refused
<1>14. Inv(t, Append(SubSeq(cs, 1, Len(cs) - 1), CFunction(L, Top.f, at)), "run", ov)
  BY <1>1, <1>3, <1>12, GoesOn
<1>15. cs' = Append(SubSeq(cs, 1, Len(cs) - 1), CFunction(L, Top.f, at)) BY <1>1, <1>3, <1>13
<1> QED BY <1>1, <1>14, <1>15 DEF IInv

(* A coroutine has been resumed and runs.                                  *)
LEMMA ResumedInv ==
  ASSUME IInv, cs # <<>>, mode = "run", NEW co \in Coroutines, ~Has(cs, co),
         NEW y \in ThreadSet, y.status = "ok", y.left = "nothing",
         th' = [th EXCEPT ![co] = y], Wf([th EXCEPT ![co] = y], cs'),
         SameOthers(cs, cs', co), Has(cs', co), TopFits(cs', mode'),
         Bounded(y.nCcalls, co, cs', mode'),
         th[co].status = "yield" \/ (th[co].status = "ok" /\ th[co].left # "nothing"),
         UNCHANGED <<over, program>>
  PROVE  IInv'
<1>1. co \in Threads BY DEF Threads
<1>2. Status(y, co, cs', mode') BY DEF Status
<1>3. ~ManyResults => Over(y, co, cs', over)
  <2>1. SUFFICES ASSUME ~ManyResults PROVE Over(y, co, cs', over) OBVIOUS
  <2>2. Over(th[co], co, cs, over) BY <2>1 DEF IInv, Inv
  <2> QED BY <2>2 DEF Over
<1>4. Inv(th, cs, mode, over) BY DEF IInv
<1>5. Inv([th EXCEPT ![co] = y], cs', mode', over) BY <1>1, <1>2, <1>3, <1>4, StepInv
<1> QED BY <1>5 DEF IInv

(* Resume keeps the invariant: a new coroutine enters its body, a          *)
(* suspended one goes on with exactly the Lua functions that the yield     *)
(* left on its list of CallInfos.                                          *)
LEMMA ResumeInv ==
  ASSUME IInv, NEW co \in Coroutines, Resume(co) PROVE IInv'
<1> DEFINE L == Running
           n == th[L].nCcalls + 1
           x == [th[co] EXCEPT !.nCcalls = n, !.baseCcalls = n, !.left = "nothing"]
           x1 == [x EXCEPT !.status = "ok"]
           y == luaD_poscall(x1)
           g == Frame("resume", co)
           s == Append(cs, g)
<1>1. /\ cs # <<>> /\ mode = "run" /\ Top.fn = "cfunction" /\ Top.f \in {"resume", "wrap"}
      /\ costatus(L, co) = "suspended" /\ th[L].nCcalls < LUAI_MAXCCALLS
      /\ UNCHANGED <<over, program>>
  BY DEF Resume, InC, Runs, On
<1>2. IF th[co].status = "ok" THEN luaD_precall(co, x, "lua", s)
      ELSE Step(co, y, Append(s, Execute(co, Len(y.ci) - 1)), "run")
  BY DEF Resume
<1>3. /\ co # L /\ ~Has(cs, co) /\ co \in Threads /\ co # Main
      /\ th[co] \in ThreadSet /\ Status(th[co], co, cs, mode)
      /\ \/ th[co].status = "yield"
         \/ th[co].status = "ok" /\ Len(th[co].ci) = 1 /\ th[co].left # "nothing"
  BY <1>1, CostatusFacts
<1>4. /\ L \in Threads /\ th[L] \in ThreadSet /\ Top = cs[Len(cs)]
      /\ L = cs[Len(cs)].L /\ th \in [Threads -> ThreadSet] /\ Wf(th, cs)
      /\ cs \in Seq(FrameSet) /\ DOMAIN cs = 1 .. Len(cs)
  BY <1>1, RunningFacts
<1>5. th[L].nCcalls \in Nat BY <1>4, ThreadFacts
<1>6. n \in Nat /\ n < LUAI_MAXCCALLS + ErrorCcalls BY <1>1, <1>5, LimitsAssumption
<1>7. ~th[co].errfunc BY <1>3 DEF Status
<1>8. Len(th[co].ci) \in 1 .. th[co].size_ci BY <1>3, <1>4, WfFacts
<1>9. th[co].ci \in Seq(Names) /\ th[co].size_ci \in Nat /\ Len(th[co].ci) \in Nat BY <1>3, ThreadFacts
<1>10. g \in FrameSet /\ g.fn = "resume" /\ g.L = co BY <1>3 DEF Frame, FrameSet
<1>11. /\ s # <<>> /\ s \in Seq(FrameSet) /\ s[Len(s)] = g /\ SameOthers(cs, s, co)
       /\ Len(s) \in Nat /\ Len(s) > 0
  <2>1. /\ s # <<>> /\ s \in Seq(FrameSet) /\ Len(s) = Len(cs) + 1 /\ s[Len(cs) + 1] = g
        /\ Len(cs) \in Nat
    BY <1>4, <1>10, Appended
  <2> HIDE DEF s
  <2>2. SameOthers(cs, s, co) BY <1>4, <1>10, SamePush DEF s
  <2> QED BY <2>1, <2>2
<1>12. ASSUME NEW z \in ThreadSet, z.nCcalls = n, z.baseCcalls = n, ~z.errfunc,
              Len(z.ci) = 1, Len(z.ci) \in 1 .. z.size_ci
       PROVE  Wf([th EXCEPT ![co] = z], s)
  <2>1. \A i \in DOMAIN cs : cs[i].L # co BY <1>3 DEF Has
  <2>2. /\ cs[Len(cs)].fn = "cfunction" /\ cs[Len(cs)].f \in {"resume", "wrap"}
        /\ z.nCcalls = th[cs[Len(cs)].L].nCcalls + 1 /\ z.baseCcalls = z.nCcalls
    BY <1>1, <1>4, <1>12
  <2> QED BY <1>1, <1>3, <1>4, <1>12, <2>1, <2>2, ResumeWf
<1> HIDE DEF n, s, g
<1>13. CASE th[co].status = "ok"
  <2>1. /\ x \in ThreadSet /\ x.ci = th[co].ci /\ x.size_ci = th[co].size_ci
        /\ x.status = "ok" /\ x.nCcalls = n /\ x.baseCcalls = n
        /\ x.errfunc = th[co].errfunc /\ x.left = "nothing"
    BY <1>3, <1>6, <1>13 DEF ThreadSet
  <2>2. luaD_precall(co, x, "lua", s) BY <1>2, <1>13
  <2> HIDE DEF x
  <2>3. Wf([th EXCEPT ![co] = x], s) BY <1>3, <1>7, <1>8, <1>12, <1>13, <2>1
  <2>4. "lua" \in Names \ {"base"} BY DEF Names
  <2>5. Ran(co, x, s) BY <1>3, <1>4, <1>6, <1>10, <1>11, <2>1, <2>2, <2>3, <2>4, PrecallStep
  <2>6. PICK v \in ThreadSet :
           /\ th' = [th EXCEPT ![co] = v]
           /\ v.status = "ok" /\ v.left = x.left
           /\ Wf([th EXCEPT ![co] = v], cs')
           /\ SameOthers(s, cs', co) /\ Has(cs', co)
           /\ TopFits(cs', mode') /\ Bounded(v.nCcalls, co, cs', mode')
    BY <2>5 DEF Ran
  <2>7. SameOthers(cs, cs', co) BY <1>11, <2>6, SameTrans
  <2>8. v.left = "nothing" BY <2>1, <2>6
  <2> QED BY <1>1, <1>3, <1>13, <2>6, <2>7, <2>8, ResumedInv
<1>14. CASE th[co].status = "yield"
  <2> DEFINE c == th[co].ci
             k == Len(c) - 2
             f == Execute(co, k)
             z == [x1 EXCEPT !.ci = <<c[1]>>]
             u == Append(s, f)
  <2>1. /\ Len(c) >= 3 /\ \A i \in 2 .. Len(c) - 1 : c[i] = "lua"
    BY <1>3, <1>14 DEF Status
  <2>2. /\ x1 \in ThreadSet /\ x1.ci = c /\ x1.size_ci = th[co].size_ci
        /\ x1.status = "ok" /\ x1.nCcalls = n /\ x1.baseCcalls = n
        /\ x1.errfunc = th[co].errfunc /\ x1.left = "nothing"
    BY <1>3, <1>6 DEF ThreadSet
  <2> HIDE DEF x1
  <2>3. /\ y \in ThreadSet /\ Len(y.ci) = Len(c) - 1
        /\ \A j \in 1 .. Len(y.ci) : y.ci[j] = c[j]
        /\ y.size_ci = th[co].size_ci /\ y.status = "ok" /\ y.nCcalls = n
        /\ y.baseCcalls = n /\ y.errfunc = th[co].errfunc /\ y.left = "nothing"
    <3>1. Len(x1.ci) > 0 BY <1>9, <2>1, <2>2
    <3> QED BY <2>2, <3>1, PoscallFacts
  <2> HIDE DEF y
  <2>4. k \in Nat \ {0} /\ Len(y.ci) - 1 = k
    <3>1. Len(c) \in Nat /\ Len(c) >= 3 BY <1>9, <2>1
    <3>2. Len(y.ci) = Len(c) - 1 BY <2>3
    <3> DEFINE a == Len(c)
               b == Len(y.ci)
    <3>3. a \in Nat /\ a >= 3 /\ b = a - 1 BY <3>1, <3>2
    <3> HIDE DEF a, b
    <3>4. a - 2 \in Nat \ {0} /\ b - 1 = a - 2 BY <3>3
    <3> QED BY <3>4 DEF a, b
  <2>5. c[1] \in Names
    <3>1. 1 \in 1 .. Len(c) BY <1>9, <2>1
    <3> QED BY <1>9, <3>1, ElementOfSeq
  <2>6. <<c[1]>> \in Seq(Names) /\ Len(<<c[1]>>) = 1 /\ <<c[1]>>[1] = c[1] BY <2>5
  <2>7. /\ z \in ThreadSet /\ z.ci = <<c[1]>> /\ z.size_ci = th[co].size_ci
        /\ z.status = "ok" /\ z.nCcalls = n /\ z.baseCcalls = n
        /\ z.errfunc = th[co].errfunc
    BY <2>2, <2>6 DEF ThreadSet
  <2>8. Step(co, y, u, "run") BY <1>2, <1>14, <2>4
  <2> HIDE DEF c, k, z
  <2>9. /\ f \in FrameSet /\ f.fn = "execute" /\ f.L = co /\ Levels(f) = 0 /\ Infos(f, co) = k
    BY <1>3, <2>4, Constructors
  <2> HIDE DEF f
  <2>10. Len(z.ci) \in 1 .. z.size_ci BY <1>8, <1>9, <2>6, <2>7
  <2>11. Wf([th EXCEPT ![co] = z], s) BY <1>7, <1>12, <2>6, <2>7, <2>10
  <2> DEFINE t == [th EXCEPT ![co] = z]
  <2>12. t[co] = z /\ [t EXCEPT ![co] = y] = [th EXCEPT ![co] = y] BY <1>3, <1>4
  <2>13. /\ u # <<>> /\ Len(u) = Len(s) + 1 /\ u[Len(s) + 1] = f /\ u \in Seq(FrameSet)
         /\ u[Len(s)] = g
    <3>1. Len(s) \in 1 .. Len(s) BY <1>11
    <3> QED BY <1>11, <2>9, <3>1, Appended
  <2>14. Sits(u, Len(s) + 1)
    <3>1. (Len(s) + 1) - 1 = Len(s) /\ Len(s) + 1 > 1 /\ Len(s) + 1 # 1 BY <1>11
    <3> QED BY <1>10, <2>9, <2>13, <3>1 DEF Sits
  <2>15. ~Installs(u, Len(s) + 1) BY <2>9, <2>13 DEF Installs
  <2>16. /\ y.nCcalls = z.nCcalls + Levels(f) /\ y.baseCcalls = z.baseCcalls
         /\ Len(y.ci) = Len(z.ci) + Infos(f, co)
         /\ Len(y.ci) \in 1 .. y.size_ci
    <3>1. Len(y.ci) = k + 1 /\ k \in Nat /\ Len(z.ci) = 1 BY <1>9, <2>1, <2>3, <2>6, <2>7 DEF c, k
    <3>2. Len(y.ci) <= y.size_ci BY <1>8, <1>9, <2>3 DEF c
    <3>3. y.size_ci \in Nat BY <1>9, <2>3
    <3>4. Len(y.ci) \in 1 .. y.size_ci BY <3>1, <3>2, <3>3
    <3>5. y.nCcalls = z.nCcalls + Levels(f) BY <1>6, <2>3, <2>7, <2>9
    <3>6. Len(y.ci) = Len(z.ci) + Infos(f, co) BY <2>9, <3>1
    <3> QED BY <2>3, <2>7, <3>4, <3>5, <3>6
  <2>17. \A j \in 1 .. Len(z.ci) : y.ci[j] = z.ci[j]
    <3>1. \A j \in 1 .. Len(z.ci) : j = 1 BY <2>6, <2>7
    <3>2. 1 \in 1 .. Len(y.ci) BY <2>4, <2>3
    <3> QED BY <2>3, <2>6, <2>7, <3>1, <3>2
  <2>18. \A j \in Len(z.ci) + 1 .. Len(y.ci) : y.ci[j] = "lua"
    <3>1. \A j \in Len(z.ci) + 1 .. Len(y.ci) : j \in 1 .. Len(y.ci) /\ j \in 2 .. Len(c) - 1
      BY <1>9, <2>1, <2>3, <2>6, <2>7 DEF c
    <3> QED BY <2>1, <2>3, <3>1
  <2>19. Wf([t EXCEPT ![co] = y], u)
    <3> HIDE DEF t, u
    <3>1. t[co].status = "ok" /\ IF s = <<>> THEN co = Main ELSE s[Len(s)].L = co
      BY <1>10, <1>11, <2>7, <2>12
    <3>2. y.errfunc <=> t[co].errfunc BY <2>3, <2>7, <2>12
    <3>3. /\ y.nCcalls = t[co].nCcalls + Levels(f) /\ y.baseCcalls = t[co].baseCcalls
          /\ Len(y.ci) = Len(t[co].ci) + Infos(f, co)
          /\ \A j \in 1 .. Len(t[co].ci) : y.ci[j] = t[co].ci[j]
          /\ \A j \in Len(t[co].ci) + 1 .. Len(y.ci) : y.ci[j] = "lua"
      BY <2>12, <2>16, <2>17, <2>18
    <3>4. y.errfunc <=> IF Installs(u, Len(s) + 1) THEN Len(s) > 0 /\ s[Len(s)].f = "xpcall"
                        ELSE t[co].errfunc
      BY <2>15, <3>2
    <3>5. Wf(t, s) BY <2>11 DEF t
    <3>6. f.fn # "cfunction" /\ f.fn # "pcall" /\ f.fn # "resume" BY <2>9
    <3>7. Len(y.ci) \in 1 .. y.size_ci BY <2>16
    <3> QED BY <1>3, <2>3, <2>9, <2>14, <3>1, <3>3, <3>4, <3>5, <3>6, <3>7, PushWf DEF u
  <2>20. SameOthers(s, u, co) /\ Has(u, co) BY <1>11, <2>9, SamePush
  <2>21. SameOthers(cs, u, co) BY <1>11, <2>20, SameTrans
  <2>22. TopFits(u, "run") BY <2>9, <2>13 DEF TopFits
  <2>23. Bounded(y.nCcalls, co, u, "run") BY <1>6, <2>3 DEF Bounded
  <2>24. cs' = u /\ mode' = "run" /\ th' = [th EXCEPT ![co] = y] BY <2>8 DEF Step
  <2> HIDE DEF u
  <2> QED BY <1>1, <1>3, <1>14, <2>3, <2>12, <2>19, <2>20, <2>21, <2>22, <2>23, <2>24, ResumedInv
<1> QED BY <1>3, <1>13, <1>14

(* Below its first frame a thread has no CallInfos and no handler.         *)
LEMMA Outside ==
  ASSUME NEW s \in Seq(FrameSet), NEW L, NEW n \in 0 .. Len(s), \A i \in 1 .. n : s[i].L # L
  PROVE  Depth(s, L, n) = 0 /\ ~Handled(s, L, n)
<1>1. 0 \in 0 .. n /\ \A i \in 0 + 1 .. n : s[i].L # L OBVIOUS
<1>2. Depth(s, L, 0) = 0 /\ ~Handled(s, L, 0) BY DepthFacts, HandledFacts
<1>3. Depth(s, L, 0) = Depth(s, L, n) BY <1>1, DepthFacts
<1>4. Handled(s, L, 0) <=> Handled(s, L, n) BY <1>1, HandledFacts
<1> QED BY <1>2, <1>3, <1>4

(* The frames of a coroutine begin with the one of lua_resume.             *)
LEMMA FirstFrame ==
  ASSUME NEW t, NEW s, Wf(t, s), NEW L \in Threads, L # Main, Has(s, L)
  PROVE  \E r \in 2 .. Len(s) : /\ s[r].L = L /\ s[r].fn = "resume"
                                /\ \A i \in 1 .. r - 1 : s[i].L # L
<1> DEFINE n == Len(s)
           S == {i \in 1 .. n : s[i].L = L}
<1>1. n \in Nat /\ DOMAIN s = 1 .. n /\ (s # <<>> => s[1].L = Main)
      /\ (s = <<>> <=> n = 0)
      /\ \A i \in 2 .. n : s[i].fn # "resume" => s[i].L = s[i - 1].L
  BY WfFacts
<1>2. S \in SUBSET Nat /\ S # {} BY <1>1 DEF Has
<1>3. PICK r \in S : \A i \in S : r <= i
  <2> HIDE DEF S
  <2> QED BY <1>2, LeastElement
<1>4. r \in 1 .. n /\ s[r].L = L /\ \A i \in 1 .. n : s[i].L = L => r <= i BY <1>3
<1> HIDE DEF n, S
<1>5. r # 1 BY <1>1, <1>4
<1>6. r \in 2 .. n /\ r - 1 \in 1 .. n BY <1>1, <1>4, <1>5
<1>7. \A i \in 1 .. r - 1 : s[i].L # L BY <1>1, <1>4
<1>8. s[r].fn = "resume"
  <2>1. s[r - 1].L # L BY <1>6, <1>7
  <2> QED BY <1>1, <1>4, <1>6, <2>1
<1> QED BY <1>4, <1>6, <1>7, <1>8 DEF n

(* The levels do not change above a frame only when no call is there.      *)
LEMMA NoLevels ==
  ASSUME NEW s \in Seq(FrameSet), NEW r \in 0 .. Len(s),
         Counted(s, Len(s)) <= Counted(s, r)
  PROVE  \A i \in r + 1 .. Len(s) : Levels(s[i]) = 0
<1> DEFINE n == Len(s)
<1>1. n \in Nat BY LenProperties
<1> HIDE DEF n
<1>2. SUFFICES ASSUME NEW i \in r + 1 .. n PROVE Levels(s[i]) = 0 BY DEF n
<1>3. /\ i - 1 \in 0 .. n - 1 /\ i - 1 \in 0 .. n /\ r \in 0 .. i - 1 /\ i \in 0 .. n
      /\ (i - 1) + 1 = i /\ n \in 0 .. n /\ r \in 0 .. n /\ i \in 1 .. n
  BY <1>1, <1>2 DEF n
<1>4. /\ Counted(s, r) \in Nat /\ Counted(s, i - 1) \in Nat /\ Counted(s, i) \in Nat /\ Counted(s, n) \in Nat
  BY <1>3, CountedFacts DEF n
<1>5. Counted(s, r) <= Counted(s, i - 1) BY <1>3, CountedFacts DEF n
<1>6. Counted(s, i) <= Counted(s, n) BY <1>3, CountedFacts DEF n
<1>7. Counted(s, (i - 1) + 1) = Counted(s, i - 1) + Levels(s[(i - 1) + 1]) BY <1>3, CountedFacts DEF n
<1>8. Levels(s[i]) \in Nat
  <2>1. s[i] \in FrameSet BY <1>3, ElementOfSeq DEF n
  <2> QED BY <2>1, FrameFacts
<1>9. Counted(s, n) <= Counted(s, r) BY DEF n
<1> QED BY <1>3, <1>4, <1>5, <1>6, <1>7, <1>8, <1>9

(* A thread that may yield is a coroutine in which only luaV_execute and   *)
(* the C function that yields are active.                                  *)
LEMMA CanYieldFacts ==
  ASSUME IInv, InC("yield", "start"), CanYield(Running)
  PROVE  LET n == Len(cs)
             L == Running
         IN  /\ L # Main /\ n > 3
             /\ cs[n - 2].fn = "resume" /\ cs[n - 2].L = L
             /\ cs[n - 1].fn = "execute" /\ cs[n - 1].L = L
             /\ \A i \in 1 .. n - 3 : cs[i].L # L
             /\ th[L].nCcalls = Counted(cs, n - 2)
<1> DEFINE n == Len(cs)
           L == Running
<1>1. cs # <<>> /\ mode = "run" /\ Top.fn = "cfunction" /\ Top.f = "yield"
  BY DEF InC, Runs, On
<1>2. /\ Wf(th, cs) /\ cs \in Seq(FrameSet) /\ n \in Nat /\ n > 0 /\ DOMAIN cs = 1 .. n
      /\ L \in Threads /\ Top = cs[n] /\ L = cs[n].L /\ Has(cs, L)
      /\ th \in [Threads -> ThreadSet] /\ th[L] \in ThreadSet
  BY <1>1, RunningFacts
<1>3. cs[1].fn = "pcall" /\ \A i \in 1 .. n : Sits(cs, i) BY <1>1, <1>2, WfFacts DEF Wf
<1>4. th[L].nCcalls = Counted(cs, n) BY <1>1, <1>2, RunningExact
<1>5. th[L].nCcalls <= th[L].baseCcalls BY DEF CanYield
<1> HIDE DEF n
<1>6. n # 1 /\ n \in 1 .. n BY <1>1, <1>2, <1>3
<1>7. n \in 2 .. n /\ 2 \in 1 .. n /\ n > 1 BY <1>2, <1>6
<1>8. cs[n - 1].fn \in {"execute", "call"} /\ cs[n - 1].L = L
  <2>1. Sits(cs, n) BY <1>3, <1>6
  <2> QED BY <1>1, <1>2, <1>7, <2>1 DEF Sits
<1>9. L # Main
  <2>1. SUFFICES ASSUME L = Main PROVE FALSE OBVIOUS
  <2>2. th[L].baseCcalls = 0 BY <1>2, <2>1 DEF Wf
  <2>3. cs[2].fn = "call"
    <3>1. Sits(cs, 2) /\ 2 - 1 = 1 /\ 2 > 1 /\ 2 # 1 /\ ~(2 > 2) BY <1>3, <1>7
    <3>2. cs[2] \in FrameSet BY <1>2, <1>7, WfFacts DEF n
    <3>3. cs[2].fn \in {"call", "resume", "handler", "execute", "cfunction", "parser", "pcall"}
      BY <3>2, FrameFacts
    <3> QED BY <1>3, <3>1, <3>3 DEF Sits
  <2>4. Levels(cs[2]) = 0
    <3>1. Counted(cs, 0) = 0 BY <1>2, CountedFacts
    <3>2. 0 \in 0 .. n /\ 2 \in 0 + 1 .. n BY <1>2, <1>7
    <3>3. Counted(cs, n) <= Counted(cs, 0) BY <1>4, <1>5, <2>2, <3>1
    <3> QED BY <1>2, <3>2, <3>3, NoLevels DEF n
  <2> QED BY <2>3, <2>4 DEF Levels
<1>10. PICK r \in 2 .. n : cs[r].L = L /\ cs[r].fn = "resume" /\ \A i \in 1 .. r - 1 : cs[i].L # L
  BY <1>2, <1>9, FirstFrame DEF n
<1>11. r \in 0 .. n /\ r \in 1 .. n BY <1>2
<1>12. th[L].baseCcalls = Counted(cs, r) BY <1>2, <1>10, <1>11 DEF Wf
<1>13. Counted(cs, n) <= Counted(cs, r) BY <1>4, <1>5, <1>12
<1>14. \A i \in r + 1 .. n : Levels(cs[i]) = 0 BY <1>2, <1>11, <1>13, NoLevels DEF n
<1>15. \A i \in r + 1 .. n : cs[i].fn \notin {"call", "resume"} BY <1>14 DEF Levels
<1>16. r # n /\ r # n - 1 BY <1>1, <1>2, <1>8, <1>10
<1>17. n - 1 \in r + 1 .. n /\ n - 1 \in 1 .. n /\ n - 1 > 1 /\ n - 2 \in r .. n /\ (n - 1) - 1 = n - 2
  BY <1>2, <1>7, <1>16
<1>18. cs[n - 1].fn = "execute" BY <1>8, <1>15, <1>17
<1>19. cs[n - 2].fn \in {"call", "resume"}
  <2>1. Sits(cs, n - 1) BY <1>3, <1>17
  <2> QED BY <1>17, <1>18, <2>1 DEF Sits
<1>20. n - 2 = r
  <2>1. ~(n - 2 \in r + 1 .. n) BY <1>15, <1>19
  <2> QED BY <1>2, <1>17, <2>1
<1>21. Counted(cs, r) <= Counted(cs, n) /\ Counted(cs, r) \in Nat /\ Counted(cs, n) \in Nat
  <2>1. n \in 0 .. n /\ r \in 0 .. n BY <1>2
  <2> QED BY <1>2, <2>1, CountedFacts DEF n
<1>22. Counted(cs, n) = Counted(cs, r) BY <1>13, <1>21
<1>23. n > 3 /\ n - 3 = r - 1 BY <1>2, <1>10, <1>20
<1> QED BY <1>4, <1>8, <1>9, <1>10, <1>18, <1>20, <1>22, <1>23 DEF n

(* lua_yield keeps the invariant: the frames it cuts off are those of      *)
(* luaV_execute and of yield itself.                                       *)
LEMMA YieldInv ==
  ASSUME IInv, lua_yield PROVE IInv'
<1> DEFINE n == Len(cs)
           L == Running
           x == [th[L] EXCEPT !.status = "yield"]
           u == SubSeq(cs, 1, n - 2)
           ci == th[L].ci
<1>1. /\ cs # <<>> /\ mode = "run" /\ Top.fn = "cfunction" /\ Top.f = "yield"
      /\ UNCHANGED <<over, program>>
  BY DEF lua_yield, InC, Runs, On
<1>2. CASE ~CanYield(L)
  <2>1. Step(L, th[L], cs, "error") BY <1>2 DEF lua_yield
  <2>2. TopFits(cs, "error") BY <1>1 DEF TopFits, Top, Last
  <2> QED BY <1>1, <2>1, <2>2, ModeStep DEF Returns
<1>3. CASE CanYield(L)
  <2>1. /\ L # Main /\ n > 3
        /\ cs[n - 2].fn = "resume" /\ cs[n - 2].L = L
        /\ cs[n - 1].fn = "execute" /\ cs[n - 1].L = L
        /\ \A i \in 1 .. n - 3 : cs[i].L # L
        /\ th[L].nCcalls = Counted(cs, n - 2)
    BY <1>3, CanYieldFacts DEF lua_yield
  <2>2. /\ Wf(th, cs) /\ cs \in Seq(FrameSet) /\ n \in Nat /\ DOMAIN cs = 1 .. n
        /\ L \in Threads /\ Top = cs[n] /\ L = cs[n].L /\ Has(cs, L)
        /\ th \in [Threads -> ThreadSet] /\ th[L] \in ThreadSet /\ th[L].status = "ok"
        /\ th[L].nCcalls < LUAI_MAXCCALLS + ErrorCcalls
        /\ Len(ci) \in 1 .. th[L].size_ci
    BY <1>1, RunningFacts DEF Returns
  <2>3. /\ Below \in Seq(FrameSet) /\ Len(Below) = n - 1 /\ \A i \in 1 .. n - 1 : Below[i] = cs[i]
        /\ Below = SubSeq(cs, 1, n - 1)
    BY <1>1, BelowFacts, RunningFacts
  <2>4. Last(Below) = cs[n - 1]
    <3> HIDE DEF n
    <3>1. n - 1 \in 1 .. n - 1 BY <2>1, <2>2
    <3> QED BY <2>3, <3>1 DEF Last
  <2>5. Front(Below) = u
    <3> HIDE DEF n
    <3>1. Front(Below) = SubSeq(Below, 1, n - 2)
      <4>1. (n - 1) - 1 = n - 2 BY <2>2
      <4> QED BY <2>3, <4>1 DEF Front
    <3>2. \A i \in 1 .. n - 2 : i \in 1 .. n - 1 /\ i \in 1 .. n /\ cs[i] \in FrameSet
      BY <2>1, <2>2, WfFacts DEF n
    <3>3. \A i \in 1 .. n - 2 : Below[i] \in FrameSet BY <2>3, <3>2
    <3>4. n - 2 \in Int /\ 1 <= n - 2 /\ n - 2 - 1 + 1 = n - 2 BY <2>1, <2>2
    <3>5. /\ SubSeq(Below, 1, n - 2) \in Seq(FrameSet) /\ Len(SubSeq(Below, 1, n - 2)) = n - 2
          /\ \A i \in 1 .. n - 2 : SubSeq(Below, 1, n - 2)[i] = Below[i]
      BY <3>3, <3>4, SubSeqProperties
    <3>6. u \in Seq(FrameSet) /\ Len(u) = n - 2 /\ \A i \in 1 .. n - 2 : u[i] = cs[i]
      BY <3>2, <3>4, SubSeqProperties
    <3> HIDE DEF u
    <3> DEFINE v == SubSeq(Below, 1, n - 2)
    <3>7. v \in Seq(FrameSet) /\ Len(v) = Len(u) /\ \A i \in 1 .. Len(u) : v[i] = u[i]
      BY <2>3, <3>2, <3>5, <3>6
    <3> HIDE DEF v
    <3>8. v = u BY <3>6, <3>7, SeqEqual
    <3> QED BY <3>1, <3>8 DEF v
  <2>6. Step(L, x, u, "return") BY <1>3, <2>1, <2>4, <2>5 DEF lua_yield
  <2>7. /\ x \in ThreadSet /\ x.ci = ci /\ x.size_ci = th[L].size_ci
        /\ x.status = "yield" /\ x.nCcalls = th[L].nCcalls /\ x.baseCcalls = th[L].baseCcalls
        /\ x.errfunc = th[L].errfunc /\ x.left = th[L].left
    BY <2>2 DEF ThreadSet
  <2> HIDE DEF n, x, u
  <2>8. /\ n - 2 \in 0 .. n /\ n - 2 > 0 /\ n - 2 \in 1 .. n - 2 /\ n - 1 \in 1 .. n /\ n \in 1 .. n
        /\ (n - 2) + 1 = n - 1 /\ (n - 1) + 1 = n /\ n - 2 \in 0 .. n - 1 /\ n - 1 \in 0 .. n - 1
        /\ n - 3 \in 0 .. n - 1 /\ (n - 3) + 1 = n - 2 /\ n - 3 \in 0 .. n /\ n - 1 \in 0 .. n
        /\ (n - 1) - 1 = n - 2 /\ 0 \in 0 .. n - 3
    BY <2>1, <2>2
  <2>9. \A i \in (n - 2) + 1 .. n : cs[i].L = L
    <3>1. \A i \in (n - 2) + 1 .. n : i = n - 1 \/ i = n BY <2>2
    <3> QED BY <2>1, <2>2, <3>1
  <2>10. x.errfunc <=> Handled(cs, L, n - 2)
    <3>1. th[L].errfunc <=> Handled(cs, L, n) BY <1>1, <2>2, RunningExact DEF n
    <3>2. ~Installs(cs, n) /\ ~Installs(cs, n - 1) BY <1>1, <2>1, <2>2 DEF Installs
    <3>3. Handled(cs, L, n) <=> Handled(cs, L, n - 1)
      BY <2>2, <2>8, <3>2, HandledBelow DEF n
    <3>4. Handled(cs, L, n - 1) <=> Handled(cs, L, n - 2)
      <4> DEFINE k == n - 1
      <4>1. k \in 1 .. n /\ ~Installs(cs, k) /\ k - 1 = n - 2 BY <2>8, <3>2
      <4> HIDE DEF k
      <4>2. Handled(cs, L, k) <=> Handled(cs, L, k - 1) BY <2>2, <4>1, HandledBelow DEF n
      <4> QED BY <4>1, <4>2 DEF k
    <3> QED BY <2>7, <2>8, <3>1, <3>3, <3>4
  <2>11. Wf([th EXCEPT ![L] = x], u)
    <3>1. Len(x.ci) \in 1 .. x.size_ci /\ x.status # "ok" /\ x.nCcalls = Counted(cs, n - 2)
      BY <2>1, <2>2, <2>7
    <3>2. \A j \in 1 .. 1 + Depth(cs, L, n - 2) : x.ci[j] = th[L].ci[j] BY <2>7
    <3> QED BY <2>1, <2>2, <2>7, <2>8, <2>9, <2>10, <3>1, <3>2, CutWf DEF n, u
  <2>12. /\ SameOthers(cs, u, L) /\ Len(u) = n - 2 /\ DOMAIN u = 1 .. n - 2
         /\ \A i \in 1 .. n - 2 : u[i] = cs[i]
         /\ u # <<>>
    <3>1. n - 2 # 0 BY <2>8
    <3> DEFINE k == n - 2
    <3>2. k \in 0 .. n /\ \A i \in k + 1 .. n : cs[i].L = L BY <2>8, <2>9
    <3>3. u = SubSeq(cs, 1, k) BY DEF u
    <3> HIDE DEF k
    <3>4. /\ SameOthers(cs, u, L) /\ Len(u) = k /\ DOMAIN u = 1 .. k
          /\ \A i \in 1 .. k : u[i] = cs[i]
          /\ u = <<>> <=> k = 0
      BY <2>2, <3>2, <3>3, SameCut DEF n
    <3> QED BY <3>1, <3>4 DEF k
  <2>13. Has(u, L) BY <2>1, <2>8, <2>12 DEF Has
  <2>14. TopFits(u, "return") BY DEF TopFits
  <2>15. Bounded(x.nCcalls, L, u, "return") BY <2>2, <2>7 DEF Bounded
  <2>16. /\ Depth(cs, L, n - 2) = 0
         /\ Depth(cs, L, n - 1) = cs[n - 1].n
         /\ Depth(cs, L, n) = cs[n - 1].n + 1
         /\ cs[n - 1].n \in Nat /\ cs[n - 1].n > 0
    <3>1. /\ Infos(cs[n], L) = 1 /\ Infos(cs[n - 2], L) = 0
          /\ Infos(cs[n - 1], L) = cs[n - 1].n
      BY <1>1, <2>1, <2>2 DEF Infos
    <3>4. Depth(cs, L, n - 3) = 0 BY <2>1, <2>2, <2>8, Outside DEF n
    <3>5. Depth(cs, L, (n - 3) + 1) = Depth(cs, L, n - 3) + Infos(cs[(n - 3) + 1], L)
      BY <2>2, <2>8, DepthFacts DEF n
    <3>6. Depth(cs, L, (n - 2) + 1) = Depth(cs, L, n - 2) + Infos(cs[(n - 2) + 1], L)
      BY <2>2, <2>8, DepthFacts DEF n
    <3>7. Depth(cs, L, (n - 1) + 1) = Depth(cs, L, n - 1) + Infos(cs[(n - 1) + 1], L)
      BY <2>2, <2>8, DepthFacts DEF n
    <3>8. cs[n - 1] \in FrameSet BY <2>2, <2>8, WfFacts DEF n
    <3>9. cs[n - 1].n \in Nat /\ cs[n - 1].n > 0 BY <2>1, <3>8, FrameFacts
    <3>10. Depth(cs, L, n - 2) = 0 BY <2>8, <3>1, <3>4, <3>5
    <3>11. Depth(cs, L, n - 1) = cs[n - 1].n BY <2>8, <3>1, <3>6, <3>9, <3>10
    <3>12. Depth(cs, L, n) = cs[n - 1].n + 1 BY <2>8, <3>1, <3>7, <3>9, <3>11
    <3> QED BY <3>9, <3>10, <3>11, <3>12
  <2>17. Len(ci) = 2 + cs[n - 1].n /\ ci[Len(ci)] = "yield"
    <3>1. Len(ci) = 1 + Depth(cs, L, n) /\ ci[Len(ci)] = Top.f
      BY <1>1, <2>2, TopContent DEF n
    <3> QED BY <1>1, <2>16, <3>1
  <2>18. \A j \in 2 .. Len(ci) - 1 : ci[j] = "lua"
    <3>1. Content(th, cs, n - 1) BY <2>2, <2>8 DEF Wf
    <3>2. \A k \in 2 + Depth(cs, L, n - 2) .. 1 + Depth(cs, L, n - 1) : ci[k] = "lua"
      BY <2>1, <2>8, <3>1 DEF Content
    <3> HIDE DEF ci
    <3>3. 2 + Depth(cs, L, n - 2) = 2 /\ 1 + Depth(cs, L, n - 1) = Len(ci) - 1
      BY <2>16, <2>17
    <3> QED BY <3>2, <3>3
  <2>19. Status(x, L, u, "return")
    <3>1. \A i \in DOMAIN u : u[i].L = L => i = Len(u) /\ u[i].fn = "resume"
      <4>1. SUFFICES ASSUME NEW i \in 1 .. n - 2, u[i].L = L
                     PROVE  i = n - 2 /\ u[i].fn = "resume"
        BY <2>12
      <4>2. cs[i].L = L BY <2>12, <4>1
      <4>3. ~(i \in 1 .. n - 3) BY <2>1, <4>2
      <4>4. i = n - 2 BY <2>2, <4>1, <4>3
      <4> QED BY <2>1, <2>12, <4>1, <4>4
    <3>2. Len(ci) >= 3 BY <2>16, <2>17
    <3> HIDE DEF ci
    <3> QED BY <2>1, <2>7, <2>13, <2>17, <2>18, <3>1, <3>2 DEF Status
  <2>20. ~ManyResults /\ L # Main => Over(x, L, u, over)
    <3>1. SUFFICES ASSUME ~ManyResults PROVE Over(x, L, u, over) OBVIOUS
    <3>2. L \in Coroutines BY <2>1, <2>2 DEF Threads
    <3>3. Over(th[L], L, cs, over) BY <3>1, <3>2 DEF IInv, Inv
    <3> QED BY <2>2, <2>7, <2>13, <3>3 DEF Over
  <2>21. Inv(th, cs, mode, over) BY DEF IInv
  <2>22. Inv([th EXCEPT ![L] = x], u, "return", over)
    BY <1>1, <2>2, <2>7, <2>11, <2>12, <2>14, <2>15, <2>19, <2>20, <2>21, StepInv
  <2> QED BY <1>1, <2>6, <2>22 DEF IInv, Step
<1> QED BY <1>2, <1>3

(* The return of lua_resume to auxresume keeps the invariant, whether the  *)
(* coroutine has yielded or ended.                                         *)
LEMMA FromResumeInv ==
  ASSUME IInv, NEW fits \in BOOLEAN, FromResume(fits) PROVE IInv'
<1> DEFINE n == Len(cs)
           L == Running
           ended == th[L].status = "ok"
           x == [th[L] EXCEPT !.nCcalls = @ - 1, !.left = IF fits THEN @ ELSE "results"]
           m == IF fits THEN "return" ELSE "error"
           ov == IF ended THEN over \cup {L} ELSE over
<1>1. /\ cs # <<>> /\ mode = "return" /\ Top.fn = "resume"
      /\ fits \/ ManyResults
      /\ Step(L, x, Below, m) /\ over' = ov /\ program' = program
  BY DEF FromResume, Returns, On
<1>2. /\ Wf(th, cs) /\ cs \in Seq(FrameSet) /\ n \in Nat /\ n > 0 /\ DOMAIN cs = 1 .. n
      /\ L \in Threads /\ Top = cs[n] /\ L = cs[n].L /\ Has(cs, L)
      /\ th \in [Threads -> ThreadSet] /\ th[L] \in ThreadSet
      /\ Len(th[L].ci) \in 1 .. th[L].size_ci
      /\ Below = SubSeq(cs, 1, n - 1)
  BY <1>1, RunningFacts
<1>3. n \in 1 .. n /\ n - 1 \in 0 .. n - 1 /\ (n - 1) + 1 = n /\ n - 1 \in 0 .. n /\ 0 \in 0 .. n - 1
  BY <1>2
<1>4. th[L].nCcalls - 1 \in Nat
  <2>1. th[L].nCcalls = Counted(cs, n) BY <1>1, <1>2, RunningExact
  <2>2. Counted(cs, (n - 1) + 1) = Counted(cs, n - 1) + Levels(cs[(n - 1) + 1])
    BY <1>2, <1>3, CountedFacts
  <2>3. Counted(cs, n - 1) \in Nat BY <1>2, <1>3, CountedFacts
  <2>4. Levels(cs[n]) = 1 BY <1>1, <1>2 DEF Levels
  <2> HIDE DEF n
  <2>5. Counted(cs, n) = Counted(cs, n - 1) + 1 BY <1>3, <2>2, <2>4
  <2> QED BY <2>1, <2>3, <2>5
<1>5. th[L].left \in {"body", "nothing", "results"} /\ th[L].status \in {"ok", "yield", "err"}
  BY <1>2, ThreadFacts
<1>6. /\ x \in ThreadSet /\ x.ci = th[L].ci /\ x.size_ci = th[L].size_ci
      /\ x.status = th[L].status /\ x.errfunc = th[L].errfunc
      /\ fits => x.left = th[L].left
  BY <1>2, <1>4, <1>5 DEF ThreadSet
<1> HIDE DEF x
<1>7. Status(th[L], L, cs, mode) BY <1>2 DEF IInv, Inv
<1>8. th[L].status \in {"ok", "yield"} BY <1>2, <1>5, <1>7 DEF Status
<1> HIDE DEF n
<1>9. \A i \in n .. n : cs[i].L = cs[n].L
  <2>1. \A i \in n .. n : i = n BY <1>2
  <2> QED BY <2>1
<1>10. /\ Wf([th EXCEPT ![L] = x], Below)
       /\ \A i \in 1 .. n - 1 : cs[i].L # L
       /\ L # Main /\ n > 1
       /\ cs[n - 1].fn = "cfunction"
  <2>1. Len(x.ci) \in 1 .. x.size_ci /\ cs[n].fn = "resume" BY <1>1, <1>2, <1>6
  <2>2. /\ Wf([th EXCEPT ![cs[n].L] = x], SubSeq(cs, 1, n - 1))
        /\ \A i \in 1 .. n - 1 : cs[i].L # cs[n].L
        /\ cs[n].L # Main /\ n > 1
        /\ cs[n - 1].fn = "cfunction"
    <3>1. n \in 1 .. Len(cs) /\ \A i \in n .. Len(cs) : cs[i].L = cs[n].L BY <1>3, <1>9 DEF n
    <3>2. Wf(th, cs) /\ x \in ThreadSet BY <1>2, <1>6
    <3> QED BY <2>1, <3>1, <3>2, PopResumeWf
  <2> QED BY <1>2, <2>2
<1>11. /\ Below \in Seq(FrameSet) /\ Len(Below) = n - 1 /\ DOMAIN Below = 1 .. n - 1
       /\ \A i \in 1 .. n - 1 : Below[i] = cs[i]
       /\ SameOthers(cs, Below, L)
  BY <1>1, BelowFacts DEF n
<1>12. ~Has(Below, L) BY <1>10, <1>11 DEF Has
<1>13. TopFits(Below, m)
  <2>1. Below # <<>> /\ Below[Len(Below)].fn = "cfunction"
    <3>1. n - 1 \in 1 .. n - 1 BY <1>2, <1>10
    <3>2. Below # <<>> BY <1>11, <3>1
    <3> QED BY <1>10, <1>11, <3>1, <3>2
  <2> QED BY <2>1 DEF TopFits
<1>14. ~x.errfunc /\ (ended => Len(x.ci) = 1)
  <2>1. Depth(cs, L, n - 1) = 0 /\ ~Handled(cs, L, n - 1) BY <1>2, <1>3, <1>10, Outside DEF n
  <2>2. Depth(cs, L, (n - 1) + 1) = Depth(cs, L, n - 1) + Infos(cs[(n - 1) + 1], L)
    BY <1>2, <1>3, DepthFacts DEF n
  <2>3. Infos(cs[n], L) = 0 /\ ~Installs(cs, n) BY <1>1, <1>2 DEF Infos, Installs
  <2>4. Depth(cs, L, n) = 0 BY <1>3, <2>1, <2>2, <2>3
  <2>5. ~Handled(cs, L, n) BY <1>2, <1>3, <2>1, <2>3, HandledBelow DEF n
  <2>6. /\ th[L].errfunc <=> Handled(cs, L, n)
        /\ th[L].status = "ok" => Len(th[L].ci) = 1 + Depth(cs, L, n)
    BY <1>1, <1>2, RunningExact DEF n
  <2> QED BY <1>6, <2>4, <2>5, <2>6
<1>15. Status(x, L, Below, m)
  <2>1. \A i \in DOMAIN Below : Below[i].L # L BY <1>12 DEF Has
  <2>2. CASE ended BY <1>6, <1>10, <1>12, <1>14, <2>2 DEF Status
  <2>3. CASE th[L].status = "yield" BY <1>6, <1>7, <1>10, <1>14, <2>1, <2>3 DEF Status
  <2> QED BY <1>8, <2>2, <2>3
<1>16. ~ManyResults /\ L # Main => Over(x, L, Below, ov)
  <2>1. SUFFICES ASSUME ~ManyResults PROVE Over(x, L, Below, ov) OBVIOUS
  <2>2. L \in Coroutines BY <1>2, <1>10 DEF Threads
  <2>3. Over(th[L], L, cs, over) BY <2>1, <2>2 DEF IInv, Inv
  <2>4. L \notin over /\ x.left = "nothing" BY <1>1, <1>2, <1>6, <2>1, <2>3 DEF Over
  <2>5. L \in ov <=> ended BY <2>4
  <2> QED BY <1>6, <1>8, <1>12, <2>4, <2>5 DEF Over
<1>17. \A M \in Threads : M # L => (M \in over <=> M \in ov) OBVIOUS
<1>18. Inv(th, cs, mode, over) BY DEF IInv
<1> HIDE DEF ov, m
<1>19. Inv([th EXCEPT ![L] = x], Below, m, ov)
  <2>1. x.status # "err" BY <1>6, <1>8
  <2> QED BY <1>2, <1>6, <1>10, <1>11, <1>12, <1>13, <1>15, <1>16, <1>17, <1>18, <2>1, StepInv DEF n
<1> QED BY <1>1, <1>19 DEF IInv, Step

-----------------------------------------------------------------------------
(* Errors                                                                  *)

(* The innermost protected call of the process is one of the running       *)
(* thread, and so are all the frames above it.                             *)
LEMMA Innermost ==
  ASSUME NEW t, NEW s, Wf(t, s), s # <<>>
  PROVE  LET L == s[Len(s)].L
         IN  \E e \in 1 .. Len(s) :
                /\ s[e].fn \in {"pcall", "resume"}
                /\ \A i \in e .. Len(s) : s[i].L = L
                /\ \A i \in e + 1 .. Len(s) : s[i].fn \notin {"pcall", "resume"}
<1> DEFINE n == Len(s)
           L == s[n].L
           S == {i \in 1 .. n : s[i].fn \in {"pcall", "resume"}}
<1>1. /\ n \in Nat /\ n \in 1 .. n /\ n > 0 /\ s[1].fn = "pcall" /\ s[1].L = Main
      /\ \A i \in 2 .. n : s[i].fn # "resume" => s[i].L = s[i - 1].L
  BY WfFacts
<1> HIDE DEF n
<1>2. S \in SUBSET (1 .. n) /\ 1 \in S BY <1>1
<1>3. PICK e \in S : \A i \in S : i <= e
  <2> HIDE DEF S
  <2> QED BY <1>1, <1>2, GreatestElement
<1>4. /\ e \in 1 .. n /\ s[e].fn \in {"pcall", "resume"}
      /\ \A i \in 1 .. n : s[i].fn \in {"pcall", "resume"} => i <= e
  BY <1>3
<1>5. \A i \in e + 1 .. n : s[i].fn \notin {"pcall", "resume"}
  <2>1. \A i \in e + 1 .. n : i \in 1 .. n /\ ~(i <= e) BY <1>1, <1>4
  <2> QED BY <1>4, <2>1
<1>6. \A i \in e .. n : s[i].L = L
  <2> DEFINE T == {i \in e .. n : s[i].L # L}
  <2>1. SUFFICES ASSUME T # {} PROVE FALSE OBVIOUS
  <2>2. T \in SUBSET (1 .. n) BY <1>1, <1>4
  <2>3. PICK i \in T : \A j \in T : j <= i
    <3> HIDE DEF T
    <3> QED BY <1>1, <2>1, <2>2, GreatestElement
  <2>4. i \in e .. n /\ s[i].L # L /\ i # n BY <2>3
  <2>5. i + 1 \in e + 1 .. n /\ i + 1 \in 2 .. n /\ i + 1 \in e .. n /\ (i + 1) - 1 = i /\ ~(i + 1 <= i)
    BY <1>1, <1>4, <2>4
  <2>6. s[i + 1].L = L BY <2>3, <2>5
  <2>7. s[i + 1].fn # "resume" BY <1>5, <2>5
  <2>8. s[i + 1].L = s[i].L BY <1>1, <2>5, <2>7
  <2> QED BY <2>4, <2>6, <2>8
<1> QED BY <1>4, <1>5, <1>6 DEF n

(* It is where luaD_throw goes.                                            *)
LEMMA ErrorJmp ==
  ASSUME IInv, cs # <<>>
  PROVE  /\ Catchers(Running) # {}
         /\ errorJmp \in 1 .. Len(cs) /\ cs[errorJmp].fn \in {"pcall", "resume"}
         /\ \A i \in errorJmp .. Len(cs) : cs[i].L = Running
         /\ \A i \in errorJmp + 1 .. Len(cs) : cs[i].fn \notin {"pcall", "resume"}
<1> DEFINE n == Len(cs)
           L == Running
           S == Catchers(L)
<1>1. Wf(th, cs) /\ L = cs[n].L /\ n \in Nat /\ DOMAIN cs = 1 .. n BY RunningFacts
<1>2. PICK e \in 1 .. n : /\ cs[e].fn \in {"pcall", "resume"}
                          /\ \A i \in e .. n : cs[i].L = L
                          /\ \A i \in e + 1 .. n : cs[i].fn \notin {"pcall", "resume"}
  BY <1>1, Innermost
<1> HIDE DEF n
<1>3. e \in S
  <2>1. e \in e .. n BY <1>1
  <2> QED BY <1>1, <1>2, <2>1 DEF Catchers
<1>4. \A i \in S : i \in 1 .. n /\ e >= i
  <2>1. SUFFICES ASSUME NEW i \in 1 .. n, cs[i].fn \in {"pcall", "resume"} PROVE e >= i
    BY <1>1 DEF Catchers
  <2>2. ~(i \in e + 1 .. n) BY <1>2, <2>1
  <2> QED BY <1>1, <2>2
<1> HIDE DEF S
<1>5. \A i \in S : i >= e => i = e
  <2>1. SUFFICES ASSUME NEW i \in S, i >= e PROVE i = e OBVIOUS
  <2>2. i \in 1 .. n /\ e >= i BY <1>4, <2>1
  <2> QED BY <1>1, <2>1, <2>2
<1>6. Max(S) = e
  <2>1. \E i \in S : \A j \in S : i >= j BY <1>3, <1>4
  <2>2. Max(S) \in S /\ \A j \in S : Max(S) >= j BY <2>1 DEF Max
  <2> QED BY <1>3, <1>5, <2>2
<1>7. errorJmp = e BY <1>6 DEF errorJmp, S
<1> QED BY <1>2, <1>3, <1>7 DEF n, S

(* What the thread is left with when luaD_pcall catches an error.          *)
LEMMA CaughtFacts ==
  ASSUME NEW f, th[Running] \in ThreadSet, f.ci \in 1 .. Len(th[Running].ci),
         f.nCcalls \in Nat, f.errfunc \in BOOLEAN,
         Len(th[Running].ci) \in 1 .. th[Running].size_ci
  PROVE  LET x == th[Running]
             y == PcallCatches(f)
         IN  /\ y \in ThreadSet /\ Len(y.ci) = f.ci /\ Len(y.ci) \in 1 .. y.size_ci
             /\ \A j \in 1 .. f.ci : y.ci[j] = x.ci[j]
             /\ y.status = x.status /\ y.nCcalls = f.nCcalls /\ y.errfunc = f.errfunc
             /\ y.baseCcalls = x.baseCcalls /\ y.left = x.left
<1> DEFINE x == th[Running]
           c == f.ci
           k == f.nCcalls
           h == f.errfunc
           d == SubSeq(x.ci, 1, c)
           z == [x EXCEPT !.ci = d, !.nCcalls = k, !.errfunc = h]
           y == restore_stack_limit(z)
<1>0. /\ x \in ThreadSet /\ c \in 1 .. Len(x.ci) /\ k \in Nat /\ h \in BOOLEAN
      /\ Len(x.ci) \in 1 .. x.size_ci
      /\ PcallCatches(f) = y
  BY DEF PcallCatches
<1> HIDE DEF x, c, k, h
<1>1. x.ci \in Seq(Names) /\ Len(x.ci) \in Nat /\ x.size_ci \in Nat BY <1>0, ThreadFacts
<1>2. \A j \in 1 .. c : j \in 1 .. Len(x.ci) /\ x.ci[j] \in Names BY <1>0, <1>1, ElementOfSeq
<1>3. c \in Int /\ 1 <= c /\ c - 1 + 1 = c /\ c <= x.size_ci BY <1>0, <1>1
<1>4. d \in Seq(Names) /\ Len(d) = c /\ \A j \in 1 .. c : d[j] = x.ci[j]
  BY <1>2, <1>3, SubSeqProperties
<1> HIDE DEF d
<1>5. /\ z \in ThreadSet /\ z.ci = d /\ z.size_ci = x.size_ci /\ z.status = x.status
      /\ z.nCcalls = k /\ z.errfunc = h /\ z.baseCcalls = x.baseCcalls /\ z.left = x.left
  BY <1>0, <1>4 DEF ThreadSet
<1> HIDE DEF z
<1>6. /\ y \in ThreadSet /\ y.ci = d /\ c <= y.size_ci /\ y.size_ci \in Nat
      /\ y.status = z.status
      /\ y.nCcalls = z.nCcalls /\ y.errfunc = z.errfunc /\ y.baseCcalls = z.baseCcalls
      /\ y.left = z.left
  <2>1. CASE z.size_ci > LUAI_MAXCALLS /\ Len(z.ci) < LUAI_MAXCALLS
    <3>1. y = [z EXCEPT !.size_ci = LUAI_MAXCALLS] BY <2>1 DEF restore_stack_limit
    <3>2. LUAI_MAXCALLS \in Nat BY LimitsAssumption
    <3>3. c <= LUAI_MAXCALLS BY <1>3, <1>4, <1>5, <2>1, <3>2
    <3> HIDE DEF y
    <3> QED BY <1>5, <3>1, <3>2, <3>3 DEF ThreadSet
  <2>2. CASE ~(z.size_ci > LUAI_MAXCALLS /\ Len(z.ci) < LUAI_MAXCALLS)
    <3>1. y = z BY <2>2 DEF restore_stack_limit
    <3> HIDE DEF y
    <3> QED BY <1>1, <1>3, <1>5, <3>1
  <2> QED BY <2>1, <2>2
<1> HIDE DEF y
<1>7. Len(y.ci) = c /\ Len(y.ci) \in 1 .. y.size_ci BY <1>3, <1>4, <1>6
<1>8. \A j \in 1 .. c : y.ci[j] = x.ci[j] BY <1>4, <1>6
<1>9. /\ y \in ThreadSet /\ Len(y.ci) = c /\ Len(y.ci) \in 1 .. y.size_ci
      /\ \A j \in 1 .. c : y.ci[j] = x.ci[j]
      /\ y.status = x.status /\ y.nCcalls = k /\ y.errfunc = h
      /\ y.baseCcalls = x.baseCcalls /\ y.left = x.left
  BY <1>5, <1>6, <1>7, <1>8
<1> QED BY <1>0, <1>9 DEF x, c, k, h

(* luaD_throw keeps the invariant: luaD_pcall restores the CallInfos, the  *)
(* levels and the handler that it saved, lua_resume leaves a dead          *)
(* coroutine.                                                              *)
LEMMA ThrowInv ==
  ASSUME IInv, luaD_throw PROVE IInv'
<1> DEFINE n == Len(cs)
           L == Running
           e == errorJmp
           f == cs[e]
           rest == SubSeq(cs, 1, e - 1)
<1>1. mode \in {"errrun", "errerr"} /\ program' = program BY DEF luaD_throw
<1>2. cs # <<>> BY <1>1 DEF IInv, Inv, TopFits
<1>3. /\ Wf(th, cs) /\ cs \in Seq(FrameSet) /\ n \in Nat /\ n > 0 /\ DOMAIN cs = 1 .. n
      /\ L \in Threads /\ L = cs[n].L /\ Has(cs, L)
      /\ th \in [Threads -> ThreadSet] /\ th[L] \in ThreadSet /\ th[L].status = "ok"
      /\ Len(th[L].ci) \in 1 .. th[L].size_ci
  BY <1>1, <1>2, RunningFacts DEF Returns
<1>4. /\ e \in 1 .. n /\ f.fn \in {"pcall", "resume"}
      /\ \A i \in e .. n : cs[i].L = L
  BY <1>2, ErrorJmp
<1>5. /\ f.fn = "pcall" => /\ Step(L, PcallCatches(f), rest, "return") /\ over' = over
      /\ f.fn = "resume" =>
            /\ Step(L, ResumeCatches,
                    Append(Front(rest),
                           CFunction(Last(rest).L, Last(rest).f,
                               IF Last(rest).f = "wrap" THEN "failed" ELSE "after")), "run")
            /\ over' = over \cup {L}
  BY DEF luaD_throw
<1> HIDE DEF n, e
<1>6. /\ e - 1 \in 0 .. n /\ e \in e .. n /\ (e - 1) + 1 = e /\ e - 1 \in 0 .. n - 1
      /\ n \in 0 .. n /\ e \in 0 .. n /\ e \in 1 .. n
  BY <1>3, <1>4
<1>7. f.L = L /\ f \in FrameSet BY <1>3, <1>4, <1>6, WfFacts DEF n
<1>8. \A i \in (e - 1) + 1 .. n : cs[i].L = L BY <1>4, <1>6
<1>9. /\ SameOthers(cs, rest, L) /\ rest \in Seq(FrameSet) /\ Len(rest) = e - 1
      /\ DOMAIN rest = 1 .. e - 1 /\ \A i \in 1 .. e - 1 : rest[i] = cs[i]
      /\ rest = <<>> <=> e - 1 = 0
  <2> DEFINE k == e - 1
  <2>1. k \in 0 .. n /\ \A i \in k + 1 .. n : cs[i].L = L BY <1>6, <1>8
  <2> HIDE DEF k
  <2> DEFINE u == SubSeq(cs, 1, k)
  <2>2. /\ SameOthers(cs, u, L) /\ u \in Seq(FrameSet) /\ Len(u) = k
        /\ DOMAIN u = 1 .. k /\ \A i \in 1 .. k : u[i] = cs[i]
        /\ u = <<>> <=> k = 0
    BY <1>3, <2>1, SameCut DEF n
  <2> QED BY <2>2 DEF k
<1>10. Inv(th, cs, mode, over) BY DEF IInv
<1>11. CASE f.fn = "pcall"
  <2> DEFINE y == PcallCatches(f)
  <2>1. /\ f.ci = 1 + Depth(cs, L, e - 1) /\ f.nCcalls = Counted(cs, e - 1)
        /\ f.nCcalls < LUAI_MAXCCALLS + ErrorCcalls
        /\ f.errfunc <=> Handled(cs, L, e - 1)
    <3>1. Saved(cs, e) BY <1>3, <1>6 DEF Wf
    <3> QED BY <1>7, <1>11, <3>1 DEF Saved
  <2>2. f.nCcalls \in Nat /\ f.errfunc \in BOOLEAN /\ f.ci \in Nat BY <1>7, <1>11, FrameFacts
  <2>3. f.ci \in 1 .. Len(th[L].ci)
    <3>1. Len(th[L].ci) = 1 + Depth(cs, L, n) BY <1>2, <1>3, RunningExact DEF n
    <3>2. e - 1 \in 0 .. n /\ n \in 0 .. n BY <1>6
    <3>3. Depth(cs, L, e - 1) \in Nat /\ Depth(cs, L, n) \in Nat BY <1>3, <3>2, DepthFacts DEF n
    <3>4. Depth(cs, L, e - 1) <= Depth(cs, L, n) BY <1>3, <3>2, DepthFacts DEF n
    <3> QED BY <2>1, <3>1, <3>3, <3>4
  <2>5. /\ y \in ThreadSet /\ Len(y.ci) = f.ci /\ Len(y.ci) \in 1 .. y.size_ci
        /\ \A j \in 1 .. f.ci : y.ci[j] = th[L].ci[j]
        /\ y.status = "ok" /\ y.nCcalls = f.nCcalls /\ y.errfunc = f.errfunc
        /\ y.baseCcalls = th[L].baseCcalls /\ y.left = th[L].left
    BY <1>3, <2>2, <2>3, CaughtFacts
  <2> HIDE DEF y
  <2>6. e - 1 > 0 => cs[e - 1].L = L /\ Has(rest, L)
    <3>1. SUFFICES ASSUME e - 1 > 0 PROVE cs[e - 1].L = L /\ Has(rest, L) OBVIOUS
    <3>2. e \in 2 .. n /\ e - 1 \in 1 .. e - 1 BY <1>3, <1>6, <3>1
    <3>3. f.fn # "resume" => f.L = cs[e - 1].L BY <1>3, <3>2, WfFacts DEF n
    <3>4. cs[e - 1].L = L BY <1>7, <1>11, <3>3
    <3> QED BY <1>9, <3>2, <3>4 DEF Has
  <2>7. e - 1 = 0 => L = Main
    <3>1. e - 1 = 0 => e = 1 BY <1>6
    <3> QED BY <1>2, <1>3, <1>7, <3>1, WfFacts
  <2>8. Wf([th EXCEPT ![L] = y], rest)
    <3> DEFINE k == e - 1
    <3>1. /\ k \in 0 .. n /\ \A i \in k + 1 .. n : cs[i].L = L
          /\ k > 0 => cs[k].L = L
          /\ y.status = "ok" => Len(y.ci) = 1 + Depth(cs, L, k)
          /\ y.nCcalls = Counted(cs, k)
          /\ \A j \in 1 .. 1 + Depth(cs, L, k) : y.ci[j] = th[L].ci[j]
      BY <1>6, <1>8, <2>1, <2>5, <2>6
    <3>2. y.errfunc <=> Handled(cs, L, k) BY <2>1, <2>5
    <3> HIDE DEF k
    <3>3. Wf([th EXCEPT ![L] = y], SubSeq(cs, 1, k))
      BY <1>3, <2>5, <3>1, <3>2, CutWf DEF n
    <3> QED BY <3>3 DEF k
  <2>9. L = Main \/ Has(rest, L)
    <3>1. e - 1 = 0 \/ e - 1 > 0 BY <1>6
    <3> QED BY <2>6, <2>7, <3>1
  <2>10. TopFits(rest, "return") BY DEF TopFits
  <2>11. Bounded(y.nCcalls, L, rest, "return") BY <2>1, <2>5 DEF Bounded
  <2>12. Inv([th EXCEPT ![L] = y], rest, "return", over)
    BY <1>2, <1>3, <1>9, <2>5, <2>8, <2>9, <2>10, <2>11, Ordinary
  <2> QED BY <1>1, <1>5, <1>11, <2>12 DEF IInv, Step, y
<1>12. CASE f.fn = "resume"
  <2> DEFINE y == ResumeCatches
             t == [th EXCEPT ![L] = y]
             ov == over \cup {L}
  <2>1. th[L].nCcalls - 1 \in Nat
    <3>1. th[L].nCcalls = Counted(cs, n) BY <1>2, <1>3, RunningExact DEF n
    <3>2. Counted(cs, (e - 1) + 1) = Counted(cs, e - 1) + Levels(cs[(e - 1) + 1])
      BY <1>3, <1>6, CountedFacts DEF n
    <3>3. Counted(cs, e - 1) \in Nat /\ Counted(cs, n) \in Nat BY <1>3, <1>6, CountedFacts DEF n
    <3>4. Counted(cs, e) <= Counted(cs, n) BY <1>3, <1>6, CountedFacts DEF n
    <3>5. Levels(cs[e]) = 1 BY <1>12 DEF Levels
    <3>6. Counted(cs, e) = Counted(cs, e - 1) + 1 BY <1>6, <3>2, <3>5
    <3> QED BY <3>1, <3>3, <3>4, <3>6
  <2>2. y \in ThreadSet /\ y.status = "err" /\ y.ci = th[L].ci /\ y.size_ci = th[L].size_ci
    BY <1>3, <2>1 DEF ResumeCatches, ThreadSet
  <2> HIDE DEF y
  <2>3. /\ Wf(t, rest) /\ \A i \in 1 .. e - 1 : cs[i].L # L
        /\ L # Main /\ e > 1
        /\ cs[e - 1].fn = "cfunction" /\ cs[e - 1].f \in {"resume", "wrap"}
    <3>1. Len(y.ci) \in 1 .. y.size_ci BY <1>3, <2>2
    <3>2. e \in 1 .. Len(cs) /\ \A i \in e .. Len(cs) : cs[i].L = cs[e].L BY <1>4, <1>7 DEF n
    <3>3. Wf(th, cs) /\ y \in ThreadSet /\ cs[e].fn = "resume" BY <1>3, <1>12, <2>2
    <3>4. /\ Wf([th EXCEPT ![cs[e].L] = y], SubSeq(cs, 1, e - 1))
          /\ \A i \in 1 .. e - 1 : cs[i].L # cs[e].L
          /\ cs[e].L # Main /\ e > 1
          /\ cs[e - 1].fn = "cfunction" /\ cs[e - 1].f \in {"resume", "wrap"}
      BY <3>1, <3>2, <3>3, PopResumeWf
    <3> QED BY <1>7, <3>4
  <2>4. e - 1 \in 1 .. e - 1 /\ e - 1 # 0 BY <1>6, <2>3
  <2>5. rest # <<>> /\ rest[Len(rest)] = cs[e - 1] BY <1>9, <2>4
  <2>6. ~Has(rest, L) BY <1>9, <2>3 DEF Has
  <2> HIDE DEF rest
  <2>7. TopFits(rest, "run") BY <2>3, <2>5 DEF TopFits
  <2>8. Status(y, L, rest, "run") BY <2>2, <2>3, <2>6 DEF Status
  <2>9. Over(y, L, rest, ov) BY <2>2, <2>6 DEF Over
  <2>10. L \in ov /\ \A M \in Threads : M # L => (M \in over <=> M \in ov) OBVIOUS
  <2> HIDE DEF ov
  <2>11. Inv(t, rest, "run", ov)
    BY <1>3, <1>9, <1>10, <2>2, <2>3, <2>6, <2>7, <2>8, <2>9, <2>10, StepInv DEF n
  <2>12. PICK at \in {"start", "after", "failed"} :
            at = IF rest[Len(rest)].f = "wrap" THEN "failed" ELSE "after"
    OBVIOUS
  <2> DEFINE u == Append(SubSeq(rest, 1, Len(rest) - 1),
                         CFunction(rest[Len(rest)].L, rest[Len(rest)].f, at))
  <2>13. rest[Len(rest)].fn = "cfunction" BY <2>3, <2>5
  <2> HIDE DEF t
  <2>14. Inv(t, u, "run", ov) BY <2>5, <2>11, <2>13, GoesOn
  <2>15. Step(L, y, u, "run") /\ over' = ov BY <1>5, <1>12, <2>12 DEF Front, Last, rest, y, ov
  <2>16. th' = t /\ cs' = u /\ mode' = "run" BY <2>15 DEF Step, t
  <2> HIDE DEF u
  <2> QED BY <1>1, <2>14, <2>15, <2>16 DEF IInv
<1> QED BY <1>4, <1>11, <1>12

-----------------------------------------------------------------------------
(* The collector changes only the size of a list of CallInfos.             *)
LEMMA ShrinkInv ==
  ASSUME IInv, NEW L \in Threads, ShrinkCi(L) PROVE IInv'
<1> DEFINE x == th[L]
           y == [x EXCEPT !.size_ci = @ \div 2]
<1>1. /\ 4 * (Len(x.ci) - 1) < x.size_ci /\ 2 * BASIC_CI_SIZE < x.size_ci
      /\ th' = [th EXCEPT ![L].size_ci = @ \div 2]
      /\ UNCHANGED <<cs, mode, over, program>>
  BY DEF ShrinkCi
<1>2. Wf(th, cs) BY DEF IInv, Inv
<1>3. th \in [Threads -> ThreadSet] /\ x \in ThreadSet /\ Len(x.ci) \in 1 .. x.size_ci
  BY <1>2, WfFacts
<1>4. x.size_ci \in Nat /\ Len(x.ci) \in Nat BY <1>3, ThreadFacts
<1>5. x.size_ci \div 2 \in Nat /\ Len(x.ci) \in 1 .. x.size_ci \div 2
  <2>1. BASIC_CI_SIZE \in Nat /\ BASIC_CI_SIZE >= 1 BY LimitsAssumption
  <2> DEFINE a == x.size_ci
             b == Len(x.ci)
  <2>2. a \in Nat /\ b \in Nat /\ b >= 1 /\ 4 * (b - 1) < a /\ 2 < a BY <1>1, <1>3, <1>4, <2>1
  <2> HIDE DEF a, b
  <2>3. a \div 2 \in Nat /\ b <= a \div 2 BY <2>2
  <2> QED BY <2>2, <2>3 DEF a, b
<1>6. th' = [th EXCEPT ![L] = y] BY <1>1, <1>3
<1>7. /\ y \in ThreadSet /\ y.ci = x.ci /\ y.status = x.status /\ y.nCcalls = x.nCcalls
      /\ y.baseCcalls = x.baseCcalls /\ y.errfunc = x.errfunc /\ y.left = x.left
      /\ Len(y.ci) \in 1 .. y.size_ci
  BY <1>3, <1>5 DEF ThreadSet
<1> HIDE DEF y
<1>8. Wf(th', cs) BY <1>2, <1>6, <1>7, KeepWf
<1>9. ASSUME NEW M \in Threads
      PROVE  /\ th'[M].status = th[M].status /\ th'[M].nCcalls = th[M].nCcalls
             /\ th'[M].ci = th[M].ci /\ th'[M].errfunc = th[M].errfunc /\ th'[M].left = th[M].left
  BY <1>3, <1>6, <1>7
<1>10. TopFits(cs, mode) BY DEF IInv, Inv
<1>11. ASSUME NEW M \in Threads, Has(cs, M) PROVE Bounded(th'[M].nCcalls, M, cs, mode)
  <2>1. Bounded(th[M].nCcalls, M, cs, mode) BY <1>11 DEF IInv, Inv
  <2> QED BY <1>9, <2>1
<1>12. ASSUME NEW M \in Threads PROVE Status(th'[M], M, cs, mode)
  <2>1. Status(th[M], M, cs, mode) BY DEF IInv, Inv
  <2> QED BY <1>9, <2>1 DEF Status
<1>13. ASSUME ~ManyResults, NEW co \in Coroutines PROVE Over(th'[co], co, cs, over)
  <2>1. Over(th[co], co, cs, over) BY <1>13 DEF IInv, Inv
  <2>2. co \in Threads BY DEF Threads
  <2> QED BY <1>9, <2>1, <2>2 DEF Over
<1>14. ASSUME NEW co \in Coroutines, th'[co].status = "err" PROVE co \in over
  <2>1. co \in Threads BY DEF Threads
  <2> QED BY <1>9, <1>14, <2>1 DEF IInv, Inv
<1>15. Inv(th', cs, mode, over) BY <1>8, <1>10, <1>11, <1>12, <1>13, <1>14 DEF Inv
<1> QED BY <1>1, <1>15 DEF IInv

-----------------------------------------------------------------------------
(* The invariant                                                           *)

(* The invariant holds when lua_newstate has built the main thread.        *)
LEMMA InitInv ==
  ASSUME Init PROVE IInv
<1>1. /\ th = [L \in Threads |-> IF L = Main THEN NewThread ELSE Unborn]
      /\ cs = <<>> /\ mode = "return" /\ over = Coroutines /\ program \in Programs
  BY DEF Init
<1>2. /\ NewThread \in ThreadSet /\ Len(NewThread.ci) = 1 /\ Len(NewThread.ci) \in 1 .. NewThread.size_ci
      /\ NewThread.status = "ok" /\ ~NewThread.errfunc
      /\ NewThread.nCcalls = 0 /\ NewThread.baseCcalls = 0
      /\ Unborn \in ThreadSet /\ Unborn.ci = NewThread.ci /\ Unborn.size_ci = NewThread.size_ci
      /\ Unborn.status = "ok" /\ ~Unborn.errfunc /\ Unborn.left = "nothing"
  <2>1. BASIC_CI_SIZE \in Nat /\ BASIC_CI_SIZE >= 1 BY LimitsAssumption
  <2>2. <<"base">> \in Seq(Names) /\ Len(<<"base">>) = 1 BY DEF Names
  <2>3. /\ NewThread \in ThreadSet /\ NewThread.ci = <<"base">> /\ NewThread.size_ci = BASIC_CI_SIZE
        /\ NewThread.status = "ok" /\ ~NewThread.errfunc
        /\ NewThread.nCcalls = 0 /\ NewThread.baseCcalls = 0
    BY <2>1, <2>2 DEF NewThread, ThreadSet
  <2>4. /\ Unborn \in ThreadSet /\ Unborn.ci = NewThread.ci /\ Unborn.size_ci = NewThread.size_ci
        /\ Unborn.status = NewThread.status /\ Unborn.errfunc = NewThread.errfunc
        /\ Unborn.left = "nothing"
    BY <2>3 DEF Unborn, ThreadSet
  <2> QED BY <2>1, <2>2, <2>3, <2>4
<1>3. /\ th \in [Threads -> ThreadSet]
      /\ \A L \in Threads : /\ Len(th[L].ci) = 1 /\ Len(th[L].ci) \in 1 .. th[L].size_ci
                            /\ th[L].status = "ok" /\ ~th[L].errfunc
                            /\ L # Main => th[L].left = "nothing"
      /\ th[Main].baseCcalls = 0 /\ th[Main].nCcalls = 0
  BY <1>1, <1>2 DEF Threads
<1>4. cs \in Seq(FrameSet) /\ Len(cs) = 0 /\ DOMAIN cs = {} BY <1>1
<1>5. \A L : ~Has(cs, L) BY <1>4 DEF Has
<1>6. \A L \in Threads : Exact(th[L], cs, L)
  <2>1. \A L \in Threads : Depth(cs, L, 0) = 0 /\ ~Handled(cs, L, 0)
    BY <1>4, DepthFacts, HandledFacts
  <2>2. SUFFICES ASSUME NEW L \in Threads PROVE Exact(th[L], cs, L) OBVIOUS
  <2>3. Len(th[L].ci) = 1 + Depth(cs, L, Len(cs))
    <3> DEFINE a == Len(th[L].ci)
               d == Depth(cs, L, Len(cs))
    <3>1. a = 1 /\ d = 0 BY <1>3, <1>4, <2>1
    <3> HIDE DEF a, d
    <3>2. a = 1 + d BY <3>1
    <3> QED BY <3>2 DEF a, d
  <2>4. th[L].errfunc <=> Handled(cs, L, Len(cs)) BY <1>3, <1>4, <2>1
  <2> QED BY <1>4, <2>3, <2>4 DEF Exact
<1>7. Apart(cs) BY <1>4 DEF Apart
<1>8. Wf(th, cs) BY <1>3, <1>4, <1>6, <1>7 DEF Wf
<1>9. TopFits(cs, mode) BY <1>1 DEF TopFits
<1>10. \A L \in Threads : Status(th[L], L, cs, mode) BY <1>3, <1>5 DEF Status
<1>11. \A co \in Coroutines : Over(th[co], co, cs, over) /\ th[co].status # "err"
  <2>1. \A co \in Coroutines : co \in Threads /\ co # Main BY LimitsAssumption DEF Threads
  <2> QED BY <1>1, <1>3, <1>5, <2>1 DEF Over
<1> QED BY <1>1, <1>5, <1>8, <1>9, <1>10, <1>11 DEF IInv, Inv

(* Every step keeps the invariant.                                         *)
LEMMA NextInv ==
  ASSUME IInv, [Next]_vars PROVE IInv'
<1>1. CASE UNCHANGED vars BY <1>1 DEF IInv, vars
<1>2. CASE Next
  <2>1. program.coroutines \subseteq Coroutines
    <3>1. program \in Programs BY DEF IInv
    <3> QED BY <3>1, LimitsAssumption
  <2>2. CASE lua_cpcall BY <2>2, CpcallInv
  <2>3. ASSUME NEW f \in Callable,
               OP_CALL(f) \/ CallTM(f) \/ lua_call(f) \/ luaB_pcall(f) \/ luaG_errormsg(f)
        PROVE  IInv'
    <3>1. f \in Names \ {"base"} BY CallableNames
    <3>2. CASE OP_CALL(f) BY <3>1, <3>2, PrecallInv
    <3>3. CASE CallTM(f) BY <3>1, <3>3, CallInv DEF CallTM, Runs, On
    <3>4. CASE lua_call(f) BY <3>1, <3>4, CallInv DEF lua_call, Runs, On
    <3>5. CASE luaB_pcall(f) BY <3>1, <3>5, PcallInv
    <3>6. CASE luaG_errormsg(f) BY <3>1, <3>6, ErrormsgInv
    <3> QED BY <2>3, <3>2, <3>3, <3>4, <3>5, <3>6
  <2>4. CASE OP_RETURN BY <2>4, ReturnInv
  <2>5. CASE CReturn BY <2>5, ReturnCInv DEF CReturn
  <2>6. CASE luaB_load BY <2>6, LoadInv
  <2>7. CASE enterlevel \/ leavelevel BY <2>7, LevelInv
  <2>8. CASE generic_reader
    <3>1. "lua" \in Names \ {"base"} BY DEF Names
    <3> QED BY <2>8, <3>1, CallInv DEF generic_reader, Runs, On
  <2>9. CASE Raise \/ luaX_syntaxerror \/ WrapFails \/ ToExecute \/ HandlerReturns
    BY <2>9, ModesInv
  <2>10. CASE Parsed \/ FromCall \/ FromPcall BY <2>10, LeaveInv
  <2>11. ASSUME NEW co \in program.coroutines,
                luaB_cocreate(co) \/ ResumeRefused(co) \/ ResumeOverflow(co) \/ Resume(co)
         PROVE  IInv'
    <3>1. co \in Coroutines BY <2>1
    <3> QED BY <2>11, <3>1, CocreateInv, OnwardInv, OverflowInv, ResumeInv
  <2>12. CASE lua_yield BY <2>12, YieldInv
  <2>13. CASE ToCFunction BY <2>13, OnwardInv
  <2>14. ASSUME NEW fits \in BOOLEAN, FromResume(fits) PROVE IInv' BY <2>14, FromResumeInv
  <2>15. CASE luaD_throw BY <2>15, ThrowInv
  <2>16. ASSUME NEW L \in Threads, ShrinkCi(L) PROVE IInv' BY <2>16, ShrinkInv
  <2> QED BY <1>2, <2>2, <2>3, <2>4, <2>5, <2>6, <2>7, <2>8, <2>9, <2>10, <2>11, <2>12, <2>13,
             <2>14, <2>15, <2>16 DEF Next
<1> QED BY <1>1, <1>2

(* The invariant holds in every state.                                     *)
THEOREM Invariant == Spec => []IInv
<1>1. Init => IInv BY InitInv
<1>2. IInv /\ [Next]_vars => IInv' BY NextInv
<1> QED BY <1>1, <1>2, PTL DEF Spec

-----------------------------------------------------------------------------
(* The properties                                                          *)

(* The last frame of a thread.                                             *)
LEMMA FramesOfFacts ==
  ASSUME IInv, NEW L \in Threads
  PROVE  /\ FramesOf(L) = {} <=> ~Has(cs, L)
         /\ FramesOf(L) # {} => /\ Max(FramesOf(L)) \in 1 .. Len(cs)
                                /\ IsLast(cs, L, Max(FramesOf(L)))
<1> DEFINE n == Len(cs)
           S == FramesOf(L)
<1>1. Wf(th, cs) BY DEF IInv, Inv
<1>2. n \in Nat /\ DOMAIN cs = 1 .. n BY <1>1, WfFacts
<1>3. S = {i \in 1 .. n : cs[i].L = L} BY <1>2 DEF FramesOf
<1>4. S = {} <=> ~Has(cs, L) BY <1>2, <1>3 DEF Has
<1>5. ASSUME S # {} PROVE Max(S) \in 1 .. n /\ IsLast(cs, L, Max(S))
  <2>1. S \in SUBSET (1 .. n) BY <1>3
  <2> HIDE DEF S, n
  <2>2. PICK m \in S : \A i \in S : i <= m BY <1>2, <1>5, <2>1, GreatestElement
  <2>3. \A i \in S : m >= i BY <1>2, <2>1, <2>2
  <2>4. Max(S) \in S /\ \A i \in S : Max(S) >= i BY <2>2, <2>3 DEF Max
  <2> DEFINE k == Max(S)
  <2>5. k \in 1 .. n /\ cs[k].L = L /\ \A i \in 1 .. n : cs[i].L = L => k >= i BY <1>3, <2>4
  <2> HIDE DEF k
  <2>6. \A i \in k + 1 .. n : i \in 1 .. n /\ ~(k >= i) BY <1>2, <2>5
  <2>7. IsLast(cs, L, k) BY <1>2, <2>5, <2>6 DEF IsLast, n
  <2> QED BY <2>5, <2>7 DEF k
<1> QED BY <1>4, <1>5

(* The invariant implies AssertionsHold.                                   *)
LEMMA AssertionsHoldInv ==
  ASSUME IInv PROVE AssertionsHold
<1>1. Wf(th, cs) BY DEF IInv, Inv
<1>2. ASSUME NEW L \in Threads PROVE Len(th[L].ci) <= th[L].size_ci
  <2>1. Len(th[L].ci) \in 1 .. th[L].size_ci /\ th[L] \in ThreadSet BY <1>1, WfFacts
  <2>2. th[L].size_ci \in Nat BY <2>1, ThreadFacts
  <2> QED BY <2>1, <2>2
<1>3. ASSUME mode \in {"errrun", "errerr"}
      PROVE  /\ Catchers(Running) # {}
             /\ \A i \in errorJmp + 1 .. Len(cs) : cs[i].fn \notin {"pcall", "resume"}
  <2>1. cs # <<>> BY <1>3 DEF IInv, Inv, TopFits
  <2> QED BY <2>1, ErrorJmp
<1>4. ASSUME Returns("resume") PROVE th[Running].nCcalls = th[Running].baseCcalls
  <2>1. cs # <<>> /\ Top.fn = "resume" BY <1>4 DEF Returns, On
  <2>2. /\ Running \in Threads /\ Running = cs[Len(cs)].L /\ Top = cs[Len(cs)]
        /\ Len(cs) \in DOMAIN cs
    BY <2>1, RunningFacts
  <2>3. th[Running].nCcalls = Counted(cs, Len(cs)) BY <1>1, <2>1, <2>2, RunningExact
  <2>4. th[Running].baseCcalls = Counted(cs, Len(cs)) BY <1>1, <2>1, <2>2 DEF Wf
  <2> QED BY <2>3, <2>4
<1>5. ASSUME NEW co \in Coroutines, co \notin over, FramesOf(co) = {} PROVE ~th[co].errfunc
  <2>1. co \in Threads /\ co # Main BY LimitsAssumption DEF Threads
  <2>2. ~Has(cs, co) BY <1>5, <2>1, FramesOfFacts
  <2>3. th[co].status # "err" BY <1>5 DEF IInv, Inv
  <2>4. Status(th[co], co, cs, mode) BY <2>1 DEF IInv, Inv
  <2> QED BY <2>1, <2>2, <2>3, <2>4 DEF Status
<1> QED BY <1>2, <1>3, <1>4, <1>5 DEF AssertionsHold

(* For any number of coroutines, any program and any limits: the           *)
(* assertions of lua_resume and resume hold, no CallInfo is pushed past    *)
(* the end of its list, luaD_throw finds a protected call of the running   *)
(* thread and it is the innermost of the process, and a coroutine that can *)
(* be resumed has no stale handler.                                        *)
THEOREM AssertionsAlwaysHold == Spec => []AssertionsHold
BY Invariant, AssertionsHoldInv, PTL

(* The invariant implies LevelsExact.                                      *)
LEMMA LevelsExactInv ==
  ASSUME IInv PROVE LevelsExact
<1>1. SUFFICES ASSUME NEW L \in Threads, FramesOf(L) # {}
               PROVE  /\ th[L].nCcalls = Counted(cs, Max(FramesOf(L)))
                      /\ th[L].nCcalls <= LUAI_MAXCCALLS + ErrorCcalls
                      /\ L # Main => th[L].baseCcalls = Counted(cs, Min(FramesOf(L)))
  BY DEF LevelsExact
<1>2. Wf(th, cs) /\ Has(cs, L) BY <1>1, FramesOfFacts DEF IInv, Inv
<1>3. Max(FramesOf(L)) \in 1 .. Len(cs) /\ IsLast(cs, L, Max(FramesOf(L)))
  BY <1>1, FramesOfFacts
<1>4. DOMAIN cs = 1 .. Len(cs) /\ Len(cs) \in Nat /\ th[L] \in ThreadSet BY <1>2, WfFacts
<1>5. th[L].nCcalls = Counted(cs, Max(FramesOf(L)))
  <2>1. Exact(th[L], cs, L) BY <1>2 DEF Wf
  <2>2. Active(cs, L) BY <1>2 DEF Active, Has
  <2> QED BY <1>3, <1>4, <2>1, <2>2 DEF Exact
<1>6. th[L].nCcalls <= LUAI_MAXCCALLS + ErrorCcalls
  <2>1. Bounded(th[L].nCcalls, L, cs, mode) BY <1>2 DEF IInv, Inv
  <2>2. th[L].nCcalls \in Nat BY <1>4, ThreadFacts
  <2> QED BY <2>1, <2>2, LimitsAssumption DEF Bounded
<1>7. ASSUME L # Main PROVE th[L].baseCcalls = Counted(cs, Min(FramesOf(L)))
  <2>1. PICK r \in 2 .. Len(cs) : /\ cs[r].L = L /\ cs[r].fn = "resume"
                                  /\ \A i \in 1 .. r - 1 : cs[i].L # L
    BY <1>2, <1>7, FirstFrame
  <2>2. r \in 1 .. Len(cs) BY <1>4
  <2>3. r \in FramesOf(L) BY <1>4, <2>1, <2>2 DEF FramesOf
  <2>4. \A i \in FramesOf(L) : i \in Nat /\ r =< i
    <3>1. SUFFICES ASSUME NEW i \in 1 .. Len(cs), cs[i].L = L PROVE i \in Nat /\ r =< i
      BY <1>4 DEF FramesOf
    <3>2. ~(i \in 1 .. r - 1) BY <2>1, <3>1
    <3> QED BY <1>4, <2>2, <3>2
  <2> DEFINE S == FramesOf(L)
  <2> HIDE DEF S
  <2>5. Min(S) = r
    <3>1. r \in S /\ \A i \in S : i \in Nat /\ r =< i BY <2>3, <2>4 DEF S
    <3>2. Min(S) \in S /\ \A i \in S : Min(S) =< i BY <3>1 DEF Min
    <3> DEFINE k == Min(S)
    <3>3. k \in Nat /\ r =< k /\ k =< r BY <3>1, <3>2
    <3> HIDE DEF k
    <3>4. k = r BY <2>2, <3>3
    <3> QED BY <3>4 DEF k
  <2>6. th[L].baseCcalls = Counted(cs, r) BY <1>2, <1>4, <2>1, <2>2 DEF Wf
  <2> QED BY <2>5, <2>6 DEF S
<1> QED BY <1>5, <1>6, <1>7

(* nCcalls of every active thread is the number of C calls below its last  *)
(* frame, those of its resumers included, and never exceeds LUAI_MAXCCALLS *)
(* and an eighth of it: the native stack is bounded, whatever errors and   *)
(* yields have cut off.                                                    *)
THEOREM LevelsAlwaysExact == Spec => []LevelsExact
BY Invariant, LevelsExactInv, PTL

(* The invariant implies HandlerCurrent.                                   *)
LEMMA HandlerCurrentInv ==
  ASSUME IInv PROVE HandlerCurrent
<1> DEFINE n == Len(cs)
           In(L) == {i \in FramesOf(L) : Installs(cs, i)}
<1>1. SUFFICES ASSUME NEW L \in Threads, FramesOf(L) # {}
               PROVE  th[L].errfunc =
                        (In(L) # {} /\ Max(In(L)) > 1 /\ cs[Max(In(L)) - 1].f = "xpcall")
  BY DEF HandlerCurrent, Installs
<1> DEFINE S == In(L)
<1>2. Wf(th, cs) /\ Has(cs, L) BY <1>1, FramesOfFacts DEF IInv, Inv
<1>3. DOMAIN cs = 1 .. n /\ n \in Nat /\ th[L] \in ThreadSet BY <1>2, WfFacts
<1>4. th[L].errfunc \in BOOLEAN BY <1>3, ThreadFacts
<1>5. th[L].errfunc <=> Handled(cs, L, n)
  <2>1. Exact(th[L], cs, L) BY <1>2 DEF Wf
  <2>2. Active(cs, L) BY <1>2 DEF Active, Has
  <2> QED BY <2>1, <2>2 DEF Exact
<1>6. \A i : i \in S <=> i \in 1 .. n /\ cs[i].L = L /\ Installs(cs, i) BY <1>3 DEF FramesOf
<1> HIDE DEF S, n
<1>7. ASSUME Handled(cs, L, n) PROVE S # {} /\ Max(S) > 1 /\ cs[Max(S) - 1].f = "xpcall"
  <2>1. PICK i \in 2 .. n : /\ cs[i].L = L /\ Installs(cs, i) /\ cs[i - 1].f = "xpcall"
                            /\ \A j \in i + 1 .. n : cs[j].L = L => ~Installs(cs, j)
    BY <1>7 DEF Handled
  <2>2. i \in 1 .. n /\ i > 1 BY <1>3
  <2>3. i \in S BY <1>6, <2>1, <2>2
  <2>4. \A j \in S : j \in Nat /\ i >= j
    <3>1. SUFFICES ASSUME NEW j \in S PROVE j \in Nat /\ i >= j OBVIOUS
    <3>2. j \in 1 .. n /\ cs[j].L = L /\ Installs(cs, j) BY <1>6
    <3>3. ~(j \in i + 1 .. n) BY <2>1, <3>2
    <3> QED BY <1>3, <2>2, <3>2, <3>3
  <2>5. Max(S) = i
    <3>1. Max(S) \in S /\ \A j \in S : Max(S) >= j BY <2>3, <2>4 DEF Max
    <3> DEFINE k == Max(S)
    <3>2. k \in Nat /\ k >= i /\ i >= k BY <2>3, <2>4, <3>1
    <3> HIDE DEF k
    <3>3. k = i BY <2>2, <3>2
    <3> QED BY <3>3 DEF k
  <2> QED BY <2>1, <2>2, <2>3, <2>5
<1>8. ASSUME S # {}, Max(S) > 1, cs[Max(S) - 1].f = "xpcall" PROVE Handled(cs, L, n)
  <2>1. S \in SUBSET (1 .. n) BY <1>6
  <2>2. PICK m \in S : \A i \in S : i <= m BY <1>3, <1>8, <2>1, GreatestElement
  <2>3. \A i \in S : m >= i BY <1>3, <2>1, <2>2
  <2>4. Max(S) \in S /\ \A i \in S : Max(S) >= i BY <2>2, <2>3 DEF Max
  <2> DEFINE k == Max(S)
  <2>5. k \in 1 .. n /\ cs[k].L = L /\ Installs(cs, k) /\ k > 1 /\ cs[k - 1].f = "xpcall"
        /\ \A i \in S : k >= i
    BY <1>6, <1>8, <2>4
  <2> HIDE DEF k
  <2>6. k \in 2 .. n /\ \A i \in k + 1 .. n : i \in 1 .. n /\ ~(k >= i) BY <1>3, <2>5
  <2>7. \A j \in k + 1 .. n : cs[j].L = L => ~Installs(cs, j) BY <1>6, <2>5, <2>6
  <2> QED BY <2>5, <2>6, <2>7 DEF Handled
<1>9. th[L].errfunc <=> (S # {} /\ Max(S) > 1 /\ cs[Max(S) - 1].f = "xpcall")
  BY <1>5, <1>7, <1>8
<1> QED BY <1>4, <1>9 DEF S

(* L->errfunc is always the handler of the innermost pcall or xpcall the   *)
(* thread is in.                                                           *)
THEOREM HandlerAlwaysCurrent == Spec => []HandlerCurrent
BY Invariant, HandlerCurrentInv, PTL

(* The invariant implies YieldLosesNothing.                                *)
LEMMA YieldLosesNothingInv ==
  ASSUME IInv PROVE YieldLosesNothing
<1>1. SUFFICES ASSUME NEW L \in Threads, th[L].status = "yield"
               PROVE  /\ \A i \in FramesOf(L) : i = Len(cs) /\ Returns("resume")
                      /\ \A i \in 2 .. Len(th[L].ci) - 1 : th[L].ci[i] = "lua"
                      /\ Last(th[L].ci) = "yield"
  BY DEF YieldLosesNothing
<1>2. Wf(th, cs) /\ Status(th[L], L, cs, mode) BY DEF IInv, Inv
<1>3. DOMAIN cs = 1 .. Len(cs) /\ Len(cs) \in Nat /\ (cs = <<>> <=> Len(cs) = 0) BY <1>2, WfFacts
<1>4. ASSUME NEW i \in FramesOf(L) PROVE i = Len(cs) /\ Returns("resume")
  <2>1. i \in DOMAIN cs /\ cs[i].L = L BY DEF FramesOf
  <2>2. i = Len(cs) /\ cs[i].fn = "resume" /\ mode = "return" BY <1>1, <1>2, <2>1 DEF Status
  <2>3. cs # <<>> BY <1>3, <2>1
  <2> QED BY <2>2, <2>3 DEF Returns, On, Top, Last
<1>5. /\ \A i \in 2 .. Len(th[L].ci) - 1 : th[L].ci[i] = "lua"
      /\ Last(th[L].ci) = "yield"
  BY <1>1, <1>2 DEF Status, Last
<1> QED BY <1>4, <1>5

(* A suspended coroutine has nothing on the native stack but the           *)
(* lua_resume that is returning, and only Lua functions below its call of  *)
(* yield: luaD_precall and luaV_execute lose no C function that would have *)
(* had to go on.                                                           *)
THEOREM YieldNeverLoses == Spec => []YieldLosesNothing
BY Invariant, YieldLosesNothingInv, PTL

(* The invariant implies StatusTrue.                                       *)
LEMMA StatusTrueInv ==
  ASSUME IInv, ~ManyResults PROVE StatusTrue
<1>1. SUFFICES ASSUME Runs("cfunction") \/ Runs("execute"), NEW co \in Coroutines
               PROVE  costatus(Running, co) =
                        CASE co = Running -> "running"
                          [] co # Running /\ FramesOf(co) # {} -> "normal"
                          [] FramesOf(co) = {} /\ co \in over -> "dead"
                          [] OTHER -> "suspended"
  BY DEF StatusTrue
<1>2. cs # <<>> /\ mode = "run" BY <1>1 DEF Runs, On
<1>3. co \in Threads /\ co # Main BY LimitsAssumption DEF Threads
<1>4. th[co] \in ThreadSet /\ Has(cs, Running) BY <1>2, <1>3, RunningFacts
<1>5. th[co].status \in {"ok", "yield", "err"} BY <1>4, ThreadFacts
<1>6. FramesOf(co) = {} <=> ~Has(cs, co) BY <1>3, FramesOfFacts
<1>7. Over(th[co], co, cs, over) /\ Status(th[co], co, cs, mode) BY <1>3 DEF IInv, Inv
<1>8. CASE co = Running
  <2>1. costatus(Running, co) = "running" BY <1>8 DEF costatus
  <2>2. FramesOf(co) # {} BY <1>4, <1>6, <1>8
  <2> QED BY <1>8, <2>1, <2>2
<1>9. CASE co # Running /\ Has(cs, co)
  <2>1. th[co].status = "ok" /\ Len(th[co].ci) > 1 BY <1>2, <1>9, ResumedCoroutine
  <2>2. costatus(Running, co) = "normal" BY <1>9, <2>1 DEF costatus
  <2> QED BY <1>6, <1>9, <2>2
<1>10. CASE co # Running /\ ~Has(cs, co)
  <2>1. th[co].status = "ok" => Len(th[co].ci) = 1 BY <1>3, <1>7, <1>10 DEF Status
  <2>2. co \in over <=> th[co].status = "err" \/ (th[co].status = "ok" /\ th[co].left = "nothing")
    BY <1>7, <1>10 DEF Over
  <2>3. costatus(Running, co) = IF co \in over THEN "dead" ELSE "suspended"
    <3>1. CASE th[co].status = "yield" BY <1>10, <2>2, <3>1 DEF costatus
    <3>2. CASE th[co].status = "err"
      <4>1. costatus(Running, co) = "dead" BY <1>10, <3>2 DEF costatus
      <4> QED BY <2>2, <3>2, <4>1
    <3>3. CASE th[co].status = "ok"
      <4>0. Len(th[co].ci) = 1 BY <2>1, <3>3
      <4>1. ~(Len(th[co].ci) > 1)
        <5> DEFINE a == Len(th[co].ci)
        <5>1. a = 1 BY <4>0
        <5> HIDE DEF a
        <5>2. ~(a > 1) BY <5>1
        <5> QED BY <5>2 DEF a
      <4>2. costatus(Running, co) = IF th[co].left = "nothing" THEN "dead" ELSE "suspended"
        BY <1>10, <3>3, <4>1 DEF costatus
      <4> QED BY <2>2, <3>3, <4>2
    <3> QED BY <1>5, <3>1, <3>2, <3>3
  <2> QED BY <1>6, <1>10, <2>3
<1> QED BY <1>8, <1>9, <1>10

(* When every resumer has room for the results of its coroutine, costatus  *)
(* tells what the coroutine is doing.  (When one has not, it does not: the *)
(* results that stay behind make a finished coroutine look suspended.)     *)
THEOREM StatusAlwaysTrue == ~ManyResults => (Spec => []StatusTrue)
<1> SUFFICES ASSUME ~ManyResults PROVE Spec => []StatusTrue OBVIOUS
<1>1. IInv => StatusTrue BY StatusTrueInv
<1> QED BY <1>1, Invariant, PTL
=============================================================================
