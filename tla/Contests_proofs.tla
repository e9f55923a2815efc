--------------------------- MODULE Contests_proofs ---------------------------
(***************************************************************************)
(* Proofs about Contests.                                                  *)
(*                                                                         *)
(* Labels and lines are folds over the submissions.  What a fold computes  *)
(* is shown by induction, and induction here is the least-number principle *)
(* stated of sets: the library's induction rules take a predicate, which    *)
(* the provers cannot instantiate, but the set of the indices at which a    *)
(* claim holds is a value like any other.  For the same reason the steps    *)
(* of a fold are given to the lemmas as a table.                           *)
(***************************************************************************)
EXTENDS Contests, FiniteSetTheorems, WellFoundedInduction, TLAPS

-----------------------------------------------------------------------------
(***************************************************************************)
(* Induction.                                                              *)
(***************************************************************************)

Below == OpToRel(<, Nat)

LEMMA BelowIsWellFounded == IsWellFoundedOn(Below, Nat)
  BY NatLessThanWellFounded DEF Below

LEMMA BelowIsLess == \A x, y \in Nat : <<x, y>> \in Below <=> x < y
<1>1. Below = {ss \in Nat \X Nat : ss[1] < ss[2]}
  BY Zenon DEF Below, OpToRel
<1>2. QED
  BY <1>1

LEMMA LeastNumber ==
    ASSUME NEW T \in SUBSET Nat, T # {} PROVE \E n \in T : \A m \in T : n <= m
<1>1. PICK n \in T : \A m \in T : ~(<<m, n>> \in Below)
  BY BelowIsWellFounded, WFMin
<1>2. ASSUME NEW m \in T PROVE n <= m
  <2>1. n \in Nat /\ m \in Nat /\ ~(<<m, n>> \in Below)
    BY <1>1
  <2>2. ~(m < n)
    BY <2>1, BelowIsLess
  <2>3. QED
    BY <2>1, <2>2
<1>3. QED
  BY <1>2

(* What holds of 0 and of a number's successor holds up to any number.     *)
LEMMA Climb ==
    ASSUME NEW n \in Nat, NEW T, 0 \in T, \A k \in 1..n : k - 1 \in T => k \in T
    PROVE  0..n \subseteq T
<1> DEFINE U == {k \in 0..n : k \notin T}
<1> SUFFICES ASSUME U # {} PROVE FALSE
  OBVIOUS
<1>1. U \in SUBSET Nat
  OBVIOUS
<1>2. PICK m \in U : \A k \in U : m <= k
  BY <1>1, LeastNumber
<1>3. m \in 1..n
  BY <1>2
<1>4. m - 1 \in 0..n /\ m - 1 \notin U
  BY <1>2, <1>3
<1>5. QED
  BY <1>2, <1>3, <1>4

(* The same from the other end.                                            *)
LEMMA Descend ==
    ASSUME NEW n \in Nat, NEW T, n + 1 \in T, \A k \in 1..n : k + 1 \in T => k \in T
    PROVE  1..(n + 1) \subseteq T
<1> DEFINE R == {j \in 0..n : n + 1 - j \in T}
<1>1. 0 \in R
  OBVIOUS
<1>2. ASSUME NEW j \in 1..n, j - 1 \in R PROVE j \in R
  <2>1. n + 1 - (j - 1) \in T
    BY <1>2
  <2>2. n + 1 - j \in 1..n /\ n + 1 - (j - 1) = (n + 1 - j) + 1
    OBVIOUS
  <2>3. n + 1 - j \in T
    BY <2>1, <2>2
  <2>4. QED
    BY <2>3
<1>3. 0..n \subseteq R
  <2> HIDE DEF R
  <2>1. QED
    BY <1>1, <1>2, Climb
<1>4. ASSUME NEW k \in 1..(n + 1) PROVE k \in T
  <2>1. n + 1 - k \in 0..n /\ n + 1 - (n + 1 - k) = k
    OBVIOUS
  <2>2. n + 1 - k \in R
    BY <1>3, <2>1
  <2>3. QED
    BY <2>1, <2>2
<1>5. QED
  BY <1>4

-----------------------------------------------------------------------------
(***************************************************************************)
(* Folds.  The library folds a set by taking its largest or its smallest    *)
(* element first; such a function exists for every table of steps.         *)
(***************************************************************************)

LEMMA MaxIsLast ==
    ASSUME NEW s, NEW k \in s, s \subseteq Int, \A x \in s : x <= k PROVE Max(s) = k
<1>1. \E x \in s : \A y \in s : x >= y
  OBVIOUS
<1>2. Max(s) \in s /\ \A y \in s : Max(s) >= y
  BY <1>1 DEF Max
<1>3. Max(s) \in Int /\ k \in Int /\ Max(s) >= k /\ Max(s) <= k
  BY <1>2
<1>4. QED
  BY <1>3

LEMMA MinIsFirst ==
    ASSUME NEW s, NEW k \in s, s \subseteq Int, \A x \in s : k <= x PROVE Min(s) = k
<1>1. \E x \in s : \A y \in s : x <= y
  OBVIOUS
<1>2. Min(s) \in s /\ \A y \in s : Min(s) <= y
  BY <1>1 DEF Min
<1>3. Min(s) \in Int /\ k \in Int /\ Min(s) <= k /\ k <= Min(s)
  BY <1>2
<1>4. QED
  BY <1>3

(* The largest and the smallest element of a part of an interval.          *)
LEMMA MaxIn ==
    ASSUME NEW n \in Nat, NEW s \in SUBSET (1..n), s # {} PROVE Max(s) \in s
<1> DEFINE R == {j \in 0..n : n - j \in s}
<1>1. R \in SUBSET Nat
  OBVIOUS
<1>2. R # {}
  <2>1. PICK x \in s : TRUE
    OBVIOUS
  <2>2. n - x \in 0..n /\ n - (n - x) = x
    OBVIOUS
  <2>3. QED
    BY <2>2
<1>3. PICK j \in R : \A i \in R : j <= i
  BY <1>1, <1>2, LeastNumber
<1>4. n - j \in s
  OBVIOUS
<1>5. ASSUME NEW x \in s PROVE x <= n - j
  <2>1. n - x \in R
    OBVIOUS
  <2>2. QED
    BY <1>3, <2>1
<1>6. s \subseteq Int
  OBVIOUS
<1>7. Max(s) = n - j
  BY <1>4, <1>5, <1>6, MaxIsLast
<1>8. QED
  BY <1>4, <1>7

LEMMA MinIn ==
    ASSUME NEW n \in Nat, NEW s \in SUBSET (1..n), s # {} PROVE Min(s) \in s
<1>1. s \in SUBSET Nat
  OBVIOUS
<1>2. PICK k \in s : \A x \in s : k <= x
  BY <1>1, LeastNumber
<1>3. s \subseteq Int
  OBVIOUS
<1>4. Min(s) = k
  BY <1>2, <1>3, MinIsFirst
<1>5. QED
  BY <1>4

(* A table of steps: from a row's number and a state to a state in V.      *)
Table(n, V, base, h) == n \in Nat /\ base \in V /\ h \in [(1..n) \X V -> V]

LeftFold(n, V, base, h, g) ==
    /\ g \in [SUBSET (1..n) -> V]
    /\ \A s \in SUBSET (1..n) : g[s] = IF s = {} THEN base ELSE h[<<Max(s), g[s \ {Max(s)}]>>]

RightFold(n, V, base, h, g) ==
    /\ g \in [SUBSET (1..n) -> V]
    /\ \A s \in SUBSET (1..n) : g[s] = IF s = {} THEN base ELSE h[<<Min(s), g[s \ {Min(s)}]>>]

LEMMA LeftFoldExists ==
    ASSUME NEW n, NEW V, NEW base, NEW h, Table(n, V, base, h)
    PROVE  \E g : LeftFold(n, V, base, h, g)
<1> USE DEF Table
<1> DEFINE Runs(g, k) == \A s \in SUBSET (1..k) :
              g[s] = IF s = {} THEN base ELSE h[<<Max(s), g[s \ {Max(s)}]>>]
           T == {k \in 0..n : \E g \in [SUBSET (1..k) -> V] : Runs(g, k)}
<1>1. 0 \in T
  <2> DEFINE g == [s \in SUBSET (1..0) |-> base]
  <2>1. g \in [SUBSET (1..0) -> V] /\ 1..0 = {}
    OBVIOUS
  <2>2. Runs(g, 0)
    BY <2>1
  <2> HIDE DEF g, Runs
  <2>3. \E f \in [SUBSET (1..0) -> V] : Runs(f, 0)
    BY <2>1, <2>2
  <2>4. 0 \in 0..n
    OBVIOUS
  <2>5. QED
    BY <2>3, <2>4, Zenon
<1>2. ASSUME NEW k \in 1..n, k - 1 \in T PROVE k \in T
  <2>1. PICK g \in [SUBSET (1..(k - 1)) -> V] : Runs(g, k - 1)
    BY <1>2
  <2> DEFINE f == [s \in SUBSET (1..k) |-> IF k \in s THEN h[<<k, g[s \ {k}]>>] ELSE g[s]]
  <2>2. ASSUME NEW s \in SUBSET (1..k)
        PROVE  /\ s \ {k} \in SUBSET (1..(k - 1))
               /\ k \notin s => s \in SUBSET (1..(k - 1))
    OBVIOUS
  <2>3. f \in [SUBSET (1..k) -> V]
    <3>1. ASSUME NEW s \in SUBSET (1..k) PROVE f[s] \in V
      BY <2>2
    <3>2. QED
      BY <3>1
  <2>4. ASSUME NEW s \in SUBSET (1..k)
        PROVE  f[s] = IF s = {} THEN base ELSE h[<<Max(s), f[s \ {Max(s)}]>>]
    <3>1. CASE k \in s
      <4>0. s \subseteq Int /\ \A x \in s : x <= k
        OBVIOUS
      <4>1. Max(s) = k
        BY <3>1, <4>0, MaxIsLast
      <4>2. s \ {k} \in SUBSET (1..k) /\ k \notin s \ {k} /\ s # {}
        BY <3>1
      <4>3. f[s \ {k}] = g[s \ {k}]
        BY <4>2
      <4>4. QED
        BY <3>1, <4>1, <4>2, <4>3
    <3>2. CASE k \notin s
      <4>1. f[s] = g[s] /\ s \in SUBSET (1..(k - 1))
        BY <3>2, <2>2
      <4>2. CASE s = {}
        BY <2>1, <4>1, <4>2
      <4>3. CASE s # {}
        <5>0. s \in SUBSET (1..n)
          OBVIOUS
        <5>1. Max(s) \in s
          BY <4>3, <5>0, MaxIn
        <5>2. s \ {Max(s)} \in SUBSET (1..k) /\ k \notin s \ {Max(s)}
          BY <3>2
        <5>3. f[s \ {Max(s)}] = g[s \ {Max(s)}]
          BY <5>2
        <5>4. QED
          BY <2>1, <4>1, <4>3, <5>3
      <4>4. QED
        BY <4>2, <4>3
    <3>3. QED
      BY <3>1, <3>2
  <2>5. Runs(f, k)
    BY <2>4
  <2> HIDE DEF f, Runs
  <2>6. QED
    BY <2>3, <2>5
<1>3. n \in T
  <2> HIDE DEF T
  <2>1. 0..n \subseteq T
    BY <1>1, <1>2, Climb
  <2>2. QED
    BY <2>1
<1>4. \E g \in [SUBSET (1..n) -> V] : Runs(g, n)
  BY <1>3
<1>5. QED
  BY <1>4 DEF LeftFold

LEMMA RightFoldExists ==
    ASSUME NEW n, NEW V, NEW base, NEW h, Table(n, V, base, h)
    PROVE  \E g : RightFold(n, V, base, h, g)
<1> USE DEF Table
<1> DEFINE Runs(g, k) == \A s \in SUBSET (k..n) :
              g[s] = IF s = {} THEN base ELSE h[<<Min(s), g[s \ {Min(s)}]>>]
           T == {k \in 1..(n + 1) : \E g \in [SUBSET (k..n) -> V] : Runs(g, k)}
<1>1. n + 1 \in T
  <2> DEFINE g == [s \in SUBSET ((n + 1)..n) |-> base]
  <2>1. g \in [SUBSET ((n + 1)..n) -> V] /\ (n + 1)..n = {}
    OBVIOUS
  <2>2. Runs(g, n + 1)
    BY <2>1
  <2> HIDE DEF g, Runs
  <2>3. QED
    BY <2>1, <2>2
<1>2. ASSUME NEW k \in 1..n, k + 1 \in T PROVE k \in T
  <2>1. PICK g \in [SUBSET ((k + 1)..n) -> V] : Runs(g, k + 1)
    BY <1>2
  <2> DEFINE f == [s \in SUBSET (k..n) |-> IF k \in s THEN h[<<k, g[s \ {k}]>>] ELSE g[s]]
  <2>2. ASSUME NEW s \in SUBSET (k..n)
        PROVE  /\ s \ {k} \in SUBSET ((k + 1)..n)
               /\ k \notin s => s \in SUBSET ((k + 1)..n)
    OBVIOUS
  <2>3. f \in [SUBSET (k..n) -> V]
    <3>1. ASSUME NEW s \in SUBSET (k..n) PROVE f[s] \in V
      BY <2>2
    <3>2. QED
      BY <3>1
  <2>4. ASSUME NEW s \in SUBSET (k..n)
        PROVE  f[s] = IF s = {} THEN base ELSE h[<<Min(s), f[s \ {Min(s)}]>>]
    <3>1. CASE k \in s
      <4>0. s \subseteq Int /\ \A x \in s : k <= x
        OBVIOUS
      <4>1. Min(s) = k
        BY <3>1, <4>0, MinIsFirst
      <4>2. s \ {k} \in SUBSET (k..n) /\ k \notin s \ {k} /\ s # {}
        BY <3>1
      <4>3. f[s \ {k}] = g[s \ {k}]
        BY <4>2
      <4>4. QED
        BY <3>1, <4>1, <4>2, <4>3
    <3>2. CASE k \notin s
      <4>1. f[s] = g[s] /\ s \in SUBSET ((k + 1)..n)
        BY <3>2, <2>2
      <4>2. CASE s = {}
        BY <2>1, <4>1, <4>2
      <4>3. CASE s # {}
        <5>0. s \in SUBSET (1..n)
          OBVIOUS
        <5>1. Min(s) \in s
          BY <4>3, <5>0, MinIn
        <5>2. s \ {Min(s)} \in SUBSET (k..n) /\ k \notin s \ {Min(s)}
          BY <3>2
        <5>3. f[s \ {Min(s)}] = g[s \ {Min(s)}]
          BY <5>2
        <5>4. QED
          BY <2>1, <4>1, <4>3, <5>3
      <4>4. QED
        BY <4>2, <4>3
    <3>3. QED
      BY <3>1, <3>2
  <2>5. Runs(f, k)
    BY <2>4
  <2> HIDE DEF f, Runs
  <2>6. QED
    BY <2>3, <2>5
<1>3. 1 \in T
  <2> HIDE DEF T
  <2>1. 1..(n + 1) \subseteq T
    BY <1>1, <1>2, Descend
  <2>2. QED
    BY <2>1
<1>4. \E g \in [SUBSET (1..n) -> V] : Runs(g, 1)
  BY <1>3
<1>5. QED
  BY <1>4 DEF RightFold

(* The steps of a fold over an interval, one end at a time.                *)
LEMMA LastOf ==
    ASSUME NEW k \in Nat \ {0}
    PROVE  1..k # {} /\ Max(1..k) = k /\ (1..k) \ {k} = 1..(k - 1)
<1>1. k \in 1..k /\ 1..k \subseteq Int /\ \A x \in 1..k : x <= k
  OBVIOUS
<1>2. Max(1..k) = k
  BY <1>1, MaxIsLast
<1>3. QED
  BY <1>2

LEMMA FirstOf ==
    ASSUME NEW n \in Nat, NEW k \in 1..n
    PROVE  k..n # {} /\ Min(k..n) = k /\ (k..n) \ {k} = (k + 1)..n
<1>1. k \in k..n /\ k..n \subseteq Int /\ \A x \in k..n : k <= x
  OBVIOUS
<1>2. Min(k..n) = k
  BY <1>1, MinIsFirst
<1>3. QED
  BY <1>2

(* A run of a table: the state after each row from the left ...            *)
LeftRun(n, V, base, h, f) ==
    /\ f \in [0..n -> V] /\ f[0] = base
    /\ \A k \in 1..n : f[k] = h[<<k, f[k - 1]>>]

(* ... or from the right.                                                  *)
RightRun(n, V, base, h, f) ==
    /\ f \in [1..(n + 1) -> V] /\ f[n + 1] = base
    /\ \A k \in 1..n : f[k] = h[<<k, f[k + 1]>>]

LEMMA LeftRuns ==
    ASSUME NEW n, NEW V, NEW base, NEW h, Table(n, V, base, h), NEW it, it[{}] = base,
           \A k \in 1..n : it[1..(k - 1)] \in V => it[1..k] = h[<<k, it[1..(k - 1)]>>]
    PROVE  \E f : LeftRun(n, V, base, h, f) /\ f[n] = it[1..n]
<1> USE DEF Table
<1> DEFINE T == {k \in 0..n : it[1..k] \in V}
           f == [k \in 0..n |-> it[1..k]]
<1>1. 0 \in T
  <2>1. 1..0 = {}
    OBVIOUS
  <2>2. QED
    BY <2>1
<1>2. ASSUME NEW k \in 1..n, k - 1 \in T PROVE k \in T
  <2>1. it[1..(k - 1)] \in V /\ k \in 0..n
    BY <1>2
  <2>2. it[1..k] = h[<<k, it[1..(k - 1)]>>]
    BY <2>1
  <2>3. it[1..k] \in V
    BY <2>1, <2>2
  <2>4. QED
    BY <2>1, <2>3
<1>3. 0..n \subseteq T
  <2> HIDE DEF T
  <2>1. QED
    BY <1>1, <1>2, Climb
<1>4. f \in [0..n -> V]
  BY <1>3
<1>5. f[0] = base
  <2>1. 1..0 = {} /\ 0 \in 0..n
    OBVIOUS
  <2>2. QED
    BY <2>1
<1>6. ASSUME NEW k \in 1..n PROVE f[k] = h[<<k, f[k - 1]>>]
  <2>1. k - 1 \in 0..n /\ k \in 0..n
    OBVIOUS
  <2>2. it[1..(k - 1)] \in V
    BY <1>3, <2>1
  <2>3. QED
    BY <2>1, <2>2
<1>7. f[n] = it[1..n]
  OBVIOUS
<1> HIDE DEF f
<1>8. QED
  BY <1>4, <1>5, <1>6, <1>7 DEF LeftRun

LEMMA RightRuns ==
    ASSUME NEW n, NEW V, NEW base, NEW h, Table(n, V, base, h), NEW it, it[{}] = base,
           \A k \in 1..n : it[(k + 1)..n] \in V => it[k..n] = h[<<k, it[(k + 1)..n]>>]
    PROVE  \E f : RightRun(n, V, base, h, f) /\ f[1] = it[1..n]
<1> USE DEF Table
<1> DEFINE T == {k \in 1..(n + 1) : it[k..n] \in V}
           f == [k \in 1..(n + 1) |-> it[k..n]]
<1>1. n + 1 \in T
  <2>1. (n + 1)..n = {}
    OBVIOUS
  <2>2. QED
    BY <2>1
<1>2. ASSUME NEW k \in 1..n, k + 1 \in T PROVE k \in T
  <2>1. it[(k + 1)..n] \in V /\ k \in 1..(n + 1)
    BY <1>2
  <2>2. it[k..n] = h[<<k, it[(k + 1)..n]>>]
    BY <2>1
  <2>3. it[k..n] \in V
    BY <2>1, <2>2
  <2>4. QED
    BY <2>1, <2>3
<1>3. 1..(n + 1) \subseteq T
  <2> HIDE DEF T
  <2>1. QED
    BY <1>1, <1>2, Descend
<1>4. f \in [1..(n + 1) -> V]
  BY <1>3
<1>5. f[n + 1] = base
  <2>1. (n + 1)..n = {} /\ n + 1 \in 1..(n + 1)
    OBVIOUS
  <2>2. QED
    BY <2>1
<1>6. ASSUME NEW k \in 1..n PROVE f[k] = h[<<k, f[k + 1]>>]
  <2>1. k + 1 \in 1..(n + 1) /\ k \in 1..(n + 1)
    OBVIOUS
  <2>2. it[(k + 1)..n] \in V
    BY <1>3, <2>1
  <2>3. QED
    BY <2>1, <2>2
<1>7. f[1] = it[1..n]
  OBVIOUS
<1> HIDE DEF f
<1>8. QED
  BY <1>4, <1>5, <1>6, <1>7 DEF RightRun

(* A table has one run.                                                    *)
LEMMA OneLeftRun ==
    ASSUME NEW n, NEW V, NEW base, NEW h, Table(n, V, base, h),
           NEW f, LeftRun(n, V, base, h, f), NEW g, LeftRun(n, V, base, h, g)
    PROVE  f[n] = g[n]
<1> DEFINE T == {k \in 0..n : f[k] = g[k]}
<1>0. n \in Nat
  BY DEF Table
<1>1. 0 \in T
  BY <1>0 DEF LeftRun
<1>2. ASSUME NEW k \in 1..n, k - 1 \in T PROVE k \in T
  <2>1. f[k - 1] = g[k - 1] /\ k \in 0..n
    BY <1>0, <1>2
  <2>2. f[k] = g[k]
    BY <2>1 DEF LeftRun
  <2>3. QED
    BY <2>1, <2>2
<1>3. 0..n \subseteq T
  <2> HIDE DEF T
  <2>1. QED
    BY <1>0, <1>1, <1>2, Climb
<1>4. n \in 0..n
  BY <1>0
<1>5. QED
  BY <1>3, <1>4

LEMMA OneRightRun ==
    ASSUME NEW n, NEW V, NEW base, NEW h, Table(n, V, base, h),
           NEW f, RightRun(n, V, base, h, f), NEW g, RightRun(n, V, base, h, g)
    PROVE  f[1] = g[1]
<1> DEFINE T == {k \in 1..(n + 1) : f[k] = g[k]}
<1>0. n \in Nat
  BY DEF Table
<1>1. n + 1 \in T
  BY <1>0 DEF RightRun
<1>2. ASSUME NEW k \in 1..n, k + 1 \in T PROVE k \in T
  <2>1. f[k + 1] = g[k + 1] /\ k \in 1..(n + 1)
    BY <1>0, <1>2
  <2>2. f[k] = g[k]
    BY <2>1 DEF RightRun
  <2>3. QED
    BY <2>1, <2>2
<1>3. 1..(n + 1) \subseteq T
  <2> HIDE DEF T
  <2>1. QED
    BY <1>0, <1>1, <1>2, Descend
<1>4. 1 \in 1..(n + 1)
  BY <1>0
<1>5. QED
  BY <1>3, <1>4

-----------------------------------------------------------------------------
(***************************************************************************)
(* The folds of the model are runs of their tables.                        *)
(***************************************************************************)

LEMMA RowsSeq ==
    ASSUME NEW rs \in Seq(Row)
    PROVE  Len(rs) \in Nat /\ DOMAIN rs = 1..Len(rs) /\ \A i \in DOMAIN rs : rs[i] \in Row
  OBVIOUS

Labels == {"none", "tried", "pending", "ac"}

(* The label of the problem.                                               *)
LabelTable(rs, v, contexts) ==
    [p \in (1..Len(rs)) \X Labels |->
        IF Mine(v, contexts, rs[p[1]]) THEN AddToLabel(v, rs[p[1]], p[2]) ELSE p[2]]

LEMMA LabelTableTyped ==
    ASSUME NEW rs \in Seq(Row), NEW v, NEW contexts
    PROVE  Table(Len(rs), Labels, "none", LabelTable(rs, v, contexts))
  BY DEF Table, LabelTable, AddToLabel, Labels

LEMMA LabelRuns ==
    ASSUME NEW rs \in Seq(Row), NEW v, NEW contexts
    PROVE  \E f : /\ RightRun(Len(rs), Labels, "none", LabelTable(rs, v, contexts), f)
                  /\ ProblemLabel(rs, v, contexts) = f[1]
<1> DEFINE n == Len(rs)
           h == LabelTable(rs, v, contexts)
           Step(k, x) == IF Mine(v, contexts, rs[k]) THEN AddToLabel(v, rs[k], x) ELSE x
           Body(g) == [s \in SUBSET (1..n) |->
                         IF s = {} THEN "none" ELSE Step(Min(s), g[s \ {Min(s)}])]
           it == CHOOSE g : g = Body(g)
<1>0. n \in Nat /\ DOMAIN rs = 1..n
  BY RowsSeq
<1>1. Table(n, Labels, "none", h)
  BY LabelTableTyped
<1>2. \A k \in 1..n, x \in Labels : h[<<k, x>>] = Step(k, x)
  BY DEF LabelTable
<1>3. PICK g : RightFold(n, Labels, "none", h, g)
  <2> HIDE DEF n, h
  <2>1. QED
    BY <1>1, RightFoldExists
<1> HIDE DEF h, Step
<1>4. g = Body(g)
  <2>1. ASSUME NEW s \in SUBSET (1..n), s # {} PROVE g[s] = Step(Min(s), g[s \ {Min(s)}])
    <3>1. Min(s) \in 1..n
      BY <1>0, <2>1, MinIn
    <3>2. g[s \ {Min(s)}] \in Labels
      BY <1>3 DEF RightFold
    <3>3. QED
      BY <1>2, <1>3, <2>1, <3>1, <3>2 DEF RightFold
  <2>2. QED
    BY <1>3, <2>1 DEF RightFold
<1>5. it = Body(it)
  <2> HIDE DEF Body
  <2>1. QED
    BY <1>4
<1>6. ProblemLabel(rs, v, contexts) = it[1..n]
  BY <1>0 DEF ProblemLabel, FoldRight, MapThenFoldSet, Step
<1> HIDE DEF it
<1>7. it[{}] = "none"
  BY <1>5
<1>8. ASSUME NEW k \in 1..n, it[(k + 1)..n] \in Labels PROVE it[k..n] = h[<<k, it[(k + 1)..n]>>]
  <2>1. k..n \in SUBSET (1..n) /\ k \in Nat \ {0}
    BY <1>0
  <2>2. k..n # {} /\ Min(k..n) = k /\ (k..n) \ {k} = (k + 1)..n
    BY <1>0, <2>1, FirstOf
  <2>3. it[k..n] = Step(k, it[(k + 1)..n])
    BY <1>5, <2>1, <2>2
  <2>4. QED
    BY <1>2, <1>8, <2>3
<1> HIDE DEF n
<1>9. \E f : RightRun(n, Labels, "none", h, f) /\ f[1] = it[1..n]
  BY <1>1, <1>7, <1>8, RightRuns
<1>10. QED
  BY <1>6, <1>9 DEF n, h

(* The label within the contest.                                           *)
ContestLabelTable(rs, v) ==
    [p \in (1..Len(rs)) \X Labels |->
        IF Mine(v, {"contest"}, rs[p[1]]) THEN AddToContestLabel(v, rs[p[1]], p[2]) ELSE p[2]]

LEMMA ContestLabelTableTyped ==
    ASSUME NEW rs \in Seq(Row), NEW v
    PROVE  Table(Len(rs), Labels, "none", ContestLabelTable(rs, v))
  BY DEF Table, ContestLabelTable, AddToContestLabel, Labels

LEMMA ContestLabelRuns ==
    ASSUME NEW rs \in Seq(Row), NEW v
    PROVE  \E f : /\ RightRun(Len(rs), Labels, "none", ContestLabelTable(rs, v), f)
                  /\ ContestLabel(rs, v) = f[1]
<1> DEFINE n == Len(rs)
           h == ContestLabelTable(rs, v)
           Step(k, x) == IF Mine(v, {"contest"}, rs[k]) THEN AddToContestLabel(v, rs[k], x) ELSE x
           Body(g) == [s \in SUBSET (1..n) |->
                         IF s = {} THEN "none" ELSE Step(Min(s), g[s \ {Min(s)}])]
           it == CHOOSE g : g = Body(g)
<1>0. n \in Nat /\ DOMAIN rs = 1..n
  BY RowsSeq
<1>1. Table(n, Labels, "none", h)
  BY ContestLabelTableTyped
<1>2. \A k \in 1..n, x \in Labels : h[<<k, x>>] = Step(k, x)
  BY DEF ContestLabelTable
<1>3. PICK g : RightFold(n, Labels, "none", h, g)
  <2> HIDE DEF n, h
  <2>1. QED
    BY <1>1, RightFoldExists
<1> HIDE DEF h, Step
<1>4. g = Body(g)
  <2>1. ASSUME NEW s \in SUBSET (1..n), s # {} PROVE g[s] = Step(Min(s), g[s \ {Min(s)}])
    <3>1. Min(s) \in 1..n
      BY <1>0, <2>1, MinIn
    <3>2. g[s \ {Min(s)}] \in Labels
      BY <1>3 DEF RightFold
    <3>3. QED
      BY <1>2, <1>3, <2>1, <3>1, <3>2 DEF RightFold
  <2>2. QED
    BY <1>3, <2>1 DEF RightFold
<1>5. it = Body(it)
  <2> HIDE DEF Body
  <2>1. QED
    BY <1>4
<1>6. ContestLabel(rs, v) = it[1..n]
  BY <1>0 DEF ContestLabel, FoldRight, MapThenFoldSet, Step
<1> HIDE DEF it
<1>7. it[{}] = "none"
  BY <1>5
<1>8. ASSUME NEW k \in 1..n, it[(k + 1)..n] \in Labels PROVE it[k..n] = h[<<k, it[(k + 1)..n]>>]
  <2>1. k..n \in SUBSET (1..n) /\ k \in Nat \ {0}
    BY <1>0
  <2>2. k..n # {} /\ Min(k..n) = k /\ (k..n) \ {k} = (k + 1)..n
    BY <1>0, <2>1, FirstOf
  <2>3. it[k..n] = Step(k, it[(k + 1)..n])
    BY <1>5, <2>1, <2>2
  <2>4. QED
    BY <1>2, <1>8, <2>3
<1> HIDE DEF n
<1>9. \E f : RightRun(n, Labels, "none", h, f) /\ f[1] = it[1..n]
  BY <1>1, <1>7, <1>8, RightRuns
<1>10. QED
  BY <1>6, <1>9 DEF n, h

(* A user's cell in the table of the assignment.                           *)
LEMMA ScoreTyped == ASSUME NEW row \in Row PROVE row.result.score \in Nat
  BY ConstantsAssumption DEF Row, Queued

Cells == [status : Labels, score : Nat \cup {NoScore}]

ProgressTable(rs, v, u) ==
    [p \in (1..Len(rs)) \X Cells |->
        IF Mine(u, {"assignment"}, rs[p[1]]) THEN AddToProgress(v, p[2], rs[p[1]]) ELSE p[2]]

LEMMA AddToProgressTyped ==
    ASSUME NEW v, NEW cell \in Cells, NEW row \in Row PROVE AddToProgress(v, cell, row) \in Cells
<1>1. row.result.score \in Nat
  BY ScoreTyped
<1>2. cell.status \in Labels /\ cell.score \in Nat \cup {NoScore}
  BY DEF Cells
<1>3. Better(cell, row) \in Nat \cup {NoScore}
  BY <1>1, <1>2 DEF Better
<1> HIDE DEF Better
<1>4. ASSUME NEW status \in Labels, NEW score \in Nat \cup {NoScore}
      PROVE  [status |-> status, score |-> score] \in Cells
  BY DEF Cells
<1>5. /\ [cell EXCEPT !.status = IF @ = "ac" THEN @ ELSE "pending"] \in Cells
      /\ [EmptyCell EXCEPT !.status = "pending"] \in Cells
  BY <1>2 DEF Cells, Labels, EmptyCell
<1>6. QED
  BY <1>3, <1>4, <1>5 DEF AddToProgress, Labels

LEMMA ProgressTableTyped ==
    ASSUME NEW rs \in Seq(Row), NEW v, NEW u
    PROVE  Table(Len(rs), Cells, EmptyCell, ProgressTable(rs, v, u))
<1>1. EmptyCell \in Cells /\ \A k \in 1..Len(rs) : rs[k] \in Row
  BY RowsSeq DEF EmptyCell, Cells, Labels
<1>2. Len(rs) \in Nat
  OBVIOUS
<1>3. QED
  BY <1>1, <1>2, AddToProgressTyped DEF Table, ProgressTable

LEMMA ProgressRuns ==
    ASSUME NEW rs \in Seq(Row), NEW v, NEW u
    PROVE  \E f : /\ LeftRun(Len(rs), Cells, EmptyCell, ProgressTable(rs, v, u), f)
                  /\ Progress(rs, v, u) = f[Len(rs)]
<1> DEFINE n == Len(rs)
           h == ProgressTable(rs, v, u)
           Step(k, x) == IF Mine(u, {"assignment"}, rs[k]) THEN AddToProgress(v, x, rs[k]) ELSE x
           Body(g) == [s \in SUBSET (1..n) |->
                         IF s = {} THEN EmptyCell ELSE Step(Max(s), g[s \ {Max(s)}])]
           it == CHOOSE g : g = Body(g)
<1>0. n \in Nat /\ DOMAIN rs = 1..n
  BY RowsSeq
<1>1. Table(n, Cells, EmptyCell, h)
  BY ProgressTableTyped
<1>2. \A k \in 1..n, x \in Cells : h[<<k, x>>] = Step(k, x)
  BY DEF ProgressTable
<1>3. PICK g : LeftFold(n, Cells, EmptyCell, h, g)
  <2> HIDE DEF n, h
  <2>1. QED
    BY <1>1, LeftFoldExists
<1> HIDE DEF h, Step
<1>4. g = Body(g)
  <2>1. ASSUME NEW s \in SUBSET (1..n), s # {} PROVE g[s] = Step(Max(s), g[s \ {Max(s)}])
    <3>1. Max(s) \in 1..n
      BY <1>0, <2>1, MaxIn
    <3>2. g[s \ {Max(s)}] \in Cells
      BY <1>3 DEF LeftFold
    <3>3. QED
      BY <1>2, <1>3, <2>1, <3>1, <3>2 DEF LeftFold
  <2>2. QED
    BY <1>3, <2>1 DEF LeftFold
<1>5. it = Body(it)
  <2> HIDE DEF Body
  <2>1. QED
    BY <1>4
<1>6. Progress(rs, v, u) = it[1..n]
  BY <1>0 DEF Progress, FoldLeft, MapThenFoldSet, Step
<1> HIDE DEF it
<1>7. it[{}] = EmptyCell
  BY <1>5
<1>8. ASSUME NEW k \in 1..n, it[1..(k - 1)] \in Cells PROVE it[1..k] = h[<<k, it[1..(k - 1)]>>]
  <2>1. 1..k \in SUBSET (1..n) /\ k \in Nat \ {0}
    BY <1>0
  <2>2. 1..k # {} /\ Max(1..k) = k /\ (1..k) \ {k} = 1..(k - 1)
    BY <1>0, <2>1, LastOf
  <2>3. it[1..k] = Step(k, it[1..(k - 1)])
    BY <1>5, <2>1, <2>2
  <2>4. QED
    BY <1>2, <1>8, <2>3
<1> HIDE DEF n
<1>9. \E f : LeftRun(n, Cells, EmptyCell, h, f) /\ f[n] = it[1..n]
  BY <1>1, <1>7, <1>8, LeftRuns
<1>10. QED
  BY <1>6, <1>9 DEF n, h

IcpcStates == [submit : Nat, pending : Nat, wrong : Nat, solved : BOOLEAN, penalty : Nat]

LEMMA MinutesTyped ==
    ASSUME contest.start \in Nat, NEW row \in Row PROVE Minutes(row) \in Nat
<1>1. row.at \in Nat
  BY ConstantsAssumption DEF Row, Times
<1>2. QED
  BY <1>1 DEF Minutes

(* A row that is not judged, or is behind the freeze, is pending; a row     *)
(* after the accepted one only counts; the first accepted one decides;     *)
(* others before it are wrong, unless they could not be compiled or judged.*)
LEMMA AddToIcpcIs ==
    ASSUME contest.start \in Nat, NEW cutoff, NEW row \in Row, NEW line \in IcpcStates,
           NEW new, new = AddToIcpc(cutoff, line, row)
    PROVE  /\ new \in IcpcStates
           /\ row.at >= cutoff \/ Live(row) =>
                 /\ new.pending = line.pending + 1 /\ new.submit = line.submit
                 /\ new.wrong = line.wrong /\ new.solved = line.solved /\ new.penalty = line.penalty
           /\ ~(row.at >= cutoff \/ Live(row)) =>
                 /\ new.pending = line.pending /\ new.submit = line.submit + 1
                 /\ line.solved => new.wrong = line.wrong /\ new.solved /\ new.penalty = line.penalty
                 /\ ~line.solved /\ Accepted(row) =>
                       /\ new.wrong = line.wrong /\ new.solved
                       /\ new.penalty = Minutes(row) + line.wrong * 20
                 /\ ~line.solved /\ ~Accepted(row) =>
                       /\ new.wrong = line.wrong + IF Penalizable(row) THEN 1 ELSE 0
                       /\ ~new.solved /\ new.penalty = line.penalty
<1> DEFINE submit == line.submit + 1
           pending == line.pending + 1
           penalty == Minutes(row) + line.wrong * 20
           wrong == line.wrong + IF Penalizable(row) THEN 1 ELSE 0
<1>1. submit \in Nat /\ pending \in Nat /\ penalty \in Nat /\ wrong \in Nat
  <2>1. Minutes(row) \in Nat
    BY MinutesTyped
  <2>2. line.submit \in Nat /\ line.pending \in Nat /\ line.wrong \in Nat
    BY DEF IcpcStates
  <2>3. QED
    BY <2>1, <2>2
<1>2. CASE row.at >= cutoff \/ Live(row)
  <2>1. new = [line EXCEPT !.pending = pending]
    BY <1>2 DEF AddToIcpc
  <2> HIDE DEF pending
  <2>2. /\ new \in IcpcStates /\ new.pending = pending /\ new.submit = line.submit
        /\ new.wrong = line.wrong /\ new.solved = line.solved /\ new.penalty = line.penalty
    BY <1>1, <2>1 DEF IcpcStates
  <2>3. QED
    BY <1>2, <2>2 DEF pending
<1>3. CASE ~(row.at >= cutoff \/ Live(row)) /\ line.solved
  <2>1. new = [line EXCEPT !.submit = submit]
    BY <1>3 DEF AddToIcpc
  <2> HIDE DEF submit
  <2>2. /\ new \in IcpcStates /\ new.submit = submit /\ new.pending = line.pending
        /\ new.wrong = line.wrong /\ new.solved = line.solved /\ new.penalty = line.penalty
    BY <1>1, <2>1 DEF IcpcStates
  <2>3. QED
    BY <1>3, <2>2 DEF submit
<1>4. CASE ~(row.at >= cutoff \/ Live(row)) /\ ~line.solved /\ Accepted(row)
  <2>1. new = [line EXCEPT !.submit = submit, !.solved = TRUE, !.penalty = penalty]
    BY <1>4 DEF AddToIcpc
  <2> HIDE DEF submit, penalty
  <2>2. /\ new \in IcpcStates /\ new.submit = submit /\ new.pending = line.pending
        /\ new.wrong = line.wrong /\ new.solved = TRUE /\ new.penalty = penalty
    BY <1>1, <2>1 DEF IcpcStates
  <2>3. QED
    BY <1>4, <2>2 DEF submit, penalty
<1>5. CASE ~(row.at >= cutoff \/ Live(row)) /\ ~line.solved /\ ~Accepted(row)
  <2>1. new = [line EXCEPT !.submit = submit, !.wrong = wrong]
    BY <1>5 DEF AddToIcpc
  <2> HIDE DEF submit, wrong
  <2>2. /\ new \in IcpcStates /\ new.submit = submit /\ new.pending = line.pending
        /\ new.wrong = wrong /\ new.solved = line.solved /\ new.penalty = line.penalty
    BY <1>1, <2>1 DEF IcpcStates
  <2>3. QED
    BY <1>5, <2>2 DEF submit, wrong
<1>6. QED
  BY <1>2, <1>3, <1>4, <1>5

(* A contestant's line in the standings of an ICPC contest.                *)
IcpcTable(rs, u, cutoff) ==
    [p \in (1..Len(rs)) \X IcpcStates |->
        IF Mine(u, {"contest"}, rs[p[1]]) THEN AddToIcpc(cutoff, p[2], rs[p[1]]) ELSE p[2]]

LEMMA IcpcTableTyped ==
    ASSUME NEW rs \in Seq(Row), NEW u, NEW cutoff, contest.start \in Nat
    PROVE  Table(Len(rs), IcpcStates, IcpcNone, IcpcTable(rs, u, cutoff))
<1>1. Len(rs) \in Nat /\ IcpcNone \in IcpcStates
  BY DEF IcpcNone, IcpcStates
<1>2. \A k \in 1..Len(rs) : rs[k] \in Row
  BY RowsSeq
<1>3. QED
  BY <1>1, <1>2, AddToIcpcIs DEF Table, IcpcTable

LEMMA IcpcRuns ==
    ASSUME NEW rs \in Seq(Row), NEW u, NEW cutoff, contest.start \in Nat
    PROVE  \E f : /\ LeftRun(Len(rs), IcpcStates, IcpcNone, IcpcTable(rs, u, cutoff), f)
                  /\ IcpcState(rs, u, cutoff) = f[Len(rs)]
<1> DEFINE n == Len(rs)
           h == IcpcTable(rs, u, cutoff)
           Step(k, x) == IF Mine(u, {"contest"}, rs[k]) THEN AddToIcpc(cutoff, x, rs[k]) ELSE x
           Body(g) == [s \in SUBSET (1..n) |->
                         IF s = {} THEN IcpcNone ELSE Step(Max(s), g[s \ {Max(s)}])]
           it == CHOOSE g : g = Body(g)
<1>0. n \in Nat /\ DOMAIN rs = 1..n
  BY RowsSeq
<1>1. Table(n, IcpcStates, IcpcNone, h)
  BY IcpcTableTyped
<1>2. \A k \in 1..n, x \in IcpcStates : h[<<k, x>>] = Step(k, x)
  BY DEF IcpcTable
<1>3. PICK g : LeftFold(n, IcpcStates, IcpcNone, h, g)
  <2> HIDE DEF n, h
  <2>1. QED
    BY <1>1, LeftFoldExists
<1> HIDE DEF h, Step
<1>4. g = Body(g)
  <2>1. ASSUME NEW s \in SUBSET (1..n), s # {} PROVE g[s] = Step(Max(s), g[s \ {Max(s)}])
    <3>1. Max(s) \in 1..n
      BY <1>0, <2>1, MaxIn
    <3>2. g[s \ {Max(s)}] \in IcpcStates
      BY <1>3 DEF LeftFold
    <3>3. QED
      BY <1>2, <1>3, <2>1, <3>1, <3>2 DEF LeftFold
  <2>2. QED
    BY <1>3, <2>1 DEF LeftFold
<1>5. it = Body(it)
  <2> HIDE DEF Body
  <2>1. QED
    BY <1>4
<1>6. IcpcState(rs, u, cutoff) = it[1..n]
  BY <1>0 DEF IcpcState, FoldLeft, MapThenFoldSet, Step
<1> HIDE DEF it
<1>7. it[{}] = IcpcNone
  BY <1>5
<1>8. ASSUME NEW k \in 1..n, it[1..(k - 1)] \in IcpcStates PROVE it[1..k] = h[<<k, it[1..(k - 1)]>>]
  <2>1. 1..k \in SUBSET (1..n) /\ k \in Nat \ {0}
    BY <1>0
  <2>2. 1..k # {} /\ Max(1..k) = k /\ (1..k) \ {k} = 1..(k - 1)
    BY <1>0, <2>1, LastOf
  <2>3. it[1..k] = Step(k, it[1..(k - 1)])
    BY <1>5, <2>1, <2>2
  <2>4. QED
    BY <1>2, <1>8, <2>3
<1> HIDE DEF n
<1>9. \E f : LeftRun(n, IcpcStates, IcpcNone, h, f) /\ f[n] = it[1..n]
  BY <1>1, <1>7, <1>8, LeftRuns
<1>10. QED
  BY <1>6, <1>9 DEF n, h

OiStates == [submit : Nat, pending : Nat, done : Nat, score : Nat, accepted : BOOLEAN]

LEMMA AddToOiIs ==
    ASSUME NEW row \in Row, NEW line \in OiStates, NEW new, new = AddToOi(line, row)
    PROVE  /\ new \in OiStates /\ new.submit = line.submit + 1
           /\ Live(row) =>
                 /\ new.pending = line.pending + 1 /\ new.done = line.done
                 /\ new.accepted = line.accepted /\ new.score = line.score
           /\ ~Live(row) =>
                 /\ new.pending = line.pending /\ new.done = line.done + 1
                 /\ new.accepted <=> (line.accepted \/ Accepted(row))
                 /\ new.score = IF line.done = 0 \/ row.result.score > line.score
                                THEN row.result.score ELSE line.score
<1> DEFINE submit == line.submit + 1
           pending == line.pending + 1
           done == line.done + 1
           accepted == line.accepted \/ Accepted(row)
           score == IF line.done = 0 \/ row.result.score > line.score
                    THEN row.result.score ELSE line.score
<1>1. submit \in Nat /\ pending \in Nat /\ done \in Nat /\ accepted \in BOOLEAN /\ score \in Nat
  <2>1. row.result.score \in Nat
    BY ScoreTyped
  <2>2. line.submit \in Nat /\ line.pending \in Nat /\ line.done \in Nat /\ line.score \in Nat
    BY DEF OiStates
  <2>3. QED
    BY <2>1, <2>2
<1>2. CASE Live(row)
  <2>1. new = [line EXCEPT !.submit = submit, !.pending = pending]
    BY <1>2 DEF AddToOi
  <2> HIDE DEF submit, pending
  <2>2. /\ new \in OiStates /\ new.submit = submit /\ new.pending = pending /\ new.done = line.done
        /\ new.accepted = line.accepted /\ new.score = line.score
    BY <1>1, <2>1 DEF OiStates
  <2>3. QED
    BY <1>2, <2>2 DEF submit, pending
<1>3. CASE ~Live(row)
  <2>1. new = [line EXCEPT !.submit = submit, !.done = done, !.accepted = accepted, !.score = score]
    BY <1>3 DEF AddToOi
  <2> HIDE DEF submit, done, accepted, score
  <2>2. /\ new \in OiStates /\ new.submit = submit /\ new.pending = line.pending /\ new.done = done
        /\ new.accepted = accepted /\ new.score = score
    BY <1>1, <2>1 DEF OiStates
  <2>3. QED
    BY <1>3, <2>2 DEF submit, done, accepted, score
<1>4. QED
  BY <1>2, <1>3

(* The same of an OI contest.                                              *)
OiTable(rs, u) ==
    [p \in (1..Len(rs)) \X OiStates |->
        IF Mine(u, {"contest"}, rs[p[1]]) THEN AddToOi(p[2], rs[p[1]]) ELSE p[2]]

LEMMA OiTableTyped ==
    ASSUME NEW rs \in Seq(Row), NEW u
    PROVE  Table(Len(rs), OiStates, OiNone, OiTable(rs, u))
<1>1. Len(rs) \in Nat /\ OiNone \in OiStates
  BY DEF OiNone, OiStates
<1>2. \A k \in 1..Len(rs) : rs[k] \in Row
  BY RowsSeq
<1>3. QED
  BY <1>1, <1>2, AddToOiIs DEF Table, OiTable

LEMMA OiRuns ==
    ASSUME NEW rs \in Seq(Row), NEW u
    PROVE  \E f : /\ LeftRun(Len(rs), OiStates, OiNone, OiTable(rs, u), f)
                  /\ OiState(rs, u) = f[Len(rs)]
<1> DEFINE n == Len(rs)
           h == OiTable(rs, u)
           Step(k, x) == IF Mine(u, {"contest"}, rs[k]) THEN AddToOi(x, rs[k]) ELSE x
           Body(g) == [s \in SUBSET (1..n) |->
                         IF s = {} THEN OiNone ELSE Step(Max(s), g[s \ {Max(s)}])]
           it == CHOOSE g : g = Body(g)
<1>0. n \in Nat /\ DOMAIN rs = 1..n
  BY RowsSeq
<1>1. Table(n, OiStates, OiNone, h)
  BY OiTableTyped
<1>2. \A k \in 1..n, x \in OiStates : h[<<k, x>>] = Step(k, x)
  BY DEF OiTable
<1>3. PICK g : LeftFold(n, OiStates, OiNone, h, g)
  <2> HIDE DEF n, h
  <2>1. QED
    BY <1>1, LeftFoldExists
<1> HIDE DEF h, Step
<1>4. g = Body(g)
  <2>1. ASSUME NEW s \in SUBSET (1..n), s # {} PROVE g[s] = Step(Max(s), g[s \ {Max(s)}])
    <3>1. Max(s) \in 1..n
      BY <1>0, <2>1, MaxIn
    <3>2. g[s \ {Max(s)}] \in OiStates
      BY <1>3 DEF LeftFold
    <3>3. QED
      BY <1>2, <1>3, <2>1, <3>1, <3>2 DEF LeftFold
  <2>2. QED
    BY <1>3, <2>1 DEF LeftFold
<1>5. it = Body(it)
  <2> HIDE DEF Body
  <2>1. QED
    BY <1>4
<1>6. OiState(rs, u) = it[1..n]
  BY <1>0 DEF OiState, FoldLeft, MapThenFoldSet, Step
<1> HIDE DEF it
<1>7. it[{}] = OiNone
  BY <1>5
<1>8. ASSUME NEW k \in 1..n, it[1..(k - 1)] \in OiStates PROVE it[1..k] = h[<<k, it[1..(k - 1)]>>]
  <2>1. 1..k \in SUBSET (1..n) /\ k \in Nat \ {0}
    BY <1>0
  <2>2. 1..k # {} /\ Max(1..k) = k /\ (1..k) \ {k} = 1..(k - 1)
    BY <1>0, <2>1, LastOf
  <2>3. it[1..k] = Step(k, it[1..(k - 1)])
    BY <1>5, <2>1, <2>2
  <2>4. QED
    BY <1>2, <1>8, <2>3
<1> HIDE DEF n
<1>9. \E f : LeftRun(n, OiStates, OiNone, h, f) /\ f[n] = it[1..n]
  BY <1>1, <1>7, <1>8, LeftRuns
<1>10. QED
  BY <1>6, <1>9 DEF n, h

-----------------------------------------------------------------------------
(***************************************************************************)
(* Types, and no submission is from the future.                            *)
(***************************************************************************)

RowsArePast == \A i \in DOMAIN rows : rows[i].at <= now

Sound == TypeOK /\ RowsArePast

LEMMA Constants ==
    /\ Times \subseteq Nat /\ Never \in Nat /\ 0 \in Times
    /\ \A t \in Times : t < Never
    /\ MaxTime \in Nat /\ MaxRows \in Nat /\ MaxEdits \in Nat
    /\ Queued \notin Results
  BY ConstantsAssumption DEF Times, Never

LEMMA SoundInit == Init => Sound
<1> SUFFICES ASSUME Init PROVE Sound
  OBVIOUS
<1>1. NoContest \in Contest
  BY Constants DEF NoContest, Contest
<1>2. rows \in Seq(Row) /\ Len(rows) = 0 /\ DOMAIN rows = {}
  BY DEF Init
<1>3. TypeOK
  BY <1>1, <1>2, Constants DEF Init, TypeOK, NoContest
<1>4. QED
  BY <1>2, <1>3 DEF Sound, RowsArePast

(* What every step but the clock's and the administrators' leaves alone.   *)
Setting == <<now, visible, contest, updating, edits>>

LEMMA RowsSound ==
    ASSUME Sound, UNCHANGED Setting, checked' \in [Users -> Contexts \cup {NoRequest}],
           rows' \in Seq(Row), Len(rows') <= MaxRows, \A i \in DOMAIN rows' : rows'[i].at <= now
    PROVE  Sound'
  BY DEF Sound, TypeOK, RowsArePast, Setting

LEMMA SubmitSound ==
    ASSUME Sound, NEW u \in Users, CreateSubmission(u) \/ \E context \in Contexts : CheckSubmit(u, context)
    PROVE  Sound'
<1>0. rows \in Seq(Row) /\ Len(rows) <= MaxRows /\ now \in Times
      /\ checked \in [Users -> Contexts \cup {NoRequest}]
  BY DEF Sound, TypeOK
<1>1. CASE \E context \in Contexts : CheckSubmit(u, context)
  BY <1>0, <1>1, RowsSound DEF CheckSubmit, Sound, RowsArePast, Setting
<1>2. CASE CreateSubmission(u)
  <2> DEFINE row == [user |-> u, context |-> checked[u], at |-> now, result |-> Queued]
  <2>1. row \in Row
    BY <1>0, <1>2 DEF CreateSubmission, Row
  <2>2. row.at <= now
    BY <1>0, Constants
  <2> HIDE DEF row
  <2>3. rows' = Append(rows, row) /\ Len(rows) < MaxRows
    BY <1>2 DEF CreateSubmission, row
  <2>4. rows' \in Seq(Row) /\ Len(rows') <= MaxRows
    BY <1>0, <2>1, <2>3, Constants
  <2>5. ASSUME NEW i \in DOMAIN rows' PROVE rows'[i].at <= now
    <3>1. (i \in DOMAIN rows /\ rows'[i] = rows[i]) \/ rows'[i] = row
      BY <1>0, <2>1, <2>3
    <3>2. QED
      BY <2>2, <3>1 DEF Sound, RowsArePast
  <2>6. checked' \in [Users -> Contexts \cup {NoRequest}] /\ UNCHANGED Setting
    BY <1>0, <1>2 DEF CreateSubmission, Setting
  <2>7. QED
    BY <2>4, <2>5, <2>6, RowsSound
<1>3. QED
  BY <1>1, <1>2

(* A new result is all that judging changes in a row.                      *)
LEMMA JudgedSound ==
    ASSUME Sound, UNCHANGED <<Setting, checked>>, DOMAIN rows' = DOMAIN rows, rows' \in Seq(Row),
           \A i \in DOMAIN rows : rows'[i].at = rows[i].at
    PROVE  Sound'
<1>1. Len(rows') = Len(rows)
  BY DEF Sound, TypeOK
<1>2. QED
  BY <1>1, RowsSound DEF Sound, TypeOK, RowsArePast

LEMMA NewResult ==
    ASSUME NEW row \in Row, NEW r \in Results \cup {Queued}
    PROVE  LET new == [row EXCEPT !.result = r]
           IN new \in Row /\ new.at = row.at /\ new.user = row.user /\ new.context = row.context
              /\ new.result = r
  BY DEF Row

LEMMA OneJudgedSound ==
    ASSUME Sound, NEW i \in DOMAIN rows, NEW r \in Results \cup {Queued},
           rows' = [rows EXCEPT ![i].result = r], UNCHANGED <<Setting, checked>>
    PROVE  Sound'
<1> DEFINE new == [rows[i] EXCEPT !.result = r]
<1>0. rows \in Seq(Row)
  BY DEF Sound, TypeOK
<1>1. rows[i] \in Row
  BY <1>0, RowsSeq
<1>2. new \in Row /\ new.at = rows[i].at
  BY <1>1, NewResult
<1>3. rows' = [rows EXCEPT ![i] = new]
  OBVIOUS
<1> HIDE DEF new
<1>4. rows' \in Seq(Row) /\ DOMAIN rows' = DOMAIN rows
  BY <1>0, <1>2, <1>3
<1>5. \A k \in DOMAIN rows : rows'[k].at = rows[k].at
  BY <1>0, <1>2, <1>3
<1>6. QED
  BY <1>4, <1>5, JudgedSound

LEMMA JudgeSound ==
    ASSUME Sound, RejudgeProblem \/ \E i \in 1..MaxRows : Judge(i) \/ RejudgeSubmission(i)
    PROVE  Sound'
<1>1. ASSUME NEW i \in 1..MaxRows, Judge(i) PROVE Sound'
  BY <1>1, OneJudgedSound DEF Judge, Setting
<1>2. ASSUME NEW i \in 1..MaxRows, RejudgeSubmission(i) PROVE Sound'
  BY <1>2, OneJudgedSound DEF RejudgeSubmission, Setting
<1>3. CASE RejudgeProblem
  <2>0. rows \in Seq(Row)
    BY DEF Sound, TypeOK
  <2>1. rows' = [i \in 1..Len(rows) |-> [rows[i] EXCEPT !.result = Queued]]
    BY <1>3, <2>0 DEF RejudgeProblem
  <2>2. ASSUME NEW i \in 1..Len(rows)
        PROVE  /\ [rows[i] EXCEPT !.result = Queued] \in Row
               /\ [rows[i] EXCEPT !.result = Queued].at = rows[i].at
    <3>1. rows[i] \in Row
      BY <2>0
    <3>2. QED
      BY <3>1, NewResult
  <2>3. rows' \in Seq(Row) /\ DOMAIN rows' = DOMAIN rows
    BY <2>0, <2>1, <2>2
  <2>4. \A i \in DOMAIN rows : rows'[i].at = rows[i].at
    BY <2>0, <2>1, <2>2
  <2>5. UNCHANGED <<Setting, checked>>
    BY <1>3 DEF RejudgeProblem, Setting
  <2>6. QED
    BY <2>3, <2>4, <2>5, JudgedSound
<1>4. QED
  BY <1>1, <1>2, <1>3

(* The schedule of a contest is in order; only ICPC contests freeze.       *)
InOrder(c) ==
    /\ c \in Contest
    /\ c.stage # "absent" => c.start < c.end
    /\ c.freeze # Never => c.kind = "ICPC" /\ c.freeze \in c.start..c.end - 1

LEMMA SetInOrder ==
    ASSUME NEW s \in Schedule, NEW linked \in BOOLEAN PROVE InOrder(Set("kept", linked, s))
<1>1. s \in Schedules /\ s.start < s.end
      /\ (s.freeze # Never => s.kind = "ICPC" /\ s.start <= s.freeze /\ s.freeze < s.end)
  BY DEF Schedule
<1>2. Set("kept", linked, s) \in Contest
  BY <1>1 DEF Set, Contest, Schedules
<1>3. s.freeze # Never => s.freeze \in s.start..s.end - 1
  <2>1. s.start \in Nat /\ s.end \in Nat /\ s.freeze \in Nat
    BY <1>1, Constants DEF Schedules
  <2>2. QED
    BY <1>1, <2>1
<1>4. QED
  BY <1>1, <1>2, <1>3 DEF Set, InOrder

LEMMA ContestSound ==
    ASSUME Sound, InOrder(contest)', visible' \in BOOLEAN, edits' \in 0..MaxEdits, updating' \in Nat,
           UNCHANGED <<now, rows, checked>>
    PROVE  Sound'
  BY DEF Sound, TypeOK, RowsArePast, InOrder

LEMMA AdministrationSound ==
    ASSUME Sound,
           \/ SetVisible \/ CreateContest \/ DeleteContest
           \/ FindContest \/ UpdateContest \/ UpdateFails
           \/ Tick
    PROVE  Sound'
<1>0. /\ InOrder(contest) /\ visible \in BOOLEAN /\ now \in Times
      /\ edits \in 0..MaxEdits /\ updating \in Nat /\ MaxEdits \in Nat
  BY Constants DEF Sound, TypeOK, InOrder
<1>1. CASE SetVisible
  BY <1>0, <1>1, ContestSound DEF SetVisible, InOrder
<1>2. CASE CreateContest
  <2>1. PICK s \in Schedule, linked \in BOOLEAN : contest' = Set("kept", linked, s)
    BY <1>2 DEF CreateContest
  <2>2. InOrder(contest)'
    BY <2>1, SetInOrder DEF InOrder
  <2>3. QED
    BY <1>0, <1>2, <2>2, ContestSound DEF CreateContest
<1>3. CASE UpdateContest
  <2>1. PICK s \in Schedule, linked \in BOOLEAN : contest' = Set("kept", linked, s)
    BY <1>3 DEF UpdateContest
  <2>2. InOrder(contest)'
    BY <2>1, SetInOrder DEF InOrder
  <2>3. edits' \in 0..MaxEdits /\ updating' \in Nat
    BY <1>0, <1>3 DEF UpdateContest
  <2>4. QED
    BY <1>0, <1>3, <2>2, <2>3, ContestSound DEF UpdateContest
<1>4. CASE DeleteContest
  <2>1. /\ contest'.start = contest.start /\ contest'.end = contest.end /\ contest'.kind = contest.kind
        /\ contest'.freeze = contest.freeze /\ contest' \in Contest /\ contest.stage # "absent"
    BY <1>0, <1>4 DEF DeleteContest, Kept, Contest, InOrder
  <2>2. InOrder(contest)'
    BY <1>0, <2>1 DEF InOrder
  <2>3. QED
    BY <1>0, <1>4, <2>2, ContestSound DEF DeleteContest
<1>5. CASE Tick
  <2>1. now' \in Times /\ now <= now'
    BY <1>0, <1>5, Constants DEF Tick, Times
  <2>2. \A i \in DOMAIN rows : rows[i].at \in Nat
    BY RowsSeq, Constants DEF Sound, TypeOK, Row
  <2>3. now \in Nat /\ now' \in Nat
    BY <1>0, <2>1, Constants
  <2>4. RowsArePast'
    BY <1>5, <2>1, <2>2, <2>3 DEF Tick, Sound, RowsArePast
  <2>5. TypeOK'
    BY <1>5, <2>1 DEF Tick, Sound, TypeOK
  <2>6. QED
    BY <2>4, <2>5 DEF Sound
<1>6. CASE FindContest
  BY <1>0, <1>6, ContestSound DEF FindContest, InOrder
<1>7. CASE UpdateFails
  BY <1>0, <1>7, ContestSound DEF UpdateFails, InOrder
<1>8. QED
  BY <1>1, <1>2, <1>3, <1>4, <1>5, <1>6, <1>7

LEMMA SoundNext == Sound /\ [Next]_vars => Sound'
<1> SUFFICES ASSUME Sound, [Next]_vars PROVE Sound'
  OBVIOUS
<1>1. CASE UNCHANGED vars
  BY <1>1 DEF vars, Sound, TypeOK, RowsArePast
<1>2. CASE Next
  BY <1>2, SubmitSound, JudgeSound, AdministrationSound DEF Next
<1>3. QED
  BY <1>1, <1>2

(* Types; the contest's times stay in order, and only ICPC contests freeze,*)
(* whatever administrators do and in whatever order.                       *)
THEOREM TypeCorrect == Spec => []TypeOK
<1>1. Sound => TypeOK
  BY DEF Sound
<1>2. QED
  BY <1>1, SoundInit, SoundNext, PTL DEF Spec

-----------------------------------------------------------------------------
(***************************************************************************)
(* The rule.                                                               *)
(***************************************************************************)

LEMMA Comparable ==
    ASSUME TypeOK, NEW row \in Row
    PROVE  /\ now \in Nat /\ contest.start \in Nat /\ contest.end \in Nat /\ contest.freeze \in Nat
           /\ row.at \in Nat /\ row.at < Never /\ now < Never
           /\ contest.kind \in {"OI", "ICPC"} /\ row.user # Guest /\ row.user # Admin
           /\ contest.freeze # Never => contest.kind = "ICPC"
<1>1. now \in Times /\ contest \in Contest /\ row.at \in Times /\ row.user \in Users
  BY DEF TypeOK, Row
<1>2. contest.start \in Times /\ contest.end \in Times /\ contest.freeze \in Times \cup {Never}
      /\ contest.kind \in {"OI", "ICPC"}
  BY <1>1 DEF Contest
<1>3. Guest \notin Users /\ Admin \notin Users
  BY ConstantsAssumption
<1>4. QED
  BY <1>1, <1>2, <1>3, Constants DEF TypeOK

LEMMA RulesAgree ==
    ASSUME TypeOK, NEW v \in Viewers, NEW row \in Row
    PROVE  /\ ResultShown(v, row) <=> ResultCounts(v, row)
           /\ ResultShown(v, row) <=> ~ProgressHides(v, row)
<1>1. Unfinished <=> Kept /\ ~Ended
  BY Comparable DEF Unfinished, Ended
<1>2. Unfinished <=> Kept /\ contest.end > now
  BY Comparable DEF Unfinished
<1>3. ResultShown(v, row) <=> ~ProgressHides(v, row)
  BY <1>1, Comparable DEF ResultShown, ProgressHides
<1>4. ResultShown(v, row) <=> ResultCounts(v, row)
  <2>1. v = Guest => row.user # v
    BY Comparable
  <2>2. contest.freeze = Never => row.at < contest.freeze
    BY Comparable
  <2>3. row.at < contest.freeze <=> ~(row.at >= contest.freeze)
    BY Comparable
  <2>4. contest.kind # "OI" <=> contest.kind = "ICPC"
    BY Comparable
  <2>5. CASE Unfinished
    BY <1>2, <2>1, <2>2, <2>3, <2>4, <2>5 DEF ResultShown, ResultCounts
  <2>6. CASE ~Unfinished
    BY <1>2, <2>6 DEF ResultShown, ResultCounts
  <2>7. QED
    BY <2>5, <2>6
<1>5. QED
  BY <1>3, <1>4

LEMMA AcceptedIsJudged == ASSUME NEW row, Accepted(row) PROVE ~Live(row)
  BY DEF Accepted, Live, Queued

-----------------------------------------------------------------------------
(***************************************************************************)
(* Labels do not depend on the order of the rows.                          *)
(***************************************************************************)

(* What the labels of the problem and of the assignment's table say of a   *)
(* set of rows.                                                            *)
Summary(v, S) ==
    IF \E row \in S : ResultShown(v, row) /\ Accepted(row) THEN "ac"
    ELSE IF \E row \in S : ~ResultShown(v, row) \/ Live(row) THEN "pending"
    ELSE IF S # {} THEN "tried" ELSE "none"

(* The rows a query finds, of those with the numbers D.                    *)
Chosen(rs, u, contexts, D) == {rs[i] : i \in {j \in D : Mine(u, contexts, rs[j])}}

LEMMA ChosenAdds ==
    ASSUME NEW rs, NEW u, NEW contexts, NEW D, NEW k
    PROVE  /\ Mine(u, contexts, rs[k]) =>
                 Chosen(rs, u, contexts, D \cup {k}) = Chosen(rs, u, contexts, D) \cup {rs[k]}
           /\ ~Mine(u, contexts, rs[k]) =>
                 Chosen(rs, u, contexts, D \cup {k}) = Chosen(rs, u, contexts, D)
  BY DEF Chosen

LEMMA SummaryOfLabel ==
    ASSUME NEW v, NEW S, NEW row
    PROVE  AddToLabel(v, row, Summary(v, S)) = Summary(v, S \cup {row})
<1>1. Accepted(row) => ~Live(row)
  BY AcceptedIsJudged
<1>2. CASE ~ResultShown(v, row) \/ Live(row)
  <2>1. ~(ResultShown(v, row) /\ Accepted(row))
    BY <1>1, <1>2
  <2>2. QED
    BY <1>2, <2>1 DEF AddToLabel, Summary
<1>3. CASE ResultShown(v, row) /\ ~Live(row) /\ Accepted(row)
  BY <1>3 DEF AddToLabel, Summary
<1>4. CASE ResultShown(v, row) /\ ~Live(row) /\ ~Accepted(row)
  BY <1>4 DEF AddToLabel, Summary
<1>5. QED
  BY <1>2, <1>3, <1>4

(* What a user's own cell says of the rows read so far: the status sums    *)
(* them up, and the score is of one of them, no less than an accepted      *)
(* one's, and the best of all when none waits.                             *)
CellSays(v, S, cell) ==
    /\ cell \in Cells
    /\ cell.status = Summary(v, S)
    /\ cell.score # NoScore => \E row \in S : ~Live(row) /\ row.result.score = cell.score
    /\ \A row \in S : (\A other \in S : ~Live(other)) \/ Accepted(row) => row.result.score <= cell.score

LEMMA CellSaysStart == ASSUME NEW v PROVE CellSays(v, {}, EmptyCell)
  BY DEF CellSays, EmptyCell, Summary, Cells, Labels

LEMMA CellSaysNext ==
    ASSUME NEW v, NEW S \in SUBSET Row, NEW row \in Row, NEW cell, CellSays(v, S, cell),
           ~ProgressHides(v, row), \A other \in S \cup {row} : ResultShown(v, other)
    PROVE  CellSays(v, S \cup {row}, AddToProgress(v, cell, row))
<1> DEFINE new == AddToProgress(v, cell, row)
           T   == S \cup {row}
<1>0. Accepted(row) => ~Live(row)
  BY AcceptedIsJudged
<1>1. /\ new \in Cells /\ row.result.score \in Nat /\ cell.score \in Nat \cup {NoScore}
      /\ \A other \in S : other.result.score \in Nat
  BY AddToProgressTyped, ScoreTyped DEF CellSays, Cells
<1>2. cell.status = Summary(v, S) /\ ResultShown(v, row) /\ \A other \in S : ResultShown(v, other)
  BY DEF CellSays
<1>3. CASE Live(row)
  <2>1. new.status = (IF cell.status = "ac" THEN "ac" ELSE "pending") /\ new.score = cell.score
    BY <1>3 DEF AddToProgress, CellSays, Cells
  <2>2. new.status = Summary(v, T)
    BY <1>0, <1>2, <1>3, <2>1 DEF Summary
  <2>3. new.score # NoScore => \E x \in T : ~Live(x) /\ x.result.score = new.score
    BY <2>1 DEF CellSays
  <2>4. \A x \in T : (\A y \in T : ~Live(y)) \/ Accepted(x) => x.result.score <= new.score
    BY <1>0, <1>3, <2>1 DEF CellSays
  <2> HIDE DEF new
  <2> HIDE DEF T, new
  <2>5. CellSays(v, T, new)
    BY <1>1, <2>2, <2>3, <2>4 DEF CellSays
  <2>6. QED
    BY <2>5 DEF T, new
<1>4. CASE ~Live(row) /\ cell.status = "pending" /\ ~Accepted(row)
  <2>1. new = cell
    BY <1>4 DEF AddToProgress
  <2>2. \E x \in S : Live(x)
    BY <1>2, <1>4 DEF Summary
  <2>3. ~\E x \in S : Accepted(x)
    BY <1>2, <1>4 DEF Summary
  <2>4. cell.status = Summary(v, T)
    BY <1>2, <1>4, <2>2, <2>3 DEF Summary
  <2>5. cell.score # NoScore => \E x \in T : ~Live(x) /\ x.result.score = cell.score
    BY DEF CellSays
  <2> HIDE DEF new
  <2>6. \A x \in T : (\A y \in T : ~Live(y)) \/ Accepted(x) => x.result.score <= cell.score
    BY <1>4, <2>2, <2>3
  <2> HIDE DEF T, new
  <2>7. CellSays(v, T, new)
    BY <1>1, <2>1, <2>4, <2>5, <2>6 DEF CellSays
  <2>8. QED
    BY <2>7 DEF T, new
<1>5. CASE ~Live(row) /\ (cell.status # "pending" \/ Accepted(row))
  <2> DEFINE best == Better(cell, row)
  <2>1. /\ new.status = (IF Accepted(row) \/ cell.status = "ac" THEN "ac" ELSE "tried")
        /\ new.score = best
    BY <1>5 DEF AddToProgress
  <2>2. new.status = Summary(v, T)
    BY <1>2, <1>5, <2>1 DEF Summary
  <2>3. /\ best = cell.score \/ best = row.result.score
        /\ cell.score <= best /\ row.result.score <= best /\ best \in Nat
    BY <1>1 DEF Better, NoScore
  <2> HIDE DEF best, new
  <2>4. new.score # NoScore => \E x \in T : ~Live(x) /\ x.result.score = new.score
    BY <1>5, <2>1, <2>3 DEF CellSays
  <2>5. ASSUME NEW x \in S, (\A y \in T : ~Live(y)) \/ Accepted(x) PROVE x.result.score <= best
    <3>1. x.result.score <= cell.score
      BY <2>5 DEF CellSays
    <3>2. cell.score \in Int /\ x.result.score \in Int /\ best \in Int
      BY <1>1, <2>3 DEF NoScore
    <3>3. QED
      BY <2>3, <3>1, <3>2
  <2>6. \A x \in T : (\A y \in T : ~Live(y)) \/ Accepted(x) => x.result.score <= new.score
    BY <2>1, <2>3, <2>5
  <2> HIDE DEF T, new
  <2>7. CellSays(v, T, new)
    BY <1>1, <2>2, <2>4, <2>6 DEF CellSays
  <2>8. QED
    BY <2>7 DEF T, new
<1>6. QED
  BY <1>3, <1>4, <1>5

LEMMA LabelIsSummary ==
    ASSUME NEW rs \in Seq(Row), NEW v, NEW contexts
    PROVE  ProblemLabel(rs, v, contexts) = Summary(v, Chosen(rs, v, contexts, DOMAIN rs))
<1> DEFINE n == Len(rs)
           At(k) == Summary(v, Chosen(rs, v, contexts, k..n))
<1>0. n \in Nat /\ DOMAIN rs = 1..n
  BY RowsSeq
<1>1. PICK f : /\ RightRun(n, Labels, "none", LabelTable(rs, v, contexts), f)
               /\ ProblemLabel(rs, v, contexts) = f[1]
  BY LabelRuns
<1> DEFINE T == {k \in 1..(n + 1) : f[k] = At(k)}
<1>2. n + 1 \in T
  <2>1. (n + 1)..n = {}
    BY <1>0
  <2>2. At(n + 1) = "none"
    BY <2>1 DEF Chosen, Summary
  <2>3. QED
    BY <1>0, <1>1, <2>2 DEF RightRun
<1>3. ASSUME NEW k \in 1..n, k + 1 \in T PROVE k \in T
  <2>1. k..n = ((k + 1)..n) \cup {k}
    BY <1>0
  <2>2. f[k + 1] = At(k + 1) /\ f[k + 1] \in Labels /\ k + 1 \in 1..(n + 1)
    BY <1>0, <1>1, <1>3 DEF RightRun
  <2>3. f[k] = LabelTable(rs, v, contexts)[<<k, f[k + 1]>>]
    BY <1>1 DEF RightRun
  <2>4. f[k] = IF Mine(v, contexts, rs[k]) THEN AddToLabel(v, rs[k], At(k + 1)) ELSE At(k + 1)
    <3> HIDE DEF At
    <3>1. QED
      BY <2>2, <2>3 DEF LabelTable
  <2>5. f[k] = At(k)
    <3>1. CASE Mine(v, contexts, rs[k])
      BY <2>1, <2>4, <3>1, ChosenAdds, SummaryOfLabel
    <3>2. CASE ~Mine(v, contexts, rs[k])
      BY <2>1, <2>4, <3>2, ChosenAdds
    <3>3. QED
      BY <3>1, <3>2
  <2>6. QED
    BY <1>0, <2>5
<1>4. 1..(n + 1) \subseteq T
  <2> HIDE DEF T
  <2>1. QED
    BY <1>0, <1>2, <1>3, Descend
<1>5. f[1] = At(1)
  <2>1. 1 \in 1..(n + 1)
    BY <1>0
  <2>2. QED
    BY <1>4, <2>1
<1>6. QED
  BY <1>0, <1>1, <1>5

LEMMA ProgressSays ==
    ASSUME NEW rs \in Seq(Row), NEW u
    PROVE  CellSays(u, Chosen(rs, u, {"assignment"}, DOMAIN rs), Progress(rs, u, u))
<1> DEFINE n == Len(rs)
           At(k) == Chosen(rs, u, {"assignment"}, 1..k)
<1>0. n \in Nat /\ DOMAIN rs = 1..n /\ \A k \in 1..n : rs[k] \in Row
  BY RowsSeq
<1>1. PICK f : /\ LeftRun(n, Cells, EmptyCell, ProgressTable(rs, u, u), f)
               /\ Progress(rs, u, u) = f[n]
  BY ProgressRuns
<1> DEFINE T == {k \in 0..n : CellSays(u, At(k), f[k])}
<1>2. 0 \in T
  <2>1. 1..0 = {}
    OBVIOUS
  <2>2. At(0) = {}
    BY <2>1 DEF Chosen
  <2>3. 0 \in 0..n /\ f[0] = EmptyCell
    BY <1>0, <1>1 DEF LeftRun
  <2> HIDE DEF At
  <2>4. CellSays(u, At(0), f[0])
    BY <2>2, <2>3, CellSaysStart
  <2>5. QED
    BY <2>3, <2>4
<1>3. ASSUME NEW k \in 1..n, k - 1 \in T PROVE k \in T
  <2>1. 1..k = (1..(k - 1)) \cup {k} /\ k - 1 \in 0..n
    BY <1>0
  <2>2. f[k - 1] \in Cells /\ f[k] = ProgressTable(rs, u, u)[<<k, f[k - 1]>>]
    BY <1>1, <2>1 DEF LeftRun
  <2>3. f[k] = IF Mine(u, {"assignment"}, rs[k]) THEN AddToProgress(u, f[k - 1], rs[k]) ELSE f[k - 1]
    BY <2>2 DEF ProgressTable
  <2>4. \A x \in At(k) : x \in Row /\ ~IsContests(x)
    BY <1>0 DEF Chosen, Mine, IsContests
  <2>5. \A x \in At(k) : ResultShown(u, x) /\ ~ProgressHides(u, x)
    BY <2>4 DEF ResultShown, ProgressHides
  <2>6. CASE Mine(u, {"assignment"}, rs[k])
    <3>1. At(k) = At(k - 1) \cup {rs[k]}
      BY <2>1, <2>6, ChosenAdds
    <3> HIDE DEF At
    <3>2. CellSays(u, At(k), AddToProgress(u, f[k - 1], rs[k]))
      BY <1>3, <2>4, <2>5, <3>1, CellSaysNext
    <3>3. QED
      BY <1>0, <2>3, <2>6, <3>2
  <2>7. CASE ~Mine(u, {"assignment"}, rs[k])
    <3>1. At(k) = At(k - 1)
      BY <2>1, <2>7, ChosenAdds
    <3> HIDE DEF At
    <3>2. QED
      BY <1>0, <1>3, <2>3, <2>7, <3>1
  <2>8. QED
    BY <2>6, <2>7
<1>4. 0..n \subseteq T
  <2> HIDE DEF T
  <2>1. QED
    BY <1>0, <1>2, <1>3, Climb
<1>5. CellSays(u, At(n), f[n])
  <2>1. n \in 0..n
    BY <1>0
  <2>2. QED
    BY <1>4, <2>1
<1>6. QED
  BY <1>0, <1>1, <1>5

LEMMA ReverseChosen ==
    ASSUME NEW rs \in Seq(Row), NEW u, NEW contexts
    PROVE  /\ Reverse(rs) \in Seq(Row)
           /\ Chosen(Reverse(rs), u, contexts, DOMAIN Reverse(rs)) = Chosen(rs, u, contexts, DOMAIN rs)
<1> DEFINE n == Len(rs)
<1>0. n \in Nat /\ DOMAIN rs = 1..n /\ \A k \in 1..n : rs[k] \in Row
  BY RowsSeq
<1>1. Reverse(rs) = [i \in 1..n |-> rs[(n - i) + 1]]
  BY DEF Reverse
<1> HIDE DEF n
<1>2. \A i \in 1..n : (n - i) + 1 \in 1..n /\ (n - ((n - i) + 1)) + 1 = i
  BY <1>0
<1>3. Reverse(rs) \in Seq(Row) /\ DOMAIN Reverse(rs) = 1..n
  BY <1>0, <1>1, <1>2
<1>4. \A i \in 1..n : Reverse(rs)[i] = rs[(n - i) + 1] /\ rs[i] = Reverse(rs)[(n - i) + 1]
  BY <1>1, <1>2
<1>5. QED
  BY <1>0, <1>2, <1>3, <1>4 DEF Chosen

-----------------------------------------------------------------------------
(***************************************************************************)
(* The filter of the problem list, and the assignment's count.             *)
(***************************************************************************)

AllLabels == {"ac", "pending", "tried", "none"}

(* A list of problems by label finds the problem under the label it shows. *)
LEMMA FilterIsSummary ==
    ASSUME TypeOK, NEW rs \in Seq(Row), NEW u \in Users, NEW label \in AllLabels
    PROVE  FilterFinds(rs, u, label) <=> Summary(u, Chosen(rs, u, Contexts, DOMAIN rs)) = label
<1> DEFINE mine   == {i \in DOMAIN rs : rs[i].user = u}
           live   == \E i \in mine : Live(rs[i])
           hidden == \E i \in mine : ~Live(rs[i]) /\ ~ResultCounts(u, rs[i])
           any    == \E i \in mine : ~Live(rs[i]) /\ ResultCounts(u, rs[i])
           ac     == mine \cap Counted(rs, u) # {}
           S      == Chosen(rs, u, Contexts, DOMAIN rs)
<1>0. u \in Viewers /\ \A i \in DOMAIN rs : rs[i] \in Row
  BY RowsSeq DEF Viewers
<1>1. \A i \in DOMAIN rs : ResultShown(u, rs[i]) <=> ResultCounts(u, rs[i])
  BY <1>0, RulesAgree
<1>2. S = {rs[i] : i \in mine}
  <2>1. \A i \in DOMAIN rs : Mine(u, Contexts, rs[i]) <=> rs[i].user = u
    BY <1>0 DEF Mine, Row
  <2>2. QED
    BY <2>1 DEF Chosen
<1>3. ac <=> \E row \in S : ResultShown(u, row) /\ Accepted(row)
  BY <1>1, <1>2 DEF Counted
<1>4. live \/ hidden <=> \E row \in S : ~ResultShown(u, row) \/ Live(row)
  BY <1>1, <1>2
<1>5. any \/ live \/ hidden <=> S # {}
  <2>1. S # {} <=> mine # {}
    BY <1>2
  <2>2. QED
    BY <2>1
<1>6. ac => any
  BY AcceptedIsJudged DEF Counted
<1>7. /\ label = "ac" => (FilterFinds(rs, u, label) <=> ac)
      /\ label = "pending" => (FilterFinds(rs, u, label) <=> ~ac /\ (live \/ hidden))
      /\ label = "tried" => (FilterFinds(rs, u, label) <=> any /\ ~ac /\ ~live /\ ~hidden)
      /\ label = "none" => (FilterFinds(rs, u, label) <=> ~any /\ ~live /\ ~hidden)
  BY DEF FilterFinds
<1>8. /\ Summary(u, S) = "ac" <=> ac
      /\ Summary(u, S) = "pending" <=> ~ac /\ (live \/ hidden)
      /\ Summary(u, S) = "tried" <=> ~ac /\ ~live /\ ~hidden /\ S # {}
      /\ Summary(u, S) = "none" <=> ~ac /\ ~live /\ ~hidden /\ S = {}
  <2> DEFINE good == \E row \in S : ResultShown(u, row) /\ Accepted(row)
             open == \E row \in S : ~ResultShown(u, row) \/ Live(row)
  <2>1. Summary(u, S) = IF good THEN "ac" ELSE IF open THEN "pending"
                        ELSE IF S # {} THEN "tried" ELSE "none"
    BY DEF Summary
  <2>2. /\ Summary(u, S) = "ac" <=> good
        /\ Summary(u, S) = "pending" <=> ~good /\ open
        /\ Summary(u, S) = "tried" <=> ~good /\ ~open /\ S # {}
        /\ Summary(u, S) = "none" <=> ~good /\ ~open /\ S = {}
    BY <2>1
  <2>3. good <=> ac
    BY <1>3
  <2>4. open <=> live \/ hidden
    BY <1>4
  <2> HIDE DEF good, open, ac, live, hidden, any, S
  <2>5. QED
    BY <2>2, <2>3, <2>4, Zenon
<1>9. label \in AllLabels
  OBVIOUS
<1>10. FilterFinds(rs, u, label) <=> Summary(u, S) = label
  <2> HIDE DEF ac, live, hidden, any, S
  <2>1. CASE label = "ac"
    BY <1>7, <1>8, <2>1, Zenon
  <2>2. CASE label = "pending"
    BY <1>7, <1>8, <2>2, Zenon
  <2>3. CASE label = "tried"
    BY <1>5, <1>7, <1>8, <2>3, Zenon
  <2>4. CASE label = "none"
    BY <1>5, <1>6, <1>7, <1>8, <2>4, Zenon
  <2>5. QED
    BY <1>9, <2>1, <2>2, <2>3, <2>4 DEF AllLabels
<1>11. QED
  BY <1>10

LEMMA DoneIsSummary ==
    ASSUME TypeOK, NEW rs \in Seq(Row), NEW u \in Users
    PROVE  AssignmentDone(rs, u) <=> Summary(u, Chosen(rs, u, {"assignment"}, DOMAIN rs)) = "ac"
<1> DEFINE S == Chosen(rs, u, {"assignment"}, DOMAIN rs)
<1>0. u \in Viewers /\ \A i \in DOMAIN rs : rs[i] \in Row
  BY RowsSeq DEF Viewers
<1>1. \A i \in DOMAIN rs : ResultShown(u, rs[i]) <=> ResultCounts(u, rs[i])
  BY <1>0, RulesAgree
<1>2. AssignmentDone(rs, u) <=> \E row \in S : ResultShown(u, row) /\ Accepted(row)
  BY <1>1 DEF AssignmentDone, Counted, Chosen, Mine
<1>3. Summary(u, S) = "ac" <=> \E row \in S : ResultShown(u, row) /\ Accepted(row)
  BY DEF Summary
<1>4. QED
  BY <1>2, <1>3

-----------------------------------------------------------------------------
(***************************************************************************)
(* The label in the contest.                                               *)
(***************************************************************************)

(* What it says in an OI contest, when nothing is hidden.                  *)
OiSummary(S) ==
    IF \E row \in S : Accepted(row) THEN "ac"
    ELSE IF \E row \in S : ~Live(row) THEN "tried"
    ELSE IF S # {} THEN "pending" ELSE "none"

LEMMA OiSummaryOfLabel ==
    ASSUME contest.kind = "OI", NEW v, NEW S, NEW row, ResultShown(v, row)
    PROVE  AddToContestLabel(v, row, OiSummary(S)) = OiSummary(S \cup {row})
<1>1. Accepted(row) => ~Live(row)
  BY AcceptedIsJudged
<1>2. CASE Live(row)
  BY <1>1, <1>2 DEF AddToContestLabel, OiSummary
<1>3. CASE ~Live(row)
  BY <1>3 DEF AddToContestLabel, OiSummary
<1>4. QED
  BY <1>2, <1>3

(* In either kind of contest, if nothing of one's own is hidden: "ac" when *)
(* a row is, "none" when there is none, "pending" only when one waits.     *)
LabelSays(S, label) ==
    /\ label \in Labels
    /\ label = "ac" <=> \E row \in S : Accepted(row)
    /\ label = "none" <=> S = {}
    /\ label = "pending" => \E row \in S : Live(row)

LEMMA LabelSaysNext ==
    ASSUME NEW v, NEW S, NEW row, ResultShown(v, row), NEW label, LabelSays(S, label)
    PROVE  LabelSays(S \cup {row}, AddToContestLabel(v, row, label))
<1> DEFINE new == AddToContestLabel(v, row, label)
<1>1. Accepted(row) => ~Live(row)
  BY AcceptedIsJudged
<1>2. S \cup {row} # {}
  OBVIOUS
<1>3. CASE Live(row)
  <2>1. new = IF label = "none" THEN "pending" ELSE label
    BY <1>3 DEF AddToContestLabel
  <2> HIDE DEF new
  <2>2. QED
    BY <1>1, <1>2, <1>3, <2>1 DEF LabelSays, Labels, new
<1>4. CASE ~Live(row)
  <2>1. new = IF Accepted(row) \/ label = "ac" THEN "ac"
              ELSE IF contest.kind = "OI" \/ label = "none" THEN "tried" ELSE label
    BY <1>4 DEF AddToContestLabel
  <2> HIDE DEF new
  <2>2. QED
    BY <1>2, <1>4, <2>1 DEF LabelSays, Labels, new
<1>5. QED
  BY <1>3, <1>4

LEMMA ContestLabelSays ==
    ASSUME NEW rs \in Seq(Row), NEW v, \A i \in DOMAIN rs : rs[i].user = v => ResultShown(v, rs[i])
    PROVE  LET S == Chosen(rs, v, {"contest"}, DOMAIN rs)
           IN /\ LabelSays(S, ContestLabel(rs, v))
              /\ contest.kind = "OI" => ContestLabel(rs, v) = OiSummary(S)
<1> DEFINE n == Len(rs)
           C(k) == Chosen(rs, v, {"contest"}, k..n)
<1>0. n \in Nat /\ DOMAIN rs = 1..n
  BY RowsSeq
<1>1. PICK f : /\ RightRun(n, Labels, "none", ContestLabelTable(rs, v), f)
               /\ ContestLabel(rs, v) = f[1]
  BY ContestLabelRuns
<1> DEFINE T == {k \in 1..(n + 1) : /\ LabelSays(C(k), f[k])
                                    /\ contest.kind = "OI" => f[k] = OiSummary(C(k))}
<1>2. n + 1 \in T
  <2>1. (n + 1)..n = {}
    BY <1>0
  <2>2. C(n + 1) = {}
    BY <2>1 DEF Chosen
  <2>3. f[n + 1] = "none" /\ OiSummary({}) = "none" /\ n + 1 \in 1..(n + 1)
    BY <1>0, <1>1 DEF RightRun, OiSummary
  <2>4. LabelSays({}, "none")
    BY DEF LabelSays, Labels
  <2> HIDE DEF C
  <2>5. QED
    BY <2>2, <2>3, <2>4
<1>3. ASSUME NEW k \in 1..n, k + 1 \in T PROVE k \in T
  <2>1. k..n = ((k + 1)..n) \cup {k} /\ k \in 1..(n + 1)
    BY <1>0
  <2>2. f[k + 1] \in Labels
    BY <1>0, <1>1 DEF RightRun
  <2>3. f[k] = IF Mine(v, {"contest"}, rs[k]) THEN AddToContestLabel(v, rs[k], f[k + 1]) ELSE f[k + 1]
    BY <1>1, <2>2 DEF RightRun, ContestLabelTable
  <2>4. CASE Mine(v, {"contest"}, rs[k])
    <3>1. C(k) = C(k + 1) \cup {rs[k]}
      BY <2>1, <2>4, ChosenAdds
    <3>2. ResultShown(v, rs[k])
      BY <1>0, <2>4 DEF Mine
    <3> HIDE DEF C
    <3>3. LabelSays(C(k), f[k])
      BY <1>3, <2>3, <2>4, <3>1, <3>2, LabelSaysNext
    <3>4. contest.kind = "OI" => f[k] = OiSummary(C(k))
      BY <1>3, <2>3, <2>4, <3>1, <3>2, OiSummaryOfLabel
    <3>5. QED
      BY <2>1, <3>3, <3>4
  <2>5. CASE ~Mine(v, {"contest"}, rs[k])
    <3>1. C(k) = C(k + 1)
      BY <2>1, <2>5, ChosenAdds
    <3> HIDE DEF C
    <3>2. QED
      BY <1>3, <2>1, <2>3, <2>5, <3>1
  <2>6. QED
    BY <2>4, <2>5
<1>4. 1..(n + 1) \subseteq T
  <2> HIDE DEF T
  <2>1. QED
    BY <1>0, <1>2, <1>3, Descend
<1>5. 1 \in T
  <2>1. 1 \in 1..(n + 1)
    BY <1>0
  <2>2. QED
    BY <1>4, <2>1
<1>6. QED
  BY <1>0, <1>1, <1>5

-----------------------------------------------------------------------------
(***************************************************************************)
(* What the lines of the standings say of the rows read so far: the rows    *)
(* of u in the contest among the first k, and those whose results are       *)
(* there before the cutoff.                                                 *)
(***************************************************************************)
Asked(rs, u, k) == {i \in 1..k : Mine(u, {"contest"}, rs[i])}

Known(rs, u, cutoff, k) == {i \in Asked(rs, u, k) : ~Live(rs[i]) /\ rs[i].at < cutoff}

WrongAmong(rs, D) == {i \in D : Penalizable(rs[i])}

LEMMA CountAdds ==
    ASSUME NEW k \in Nat \ {0}, NEW D \in SUBSET (1..(k - 1))
    PROVE  /\ IsFiniteSet(D) /\ Cardinality(D) \in Nat
           /\ k \notin D /\ Cardinality(D \cup {k}) = Cardinality(D) + 1
<1>1. IsFiniteSet(1..(k - 1))
  BY FS_Interval
<1>2. IsFiniteSet(D)
  BY <1>1, FS_Subset
<1>3. Cardinality(D) \in Nat
  BY <1>2, FS_CardinalityType
<1>4. k \notin D
  OBVIOUS
<1>5. QED
  BY <1>2, <1>3, <1>4, FS_AddElement

LEMMA AskedAdds ==
    ASSUME NEW rs, NEW u, NEW k \in Nat \ {0}
    PROVE  /\ Asked(rs, u, k - 1) \in SUBSET (1..(k - 1))
           /\ Mine(u, {"contest"}, rs[k]) => Asked(rs, u, k) = Asked(rs, u, k - 1) \cup {k}
           /\ ~Mine(u, {"contest"}, rs[k]) => Asked(rs, u, k) = Asked(rs, u, k - 1)
<1>1. 1..k = (1..(k - 1)) \cup {k}
  OBVIOUS
<1>2. QED
  BY <1>1 DEF Asked

LEMMA KnownAdds ==
    ASSUME NEW rs, NEW u, NEW cutoff, NEW k \in Nat \ {0}
    PROVE  /\ Known(rs, u, cutoff, k - 1) \in SUBSET (1..(k - 1))
           /\ Mine(u, {"contest"}, rs[k]) /\ ~Live(rs[k]) /\ rs[k].at < cutoff =>
                 Known(rs, u, cutoff, k) = Known(rs, u, cutoff, k - 1) \cup {k}
           /\ ~(Mine(u, {"contest"}, rs[k]) /\ ~Live(rs[k]) /\ rs[k].at < cutoff) =>
                 Known(rs, u, cutoff, k) = Known(rs, u, cutoff, k - 1)
<1>1. CASE Mine(u, {"contest"}, rs[k])
  BY <1>1, AskedAdds DEF Known
<1>2. CASE ~Mine(u, {"contest"}, rs[k])
  BY <1>2, AskedAdds DEF Known
<1>3. QED
  BY <1>1, <1>2

(* OI: every row counts, a judged one with its score.                      *)
OiSays(rs, u, k, line) ==
    LET known == Known(rs, u, Never, k)
    IN /\ line \in OiStates
       /\ line.submit = Cardinality(Asked(rs, u, k))
       /\ line.pending > 0 <=> known # Asked(rs, u, k)
       /\ line.done > 0 <=> known # {}
       /\ line.accepted <=> \E i \in known : Accepted(rs[i])
       /\ \A i \in known : rs[i].result.score <= line.score
       /\ known # {} => \E i \in known : rs[i].result.score = line.score

LEMMA OiSaysStart == ASSUME NEW rs, NEW u PROVE OiSays(rs, u, 0, OiNone)
<1>1. Asked(rs, u, 0) = {} /\ Known(rs, u, Never, 0) = {}
  BY DEF Asked, Known
<1>2. Cardinality({}) = 0
  BY FS_EmptySet
<1>3. /\ OiNone.submit = 0 /\ OiNone.pending = 0 /\ OiNone.done = 0 /\ OiNone.score = 0
      /\ ~OiNone.accepted /\ OiNone \in OiStates
  BY DEF OiNone, OiStates
<1>4. QED
  BY <1>1, <1>2, <1>3 DEF OiSays

LEMMA OiSaysNext ==
    ASSUME NEW rs \in Seq(Row), NEW u, NEW k \in 1..Len(rs), NEW line, OiSays(rs, u, k - 1, line),
           Mine(u, {"contest"}, rs[k]), NEW new, new = AddToOi(line, rs[k])
    PROVE  OiSays(rs, u, k, new)
<1> DEFINE mine == Asked(rs, u, k - 1)
           known == Known(rs, u, Never, k - 1)
<1>0. k \in Nat \ {0} /\ rs[k] \in Row /\ line \in OiStates /\ rs[k].at < Never
  <2>1. k \in Nat \ {0} /\ rs[k] \in Row
    BY RowsSeq
  <2>2. QED
    BY <2>1, Constants DEF OiSays, Row
<1>1. /\ line.submit = Cardinality(mine)
      /\ line.pending > 0 <=> known # mine
      /\ line.done > 0 <=> known # {}
      /\ line.accepted <=> \E i \in known : Accepted(rs[i])
      /\ \A i \in known : rs[i].result.score <= line.score
      /\ known # {} => \E i \in known : rs[i].result.score = line.score
  BY DEF OiSays
<1>2. /\ Asked(rs, u, k) = mine \cup {k} /\ k \notin mine /\ k \notin known
      /\ Cardinality(mine \cup {k}) = Cardinality(mine) + 1
      /\ known \subseteq mine
  <2>0. k \in Nat \ {0}
    BY <1>0
  <2>1. mine \in SUBSET (1..(k - 1)) /\ Asked(rs, u, k) = mine \cup {k}
    BY <2>0, AskedAdds
  <2>2. known \subseteq mine
    BY DEF Known
  <2> HIDE DEF mine, known
  <2>3. QED
    BY <1>0, <2>1, <2>2, CountAdds
<1>3. line.pending \in Nat /\ line.done \in Nat /\ line.score \in Nat /\ rs[k].result.score \in Nat
  BY <1>0, ScoreTyped DEF OiStates
<1>4. \A i \in known : rs[i].result.score \in Nat
  BY RowsSeq, ScoreTyped DEF Known, Asked
<1>5. CASE Live(rs[k])
  <2>1. /\ new \in OiStates /\ new.submit = line.submit + 1 /\ new.pending = line.pending + 1
        /\ new.done = line.done /\ new.accepted = line.accepted /\ new.score = line.score
    BY <1>0, <1>5, AddToOiIs
  <2>2. Known(rs, u, Never, k) = known
    BY <1>0, <1>5, KnownAdds
  <2> HIDE DEF mine, known
  <2>3. new.pending > 0 /\ known # mine \cup {k}
    BY <1>2, <1>3, <2>1
  <2>4. QED
    BY <1>1, <1>2, <2>1, <2>2, <2>3 DEF OiSays
<1>6. CASE ~Live(rs[k])
  <2>1. /\ new \in OiStates /\ new.submit = line.submit + 1 /\ new.pending = line.pending
        /\ new.done = line.done + 1
        /\ new.accepted <=> (line.accepted \/ Accepted(rs[k]))
        /\ new.score = IF line.done = 0 \/ rs[k].result.score > line.score
                       THEN rs[k].result.score ELSE line.score
    BY <1>0, <1>6, AddToOiIs
  <2>2. Known(rs, u, Never, k) = known \cup {k}
    BY <1>0, <1>6, KnownAdds
  <2> HIDE DEF mine, known
  <2>3. new.pending > 0 <=> known \cup {k} # mine \cup {k}
    <3>1. known = (known \cup {k}) \ {k} /\ mine = (mine \cup {k}) \ {k}
      BY <1>2
    <3>2. QED
      BY <1>1, <2>1, <3>1
  <2>4. new.done > 0 /\ known \cup {k} # {}
    BY <1>3, <2>1
  <2>5. new.accepted <=> \E i \in known \cup {k} : Accepted(rs[i])
    BY <1>1, <2>1
  <2>6. CASE known = {}
    <3>1. line.done = 0 /\ new.score = rs[k].result.score
      BY <1>1, <1>3, <2>1, <2>6
    <3>2. /\ \A i \in known \cup {k} : rs[i].result.score <= new.score
          /\ \E i \in known \cup {k} : rs[i].result.score = new.score
      BY <1>3, <2>6, <3>1
    <3>3. QED
      BY <1>1, <1>2, <2>1, <2>2, <2>3, <2>4, <2>5, <3>2 DEF OiSays
  <2>7. CASE known # {}
    <3>1. line.done # 0
      BY <1>1, <1>3, <2>7
    <3>2. \A i \in known \cup {k} : rs[i].result.score <= new.score
      BY <1>1, <1>3, <1>4, <2>1, <3>1
    <3>3. \E i \in known \cup {k} : rs[i].result.score = new.score
      BY <1>1, <2>1, <2>7, <3>1
    <3>4. QED
      BY <1>1, <1>2, <2>1, <2>2, <2>3, <2>4, <2>5, <3>2, <3>3 DEF OiSays
  <2>8. QED
    BY <2>6, <2>7
<1>7. QED
  BY <1>5, <1>6

LEMMA OiStateSays ==
    ASSUME NEW rs \in Seq(Row), NEW u PROVE OiSays(rs, u, Len(rs), OiState(rs, u))
<1> DEFINE n == Len(rs)
<1>0. n \in Nat
  BY RowsSeq
<1>1. PICK f : LeftRun(n, OiStates, OiNone, OiTable(rs, u), f) /\ OiState(rs, u) = f[n]
  BY OiRuns
<1> DEFINE T == {k \in 0..n : OiSays(rs, u, k, f[k])}
<1>2. 0 \in T
  BY <1>0, <1>1, OiSaysStart DEF LeftRun
<1>3. ASSUME NEW k \in 1..n, k - 1 \in T PROVE k \in T
  <2>1. OiSays(rs, u, k - 1, f[k - 1]) /\ f[k - 1] \in OiStates /\ k \in Nat \ {0} /\ k \in 0..n
    BY <1>0, <1>1, <1>3 DEF OiSays
  <2>2. f[k] = OiTable(rs, u)[<<k, f[k - 1]>>]
    BY <1>1 DEF LeftRun
  <2>3. f[k] = IF Mine(u, {"contest"}, rs[k]) THEN AddToOi(f[k - 1], rs[k]) ELSE f[k - 1]
    BY <2>1, <2>2 DEF OiTable
  <2>4. CASE Mine(u, {"contest"}, rs[k])
    BY <2>1, <2>3, <2>4, OiSaysNext
  <2>5. CASE ~Mine(u, {"contest"}, rs[k])
    <3>1. Asked(rs, u, k) = Asked(rs, u, k - 1) /\ Known(rs, u, Never, k) = Known(rs, u, Never, k - 1)
      BY <2>1, <2>5, AskedAdds, KnownAdds
    <3>2. OiSays(rs, u, k, f[k])
      BY <2>1, <2>3, <2>5, <3>1 DEF OiSays
    <3>3. QED
      BY <2>1, <3>2
  <2>6. QED
    BY <2>4, <2>5
<1>4. 0..n \subseteq T
  <2> HIDE DEF T
  <2>1. QED
    BY <1>0, <1>2, <1>3, Climb
<1>5. n \in T
  <2>1. n \in 0..n
    BY <1>0
  <2>2. QED
    BY <1>4, <2>1
<1>6. QED
  BY <1>1, <1>5

(* ICPC: rows up to the accepted one count, each wrong one for its penalty. *)
IcpcSays(rs, u, cutoff, k, line) ==
    LET known == Known(rs, u, cutoff, k)
    IN /\ line \in IcpcStates
       /\ line.submit = Cardinality(known)
       /\ line.pending > 0 <=> known # Asked(rs, u, k)
       /\ line.solved <=> \E i \in known : Accepted(rs[i])
       /\ ~line.solved => line.penalty = 0 /\ line.wrong = Cardinality(WrongAmong(rs, known))
       /\ line.solved =>
             \E i \in known :
                /\ Accepted(rs[i]) /\ \A j \in known : Accepted(rs[j]) => i <= j
                /\ line.wrong = Cardinality({j \in WrongAmong(rs, known) : j < i})
                /\ line.penalty = Minutes(rs[i]) + line.wrong * 20

LEMMA IcpcSaysStart == ASSUME NEW rs, NEW u, NEW cutoff PROVE IcpcSays(rs, u, cutoff, 0, IcpcNone)
<1>1. Asked(rs, u, 0) = {} /\ Known(rs, u, cutoff, 0) = {} /\ WrongAmong(rs, {}) = {}
  BY DEF Asked, Known, WrongAmong
<1>2. Cardinality({}) = 0
  BY FS_EmptySet
<1>3. /\ IcpcNone.submit = 0 /\ IcpcNone.pending = 0 /\ IcpcNone.wrong = 0 /\ ~IcpcNone.solved
      /\ IcpcNone.penalty = 0 /\ IcpcNone \in IcpcStates
  BY DEF IcpcNone, IcpcStates
<1>4. QED
  BY <1>1, <1>2, <1>3 DEF IcpcSays

LEMMA IcpcSaysNext ==
    ASSUME contest.start \in Nat, NEW rs \in Seq(Row), NEW u, NEW cutoff \in Nat, NEW k \in 1..Len(rs),
           NEW line, IcpcSays(rs, u, cutoff, k - 1, line), Mine(u, {"contest"}, rs[k]),
           NEW new, new = AddToIcpc(cutoff, line, rs[k])
    PROVE  IcpcSays(rs, u, cutoff, k, new)
<1> DEFINE mine == Asked(rs, u, k - 1)
           known == Known(rs, u, cutoff, k - 1)
           First(i, D) == Accepted(rs[i]) /\ \A j \in D : Accepted(rs[j]) => i <= j
           Before(i, D) == {j \in WrongAmong(rs, D) : j < i}
<1>0. k \in Nat \ {0} /\ rs[k] \in Row /\ line \in IcpcStates
  BY RowsSeq DEF IcpcSays
<1>a. rs[k].at \in Nat
  BY <1>0, Constants DEF Row
<1>1. /\ line.submit = Cardinality(known)
      /\ line.pending > 0 <=> known # mine
      /\ line.solved <=> \E i \in known : Accepted(rs[i])
      /\ ~line.solved => line.penalty = 0 /\ line.wrong = Cardinality(WrongAmong(rs, known))
      /\ line.solved => \E i \in known : /\ First(i, known)
                                         /\ line.wrong = Cardinality(Before(i, known))
                                         /\ line.penalty = Minutes(rs[i]) + line.wrong * 20
  BY DEF IcpcSays
<1>2. /\ mine \in SUBSET (1..(k - 1)) /\ Asked(rs, u, k) = mine \cup {k}
      /\ known \in SUBSET (1..(k - 1)) /\ known \subseteq mine
  <2>0. k \in Nat \ {0}
    BY <1>0
  <2>1. mine \in SUBSET (1..(k - 1)) /\ Asked(rs, u, k) = mine \cup {k}
    BY <2>0, AskedAdds
  <2>2. known \in SUBSET (1..(k - 1)) /\ known \subseteq mine
    BY <2>1 DEF Known
  <2>3. QED
    BY <2>1, <2>2
<1>3. line.pending \in Nat /\ line.submit \in Nat /\ line.wrong \in Nat
  BY <1>0 DEF IcpcStates
<1>4. CASE rs[k].at >= cutoff \/ Live(rs[k])
  <2>1. /\ new \in IcpcStates
        /\ new.pending = line.pending + 1 /\ new.submit = line.submit
        /\ new.wrong = line.wrong /\ new.solved = line.solved /\ new.penalty = line.penalty
    <3>1. rs[k] \in Row /\ line \in IcpcStates
      BY <1>0
    <3> HIDE DEF mine, known
    <3>2. QED
      BY <1>4, <3>1, AddToIcpcIs
  <2>2. Known(rs, u, cutoff, k) = known
    <3>0. k \in Nat \ {0} /\ ~(Mine(u, {"contest"}, rs[k]) /\ ~Live(rs[k]) /\ rs[k].at < cutoff)
      BY <1>0, <1>a, <1>4
    <3>1. QED
      BY <3>0, KnownAdds
  <2> HIDE DEF mine, known
  <2>3. new.pending > 0 /\ known # mine \cup {k}
    BY <1>2, <1>3, <2>1
  <2>4. QED
    BY <1>1, <1>2, <2>1, <2>2, <2>3 DEF IcpcSays
<1>5. ASSUME ~(rs[k].at >= cutoff \/ Live(rs[k])) PROVE IcpcSays(rs, u, cutoff, k, new)
  <2>1. /\ new \in IcpcStates /\ new.pending = line.pending /\ new.submit = line.submit + 1
        /\ line.solved => new.wrong = line.wrong /\ new.solved /\ new.penalty = line.penalty
        /\ ~line.solved /\ Accepted(rs[k]) =>
              /\ new.wrong = line.wrong /\ new.solved
              /\ new.penalty = Minutes(rs[k]) + line.wrong * 20
        /\ ~line.solved /\ ~Accepted(rs[k]) =>
              /\ new.wrong = line.wrong + IF Penalizable(rs[k]) THEN 1 ELSE 0
              /\ ~new.solved /\ new.penalty = line.penalty
    BY <1>0, <1>5, AddToIcpcIs
  <2>2. Known(rs, u, cutoff, k) = known \cup {k}
    <3>0. k \in Nat \ {0} /\ ~Live(rs[k]) /\ rs[k].at < cutoff
      BY <1>0, <1>a, <1>5
    <3>1. QED
      BY <3>0, KnownAdds
  <2>3. WrongAmong(rs, known) \in SUBSET (1..(k - 1)) /\ k \notin known /\ k \notin mine
    BY <1>0, <1>2 DEF WrongAmong
  <2>4. WrongAmong(rs, known \cup {k}) =
           IF Penalizable(rs[k]) THEN WrongAmong(rs, known) \cup {k} ELSE WrongAmong(rs, known)
    BY DEF WrongAmong
  <2>5. Cardinality(known \cup {k}) = Cardinality(known) + 1
    <3> HIDE DEF mine, known
    <3>1. QED
      BY <1>0, <1>2, CountAdds
  <2>6. Cardinality(WrongAmong(rs, known) \cup {k}) = Cardinality(WrongAmong(rs, known)) + 1
    <3> DEFINE missed == WrongAmong(rs, known)
    <3>1. k \in Nat \ {0} /\ missed \in SUBSET (1..(k - 1))
      BY <1>0, <2>3
    <3> HIDE DEF missed
    <3>2. Cardinality(missed \cup {k}) = Cardinality(missed) + 1
      BY <3>1, CountAdds
    <3>3. QED
      BY <3>2 DEF missed
  <2>7. \A i \in 1..k : Before(i, known \cup {k}) = Before(i, known)
    BY <1>0, <2>4
  <2>8. Before(k, known \cup {k}) = WrongAmong(rs, known)
    BY <1>0, <2>3, <2>4
  <2> HIDE DEF mine, known
  <2>9. new.pending > 0 <=> known \cup {k} # mine \cup {k}
    <3>1. known = (known \cup {k}) \ {k} /\ mine = (mine \cup {k}) \ {k}
      BY <2>3
    <3>2. QED
      BY <1>1, <2>1, <3>1
  <2>10. CASE line.solved
    <3>1. PICK i \in known : /\ First(i, known)
                             /\ line.wrong = Cardinality(Before(i, known))
                             /\ line.penalty = Minutes(rs[i]) + line.wrong * 20
      BY <1>1, <2>10
    <3>2. i \in 1..k /\ i <= k /\ i \in known \cup {k}
      BY <1>0, <1>2
    <3>3. First(i, known \cup {k}) /\ Before(i, known \cup {k}) = Before(i, known)
      BY <2>7, <3>1, <3>2
    <3>4. /\ new.solved /\ new.wrong = Cardinality(Before(i, known \cup {k}))
          /\ new.penalty = Minutes(rs[i]) + new.wrong * 20
      BY <2>1, <2>10, <3>1, <3>3
    <3>5. QED
      BY <1>1, <1>2, <2>1, <2>2, <2>5, <2>9, <3>2, <3>3, <3>4 DEF IcpcSays
  <2>11. CASE ~line.solved /\ Accepted(rs[k])
    <3>1. First(k, known \cup {k})
      BY <1>0, <1>1, <2>11
    <3>2. /\ new.solved /\ new.wrong = Cardinality(Before(k, known \cup {k}))
          /\ new.penalty = Minutes(rs[k]) + new.wrong * 20
      BY <1>1, <2>1, <2>8, <2>11
    <3>3. QED
      BY <1>1, <1>2, <2>1, <2>2, <2>5, <2>9, <3>1, <3>2 DEF IcpcSays
  <2>12. CASE ~line.solved /\ ~Accepted(rs[k])
    <3>1. ~new.solved /\ new.penalty = 0 /\ ~\E i \in known \cup {k} : Accepted(rs[i])
      BY <1>1, <2>1, <2>12
    <3>2. new.wrong = Cardinality(WrongAmong(rs, known \cup {k}))
      BY <1>1, <1>3, <2>1, <2>4, <2>6, <2>12
    <3>3. QED
      BY <1>1, <1>2, <2>1, <2>2, <2>5, <2>9, <3>1, <3>2 DEF IcpcSays
  <2>13. QED
    BY <2>10, <2>11, <2>12
<1>6. QED
  BY <1>4, <1>5

LEMMA IcpcStateSays ==
    ASSUME contest.start \in Nat, NEW rs \in Seq(Row), NEW u, NEW cutoff \in Nat
    PROVE  IcpcSays(rs, u, cutoff, Len(rs), IcpcState(rs, u, cutoff))
<1> DEFINE n == Len(rs)
<1>0. n \in Nat
  BY RowsSeq
<1>1. PICK f : /\ LeftRun(n, IcpcStates, IcpcNone, IcpcTable(rs, u, cutoff), f)
               /\ IcpcState(rs, u, cutoff) = f[n]
  BY IcpcRuns
<1> DEFINE T == {k \in 0..n : IcpcSays(rs, u, cutoff, k, f[k])}
<1>2. 0 \in T
  BY <1>0, <1>1, IcpcSaysStart DEF LeftRun
<1>3. ASSUME NEW k \in 1..n, k - 1 \in T PROVE k \in T
  <2>0. k \in Nat \ {0} /\ k \in 0..n /\ IcpcSays(rs, u, cutoff, k - 1, f[k - 1])
    BY <1>0, <1>3
  <2>1. IcpcSays(rs, u, cutoff, k - 1, f[k - 1]) /\ f[k - 1] \in IcpcStates /\ k \in Nat \ {0} /\ k \in 0..n
    BY <2>0 DEF IcpcSays
  <2>2. f[k] = IcpcTable(rs, u, cutoff)[<<k, f[k - 1]>>]
    BY <1>1 DEF LeftRun
  <2>3. f[k] = IF Mine(u, {"contest"}, rs[k]) THEN AddToIcpc(cutoff, f[k - 1], rs[k]) ELSE f[k - 1]
    BY <2>1, <2>2 DEF IcpcTable
  <2>4. CASE Mine(u, {"contest"}, rs[k])
    BY <2>1, <2>3, <2>4, IcpcSaysNext
  <2>5. CASE ~Mine(u, {"contest"}, rs[k])
    <3>1. /\ Asked(rs, u, k) = Asked(rs, u, k - 1)
          /\ Known(rs, u, cutoff, k) = Known(rs, u, cutoff, k - 1)
      BY <2>1, <2>5, AskedAdds, KnownAdds
    <3>2. IcpcSays(rs, u, cutoff, k, f[k])
      BY <2>1, <2>3, <2>5, <3>1 DEF IcpcSays
    <3>3. QED
      BY <2>1, <3>2
  <2>6. QED
    BY <2>4, <2>5
<1>4. 0..n \subseteq T
  <2> HIDE DEF T
  <2>1. QED
    BY <1>0, <1>2, <1>3, Climb
<1>5. n \in T
  <2>1. n \in 0..n
    BY <1>0
  <2>2. QED
    BY <1>4, <2>1
<1>6. QED
  BY <1>1, <1>5

-----------------------------------------------------------------------------
(***************************************************************************)
(* The standings.                                                          *)
(***************************************************************************)
Solved(rs, D) == {i \in D : Accepted(rs[i])}

FirstOfAll(D) == CHOOSE i \in D : \A j \in D : i <= j

(* The errors before the accepted row.                                     *)
ErrorsBefore(rs, D, k) == {j \in D : rs[j].result.status \notin {"CE", "SE"} /\ j < k}

LEMMA FirstIs ==
    ASSUME NEW D \in SUBSET Nat, NEW i \in D, \A j \in D : i <= j PROVE FirstOfAll(D) = i
<1>1. FirstOfAll(D) \in D /\ \A j \in D : FirstOfAll(D) <= j
  BY DEF FirstOfAll
<1>2. i <= FirstOfAll(D) /\ FirstOfAll(D) <= i /\ i \in Nat /\ FirstOfAll(D) \in Nat
  BY <1>1
<1>3. QED
  BY <1>2

LEMMA IcpcLineIsRight ==
    ASSUME contest.start \in Nat, NEW rs \in Seq(Row), NEW u, NEW cutoff \in Nat
    PROVE  LET line   == IcpcLine(rs, u, cutoff)
               mine   == Asked(rs, u, Len(rs))
               known  == Known(rs, u, cutoff, Len(rs))
               solved == Solved(rs, known)
               first  == FirstOfAll(solved)
               wrong  == ErrorsBefore(rs, known, first)
           IN /\ line.status = "ac" <=> solved # {}
              /\ line.status = "pending" => known # mine
              /\ line.status = "none" => mine = {}
              /\ line.points = IF solved # {} THEN 1 ELSE 0
              /\ solved # {} => /\ line.penalty = Minutes(rs[first]) + 20 * Cardinality(wrong)
                                /\ line.submit = Cardinality(wrong) + 1
              /\ line.total = Cardinality(known)
              /\ solved = {} => line.penalty = 0
<1> DEFINE line == IcpcLine(rs, u, cutoff)
           state == IcpcState(rs, u, cutoff)
           mine == Asked(rs, u, Len(rs))
           known == Known(rs, u, cutoff, Len(rs))
           solved == Solved(rs, known)
           first == FirstOfAll(solved)
           wrong == ErrorsBefore(rs, known, first)
<1>1. /\ state \in IcpcStates
      /\ state.submit = Cardinality(known)
      /\ state.pending > 0 <=> known # mine
      /\ state.solved <=> \E i \in known : Accepted(rs[i])
      /\ ~state.solved => state.penalty = 0
      /\ state.solved =>
            \E i \in known :
               /\ Accepted(rs[i]) /\ \A j \in known : Accepted(rs[j]) => i <= j
               /\ state.wrong = Cardinality({j \in WrongAmong(rs, known) : j < i})
               /\ state.penalty = Minutes(rs[i]) + state.wrong * 20
  <2>1. IcpcSays(rs, u, cutoff, Len(rs), state)
    BY IcpcStateSays
  <2> HIDE DEF state
  <2>2. /\ state \in IcpcStates
        /\ state.submit = Cardinality(known)
        /\ state.pending > 0 <=> known # mine
        /\ state.solved <=> \E i \in known : Accepted(rs[i])
        /\ ~state.solved => state.penalty = 0
    BY <2>1 DEF IcpcSays
  <2>3. ASSUME state.solved
        PROVE  \E i \in known :
                  /\ Accepted(rs[i]) /\ \A j \in known : Accepted(rs[j]) => i <= j
                  /\ state.wrong = Cardinality({j \in WrongAmong(rs, known) : j < i})
                  /\ state.penalty = Minutes(rs[i]) + state.wrong * 20
    BY <2>1, <2>3 DEF IcpcSays
  <2>4. QED
    BY <2>2, <2>3
<1>2. /\ line.total = state.submit /\ line.points = IF state.solved THEN 1 ELSE 0
      /\ line.penalty = state.penalty
      /\ line.status = IF state.solved THEN "ac" ELSE IF state.pending > 0 THEN "pending"
                       ELSE IF state.submit > 0 THEN "tried" ELSE "none"
      /\ line.submit = IF state.solved THEN state.wrong + 1
                       ELSE IF state.pending > 0 THEN state.pending ELSE state.submit
  BY DEF IcpcLine
<1>3. known \in SUBSET Nat /\ IsFiniteSet(known)
  <2>1. Len(rs) \in Nat /\ known \in SUBSET (1..Len(rs))
    BY RowsSeq DEF Known, Asked
  <2>2. IsFiniteSet(1..Len(rs))
    BY <2>1, FS_Interval
  <2> HIDE DEF known
  <2>3. IsFiniteSet(known)
    BY <2>1, <2>2, FS_Subset
  <2>4. known \in SUBSET Nat
    BY <2>1
  <2>5. QED
    BY <2>3, <2>4
<1>4. solved # {} <=> state.solved
  BY <1>1 DEF Solved
<1>5. state.submit \in Nat /\ state.wrong \in Nat /\ state.pending \in Nat
  BY <1>1 DEF IcpcStates
<1> HIDE DEF line, state, mine, known
<1>6. line.status = "none" => mine = {}
  <2>1. line.status = "none" => ~state.solved /\ ~(state.pending > 0) /\ ~(state.submit > 0)
    BY <1>2
  <2>2. ~(state.submit > 0) => known = {}
    BY <1>1, <1>3, <1>5, FS_EmptySet
  <2>3. QED
    BY <1>1, <2>1, <2>2
<1>7. ASSUME state.solved
      PROVE  /\ line.penalty = Minutes(rs[first]) + 20 * Cardinality(wrong)
             /\ line.submit = Cardinality(wrong) + 1
  <2>1. PICK i \in known :
               /\ Accepted(rs[i]) /\ \A j \in known : Accepted(rs[j]) => i <= j
               /\ state.wrong = Cardinality({j \in WrongAmong(rs, known) : j < i})
               /\ state.penalty = Minutes(rs[i]) + state.wrong * 20
    BY <1>1, <1>7
  <2>2. i \in solved /\ solved \in SUBSET Nat /\ \A j \in solved : i <= j
    BY <1>3, <2>1 DEF Solved
  <2>3. first = i
    BY <2>2, FirstIs
  <2>4. \A j \in known : j < i => ~Accepted(rs[j])
    BY <1>3, <2>1
  <2>5. wrong = {j \in WrongAmong(rs, known) : j < i}
    BY <2>3, <2>4 DEF ErrorsBefore, WrongAmong, Penalizable, Accepted
  <2> HIDE DEF wrong, first
  <2>6. state.wrong = Cardinality(wrong) /\ line.penalty = Minutes(rs[first]) + state.wrong * 20
        /\ line.submit = state.wrong + 1
    BY <1>2, <1>7, <2>1, <2>3, <2>5
  <2>7. state.wrong * 20 = 20 * Cardinality(wrong)
    BY <1>5, <2>6
  <2>8. QED
    BY <2>6, <2>7
<1>8. /\ line.status = "ac" <=> solved # {}
      /\ line.status = "pending" => known # mine
      /\ line.points = IF solved # {} THEN 1 ELSE 0
      /\ line.total = Cardinality(known)
      /\ solved = {} => line.penalty = 0
  <2> HIDE DEF solved
  <2>1. QED
    BY <1>1, <1>2, <1>4
<1>9. QED
  <2>1. solved # {} => /\ line.penalty = Minutes(rs[first]) + 20 * Cardinality(wrong)
                       /\ line.submit = Cardinality(wrong) + 1
    BY <1>4, <1>7
  <2>2. QED
    BY <1>6, <1>8, <2>1 DEF line, mine, known

(* The status, by the rows with a result that shows.                       *)
LEMMA IcpcStatusIs ==
    ASSUME contest.start \in Nat, NEW rs \in Seq(Row), NEW u, NEW cutoff \in Nat
    PROVE  LET mine  == Asked(rs, u, Len(rs))
               known == Known(rs, u, cutoff, Len(rs))
           IN IcpcLine(rs, u, cutoff).status =
                 IF \E i \in known : Accepted(rs[i]) THEN "ac" ELSE IF known # mine THEN "pending"
                 ELSE IF mine # {} THEN "tried" ELSE "none"
<1> DEFINE state == IcpcState(rs, u, cutoff)
           mine  == Asked(rs, u, Len(rs))
           known == Known(rs, u, cutoff, Len(rs))
<1>1. IcpcSays(rs, u, cutoff, Len(rs), state)
  BY IcpcStateSays
<1>2. IcpcLine(rs, u, cutoff).status =
         IF state.solved THEN "ac" ELSE IF state.pending > 0 THEN "pending"
         ELSE IF state.submit > 0 THEN "tried" ELSE "none"
  BY DEF IcpcLine
<1>3. IsFiniteSet(known)
  <2>1. Len(rs) \in Nat /\ known \in SUBSET (1..Len(rs))
    BY RowsSeq DEF Known, Asked
  <2>2. IsFiniteSet(1..Len(rs))
    BY <2>1, FS_Interval
  <2> HIDE DEF known
  <2>3. QED
    BY <2>1, <2>2, FS_Subset
<1> HIDE DEF state
<1>4. /\ state.submit = Cardinality(known)
      /\ state.pending > 0 <=> known # mine
      /\ state.solved <=> \E i \in known : Accepted(rs[i])
  BY <1>1 DEF IcpcSays
<1> HIDE DEF mine, known
<1>5. state.submit > 0 <=> known # {}
  <2>1. Cardinality(known) \in Nat /\ (Cardinality(known) = 0 <=> known = {})
    BY <1>3, FS_CardinalityType, FS_EmptySet
  <2>2. QED
    BY <1>4, <2>1
<1>6. QED
  BY <1>2, <1>4, <1>5 DEF mine, known

LEMMA OiLineIsRight ==
    ASSUME NEW rs \in Seq(Row), NEW u
    PROVE  LET line  == OiLine(rs, u)
               mine  == Asked(rs, u, Len(rs))
               known == Known(rs, u, Never, Len(rs))
           IN /\ line.status = "ac" <=> \E i \in known : Accepted(rs[i])
              /\ line.status = "tried" <=> known # {} /\ ~\E i \in known : Accepted(rs[i])
              /\ line.status = "pending" <=> known = {} /\ mine # {}
              /\ line.status = "none" <=> mine = {}
              /\ \A i \in known : rs[i].result.score <= line.points
              /\ known # {} => \E i \in known : rs[i].result.score = line.points
              /\ line.total = Cardinality(mine)
<1> DEFINE line == OiLine(rs, u)
           state == OiState(rs, u)
           mine == Asked(rs, u, Len(rs))
           known == Known(rs, u, Never, Len(rs))
<1>1. /\ state.submit = Cardinality(mine)
      /\ state.pending > 0 <=> known # mine
      /\ state.done > 0 <=> known # {}
      /\ state.accepted <=> \E i \in known : Accepted(rs[i])
      /\ \A i \in known : rs[i].result.score <= state.score
      /\ known # {} => \E i \in known : rs[i].result.score = state.score
  BY OiStateSays DEF OiSays
<1>2. /\ line.total = state.submit /\ line.points = state.score
      /\ line.status = IF state.accepted THEN "ac" ELSE IF state.done > 0 THEN "tried"
                       ELSE IF state.pending > 0 THEN "pending" ELSE "none"
  BY DEF OiLine
<1>3. known \subseteq mine
  BY DEF Known
<1> HIDE DEF line, state, mine, known
<1>4. /\ line.status = "ac" <=> \E i \in known : Accepted(rs[i])
      /\ line.status = "tried" <=> known # {} /\ ~\E i \in known : Accepted(rs[i])
      /\ line.status = "pending" <=> known = {} /\ mine # {}
      /\ line.status = "none" <=> mine = {}
  <2>1. CASE known = {}
    BY <1>1, <1>2, <2>1
  <2>2. CASE known # {}
    BY <1>1, <1>2, <1>3, <2>2
  <2>3. QED
    BY <2>1, <2>2
<1>5. QED
  BY <1>1, <1>2, <1>4 DEF line, mine, known

(* Who has a line, and what kind of line.                                  *)
LEMMA LineOf ==
    ASSUME TypeOK, NEW rs \in Seq(Row), NEW v, NEW u \in DOMAIN Standings(rs, v)
    PROVE  /\ u \in Users /\ Kept
           /\ Standings(rs, v)[u] = IF contest.kind = "ICPC" THEN IcpcLine(rs, u, Cutoff(v)) ELSE OiLine(rs, u)
           /\ contest.kind = "OI" /\ v # Admin => ~Unfinished
           /\ contest.kind \in {"OI", "ICPC"} /\ contest.start \in Nat /\ Cutoff(v) \in Nat
<1>1. now \in Nat /\ contest.kind \in {"OI", "ICPC"} /\ contest.start \in Nat /\ contest.end \in Nat
      /\ contest.freeze \in Nat /\ Never \in Nat
  BY Constants DEF TypeOK, Contest
<1>2. Cutoff(v) \in Nat
  BY <1>1 DEF Cutoff
<1>3. /\ u \in Users /\ Kept /\ ProblemListed(v) /\ (contest.kind # "OI" \/ ~Running \/ v = Admin)
      /\ Standings(rs, v)[u] = IF contest.kind = "ICPC" THEN IcpcLine(rs, u, Cutoff(v)) ELSE OiLine(rs, u)
  BY DEF Standings
<1>4. Ended => ~Unfinished
  BY DEF Ended, Unfinished
<1>5. QED
  BY <1>1, <1>2, <1>3, <1>4 DEF ProblemListed

LEMMA StandingsRight == TypeOK => StandingsAreRight
<1> SUFFICES ASSUME TypeOK, NEW v \in {Guest, Admin}, NEW u \in DOMAIN Standings(rows, v)
             PROVE  LET line   == Standings(rows, v)[u]
                        mine   == {i \in DOMAIN rows : rows[i].user = u /\ IsContests(rows[i])}
                        known  == {i \in mine : /\ ~Live(rows[i])
                                                /\ contest.kind = "OI" \/ rows[i].at < Cutoff(v)}
                        solved == {i \in known : Accepted(rows[i])}
                        First  == CHOOSE i \in solved : \A j \in solved : i <= j
                        wrong  == {j \in known : rows[j].result.status \notin {"CE", "SE"} /\ j < First}
                    IN /\ (line.status = "ac") = (solved # {})
                       /\ line.status = "pending" => known # mine
                       /\ line.status = "none" => mine = {}
                       /\ IF contest.kind = "ICPC"
                          THEN /\ line.points = IF solved # {} THEN 1 ELSE 0
                               /\ solved # {} =>
                                     /\ line.penalty = Minutes(rows[First]) + 20 * Cardinality(wrong)
                                     /\ line.submit = Cardinality(wrong) + 1
                               /\ line.total = Cardinality(known)
                               /\ solved = {} => line.penalty = 0
                          ELSE /\ \A i \in known : rows[i].result.score <= line.points
                               /\ known # {} => \E i \in known : rows[i].result.score = line.points
                               /\ line.total = Cardinality(mine)
  BY DEF StandingsAreRight
<1> DEFINE line   == Standings(rows, v)[u]
           mine   == {i \in DOMAIN rows : rows[i].user = u /\ IsContests(rows[i])}
           known  == {i \in mine : ~Live(rows[i]) /\ (contest.kind = "OI" \/ rows[i].at < Cutoff(v))}
           solved == {i \in known : Accepted(rows[i])}
           First  == CHOOSE i \in solved : \A j \in solved : i <= j
           wrong  == {j \in known : rows[j].result.status \notin {"CE", "SE"} /\ j < First}
<1>0. rows \in Seq(Row) /\ DOMAIN rows = 1..Len(rows) /\ \A i \in DOMAIN rows : rows[i] \in Row
  BY RowsSeq DEF TypeOK
<1>1. /\ line = IF contest.kind = "ICPC" THEN IcpcLine(rows, u, Cutoff(v)) ELSE OiLine(rows, u)
      /\ contest.kind \in {"OI", "ICPC"} /\ contest.start \in Nat /\ Cutoff(v) \in Nat
  BY <1>0, LineOf
<1>2. mine = Asked(rows, u, Len(rows))
  BY <1>0 DEF Asked, Mine, IsContests
<1>3. CASE contest.kind = "ICPC"
  <2>1. known = Known(rows, u, Cutoff(v), Len(rows))
    BY <1>2, <1>3 DEF Known
  <2>2. solved = Solved(rows, known) /\ First = FirstOfAll(solved) /\ wrong = ErrorsBefore(rows, known, First)
    BY DEF Solved, FirstOfAll, ErrorsBefore
  <2>3. line = IcpcLine(rows, u, Cutoff(v))
    BY <1>1, <1>3
  <2> HIDE DEF line, mine, known, solved, First, wrong
  <2>4. /\ line.status = "ac" <=> solved # {}
        /\ line.status = "pending" => known # mine
        /\ line.status = "none" => mine = {}
        /\ line.points = IF solved # {} THEN 1 ELSE 0
        /\ solved # {} => /\ line.penalty = Minutes(rows[First]) + 20 * Cardinality(wrong)
                          /\ line.submit = Cardinality(wrong) + 1
        /\ line.total = Cardinality(known)
        /\ solved = {} => line.penalty = 0
    BY <1>0, <1>1, <1>2, <2>1, <2>2, <2>3, IcpcLineIsRight
  <2>5. (line.status = "ac") = (solved # {})
    BY <2>4
  <2>6. QED
    BY <1>3, <2>4, <2>5 DEF line, mine, known, solved, First, wrong
<1>4. CASE contest.kind = "OI"
  <2>1. known = Known(rows, u, Never, Len(rows))
    <3>1. \A i \in DOMAIN rows : rows[i].at < Never
      BY <1>0, Constants DEF Row
    <3>2. QED
      BY <1>0, <1>2, <1>4, <3>1 DEF Known
  <2>2. line = OiLine(rows, u)
    BY <1>1, <1>4
  <2>3. solved # {} <=> \E i \in known : Accepted(rows[i])
    OBVIOUS
  <2>4. known \subseteq mine
    OBVIOUS
  <2> HIDE DEF line, mine, known, solved
  <2>5. /\ line.status = "ac" <=> \E i \in known : Accepted(rows[i])
        /\ line.status = "pending" <=> known = {} /\ mine # {}
        /\ line.status = "none" <=> mine = {}
        /\ \A i \in known : rows[i].result.score <= line.points
        /\ known # {} => \E i \in known : rows[i].result.score = line.points
        /\ line.total = Cardinality(mine)
    BY <1>0, <1>2, <2>1, <2>2, OiLineIsRight
  <2>6. (line.status = "ac") = (solved # {})
    BY <2>3, <2>5
  <2>7. QED
    BY <1>4, <2>4, <2>5, <2>6 DEF line, mine, known, solved
<1>5. QED
  BY <1>1, <1>3, <1>4

(* The standings are what the rules of the two kinds of contest say, for    *)
(* any number of submissions: the fold over them that contestRank makes     *)
(* finds the first accepted one, counts the wrong ones before it, and keeps *)
(* the best score.                                                          *)
THEOREM StandingsFollowRules == Spec => []StandingsAreRight
<1>1. Sound => StandingsAreRight
  BY StandingsRight DEF Sound
<1>2. QED
  BY <1>1, SoundInit, SoundNext, PTL DEF Spec

-----------------------------------------------------------------------------
(***************************************************************************)
(* The views agree.                                                        *)
(***************************************************************************)

(* To the contestant nothing of the own lines is hidden once they show.    *)
LEMMA LabelIsStatus ==
    ASSUME TypeOK, NEW u \in Users, u \in DOMAIN Standings(rows, u)
    PROVE  StatusIsLabel(u)
<1> DEFINE line == Standings(rows, u)[u]
           label == ContestLabel(rows, u)
           S == Chosen(rows, u, {"contest"}, DOMAIN rows)
           mine == Asked(rows, u, Len(rows))
           judged == Known(rows, u, Never, Len(rows))
           waiting == \E i \in DOMAIN rows : Mine(u, {"contest"}, rows[i]) /\ Live(rows[i])
<1>0. rows \in Seq(Row) /\ DOMAIN rows = 1..Len(rows) /\ \A i \in DOMAIN rows : rows[i] \in Row
  BY RowsSeq DEF TypeOK
<1>1. /\ line = IF contest.kind = "ICPC" THEN IcpcLine(rows, u, Cutoff(u)) ELSE OiLine(rows, u)
      /\ contest.kind \in {"OI", "ICPC"} /\ contest.start \in Nat /\ Cutoff(u) \in Nat
      /\ contest.kind = "OI" => ~Unfinished
  <2>1. u # Admin
    BY ConstantsAssumption
  <2>2. QED
    BY <1>0, <2>1, LineOf
<1>2. \A i \in DOMAIN rows : rows[i].user = u => ResultShown(u, rows[i])
  BY <1>1 DEF ResultShown
<1>3. /\ LabelSays(S, label)
      /\ contest.kind = "OI" => label = OiSummary(S)
  BY <1>0, <1>2, ContestLabelSays
<1>4. S = {rows[i] : i \in mine}
  BY <1>0 DEF Chosen, Asked
<1>5. judged = {i \in mine : ~Live(rows[i])}
  <2>1. \A i \in mine : rows[i].at < Never
    BY <1>0, Constants DEF Row, Asked
  <2>2. QED
    BY <2>1 DEF Known
<1>6. /\ (\E row \in S : Accepted(row)) <=> \E i \in mine : Accepted(rows[i])
      /\ (\E row \in S : Accepted(row)) <=> \E i \in judged : Accepted(rows[i])
      /\ (\E row \in S : Live(row)) <=> judged # mine
      /\ (\E row \in S : ~Live(row)) <=> judged # {}
      /\ S # {} <=> mine # {}
  BY <1>4, <1>5, AcceptedIsJudged
<1>7. waiting <=> judged # mine
  BY <1>0, <1>5 DEF Asked
<1>8. CASE contest.kind = "ICPC"
  <2> DEFINE known == Known(rows, u, Cutoff(u), Len(rows))
  <2>1. line = IcpcLine(rows, u, Cutoff(u))
    BY <1>1, <1>8
  <2>2. line.status = IF \E i \in known : Accepted(rows[i]) THEN "ac"
                      ELSE IF known # mine THEN "pending"
                      ELSE IF mine # {} THEN "tried" ELSE "none"
    BY <1>0, <1>1, <2>1, IcpcStatusIs
  <2>3. known \subseteq judged
    BY <1>5 DEF Known
  <2>4. Cutoff(u) = Never => known = judged
    OBVIOUS
  <2>5. judged \subseteq mine
    BY <1>5
  <2> HIDE DEF line, label, S, mine, judged, known, waiting
  <2>6. line.status # "pending" => line.status = label
    <3>1. CASE \E i \in known : Accepted(rows[i])
      BY <1>3, <1>6, <2>2, <2>3, <3>1 DEF LabelSays
    <3>2. CASE (~\E i \in known : Accepted(rows[i])) /\ known = mine
      <4>1. judged = mine
        BY <2>3, <2>5, <3>2
      <4>2. label # "ac" /\ label # "pending" /\ (label = "none" <=> mine = {})
        BY <1>3, <1>6, <3>2, <4>1 DEF LabelSays
      <4>3. label = IF mine # {} THEN "tried" ELSE "none"
        BY <1>3, <4>2 DEF LabelSays, Labels
      <4>4. QED
        BY <2>2, <3>2, <4>3
    <3>3. QED
      BY <2>2, <3>1, <3>2
  <2>7. Cutoff(u) = Never => (line.status = "pending" <=> waiting /\ label # "ac")
    BY <1>3, <1>6, <1>7, <2>2, <2>4 DEF LabelSays
  <2>8. QED
    BY <1>8, <2>6, <2>7 DEF StatusIsLabel, line, label, waiting
<1>9. CASE contest.kind = "OI"
  <2>1. line = OiLine(rows, u)
    BY <1>1, <1>9
  <2> HIDE DEF line, S, mine, judged
  <2>2. /\ line.status = "ac" <=> \E i \in judged : Accepted(rows[i])
        /\ line.status = "tried" <=> judged # {} /\ ~\E i \in judged : Accepted(rows[i])
        /\ line.status = "pending" <=> judged = {} /\ mine # {}
        /\ line.status = "none" <=> mine = {}
    BY <1>0, <2>1, OiLineIsRight DEF mine, judged
  <2>3. line.status = OiSummary(S)
    BY <1>6, <2>2 DEF OiSummary
  <2>4. QED
    BY <1>3, <1>9, <2>3 DEF StatusIsLabel, line
<1>10. QED
  BY <1>1, <1>8, <1>9

(* The cell's rows may come in any order that keeps them.                  *)
LEMMA CellFor ==
    ASSUME TypeOK, NEW u \in Users, NEW rs \in Seq(Row),
           Chosen(rs, u, {"assignment"}, DOMAIN rs) = Chosen(rows, u, {"assignment"}, DOMAIN rows)
    PROVE  CellIsRight(rs, u)
<1> DEFINE cell   == Progress(rs, u, u)
           mine   == {i \in DOMAIN rows : Mine(u, {"assignment"}, rows[i])}
           judged == {i \in mine : ~Live(rows[i])}
           S      == Chosen(rows, u, {"assignment"}, DOMAIN rows)
<1>1. CellSays(u, S, cell)
  BY ProgressSays
<1>2. ProblemLabel(rows, u, {"assignment"}) = Summary(u, S)
  BY LabelIsSummary DEF TypeOK
<1>3. S = {rows[i] : i \in mine}
  BY DEF Chosen
<1>4. judged = mine <=> \A row \in S : ~Live(row)
  BY <1>3
<1> HIDE DEF cell, S
<1>5. cell.score # NoScore => \E i \in judged : rows[i].result.score = cell.score
  BY <1>1, <1>3 DEF CellSays
<1>6. \A i \in mine : judged = mine \/ Accepted(rows[i]) => rows[i].result.score <= cell.score
  BY <1>1, <1>3, <1>4 DEF CellSays
<1>7. cell.status = ProblemLabel(rows, u, {"assignment"})
  BY <1>1, <1>2 DEF CellSays
<1>8. QED
  BY <1>5, <1>6, <1>7 DEF CellIsRight, cell

LEMMA AllAgree == TypeOK => ViewsAgree
<1> SUFFICES ASSUME TypeOK PROVE ViewsAgree
  OBVIOUS
<1>0. rows \in Seq(Row) /\ \A i \in DOMAIN rows : rows[i] \in Row
  BY RowsSeq DEF TypeOK
<1>1. ASSUME NEW v \in Viewers, NEW i \in DOMAIN rows
      PROVE  /\ ResultShown(v, rows[i]) = ResultCounts(v, rows[i])
             /\ ResultShown(v, rows[i]) = ~ProgressHides(v, rows[i])
  <2>1. /\ ResultShown(v, rows[i]) <=> ResultCounts(v, rows[i])
        /\ ResultShown(v, rows[i]) <=> ~ProgressHides(v, rows[i])
    BY <1>0, RulesAgree
  <2>2. /\ ResultShown(v, rows[i]) \in BOOLEAN /\ ResultCounts(v, rows[i]) \in BOOLEAN
    BY DEF ResultShown, ResultCounts
  <2>3. (~ProgressHides(v, rows[i])) \in BOOLEAN
    OBVIOUS
  <2>4. QED
    BY <2>1, <2>2, <2>3
<1>2. ASSUME NEW u \in Users
      PROVE  /\ \A label \in {"ac", "pending", "tried", "none"} :
                   FilterFinds(rows, u, label) <=> ProblemLabel(rows, u, Contexts) = label
             /\ CellIsRight(rows, u) /\ CellIsRight(Reverse(rows), u)
             /\ AssignmentDone(rows, u) <=> Progress(rows, u, u).status = "ac"
             /\ u \in DOMAIN Standings(rows, u) => StatusIsLabel(u)
  <2>0. u \in Viewers
    BY DEF Viewers
  <2>1. \A label \in {"ac", "pending", "tried", "none"} :
           FilterFinds(rows, u, label) <=> ProblemLabel(rows, u, Contexts) = label
    BY <1>0, FilterIsSummary, LabelIsSummary DEF AllLabels
  <2>2. CellIsRight(rows, u)
    BY <1>0, CellFor
  <2>3. CellIsRight(Reverse(rows), u)
    BY <1>0, ReverseChosen, CellFor
  <2>4. AssignmentDone(rows, u) <=> Progress(rows, u, u).status = "ac"
    <3>1. Progress(rows, u, u).status = Summary(u, Chosen(rows, u, {"assignment"}, DOMAIN rows))
      BY <1>0, ProgressSays DEF CellSays
    <3>2. QED
      BY <1>0, <3>1, DoneIsSummary
  <2>5. u \in DOMAIN Standings(rows, u) => StatusIsLabel(u)
    BY LabelIsStatus
  <2>6. QED
    BY <2>1, <2>2, <2>3, <2>4, <2>5
<1>3. QED
  BY <1>1, <1>2 DEF ViewsAgree

(* The pages agree, however many submissions there are: the rule of         *)
(* visibility is the same in Go, in SQL and in the progress table; the      *)
(* filter, the label, the count of problems done and the status in the      *)
(* assignment's table say the same, and the table's score is the best there *)
(* is unless a submission waits, with the rows oldest or newest first; the  *)
(* status in the standings is the contest's label, but for an ICPC line     *)
(* that is pending.                                                         *)
THEOREM PagesAgree == Spec => []ViewsAgree
<1>1. Sound => ViewsAgree
  BY AllAgree DEF Sound
<1>2. QED
  BY <1>1, SoundInit, SoundNext, PTL DEF Spec

-----------------------------------------------------------------------------
(***************************************************************************)
(* Nothing leaks.                                                          *)
(***************************************************************************)

(* A result that none of the three forms of the rule lets v learn.         *)
Sealed(v, row) ==
    /\ ~Live(row) /\ IsContests(row)
    /\ ~ResultShown(v, row) /\ ~ResultCounts(v, row)
    /\ contest.kind = "ICPC" => row.at >= Cutoff(v)

(* Submissions that differ in such results only.                           *)
Alike(rs, ss, v) ==
    /\ rs \in Seq(Row) /\ ss \in Seq(Row) /\ Len(rs) = Len(ss)
    /\ \A j \in 1..Len(rs) :
          /\ rs[j].user = ss[j].user /\ rs[j].context = ss[j].context /\ rs[j].at = ss[j].at
          /\ rs[j] = ss[j] \/ (Sealed(v, rs[j]) /\ Sealed(v, ss[j]))

LEMMA SecretIsSealed ==
    ASSUME Sound, NEW v \in Viewers, NEW row \in Row, row.at <= now, Secret(v, row) PROVE Sealed(v, row)
<1>0. TypeOK
  BY DEF Sound
<1>1. ~Live(row) /\ IsContests(row) /\ v # Admin /\ Unfinished
      /\ (contest.kind = "OI" \/ (v # row.user /\ contest.freeze <= row.at))
  BY DEF Secret
<1>2. /\ now \in Nat /\ contest.freeze \in Nat /\ row.at \in Nat
      /\ contest.kind \in {"OI", "ICPC"}
  BY <1>0, Comparable
<1>3. ~ResultShown(v, row)
  BY <1>1, <1>2 DEF ResultShown
<1>4. ~ResultCounts(v, row)
  BY <1>0, <1>3, RulesAgree
<1>5. contest.kind = "ICPC" => row.at >= Cutoff(v)
  BY <1>1, <1>2 DEF Cutoff, Frozen
<1>6. QED
  BY <1>1, <1>3, <1>4, <1>5 DEF Sealed

LEMMA OtherResultIsAlike ==
    ASSUME Sound, NEW v \in Viewers, NEW i \in DOMAIN rows, Secret(v, rows[i]), NEW r \in Results
    PROVE  Alike(WithResult(i, r), rows, v)
<1> DEFINE other == WithResult(i, r)
           row == [rows[i] EXCEPT !.result = r]
<1>0. /\ TypeOK /\ rows \in Seq(Row) /\ DOMAIN rows = 1..Len(rows) /\ Len(rows) \in Nat
      /\ \A j \in DOMAIN rows : rows[j] \in Row /\ rows[j].at <= now
  BY RowsSeq DEF Sound, TypeOK, RowsArePast
<1>1. /\ row \in Row /\ row.at = rows[i].at /\ row.user = rows[i].user
      /\ row.context = rows[i].context /\ row.result = r
  BY <1>0, NewResult
<1> HIDE DEF row
<1>2. other = [rows EXCEPT ![i] = row]
  BY DEF WithResult, row
<1>3. other \in Seq(Row) /\ Len(other) = Len(rows) /\ other[i] = row
      /\ \A j \in DOMAIN rows : j # i => other[j] = rows[j]
  BY <1>0, <1>1, <1>2
<1>4. Secret(v, row)
  BY <1>1, Constants DEF Secret, IsContests, Live
<1>5. Sealed(v, rows[i]) /\ Sealed(v, row)
  BY <1>0, <1>1, <1>4, SecretIsSealed
<1>6. QED
  BY <1>0, <1>1, <1>3, <1>5 DEF Alike

(* Lists and counts.                                                       *)
LEMMA ListsAlike ==
    ASSUME NEW rs, NEW ss, NEW v, Alike(rs, ss, v)
    PROVE  /\ DOMAIN rs = DOMAIN ss
           /\ Shown(rs, v) = Shown(ss, v)
           /\ \A s : ListWithStatus(rs, v, s) = ListWithStatus(ss, v, s)
           /\ Counted(rs, v) = Counted(ss, v)
<1>0. DOMAIN rs = 1..Len(rs) /\ DOMAIN ss = DOMAIN rs
  BY RowsSeq DEF Alike
<1>1. \A j \in DOMAIN rs : rs[j] = ss[j] \/ (Sealed(v, rs[j]) /\ Sealed(v, ss[j]))
  BY <1>0 DEF Alike
<1>2. \A j \in DOMAIN rs : (IF ResultShown(v, rs[j]) THEN {rs[j].result} ELSE {}) =
                           (IF ResultShown(v, ss[j]) THEN {ss[j].result} ELSE {})
  BY <1>1 DEF Sealed
<1>3. Shown(rs, v) = Shown(ss, v)
  BY <1>0, <1>2 DEF Shown
<1>4. ASSUME NEW s PROVE ListWithStatus(rs, v, s) = ListWithStatus(ss, v, s)
  BY <1>0, <1>1 DEF ListWithStatus, Sealed
<1>5. Counted(rs, v) = Counted(ss, v)
  BY <1>0, <1>1 DEF Counted, Sealed
<1>6. QED
  BY <1>0, <1>3, <1>4, <1>5

LEMMA CountsAlike ==
    ASSUME NEW rs, NEW ss, NEW v, Alike(rs, ss, v)
    PROVE  /\ \A c : ProblemSubmissionStats(rs, v, c) = ProblemSubmissionStats(ss, v, c)
           /\ UserStats(rs, v) = UserStats(ss, v)
           /\ AssignmentDone(rs, v) = AssignmentDone(ss, v)
           /\ \A label \in AllLabels : FilterFinds(rs, v, label) <=> FilterFinds(ss, v, label)
<1>0. DOMAIN rs = 1..Len(rs) /\ DOMAIN ss = DOMAIN rs /\ Counted(rs, v) = Counted(ss, v)
  BY ListsAlike, RowsSeq DEF Alike
<1>1. \A j \in DOMAIN rs : rs[j].user = ss[j].user /\ rs[j].context = ss[j].context
  BY <1>0 DEF Alike
<1>2. \A j \in DOMAIN rs : rs[j] = ss[j] \/ (Sealed(v, rs[j]) /\ Sealed(v, ss[j]))
  BY <1>0 DEF Alike
<1>3. Counted(rs, v) \subseteq DOMAIN rs
  BY DEF Counted
<1>4. ASSUME NEW c PROVE ProblemSubmissionStats(rs, v, c) = ProblemSubmissionStats(ss, v, c)
  <2>1. {j \in Counted(rs, v) : rs[j].context \in c} = {j \in Counted(ss, v) : ss[j].context \in c}
    BY <1>0, <1>1, <1>3
  <2>2. QED
    BY <2>1 DEF ProblemSubmissionStats
<1>5. UserStats(rs, v) = UserStats(ss, v)
  BY <1>0, <1>1, <1>3 DEF UserStats
<1>6. AssignmentDone(rs, v) = AssignmentDone(ss, v)
  BY <1>0, <1>1, <1>3 DEF AssignmentDone
<1>7. ASSUME NEW label \in AllLabels PROVE FilterFinds(rs, v, label) <=> FilterFinds(ss, v, label)
  <2> DEFINE mine(t)   == {j \in DOMAIN t : t[j].user = v}
             live(t)   == \E j \in mine(t) : Live(t[j])
             hidden(t) == \E j \in mine(t) : ~Live(t[j]) /\ ~ResultCounts(v, t[j])
             any(t)    == \E j \in mine(t) : ~Live(t[j]) /\ ResultCounts(v, t[j])
             ac(t)     == mine(t) \cap Counted(t, v) # {}
  <2>1. mine(rs) = mine(ss) /\ mine(rs) \subseteq DOMAIN rs
    BY <1>0, <1>1
  <2>2. ac(rs) <=> ac(ss)
    BY <1>0, <2>1
  <2> HIDE DEF mine
  <2>3. \A j \in mine(rs) : /\ Live(rs[j]) <=> Live(ss[j])
                            /\ ResultCounts(v, rs[j]) <=> ResultCounts(v, ss[j])
    BY <1>2, <2>1 DEF Sealed
  <2>4. (live(rs) <=> live(ss)) /\ (hidden(rs) <=> hidden(ss)) /\ (any(rs) <=> any(ss))
    BY <2>1, <2>3
  <2>5. \A t \in {rs, ss} :
           /\ label = "ac" => (FilterFinds(t, v, label) <=> ac(t))
           /\ label = "pending" => (FilterFinds(t, v, label) <=> ~ac(t) /\ (live(t) \/ hidden(t)))
           /\ label = "tried" => (FilterFinds(t, v, label) <=> any(t) /\ ~ac(t) /\ ~live(t) /\ ~hidden(t))
           /\ label = "none" => (FilterFinds(t, v, label) <=> ~any(t) /\ ~live(t) /\ ~hidden(t))
    BY DEF FilterFinds, mine
  <2> HIDE DEF live, hidden, any, ac
  <2>6. label = "ac" \/ label = "pending" \/ label = "tried" \/ label = "none"
    BY DEF AllLabels
  <2>7. QED
    BY <2>2, <2>4, <2>5, <2>6, Zenon
<1>8. QED
  BY <1>4, <1>5, <1>6, <1>7

(* Labels: the folds take the same steps.                                  *)
LEMMA LabelsAlike ==
    ASSUME NEW rs, NEW ss, NEW v, Alike(rs, ss, v), NEW contexts
    PROVE  ProblemLabel(rs, v, contexts) = ProblemLabel(ss, v, contexts)
<1>0. rs \in Seq(Row) /\ ss \in Seq(Row) /\ Len(rs) = Len(ss)
  BY DEF Alike
<1>1. ASSUME NEW j \in 1..Len(rs), NEW label \in Labels
      PROVE  /\ Mine(v, contexts, rs[j]) <=> Mine(v, contexts, ss[j])
             /\ AddToLabel(v, rs[j], label) = AddToLabel(v, ss[j], label)
  <2>1. Mine(v, contexts, rs[j]) <=> Mine(v, contexts, ss[j])
    BY DEF Alike, Mine
  <2>2. rs[j] = ss[j] \/ (Sealed(v, rs[j]) /\ Sealed(v, ss[j]))
    BY DEF Alike
  <2>3. QED
    BY <2>1, <2>2 DEF Sealed, AddToLabel
<1>2. LabelTable(rs, v, contexts) = LabelTable(ss, v, contexts)
  BY <1>0, <1>1 DEF LabelTable
<1>3. PICK f : /\ RightRun(Len(rs), Labels, "none", LabelTable(rs, v, contexts), f)
               /\ ProblemLabel(rs, v, contexts) = f[1]
  BY <1>0, LabelRuns
<1>4. PICK g : /\ RightRun(Len(rs), Labels, "none", LabelTable(rs, v, contexts), g)
               /\ ProblemLabel(ss, v, contexts) = g[1]
  BY <1>0, <1>2, LabelRuns
<1>5. Table(Len(rs), Labels, "none", LabelTable(rs, v, contexts))
  BY <1>0, LabelTableTyped
<1>6. QED
  BY <1>3, <1>4, <1>5, OneRightRun

LEMMA ContestLabelsAlike ==
    ASSUME NEW rs, NEW ss, NEW v, Alike(rs, ss, v)
    PROVE  ContestLabel(rs, v) = ContestLabel(ss, v)
<1>0. rs \in Seq(Row) /\ ss \in Seq(Row) /\ Len(rs) = Len(ss)
  BY DEF Alike
<1>1. ASSUME NEW j \in 1..Len(rs), NEW label \in Labels
      PROVE  /\ Mine(v, {"contest"}, rs[j]) <=> Mine(v, {"contest"}, ss[j])
             /\ AddToContestLabel(v, rs[j], label) = AddToContestLabel(v, ss[j], label)
  <2>1. Mine(v, {"contest"}, rs[j]) <=> Mine(v, {"contest"}, ss[j])
    BY DEF Alike, Mine
  <2>2. rs[j] = ss[j] \/ (Sealed(v, rs[j]) /\ Sealed(v, ss[j]))
    BY DEF Alike
  <2>3. QED
    BY <2>1, <2>2 DEF Sealed, AddToContestLabel
<1>2. ContestLabelTable(rs, v) = ContestLabelTable(ss, v)
  BY <1>0, <1>1 DEF ContestLabelTable
<1>3. PICK f : /\ RightRun(Len(rs), Labels, "none", ContestLabelTable(rs, v), f)
               /\ ContestLabel(rs, v) = f[1]
  BY <1>0, ContestLabelRuns
<1>4. PICK g : /\ RightRun(Len(rs), Labels, "none", ContestLabelTable(rs, v), g)
               /\ ContestLabel(ss, v) = g[1]
  BY <1>0, <1>2, ContestLabelRuns
<1>5. Table(Len(rs), Labels, "none", ContestLabelTable(rs, v))
  BY <1>0, ContestLabelTableTyped
<1>6. QED
  BY <1>3, <1>4, <1>5, OneRightRun

(* A contest's row is not in the assignment's table.                       *)
LEMMA ProgressAlike ==
    ASSUME NEW rs, NEW ss, NEW v, Alike(rs, ss, v), NEW u
    PROVE  Progress(rs, v, u) = Progress(ss, v, u)
<1>0. rs \in Seq(Row) /\ ss \in Seq(Row) /\ Len(rs) = Len(ss)
  BY DEF Alike
<1>1. ASSUME NEW j \in 1..Len(rs), NEW cell \in Cells
      PROVE  /\ Mine(u, {"assignment"}, rs[j]) <=> Mine(u, {"assignment"}, ss[j])
             /\ Mine(u, {"assignment"}, rs[j]) =>
                   AddToProgress(v, cell, rs[j]) = AddToProgress(v, cell, ss[j])
  <2>1. Mine(u, {"assignment"}, rs[j]) <=> Mine(u, {"assignment"}, ss[j])
    BY DEF Alike, Mine
  <2>2. rs[j] = ss[j] \/ IsContests(rs[j])
    BY DEF Alike, Sealed
  <2>3. Mine(u, {"assignment"}, rs[j]) => ~IsContests(rs[j])
    BY DEF Mine, IsContests
  <2>4. QED
    BY <2>1, <2>2, <2>3
<1>2. ProgressTable(rs, v, u) = ProgressTable(ss, v, u)
  BY <1>0, <1>1 DEF ProgressTable
<1>3. PICK f : /\ LeftRun(Len(rs), Cells, EmptyCell, ProgressTable(rs, v, u), f)
               /\ Progress(rs, v, u) = f[Len(rs)]
  BY <1>0, ProgressRuns
<1>4. PICK g : /\ LeftRun(Len(rs), Cells, EmptyCell, ProgressTable(rs, v, u), g)
               /\ Progress(ss, v, u) = g[Len(rs)]
  BY <1>0, <1>2, ProgressRuns
<1>5. Table(Len(rs), Cells, EmptyCell, ProgressTable(rs, v, u))
  BY <1>0, ProgressTableTyped
<1>6. QED
  BY <1>3, <1>4, <1>5, OneLeftRun

(* The standings: in a frozen ICPC contest the row is pending in either     *)
(* case, and an unfinished OI contest has no standings.                     *)
LEMMA IcpcAlike ==
    ASSUME contest.start \in Nat, contest.kind = "ICPC",
           NEW rs, NEW ss, NEW v, Alike(rs, ss, v), NEW u
    PROVE  IcpcLine(rs, u, Cutoff(v)) = IcpcLine(ss, u, Cutoff(v))
<1> DEFINE cutoff == Cutoff(v)
<1>0. rs \in Seq(Row) /\ ss \in Seq(Row) /\ Len(rs) = Len(ss)
  BY DEF Alike
<1>1. ASSUME NEW j \in 1..Len(rs), NEW line \in IcpcStates
      PROVE  /\ Mine(u, {"contest"}, rs[j]) <=> Mine(u, {"contest"}, ss[j])
             /\ AddToIcpc(cutoff, line, rs[j]) = AddToIcpc(cutoff, line, ss[j])
  <2>1. Mine(u, {"contest"}, rs[j]) <=> Mine(u, {"contest"}, ss[j])
    BY DEF Alike, Mine
  <2>2. rs[j] = ss[j] \/ (rs[j].at >= cutoff /\ ss[j].at >= cutoff)
    BY DEF Alike, Sealed
  <2> HIDE DEF cutoff
  <2>3. QED
    BY <2>1, <2>2 DEF AddToIcpc
<1> HIDE DEF cutoff
<1>2. IcpcTable(rs, u, cutoff) = IcpcTable(ss, u, cutoff)
  BY <1>0, <1>1 DEF IcpcTable
<1>3. PICK f : /\ LeftRun(Len(rs), IcpcStates, IcpcNone, IcpcTable(rs, u, cutoff), f)
               /\ IcpcState(rs, u, cutoff) = f[Len(rs)]
  BY <1>0, IcpcRuns
<1>4. PICK g : /\ LeftRun(Len(rs), IcpcStates, IcpcNone, IcpcTable(rs, u, cutoff), g)
               /\ IcpcState(ss, u, cutoff) = g[Len(rs)]
  BY <1>0, <1>2, IcpcRuns
<1>5. Table(Len(rs), IcpcStates, IcpcNone, IcpcTable(rs, u, cutoff))
  BY <1>0, IcpcTableTyped
<1>6. IcpcState(rs, u, cutoff) = IcpcState(ss, u, cutoff)
  BY <1>3, <1>4, <1>5, OneLeftRun
<1>7. QED
  BY <1>6 DEF IcpcLine, cutoff

LEMMA StandingsAlike ==
    ASSUME TypeOK, NEW rs, NEW ss, NEW v, Alike(rs, ss, v), v # Admin, Unfinished
    PROVE  Standings(rs, v) = Standings(ss, v)
<1> DEFINE shown == Kept /\ ProblemListed(v) /\ (contest.kind # "OI" \/ ~Running \/ v = Admin)
           there(t) == {u \in Users : shown /\ \E i \in DOMAIN t : Mine(u, {"contest"}, t[i])}
           line(t, u) == IF contest.kind = "ICPC" THEN IcpcLine(t, u, Cutoff(v)) ELSE OiLine(t, u)
<1>0. DOMAIN rs = 1..Len(rs) /\ DOMAIN ss = DOMAIN rs
  BY RowsSeq DEF Alike
<1>1. contest.start \in Nat /\ contest.kind \in {"OI", "ICPC"}
  BY Constants DEF TypeOK, Contest
<1>2. there(rs) = there(ss)
  <2>1. ASSUME NEW u PROVE \A i \in DOMAIN rs : Mine(u, {"contest"}, rs[i]) <=> Mine(u, {"contest"}, ss[i])
    BY <1>0 DEF Alike, Mine
  <2>2. QED
    BY <1>0, <2>1
<1>3. contest.kind = "OI" => ~shown
  <2>1. ~Ended
    BY DEF Ended, Unfinished
  <2>2. QED
    BY <2>1 DEF ProblemListed
<1>4. \A u \in there(rs) : line(rs, u) = line(ss, u)
  <2>1. CASE contest.kind = "OI"
    BY <1>3, <2>1
  <2>2. CASE contest.kind = "ICPC"
    BY <1>1, <2>2, IcpcAlike
  <2>3. QED
    BY <1>1, <2>1, <2>2
<1>5. \A t \in {rs, ss} : Standings(t, v) = [u \in there(t) |-> line(t, u)]
  BY DEF Standings
<1> HIDE DEF there, line
<1>6. [u \in there(rs) |-> line(rs, u)] = [u \in there(ss) |-> line(ss, u)]
  BY <1>2, <1>4
<1>7. QED
  BY <1>5, <1>6

LEMMA TellsTheSame ==
    ASSUME TypeOK, NEW rs, NEW ss, NEW v, Alike(rs, ss, v), v # Admin, Unfinished
    PROVE  Tells(rs, v) = Tells(ss, v)
<1> DEFINE lists(t) == [s \in Statuses |-> ListWithStatus(t, v, s)]
           accepted(t) == [c \in {{"contest"}, {"assignment"}, Contexts} |-> ProblemSubmissionStats(t, v, c)]
           labels(t) == <<ProblemLabel(t, v, Contexts), ContestLabel(t, v)>>
           filter(t) == {label \in {"ac", "pending", "tried", "none"} : FilterFinds(t, v, label)}
           progress(t) == [u \in Users |-> Progress(t, v, u)]
<1>1. Shown(rs, v) = Shown(ss, v) /\ lists(rs) = lists(ss)
  BY ListsAlike
<1>2. accepted(rs) = accepted(ss) /\ UserStats(rs, v) = UserStats(ss, v)
      /\ AssignmentDone(rs, v) = AssignmentDone(ss, v)
  BY CountsAlike
<1>3. filter(rs) = filter(ss)
  BY CountsAlike DEF AllLabels
<1>4. labels(rs) = labels(ss)
  BY LabelsAlike, ContestLabelsAlike
<1>5. progress(rs) = progress(ss)
  BY ProgressAlike
<1>6. Standings(rs, v) = Standings(ss, v)
  BY StandingsAlike
<1>7. \A t \in {rs, ss} : Tells(t, v) =
         [rows |-> Shown(t, v), lists |-> lists(t), accepted |-> accepted(t),
          solved |-> UserStats(t, v), done |-> AssignmentDone(t, v), labels |-> labels(t),
          filter |-> filter(t), progress |-> progress(t), standings |-> Standings(t, v)]
  BY DEF Tells
<1> HIDE DEF lists, accepted, labels, filter, progress
<1>8. QED
  BY <1>1, <1>2, <1>3, <1>4, <1>5, <1>6, <1>7

(* No page tells anything of a secret result, in every state the server can *)
(* be in, whatever administrators do to the contest meanwhile: no list,     *)
(* count, label, filter, progress table or line of the standings changes    *)
(* with it.  It rests on RowsArePast: a row from behind the freeze means    *)
(* that the freeze has begun.                                               *)
THEOREM SecretsAreKept == Spec => []NothingLeaks
<1>1. Sound => NothingLeaks
  <2>1. ASSUME Sound, NEW v \in Viewers, NEW i \in DOMAIN rows, Secret(v, rows[i]), NEW r \in Results
        PROVE  Tells(WithResult(i, r), v) = Tells(rows, v)
    <3>1. Alike(WithResult(i, r), rows, v)
      BY <2>1, OtherResultIsAlike
    <3>2. TypeOK /\ v # Admin /\ Unfinished
      BY <2>1 DEF Sound, Secret
    <3>3. QED
      BY <3>1, <3>2, TellsTheSame
  <2>2. QED
    BY <2>1 DEF NothingLeaks
<1>2. QED
  BY <1>1, SoundInit, SoundNext, PTL DEF Spec

=============================================================================
