------------------------------ MODULE FoldLemmas ------------------------------
(***************************************************************************)
(* Lemmas about the folds of the community modules: the sum of a function  *)
(* and the fold of a sequence, which the models use to count.  A property  *)
(* that fails somewhere fails at a least place (WFMin): that is the        *)
(* induction the proofs below use, on numbers and on finite sets.          *)
(***************************************************************************)
EXTENDS Integers, Sequences, FiniteSets, FiniteSetsExt, SequencesExt, Functions, Folds,
        FiniteSetTheorems, WellFoundedInduction, TLAPS

-----------------------------------------------------------------------------
(* Least elements. *)

\* A set of numbers that is not empty has a least element.
LEMMA LeastNat ==
  ASSUME NEW T \in SUBSET Nat, T # {}
  PROVE  \E x \in T : \A y \in T : x <= y
  <1> DEFINE less == {ss \in Nat \X Nat : ss[1] < ss[2]}
  <1>1. IsWellFoundedOn(less, Nat)
    BY NatLessThanWellFounded DEF OpToRel
  <1> HIDE DEF less
  <1>2. PICK x \in T : \A y \in T : ~(<<y, x>> \in less)
    BY <1>1, WFMin
  <1>3. \A y \in Nat : <<y, x>> \in less <=> y < x
    BY DEF less
  <1>4. \A y \in T : ~(y < x)
    BY <1>2, <1>3, Zenon
  <1>5. \A y \in T : x <= y
    BY <1>4
  <1>6. QED
    BY <1>5

\* Among finite sets there is one with no proper subset among them.
LEMMA LeastSet ==
  ASSUME NEW S, IsFiniteSet(S), NEW T \in SUBSET (SUBSET S), T # {}
  PROVE  \E s \in T : \A t \in T : t \subseteq s => t = s
  <1>1. T \subseteq FiniteSubsetsOf(S)
    BY FS_Subset DEF FiniteSubsetsOf
  <1>2. PICK s \in T : \A t \in T : ~(<<t, s>> \in StrictSubsetOrdering(S))
    BY <1>1, WFMin, FS_StrictSubsetOrderingWellFounded
  <1>3. \A t \in T : t \subseteq s /\ t # s => <<t, s>> \in StrictSubsetOrdering(S)
    BY DEF StrictSubsetOrdering
  <1>4. \A t \in T : ~(t \subseteq s /\ t # s)
    BY <1>2, <1>3, Zenon
  <1>5. QED
    BY <1>4

-----------------------------------------------------------------------------
(* The function a fold over the subsets of a finite set is defined by. *)

Folder(g, s, base, ch, step) ==
  g = [t \in SUBSET s |-> IF t = {} THEN base ELSE step[<<ch[t], g[t \ {ch[t]}]>>]]

\* Two folders agree where both are defined.
LEMMA FoldersAgree ==
  ASSUME NEW S, IsFiniteSet(S), NEW base, NEW step, NEW ch,
         \A t \in SUBSET S : t # {} => ch[t] \in t,
         NEW s \in SUBSET S, NEW u \in SUBSET s, NEW g, NEW h,
         Folder(g, s, base, ch, step), Folder(h, u, base, ch, step)
  PROVE  \A t \in SUBSET u : g[t] = h[t]
  <1> DEFINE T == {t \in SUBSET u : g[t] # h[t]}
  <1>1. SUFFICES ASSUME T # {} PROVE FALSE
    OBVIOUS
  <1>2. PICK t \in T : \A v \in T : v \subseteq t => v = t
    <2>1. T \in SUBSET (SUBSET S)
      OBVIOUS
    <2> HIDE DEF T
    <2>2. QED
      BY <1>1, <2>1, LeastSet
  <1>3. g[t] = IF t = {} THEN base ELSE step[<<ch[t], g[t \ {ch[t]}]>>]
    BY DEF Folder
  <1>4. h[t] = IF t = {} THEN base ELSE step[<<ch[t], h[t \ {ch[t]}]>>]
    BY DEF Folder
  <1>5. t # {}
    BY <1>3, <1>4
  <1>6. ch[t] \in t
    BY <1>5
  <1>7. t \ {ch[t]} \notin T
    BY <1>2, <1>6
  <1>8. g[t \ {ch[t]}] = h[t \ {ch[t]}]
    BY <1>7
  <1>9. QED
    BY <1>3, <1>4, <1>8

\* Every finite set has a folder.
LEMMA FolderExists ==
  ASSUME NEW S, IsFiniteSet(S), NEW base, NEW step, NEW ch,
         \A t \in SUBSET S : t # {} => ch[t] \in t
  PROVE  \E g : Folder(g, S, base, ch, step)
  <1> DEFINE Good(s) == \E g : Folder(g, s, base, ch, step)
             G(s) == CHOOSE g : Folder(g, s, base, ch, step)
             T == {s \in SUBSET S : ~Good(s)}
  <1>1. SUFFICES ASSUME T # {} PROVE FALSE
    OBVIOUS
  <1>2. PICK s \in T : \A v \in T : v \subseteq s => v = s
    <2>1. T \in SUBSET (SUBSET S)
      OBVIOUS
    <2> HIDE DEF T
    <2>2. QED
      BY <1>1, <2>1, LeastSet
  <1>3. \A v \in SUBSET s : v # s => Folder(G(v), v, base, ch, step)
    BY <1>2
  <1> DEFINE g == [t \in SUBSET s |-> IF t = {} THEN base
                                      ELSE step[<<ch[t], G(t \ {ch[t]})[t \ {ch[t]}]>>]]
  <1> HIDE DEF G
  <1>4. \A v \in SUBSET s : v # s => g[v] = G(v)[v]
    <2>1. SUFFICES ASSUME NEW v \in SUBSET s, v # s PROVE g[v] = G(v)[v]
      OBVIOUS
    <2>2. G(v) = [t \in SUBSET v |-> IF t = {} THEN base
                                     ELSE step[<<ch[t], G(v)[t \ {ch[t]}]>>]]
      BY <1>3, <2>1 DEF Folder
    <2>3. G(v)[v] = IF v = {} THEN base ELSE step[<<ch[v], G(v)[v \ {ch[v]}]>>]
      BY <2>2
    <2>4. CASE v = {}
      BY <2>3, <2>4
    <2>5. CASE v # {}
      <3>1. ch[v] \in v
        BY <2>5
      <3>2. v \ {ch[v]} \in SUBSET v /\ v \ {ch[v]} # s
        BY <3>1
      <3>3. Folder(G(v \ {ch[v]}), v \ {ch[v]}, base, ch, step) /\ Folder(G(v), v, base, ch, step)
        BY <1>3, <2>1, <3>2
      <3>4. v \in SUBSET S
        OBVIOUS
      <3>5. G(v)[v \ {ch[v]}] = G(v \ {ch[v]})[v \ {ch[v]}]
        <4> DEFINE w == v \ {ch[v]}
             Gv == G(v)
             Gw == G(w)
        <4>1. w \in SUBSET v /\ Folder(Gv, v, base, ch, step) /\ Folder(Gw, w, base, ch, step)
          BY <3>2, <3>3
        <4>2. \A t \in SUBSET w : Gv[t] = Gw[t]
          <5> HIDE DEF w, Gv, Gw
          <5>1. QED
            BY <3>4, <4>1, FoldersAgree
        <4>3. QED
          BY <4>2
      <3>6. QED
        BY <2>3, <2>5, <3>5
    <2>6. QED
      BY <2>4, <2>5
  <1>5. \A t \in SUBSET s : t # {} => t \ {ch[t]} \in SUBSET s /\ t \ {ch[t]} # s
    OBVIOUS
  <1>6. \A t \in SUBSET s : g[t] = IF t = {} THEN base ELSE step[<<ch[t], g[t \ {ch[t]}]>>]
    <2>1. SUFFICES ASSUME NEW t \in SUBSET s
                   PROVE g[t] = IF t = {} THEN base ELSE step[<<ch[t], g[t \ {ch[t]}]>>]
      OBVIOUS
    <2>2. CASE t = {}
      BY <2>2
    <2>3. CASE t # {}
      <3>1. g[t \ {ch[t]}] = G(t \ {ch[t]})[t \ {ch[t]}]
        BY <1>4, <1>5, <2>3
      <3>2. g[t] = step[<<ch[t], G(t \ {ch[t]})[t \ {ch[t]}]>>]
        BY <2>3
      <3>3. QED
        BY <2>3, <3>1, <3>2
    <2>4. QED
      BY <2>2, <2>3
  <1>7. Folder(g, s, base, ch, step)
    <2>1. g = [t \in SUBSET s |-> g[t]]
      OBVIOUS
    <2> HIDE DEF g
    <2>2. QED
      BY <1>6, <2>1 DEF Folder
  <1>8. QED
    BY <1>2, <1>7

\* The values of a folder.
LEMMA FolderValues ==
  ASSUME NEW S, IsFiniteSet(S), NEW V, NEW base \in V, NEW step, NEW ch,
         \A t \in SUBSET S : t # {} => ch[t] \in t,
         \A x \in S, v \in V : step[<<x, v>>] \in V,
         NEW g, Folder(g, S, base, ch, step)
  PROVE  \A t \in SUBSET S : g[t] \in V
  <1> DEFINE T == {t \in SUBSET S : g[t] \notin V}
  <1>1. SUFFICES ASSUME T # {} PROVE FALSE
    OBVIOUS
  <1>2. PICK t \in T : \A v \in T : v \subseteq t => v = t
    <2>1. T \in SUBSET (SUBSET S)
      OBVIOUS
    <2> HIDE DEF T
    <2>2. QED
      BY <1>1, <2>1, LeastSet
  <1>3. g[t] = IF t = {} THEN base ELSE step[<<ch[t], g[t \ {ch[t]}]>>]
    BY DEF Folder
  <1>4. t # {}
    BY <1>3
  <1>5. ch[t] \in t /\ ch[t] \in S
    BY <1>4
  <1>6. t \ {ch[t]} \notin T
    BY <1>2, <1>5
  <1>7. g[t \ {ch[t]}] \in V
    BY <1>6
  <1>8. g[t] \in V
    BY <1>3, <1>4, <1>5, <1>7
  <1>9. QED
    BY <1>8

-----------------------------------------------------------------------------
(* SumFunctionOnSet. *)

Pick(t) == CHOOSE x \in t : TRUE

Summer(g, f, S) ==
  g = [t \in SUBSET S |-> IF t = {} THEN 0 ELSE f[Pick(t)] + g[t \ {Pick(t)}]]

LEMMA PickIn == \A t : t # {} => Pick(t) \in t
  BY DEF Pick

LEMMA SummersAgree ==
  ASSUME NEW S, IsFiniteSet(S), NEW f, NEW u \in SUBSET S, NEW g, NEW h,
         Summer(g, f, S), Summer(h, f, u)
  PROVE  \A t \in SUBSET u : g[t] = h[t]
  <1> DEFINE T == {t \in SUBSET u : g[t] # h[t]}
  <1>1. SUFFICES ASSUME T # {} PROVE FALSE
    OBVIOUS
  <1>2. PICK t \in T : \A v \in T : v \subseteq t => v = t
    <2>1. T \in SUBSET (SUBSET S)
      OBVIOUS
    <2> HIDE DEF T
    <2>2. QED
      BY <1>1, <2>1, LeastSet
  <1>3. g[t] = IF t = {} THEN 0 ELSE f[Pick(t)] + g[t \ {Pick(t)}]
    BY DEF Summer
  <1>4. h[t] = IF t = {} THEN 0 ELSE f[Pick(t)] + h[t \ {Pick(t)}]
    BY DEF Summer
  <1>5. t # {}
    BY <1>3, <1>4
  <1>6. Pick(t) \in t
    BY <1>5, PickIn
  <1>7. t \ {Pick(t)} \notin T
    BY <1>2, <1>6
  <1>8. g[t \ {Pick(t)}] = h[t \ {Pick(t)}]
    BY <1>7
  <1>9. QED
    BY <1>3, <1>4, <1>8

LEMMA SummerExists ==
  ASSUME NEW S, IsFiniteSet(S), NEW f, \A x \in S : f[x] \in Int
  PROVE  \E g \in [SUBSET S -> Int] : Summer(g, f, S)
  <1> DEFINE ch == [t \in SUBSET S |-> Pick(t)]
             step == [p \in S \X Int |-> f[p[1]] + p[2]]
  <1>1. \A t \in SUBSET S : t # {} => ch[t] \in t
    BY PickIn
  <1>2. \A x \in S, v \in Int : step[<<x, v>>] = f[x] + v
    OBVIOUS
  <1>3. \A x \in S, v \in Int : step[<<x, v>>] \in Int
    OBVIOUS
  <1>4. \A t \in SUBSET S : ch[t] = Pick(t)
    OBVIOUS
  <1> HIDE DEF ch, step
  <1>5. PICK g : Folder(g, S, 0, ch, step)
    BY <1>1, FolderExists
  <1>6. \A t \in SUBSET S : g[t] \in Int
    <2>1. 0 \in Int
      OBVIOUS
    <2>2. QED
      BY <1>1, <1>3, <1>5, <2>1, FolderValues
  <1>7. g = [t \in SUBSET S |-> IF t = {} THEN 0 ELSE step[<<ch[t], g[t \ {ch[t]}]>>]]
    BY <1>5 DEF Folder
  <1>8. \A t \in SUBSET S : t # {} => step[<<ch[t], g[t \ {ch[t]}]>>] = f[Pick(t)] + g[t \ {Pick(t)}]
    BY <1>2, <1>4, <1>6, PickIn
  <1>9. g = [t \in SUBSET S |-> IF t = {} THEN 0 ELSE f[Pick(t)] + g[t \ {Pick(t)}]]
    BY <1>7, <1>8
  <1>10. g \in [SUBSET S -> Int]
    BY <1>6, <1>7
  <1>11. QED
    BY <1>9, <1>10 DEF Summer

LEMMA SumIsSummer ==
  ASSUME NEW S, IsFiniteSet(S), NEW f, NEW g, Summer(g, f, S)
  PROVE  SumFunctionOnSet(f, S) = g[S]
  <1> DEFINE h == CHOOSE h : Summer(h, f, S)
  <1>1. Summer(h, f, S)
    OBVIOUS
  <1>2. SumFunctionOnSet(f, S) = h[S]
    BY DEF Summer, Pick, SumFunctionOnSet, FoldFunctionOnSet, MapThenFoldSet
  <1> HIDE DEF h
  <1>3. \A t \in SUBSET S : g[t] = h[t]
    BY <1>1, SummersAgree
  <1>4. QED
    BY <1>2, <1>3

\* The sum over a set, by the element the definition picks.
LEMMA SumByPick ==
  ASSUME NEW S, IsFiniteSet(S), NEW f, \A x \in S : f[x] \in Int
  PROVE  /\ SumFunctionOnSet(f, S) \in Int
         /\ S = {} => SumFunctionOnSet(f, S) = 0
         /\ S # {} => SumFunctionOnSet(f, S) = f[Pick(S)] + SumFunctionOnSet(f, S \ {Pick(S)})
  <1>1. PICK g \in [SUBSET S -> Int] : Summer(g, f, S)
    BY SummerExists
  <1>2. SumFunctionOnSet(f, S) = g[S]
    BY <1>1, SumIsSummer
  <1>3. g[S] \in Int
    OBVIOUS
  <1>4. g[S] = IF S = {} THEN 0 ELSE f[Pick(S)] + g[S \ {Pick(S)}]
    BY <1>1 DEF Summer
  <1>5. ASSUME S # {} PROVE g[S \ {Pick(S)}] = SumFunctionOnSet(f, S \ {Pick(S)})
    <2> DEFINE u == S \ {Pick(S)}
    <2>1. u \in SUBSET S /\ IsFiniteSet(u)
      BY FS_Subset
    <2> HIDE DEF u
    <2>2. PICK h \in [SUBSET u -> Int] : Summer(h, f, u)
      BY <2>1, SummerExists
    <2>3. SumFunctionOnSet(f, u) = h[u]
      BY <2>1, <2>2, SumIsSummer
    <2>4. \A t \in SUBSET u : g[t] = h[t]
      BY <1>1, <2>1, <2>2, SummersAgree
    <2>5. QED
      BY <2>3, <2>4 DEF u
  <1>6. QED
    BY <1>2, <1>3, <1>4, <1>5

\* The sum over a set does not depend on the order in which it is taken.
LEMMA SumRemove ==
  ASSUME NEW S, IsFiniteSet(S), NEW f, \A x \in S : f[x] \in Int, NEW e \in S
  PROVE  SumFunctionOnSet(f, S) = f[e] + SumFunctionOnSet(f, S \ {e})
  <1> DEFINE Sum(s) == SumFunctionOnSet(f, s)
             T == {s \in SUBSET S : \E x \in s : Sum(s) # f[x] + Sum(s \ {x})}
  <1>1. SUFFICES ASSUME T # {} PROVE FALSE
    OBVIOUS
  <1>2. PICK s \in T : \A v \in T : v \subseteq s => v = s
    <2>1. T \in SUBSET (SUBSET S)
      OBVIOUS
    <2> HIDE DEF T
    <2>2. QED
      BY <1>1, <2>1, LeastSet
  <1>3. PICK x \in s : Sum(s) # f[x] + Sum(s \ {x})
    BY <1>2
  <1>4. \A t \in SUBSET S : /\ IsFiniteSet(t) /\ Sum(t) \in Int
                            /\ t # {} => Sum(t) = f[Pick(t)] + Sum(t \ {Pick(t)})
    BY SumByPick, FS_Subset
  <1> HIDE DEF Sum
  <1> DEFINE c == Pick(s)
  <1>5. c \in s /\ c # x
    BY <1>3, <1>4, PickIn
  <1>6. Sum(s) = f[c] + Sum(s \ {c})
    BY <1>4, <1>5
  <1> HIDE DEF c
  <1>7. s \ {c} \notin T /\ s \ {x} \notin T
    BY <1>2, <1>5
  <1>8. Sum(s \ {c}) = f[x] + Sum((s \ {c}) \ {x})
    BY <1>5, <1>7
  <1>9. Sum(s \ {x}) = f[c] + Sum((s \ {x}) \ {c})
    BY <1>5, <1>7
  <1>10. (s \ {c}) \ {x} = (s \ {x}) \ {c}
    OBVIOUS
  <1>11. f[c] \in Int /\ f[x] \in Int /\ Sum((s \ {x}) \ {c}) \in Int
    BY <1>4, <1>5
  <1>12. \A i, j, k \in Int : i + (j + k) = j + (i + k)
    OBVIOUS
  <1>13. Sum(s) = f[c] + (f[x] + Sum((s \ {x}) \ {c}))
    BY <1>6, <1>8, <1>10
  <1>14. Sum(s) = f[x] + (f[c] + Sum((s \ {x}) \ {c}))
    BY <1>11, <1>12, <1>13
  <1>15. QED
    BY <1>3, <1>9, <1>14

-----------------------------------------------------------------------------
(* Sums over an interval, and sums of bounded terms. *)

\* Partial sums determine the sum.
LEMMA SumInterval ==
  ASSUME NEW n \in Nat, NEW f, \A k \in 1..n : f[k] \in Int,
         NEW pre, pre[0] = 0, \A k \in 1..n : pre[k] = pre[k - 1] + f[k]
  PROVE  SumFunctionOnSet(f, 1..n) = pre[n]
  <1> DEFINE Sum(k) == SumFunctionOnSet(f, 1..k)
             T == {k \in 0..n : Sum(k) # pre[k]}
  <1>1. SUFFICES ASSUME T # {} PROVE FALSE
    OBVIOUS
  <1>2. PICK k \in T : \A y \in T : k <= y
    <2>1. T \in SUBSET Nat
      OBVIOUS
    <2> HIDE DEF T
    <2>2. QED
      BY <1>1, <2>1, LeastNat
  <1>3. k \in 0..n /\ IsFiniteSet(1..k) /\ \A x \in 1..k : f[x] \in Int
    BY FS_Interval
  <1>4. CASE k = 0
    <2>1. 1..k = {}
      BY <1>4
    <2>2. Sum(k) = 0
      BY <1>3, <2>1, SumByPick
    <2>3. QED
      BY <1>2, <1>4, <2>2
  <1>5. CASE k # 0
    <2>1. k \in 1..k /\ (1..k) \ {k} = 1..(k - 1) /\ k - 1 \in 0..n /\ k \in 1..n
      BY <1>3, <1>5
    <2>2. Sum(k) = f[k] + SumFunctionOnSet(f, (1..k) \ {k})
      BY <1>3, <2>1, SumRemove
    <2>3. Sum(k) = f[k] + Sum(k - 1)
      BY <2>1, <2>2
    <2>4. Sum(k - 1) \in Int
      <3>1. IsFiniteSet(1..(k-1)) /\ \A x \in 1..(k - 1) : f[x] \in Int
        BY <1>3, <2>1, FS_Interval
      <3>2. QED
        BY <3>1, SumByPick
    <2> HIDE DEF Sum
    <2>5. k - 1 \notin T
      BY <1>2, <1>3
    <2>6. Sum(k - 1) = pre[k - 1]
      BY <2>1, <2>5
    <2>7. pre[k] = pre[k - 1] + f[k] /\ f[k] \in Int
      BY <2>1
    <2>8. Sum(k) = pre[k]
      BY <2>3, <2>4, <2>6, <2>7
    <2>9. QED
      BY <1>2, <2>8
  <1>6. QED
    BY <1>4, <1>5

LEMMA SumIntervalFromZero ==
  ASSUME NEW n \in Nat, NEW f, \A k \in 0..(n - 1) : f[k] \in Int,
         NEW pre, pre[0] = 0, \A k \in 0..(n - 1) : pre[k + 1] = pre[k] + f[k]
  PROVE  SumFunctionOnSet(f, 0..(n - 1)) = pre[n]
  <1> DEFINE Sum(k) == SumFunctionOnSet(f, 0..(k - 1))
             T == {k \in 0..n : Sum(k) # pre[k]}
  <1>1. SUFFICES ASSUME T # {} PROVE FALSE
    OBVIOUS
  <1>2. PICK k \in T : \A y \in T : k <= y
    <2>1. T \in SUBSET Nat
      OBVIOUS
    <2> HIDE DEF T
    <2>2. QED
      BY <1>1, <2>1, LeastNat
  <1>3. k \in 0..n /\ IsFiniteSet(0..(k - 1)) /\ \A x \in 0..(k - 1) : f[x] \in Int
    BY FS_Interval
  <1>4. CASE k = 0
    <2>1. 0..(k - 1) = {}
      BY <1>4
    <2>2. Sum(k) = 0
      BY <1>3, <2>1, SumByPick
    <2>3. QED
      BY <1>2, <1>4, <2>2
  <1>5. CASE k # 0
    <2>1. k - 1 \in 0..(k - 1) /\ (0..(k - 1)) \ {k - 1} = 0..(k - 1 - 1) /\ k - 1 \in 0..n /\ k - 1 \in 0..(n - 1)
      BY <1>3, <1>5
    <2>2. Sum(k) = f[k - 1] + SumFunctionOnSet(f, (0..(k - 1)) \ {k - 1})
      BY <1>3, <2>1, SumRemove
    <2>3. Sum(k) = f[k - 1] + Sum(k - 1)
      BY <2>1, <2>2
    <2>4. Sum(k - 1) \in Int
      <3>1. IsFiniteSet(0..(k - 1 - 1)) /\ \A x \in 0..(k - 1 - 1) : f[x] \in Int
        BY <1>3, <2>1, FS_Interval
      <3>2. QED
        BY <3>1, SumByPick
    <2> HIDE DEF Sum
    <2>5. k - 1 \notin T
      BY <1>2, <1>3
    <2>6. Sum(k - 1) = pre[k - 1]
      BY <2>1, <2>5
    <2>7. pre[k] = pre[k - 1] + f[k - 1] /\ f[k - 1] \in Int
      <3>1. (k - 1) + 1 = k
        BY <1>3
      <3>2. QED
        BY <2>1, <3>1
    <2>8. Sum(k) = pre[k]
      BY <2>3, <2>4, <2>6, <2>7
    <2>9. QED
      BY <1>2, <2>8
  <1>6. QED
    BY <1>4, <1>5

\* Elements counted key by key are the elements that have a key.
LEMMA SumParts ==
  ASSUME NEW S, IsFiniteSet(S), NEW D, IsFiniteSet(D), \A x \in S : x[1] \in D,
         NEW f, f = [d \in D |-> Cardinality({x \in S : x[1] = d})]
  PROVE  SumFunction(f) = Cardinality(S)
  <1> DEFINE Of(E) == {x \in S : x[1] \in E}
             T == {E \in SUBSET D : SumFunctionOnSet(f, E) # Cardinality(Of(E))}
  <1>0. \A A \in SUBSET S : IsFiniteSet(A) /\ Cardinality(A) \in Nat
    BY FS_Subset, FS_CardinalityType
  <1>1. \A d \in D : f[d] \in Int /\ f[d] = Cardinality({x \in S : x[1] = d})
    BY <1>0
  <1>2. T = {}
    <2> SUFFICES ASSUME T # {} PROVE FALSE
      OBVIOUS
    <2>1. PICK E \in T : \A F \in T : F \subseteq E => F = E
      <3>1. T \in SUBSET (SUBSET D)
        OBVIOUS
      <3> HIDE DEF T
      <3>2. QED
        BY <3>1, LeastSet
    <2>2. E \in SUBSET D /\ IsFiniteSet(E) /\ SumFunctionOnSet(f, E) # Cardinality(Of(E))
      BY <2>1, FS_Subset
    <2>3. E # {}
      <3>1. ASSUME E = {} PROVE FALSE
        <4>1. Of(E) = {}
          BY <3>1
        <4>2. SumFunctionOnSet(f, E) = 0
          BY <2>2, <3>1, SumByPick
        <4>3. QED
          BY <2>2, <4>1, <4>2, FS_EmptySet
      <3>2. QED
        BY <3>1
    <2>4. PICK e \in E : TRUE
      BY <2>3
    <2>5. PICK F : F = E \ {e}
      OBVIOUS
    <2>6. SumFunctionOnSet(f, E) = f[e] + SumFunctionOnSet(f, F)
      <3>1. \A x \in E : f[x] \in Int
        BY <1>1, <2>2
      <3>2. QED
        BY <2>2, <2>5, <3>1, SumRemove
    <2>7. SumFunctionOnSet(f, F) = Cardinality(Of(F))
      <3>1. F \in SUBSET D /\ F \subseteq E /\ F # E
        BY <2>2, <2>4, <2>5
      <3>2. F \notin T
        BY <2>1, <3>1
      <3>3. QED
        BY <3>1, <3>2
    <2>8. PICK A, B : A = {x \in S : x[1] = e} /\ B = Of(F)
      OBVIOUS
    <2>9. A \in SUBSET S /\ B \in SUBSET S /\ A \cap B = {} /\ Of(E) = A \cup B
      BY <2>4, <2>5, <2>8
    <2>10. Cardinality(Of(E)) = Cardinality(A) + Cardinality(B)
      <3>1. IsFiniteSet(A) /\ IsFiniteSet(B) /\ Cardinality(A) \in Nat /\ Cardinality(B) \in Nat
        BY <1>0, <2>9
      <3>2. Cardinality(A \cup B) = Cardinality(A) + Cardinality(B) - Cardinality(A \cap B)
        BY <3>1, FS_Union
      <3>3. Cardinality(A \cap B) = 0
        BY <2>9, FS_EmptySet
      <3>4. Cardinality(A \cup B) = Cardinality(A) + Cardinality(B)
        BY <3>1, <3>2, <3>3
      <3>5. QED
        BY <2>9, <3>4
    <2>11. f[e] = Cardinality(A)
      BY <1>1, <2>2, <2>8
    <2>12. QED
      BY <2>2, <2>6, <2>7, <2>8, <2>10, <2>11
  <1>3. SumFunctionOnSet(f, D) = Cardinality(Of(D))
    BY <1>2
  <1>4. Of(D) = S
    OBVIOUS
  <1>5. SumFunction(f) = SumFunctionOnSet(f, D)
    BY DEF SumFunction
  <1>6. QED
    BY <1>3, <1>4, <1>5

-----------------------------------------------------------------------------
(* FoldLeft, with the folded operator given as a function on pairs. *)

FoldFrom(st, base, s) == FoldLeft(LAMBDA v, x : st[<<v, x>>], base, s)

Lefter(g, st, base, s, D) ==
  g = [t \in SUBSET D |-> IF t = {} THEN base ELSE st[<<g[t \ {Max(t)}], s[Max(t)]>>]]

IsInterval(D) == \E n \in Nat : D = 1..n
SameOn(s, r, D) == \A i \in D : s[i] = r[i]

LEMMA MaxIn ==
  ASSUME NEW n \in Nat, NEW t \in SUBSET (1..n), t # {}
  PROVE  Max(t) \in t /\ \A y \in t : Max(t) >= y
  <1> DEFINE T == {n - k : k \in t}
  <1>0. \A k \in t : n - k \in Nat
    OBVIOUS
  <1>1. T \in SUBSET Nat /\ T # {}
    <2>1. T # {}
      OBVIOUS
    <2>2. T \subseteq Nat
      BY <1>0
    <2>3. QED
      BY <2>1, <2>2
  <1>2. PICK x \in T : \A y \in T : x <= y
    <2> HIDE DEF T
    <2>1. QED
      BY <1>1, LeastNat
  <1>3. PICK k \in t : x = n - k
    OBVIOUS
  <1>4. \A y \in t : n - y \in T
    OBVIOUS
  <1> HIDE DEF T
  <1>5. \A y \in t : k >= y
    BY <1>2, <1>3, <1>4
  <1>6. QED
    BY <1>5 DEF Max

LEMMA LeftersAgree ==
  ASSUME NEW D, IsInterval(D), NEW u \in SUBSET D, NEW st, NEW base, NEW s, NEW r,
         SameOn(s, r, u),
         NEW g, NEW h, Lefter(g, st, base, s, D), Lefter(h, st, base, r, u)
  PROVE  \A t \in SUBSET u : g[t] = h[t]
  <1>0. IsFiniteSet(D) /\ \A t \in SUBSET D : t # {} => Max(t) \in t
    <2>1. PICK n \in Nat : D = 1..n
      BY DEF IsInterval
    <2>2. 1 \in Int /\ n \in Int
      OBVIOUS
    <2>3. QED
      BY <2>1, <2>2, FS_Interval, MaxIn
  <1> DEFINE T == {t \in SUBSET u : g[t] # h[t]}
  <1>1. SUFFICES ASSUME T # {} PROVE FALSE
    OBVIOUS
  <1>2. PICK t \in T : \A v \in T : v \subseteq t => v = t
    <2>1. T \in SUBSET (SUBSET D)
      OBVIOUS
    <2> HIDE DEF T
    <2>2. QED
      BY <1>0, <1>1, <2>1, LeastSet
  <1>3. g[t] = IF t = {} THEN base ELSE st[<<g[t \ {Max(t)}], s[Max(t)]>>]
    BY DEF Lefter
  <1>4. h[t] = IF t = {} THEN base ELSE st[<<h[t \ {Max(t)}], r[Max(t)]>>]
    BY DEF Lefter
  <1>5. t # {} /\ t \in SUBSET D
    BY <1>3, <1>4
  <1>6. Max(t) \in t
    BY <1>0, <1>5
  <1>7. t \ {Max(t)} \notin T
    BY <1>2, <1>6
  <1>8. g[t \ {Max(t)}] = h[t \ {Max(t)}]
    BY <1>7
  <1>9. s[Max(t)] = r[Max(t)]
    BY <1>6 DEF SameOn
  <1>10. QED
    BY <1>3, <1>4, <1>8, <1>9

LEMMA LefterExists ==
  ASSUME NEW V, NEW X, NEW base \in V, NEW st, \A v \in V, x \in X : st[<<v, x>>] \in V,
         NEW s \in Seq(X)
  PROVE  \E g \in [SUBSET (1..Len(s)) -> V] : Lefter(g, st, base, s, 1..Len(s))
  <1> DEFINE D == 1..Len(s)
             ch == [t \in SUBSET D |-> Max(t)]
             step == [p \in D \X V |-> st[<<p[2], s[p[1]]>>]]
  <1>0. Len(s) \in Nat /\ Len(s) \in Int /\ 1 \in Int
    OBVIOUS
  <1>1. \A t \in SUBSET D : ch[t] = Max(t) /\ (t # {} => ch[t] \in t)
    <2>1. \A t \in SUBSET D : t # {} => Max(t) \in t
      BY <1>0, MaxIn
    <2>2. \A t \in SUBSET D : ch[t] = Max(t)
      <3> HIDE DEF D
      <3>1. QED
        OBVIOUS
    <2>3. QED
      BY <2>1, <2>2, Zenon
  <1>2. \A i \in D, v \in V : step[<<i, v>>] = st[<<v, s[i]>>]
    OBVIOUS
  <1>3. \A i \in D : s[i] \in X
    OBVIOUS
  <1>4. \A i \in D, v \in V : step[<<i, v>>] \in V
    BY <1>2, <1>3
  <1>5. IsFiniteSet(D)
    BY <1>0, FS_Interval
  <1> HIDE DEF ch, step, D
  <1>6. PICK g : Folder(g, D, base, ch, step)
    BY <1>1, <1>5, FolderExists
  <1>7. \A t \in SUBSET D : g[t] \in V
    BY <1>1, <1>4, <1>5, <1>6, FolderValues
  <1>8. g = [t \in SUBSET D |-> IF t = {} THEN base ELSE step[<<ch[t], g[t \ {ch[t]}]>>]]
    BY <1>6 DEF Folder
  <1>9. \A t \in SUBSET D : t # {} =>
          step[<<ch[t], g[t \ {ch[t]}]>>] = st[<<g[t \ {Max(t)}], s[Max(t)]>>]
    <2>1. SUFFICES ASSUME NEW t \in SUBSET D, t # {}
                   PROVE step[<<ch[t], g[t \ {ch[t]}]>>] = st[<<g[t \ {Max(t)}], s[Max(t)]>>]
      OBVIOUS
    <2>2. ch[t] = Max(t) /\ ch[t] \in D /\ g[t \ {ch[t]}] \in V
      BY <1>1, <1>7, <2>1
    <2>3. QED
      BY <1>2, <2>2
  <1>10. g = [t \in SUBSET D |-> IF t = {} THEN base ELSE st[<<g[t \ {Max(t)}], s[Max(t)]>>]]
    BY <1>8, <1>9
  <1>11. g \in [SUBSET D -> V]
    BY <1>7, <1>8
  <1>12. QED
    BY <1>10, <1>11 DEF Lefter, D

LEMMA FoldIsLefter ==
  ASSUME NEW X, NEW s \in Seq(X), NEW st, NEW base, NEW g, Lefter(g, st, base, s, 1..Len(s))
  PROVE  FoldFrom(st, base, s) = g[1..Len(s)]
  <1> DEFINE D == 1..Len(s)
             h == CHOOSE h : Lefter(h, st, base, s, D)
  <1>1. Lefter(h, st, base, s, D)
    OBVIOUS
  <1>2. D = DOMAIN s
    OBVIOUS
  <1> HIDE DEF D
  <1>3. FoldFrom(st, base, s) = h[D]
    BY <1>2 DEF Lefter, FoldFrom, FoldLeft, MapThenFoldSet
  <1> HIDE DEF h
  <1>4. \A t \in SUBSET D : g[t] = h[t]
    <2>1. SameOn(s, s, D) /\ D \in SUBSET D
      BY DEF SameOn
    <2>2. IsInterval(D)
      BY DEF D, IsInterval
    <2>3. QED
      <3>1. Lefter(g, st, base, s, D)
        BY DEF D
      <3>2. QED
        BY <1>1, <2>1, <2>2, <3>1, LeftersAgree
  <1>5. QED
    BY <1>3, <1>4 DEF D

\* What a fold returns, and how it goes on.
LEMMA FoldType ==
  ASSUME NEW V, NEW X, NEW base \in V, NEW st, \A v \in V, x \in X : st[<<v, x>>] \in V,
         NEW s \in Seq(X)
  PROVE  FoldFrom(st, base, s) \in V /\ FoldFrom(st, base, <<>>) = base
  <1>1. PICK g \in [SUBSET (1..Len(s)) -> V] : Lefter(g, st, base, s, 1..Len(s))
    BY LefterExists
  <1>2. FoldFrom(st, base, s) \in V
    BY <1>1, FoldIsLefter
  <1>3. <<>> \in Seq(X) /\ Len(<<>>) = 0
    OBVIOUS
  <1>4. PICK h \in [SUBSET (1..0) -> V] : Lefter(h, st, base, <<>>, 1..0)
    <2>1. \E h \in [SUBSET (1..Len(<<>>)) -> V] : Lefter(h, st, base, <<>>, 1..Len(<<>>))
      BY <1>3, LefterExists
    <2>2. QED
      BY <1>3, <2>1
  <1>5. h[1..0] = base
    BY <1>4 DEF Lefter
  <1>6. FoldFrom(st, base, <<>>) = h[1..0]
    BY <1>3, <1>4, FoldIsLefter
  <1>7. QED
    BY <1>2, <1>5, <1>6

LEMMA FoldAppend ==
  ASSUME NEW V, NEW X, NEW base \in V, NEW st, \A v \in V, x \in X : st[<<v, x>>] \in V,
         NEW s \in Seq(X), NEW e \in X
  PROVE  FoldFrom(st, base, Append(s, e)) = st[<<FoldFrom(st, base, s), e>>]
  <1> DEFINE n == Len(s)
             r == Append(s, e)
  <1>1. r \in Seq(X) /\ Len(r) = n + 1 /\ r[n + 1] = e /\ (\A i \in 1..n : r[i] = s[i]) /\ n \in Nat
    OBVIOUS
  <1> HIDE DEF r, n
  <1>2. PICK g : Lefter(g, st, base, r, 1..(n + 1))
    <2>1. \E g \in [SUBSET (1..Len(r)) -> V] : Lefter(g, st, base, r, 1..Len(r))
      BY <1>1, LefterExists
    <2>2. QED
      BY <1>1, <2>1
  <1>3. PICK h : Lefter(h, st, base, s, 1..n)
    <2>1. \E h \in [SUBSET (1..Len(s)) -> V] : Lefter(h, st, base, s, 1..Len(s))
      BY LefterExists
    <2>2. QED
      BY <2>1 DEF n
  <1>4. FoldFrom(st, base, r) = g[1..(n + 1)] /\ FoldFrom(st, base, s) = h[1..n]
    <2>1. FoldFrom(st, base, r) = g[1..(n + 1)]
      BY <1>1, <1>2, FoldIsLefter
    <2>2. FoldFrom(st, base, s) = h[1..n]
      BY <1>3, FoldIsLefter DEF n
    <2>3. QED
      BY <2>1, <2>2
  <1>5. g[1..n] = h[1..n]
    <2>1. 1..n \in SUBSET (1..(n + 1)) /\ n + 1 \in Nat
      BY <1>1
    <2>2. \A t \in SUBSET (1..n) : g[t] = h[t]
      <3> DEFINE D == 1..(n + 1)
                 u == 1..n
      <3>1. IsInterval(D) /\ u \in SUBSET D /\ Lefter(g, st, base, r, D)
            /\ Lefter(h, st, base, s, u) /\ SameOn(r, s, u)
        BY <1>1, <1>2, <1>3, <2>1 DEF SameOn, IsInterval
      <3> HIDE DEF D, u
      <3>2. \A t \in SUBSET u : g[t] = h[t]
        BY <3>1, LeftersAgree
      <3>3. QED
        BY <3>2 DEF u
    <2>3. QED
      BY <2>2
  <1>6. g[1..(n + 1)] = st[<<g[1..n], e>>]
    <2>0. n + 1 \in 1..(n + 1) /\ n + 1 \in Nat
      BY <1>1
    <2>1. 1..(n + 1) # {} /\ 1..(n + 1) \in SUBSET (1..(n + 1))
      BY <2>0, Zenon
    <2>2. Max(1..(n + 1)) = n + 1
      <3>1. Max(1..(n + 1)) \in 1..(n + 1) /\ Max(1..(n + 1)) >= n + 1
        BY <2>0, <2>1, MaxIn
      <3>2. QED
        BY <1>1, <3>1
    <2>3. (1..(n + 1)) \ {n + 1} = 1..n
      BY <1>1
    <2>4. g[1..(n + 1)] = st[<<g[(1..(n + 1)) \ {Max(1..(n + 1))}], r[Max(1..(n + 1))]>>]
      BY <1>2, <2>1 DEF Lefter
    <2>5. QED
      BY <1>1, <2>2, <2>3, <2>4
  <1>7. QED
    BY <1>4, <1>5, <1>6 DEF r

-----------------------------------------------------------------------------
(* The array filter (x => x !== e), written as a fold. *)

Without(s, e) == FoldLeft(LAMBDA kept, x : IF x = e THEN kept ELSE Append(kept, x), <<>>, s)

Values(s) == {s[k] : k \in DOMAIN s}
Distinct(s) == \A j, k \in DOMAIN s : s[j] = s[k] => j = k

DropStep(X, e) == [p \in Seq(X) \X X |-> IF p[2] = e THEN p[1] ELSE Append(p[1], p[2])]

Filterer(g, e, s, D) ==
  g = [t \in SUBSET D |-> IF t = {} THEN <<>>
                          ELSE IF s[Max(t)] = e THEN g[t \ {Max(t)}]
                               ELSE Append(g[t \ {Max(t)}], s[Max(t)])]

LEMMA WithoutIsFold ==
  ASSUME NEW X, NEW s \in Seq(X), NEW e
  PROVE  Without(s, e) = FoldFrom(DropStep(X, e), <<>>, s)
  <1> DEFINE st == DropStep(X, e)
             D == 1..Len(s)
             h == CHOOSE h : Filterer(h, e, s, D)
  <1>1. \A v \in Seq(X), x \in X : st[<<v, x>>] = IF x = e THEN v ELSE Append(v, x)
    BY DEF DropStep
  <1>2. \A v \in Seq(X), x \in X : st[<<v, x>>] \in Seq(X)
    BY DEF DropStep
  <1> HIDE DEF st
  <1>3. PICK g : g \in [SUBSET D -> Seq(X)] /\ Lefter(g, st, <<>>, s, D)
    <2>1. <<>> \in Seq(X)
      OBVIOUS
    <2>2. \E g \in [SUBSET (1..Len(s)) -> Seq(X)] : Lefter(g, st, <<>>, s, 1..Len(s))
      BY <1>2, <2>1, LefterExists
    <2>3. QED
      BY <2>2
  <1>4. IsInterval(D) /\ D = DOMAIN s /\ (\A i \in D : s[i] \in X)
        /\ (\A t \in SUBSET D : t # {} => Max(t) \in t)
    <2>1. Len(s) \in Nat /\ D = DOMAIN s /\ \A i \in D : s[i] \in X
      OBVIOUS
    <2>2. IsInterval(D)
      BY <2>1 DEF IsInterval
    <2>3. \A t \in SUBSET D : t # {} => Max(t) \in t
      BY <2>1, MaxIn
    <2>4. QED
      BY <2>1, <2>2, <2>3
  <1> HIDE DEF D
  <1>5. \A t \in SUBSET D : g[t] = IF t = {} THEN <<>> ELSE st[<<g[t \ {Max(t)}], s[Max(t)]>>]
    BY <1>3 DEF Lefter
  <1>6. \A t \in SUBSET D : t # {} => st[<<g[t \ {Max(t)}], s[Max(t)]>>]
                             = IF s[Max(t)] = e THEN g[t \ {Max(t)}]
                               ELSE Append(g[t \ {Max(t)}], s[Max(t)])
    <2>1. \A t \in SUBSET D : t \ {Max(t)} \in SUBSET D
      OBVIOUS
    <2>2. \A t \in SUBSET D : t # {} => g[t \ {Max(t)}] \in Seq(X) /\ s[Max(t)] \in X
      BY <1>3, <1>4, <2>1
    <2>3. QED
      BY <1>1, <2>2
  <1>7. Filterer(g, e, s, D)
    <2>1. g = [t \in SUBSET D |-> g[t]]
      BY <1>3
    <2>2. QED
      BY <1>5, <1>6, <2>1 DEF Filterer
  <1>8. Filterer(h, e, s, D)
    BY <1>7
  <1>9. Without(s, e) = h[D]
    BY <1>4 DEF Filterer, Without, FoldLeft, MapThenFoldSet
  <1> HIDE DEF h
  <1> DEFINE V == {g[t] : t \in SUBSET D} \cup {h[t] : t \in SUBSET D}
             all == [p \in V \X X |-> IF p[2] = e THEN p[1] ELSE Append(p[1], p[2])]
  <1>10. \A v \in V, x \in X : all[<<v, x>>] = IF x = e THEN v ELSE Append(v, x)
    OBVIOUS
  <1>11. \A t \in SUBSET D : g[t] \in V /\ h[t] \in V
    OBVIOUS
  <1> HIDE DEF V, all
  <1>12. ASSUME NEW f, Filterer(f, e, s, D), \A t \in SUBSET D : f[t] \in V
         PROVE  Lefter(f, all, <<>>, s, D)
    <2>1. f = [t \in SUBSET D |-> IF t = {} THEN <<>>
                          ELSE IF s[Max(t)] = e THEN f[t \ {Max(t)}]
                               ELSE Append(f[t \ {Max(t)}], s[Max(t)])]
      BY <1>12 DEF Filterer
    <2>2. \A t \in SUBSET D : t # {} => all[<<f[t \ {Max(t)}], s[Max(t)]>>]
                             = IF s[Max(t)] = e THEN f[t \ {Max(t)}]
                               ELSE Append(f[t \ {Max(t)}], s[Max(t)])
      <3>1. \A t \in SUBSET D : t \ {Max(t)} \in SUBSET D
        OBVIOUS
      <3>2. \A t \in SUBSET D : t # {} => f[t \ {Max(t)}] \in V /\ s[Max(t)] \in X
        BY <1>4, <1>12, <3>1
      <3>3. QED
        BY <1>10, <3>2
    <2>3. QED
      BY <2>1, <2>2 DEF Lefter
  <1>13. Lefter(g, all, <<>>, s, D) /\ Lefter(h, all, <<>>, s, D)
    BY <1>7, <1>8, <1>11, <1>12
  <1>14. g[D] = h[D]
    <2>1. SameOn(s, s, D) /\ D \in SUBSET D
      BY DEF SameOn
    <2>2. \A t \in SUBSET D : g[t] = h[t]
      BY <1>4, <1>13, <2>1, LeftersAgree
    <2>3. QED
      BY <2>2
  <1>15. FoldFrom(st, <<>>, s) = g[D]
    BY <1>3, FoldIsLefter DEF D
  <1>16. QED
    BY <1>9, <1>14, <1>15 DEF st

\* The filter of the empty sequence, and what a filter returns.
LEMMA WithoutNil ==
  ASSUME NEW X, NEW e
  PROVE  Without(<<>>, e) = <<>> /\ \A s \in Seq(X) : Without(s, e) \in Seq(X)
  <1> DEFINE st == DropStep(X, e)
             V == Seq(X)
             nil == <<>>
  <1>1. \A v \in Seq(X), x \in X : st[<<v, x>>] = IF x = e THEN v ELSE Append(v, x)
    BY DEF DropStep
  <1>2. \A v \in Seq(X), x \in X : st[<<v, x>>] \in Seq(X)
    BY DEF DropStep
  <1>3. \A s \in Seq(X) : Without(s, e) = FoldFrom(st, <<>>, s)
    BY WithoutIsFold
  <1>4. nil \in V /\ \A v \in V, x \in X : st[<<v, x>>] \in V
    BY <1>2
  <1> HIDE DEF st, V, nil
  <1>5. \A s \in Seq(X) : FoldFrom(st, nil, s) \in V
    BY <1>4, FoldType
  <1>6. FoldFrom(st, nil, <<>>) = nil
    <2>1. <<>> \in Seq(X)
      OBVIOUS
    <2>2. QED
      BY <1>4, <2>1, FoldType
  <1>7. Without(<<>>, e) = <<>>
    <2>1. <<>> \in Seq(X)
      OBVIOUS
    <2>2. QED
      BY <1>3, <1>6, <2>1 DEF nil
  <1>8. \A s \in Seq(X) : Without(s, e) \in Seq(X)
    BY <1>3, <1>5 DEF nil, V
  <1>9. QED
    BY <1>7, <1>8

\* The filter, element by element.
LEMMA WithoutAppend ==
  ASSUME NEW X, NEW e, NEW r \in Seq(X), NEW a \in X
  PROVE  Without(Append(r, a), e) = IF a = e THEN Without(r, e) ELSE Append(Without(r, e), a)
  <1> DEFINE st == DropStep(X, e)
             V == Seq(X)
             nil == <<>>
  <1>1. \A v \in Seq(X), x \in X : st[<<v, x>>] = IF x = e THEN v ELSE Append(v, x)
    BY DEF DropStep
  <1>2. \A v \in Seq(X), x \in X : st[<<v, x>>] \in Seq(X)
    BY DEF DropStep
  <1>3. \A s \in Seq(X) : Without(s, e) = FoldFrom(st, <<>>, s)
    BY WithoutIsFold
  <1>4. nil \in V /\ \A v \in V, x \in X : st[<<v, x>>] \in V
    BY <1>2
  <1> HIDE DEF st, V, nil
  <1>5. \A s \in Seq(X) : FoldFrom(st, nil, s) \in V
    BY <1>4, FoldType
  <1>6. ASSUME NEW s \in Seq(X), NEW x \in X
        PROVE Without(Append(s, x), e) = IF x = e THEN Without(s, e) ELSE Append(Without(s, e), x)
    <2>1. Append(s, x) \in Seq(X)
      OBVIOUS
    <2>2. FoldFrom(st, nil, Append(s, x)) = st[<<FoldFrom(st, nil, s), x>>]
      BY <1>4, FoldAppend
    <2>3. FoldFrom(st, nil, s) \in V
      BY <1>5
    <2>4. Without(Append(s, x), e) = st[<<Without(s, e), x>>]
      BY <1>3, <2>1, <2>2 DEF nil
    <2>5. Without(s, e) \in Seq(X)
      BY <1>3, <2>3 DEF nil, V
    <2>6. QED
      BY <1>1, <2>4, <2>5
  <1>7. QED
    BY <1>6

\* A sequence that is not empty ends in its last element.
LEMMA SplitLast ==
  ASSUME NEW X, NEW s \in Seq(X), s # <<>>
  PROVE  \E r \in Seq(X), x \in X : s = Append(r, x) /\ Len(s) = Len(r) + 1
  <1> DEFINE r == SubSeq(s, 1, Len(s) - 1)
  <1>1. Len(s) \in Nat /\ Len(s) > 0
    OBVIOUS
  <1>2. r \in Seq(X) /\ Len(r) = Len(s) - 1 /\ s[Len(s)] \in X
    BY <1>1
  <1>3. s = Append(r, s[Len(s)])
    BY <1>1, <1>2
  <1> HIDE DEF r
  <1>4. Len(s) = Len(r) + 1
    BY <1>1, <1>2
  <1>5. QED
    BY <1>2, <1>3, <1>4

LEMMA AppendValues ==
  ASSUME NEW X, NEW s \in Seq(X), NEW x \in X
  PROVE  /\ Values(Append(s, x)) = Values(s) \cup {x}
         /\ Distinct(Append(s, x)) <=> Distinct(s) /\ x \notin Values(s)
  <1> DEFINE r == Append(s, x)
             n == Len(s)
  <1>1. n \in Nat /\ DOMAIN s = 1..n /\ DOMAIN r = 1..(n + 1) /\ r[n + 1] = x
        /\ \A k \in 1..n : r[k] = s[k]
    OBVIOUS
  <1> HIDE DEF r, n
  <1>2. 1..(n + 1) = (1..n) \cup {n + 1} /\ n + 1 \notin 1..n
    BY <1>1
  <1>3. Values(r) = Values(s) \cup {x}
    BY <1>1, <1>2 DEF Values
  <1>4. Distinct(r) <=> Distinct(s) /\ x \notin Values(s)
    BY <1>1, <1>2 DEF Values, Distinct
  <1>5. QED
    BY <1>3, <1>4 DEF r

\* What the filter leaves: the other values, each as often as before.
LEMMA WithoutValues ==
  ASSUME NEW X, NEW s \in Seq(X), NEW e
  PROVE  /\ Without(s, e) \in Seq(X)
         /\ Values(Without(s, e)) = Values(s) \ {e}
         /\ Distinct(s) => /\ Distinct(Without(s, e))
                           /\ Len(Without(s, e)) = IF e \in Values(s) THEN Len(s) - 1 ELSE Len(s)
  <1> DEFINE P(q) == /\ Values(Without(q, e)) = Values(q) \ {e}
                     /\ Distinct(q) => /\ Distinct(Without(q, e))
                                       /\ Len(Without(q, e)) = IF e \in Values(q) THEN Len(q) - 1 ELSE Len(q)
             T == {n \in Nat : \E q \in Seq(X) : Len(q) = n /\ ~P(q)}
  <1>0. \A q \in Seq(X), x \in X :
          Without(Append(q, x), e) = IF x = e THEN Without(q, e) ELSE Append(Without(q, e), x)
    BY WithoutAppend
  <1>1. \A q \in Seq(X) : Without(q, e) \in Seq(X)
    BY WithoutNil
  <1>2. T = {}
    <2>1. SUFFICES ASSUME T # {} PROVE FALSE
      OBVIOUS
    <2>2. PICK n \in T : \A y \in T : n <= y
      <3>1. T \in SUBSET Nat
        OBVIOUS
      <3> HIDE DEF T
      <3>2. QED
        BY <2>1, <3>1, LeastNat
    <2>3. PICK q \in Seq(X) : Len(q) = n /\ ~P(q)
      OBVIOUS
    <2>4. CASE q = <<>>
      <3>1. Without(q, e) = <<>> /\ Values(q) = {} /\ Len(q) = 0
        BY <2>4, WithoutNil DEF Values
      <3>2. P(q)
        BY <2>4, <3>1
      <3>3. QED
        BY <2>3, <3>2
    <2>5. CASE q # <<>>
      <3>1. PICK r \in Seq(X), x \in X : q = Append(r, x) /\ Len(q) = Len(r) + 1
        BY <2>5, SplitLast
      <3>2. P(r)
        <4>1. Len(r) \in Nat /\ Len(r) < n
          BY <2>3, <3>1
        <4>2. Len(r) \notin T
          BY <2>2, <4>1
        <4> HIDE DEF P
        <4>3. QED
          BY <4>1, <4>2
      <3> DEFINE w == Without(r, e)
      <3>3. w \in Seq(X)
        BY <1>1
      <3>4. Without(q, e) = IF x = e THEN w ELSE Append(w, x)
        <4>1. Without(Append(r, x), e) = IF x = e THEN Without(r, e) ELSE Append(Without(r, e), x)
          BY <1>0
        <4>2. QED
          BY <3>1, <4>1
      <3>5. Values(q) = Values(r) \cup {x}
        BY <3>1, AppendValues
      <3> HIDE DEF w
      <3>6. Values(Append(w, x)) = Values(w) \cup {x}
        BY <3>3, AppendValues
      <3>7. Distinct(q) => Distinct(r) /\ x \notin Values(r)
        BY <3>1, AppendValues
      <3>8. Distinct(w) /\ x \notin Values(w) => Distinct(Append(w, x))
        BY <3>3, AppendValues
      <3>9. Values(w) = Values(r) \ {e}
            /\ (Distinct(r) => Distinct(w) /\ Len(w) = IF e \in Values(r) THEN Len(r) - 1 ELSE Len(r))
        BY <3>2 DEF w
      <3>10. Len(Append(w, x)) = Len(w) + 1 /\ Len(w) \in Nat /\ Len(r) \in Nat
        BY <3>3
      <3>11. P(q)
        <4>1. CASE x = e
          <5>1. Without(q, e) = w
            BY <3>4, <4>1
          <5>2. QED
            BY <3>1, <3>5, <3>7, <3>9, <3>10, <4>1, <5>1
        <4>2. CASE x # e
          <5>1. Without(q, e) = Append(w, x)
            BY <3>4, <4>2
          <5>2. Values(Append(w, x)) = Values(q) \ {e}
            BY <3>5, <3>6, <3>9, <4>2
          <5>3. ASSUME Distinct(q) PROVE Distinct(Append(w, x)) /\ Len(Append(w, x)) = IF e \in Values(q) THEN Len(q) - 1 ELSE Len(q)
            BY <3>1, <3>5, <3>7, <3>8, <3>9, <3>10, <4>2, <5>3
          <5>4. QED
            BY <5>1, <5>2, <5>3
        <4>3. QED
          BY <4>1, <4>2
      <3>12. QED
        BY <2>3, <3>11
    <2>6. QED
      BY <2>4, <2>5
  <1>3. P(s)
    <2> HIDE DEF P
    <2>1. Len(s) \notin T /\ Len(s) \in Nat
      BY <1>2
    <2>2. QED
      BY <2>1
  <1>4. QED
    BY <1>1, <1>3

\* Taking the first element off a sequence without repetitions.
LEMMA TailValues ==
  ASSUME NEW X, NEW s \in Seq(X), s # <<>>, Distinct(s)
  PROVE  /\ Tail(s) \in Seq(X) /\ Head(s) \in X /\ Head(s) \in Values(s)
         /\ Distinct(Tail(s)) /\ Values(Tail(s)) = Values(s) \ {Head(s)}
         /\ Len(Tail(s)) = Len(s) - 1
  <1> DEFINE r == Tail(s)
             n == Len(s)
  <1>1. /\ r \in Seq(X) /\ Head(s) \in X /\ Head(s) = s[1] /\ n \in Nat /\ n >= 1 /\ Len(r) = n - 1
        /\ DOMAIN s = 1..n /\ DOMAIN r = 1..(n - 1) /\ \A k \in 1..(n - 1) : r[k] = s[k + 1]
    OBVIOUS
  <1>0. \A j, k \in 1..n : s[j] = s[k] => j = k
    BY <1>1 DEF Distinct
  <1> HIDE DEF r, n
  <1>2. Head(s) \in Values(s)
    BY <1>1 DEF Values
  <1>3. Distinct(r)
    <2> SUFFICES ASSUME NEW j \in 1..(n - 1), NEW k \in 1..(n - 1), r[j] = r[k] PROVE j = k
      BY <1>1 DEF Distinct
    <2>1. s[j + 1] = s[k + 1] /\ j + 1 \in 1..n /\ k + 1 \in 1..n
      BY <1>1
    <2>2. j + 1 = k + 1
      BY <1>0, <2>1
    <2>3. QED
      BY <2>2
  <1>4. Values(r) \subseteq Values(s) \ {Head(s)}
    <2> SUFFICES ASSUME NEW k \in 1..(n - 1) PROVE r[k] \in Values(s) /\ r[k] # s[1]
      BY <1>1 DEF Values
    <2>1. r[k] = s[k + 1] /\ k + 1 \in 1..n /\ 1 \in 1..n /\ k + 1 # 1
      BY <1>1
    <2>2. QED
      BY <1>0, <1>1, <2>1 DEF Values
  <1>5. Values(s) \ {Head(s)} \subseteq Values(r)
    <2> SUFFICES ASSUME NEW k \in 1..n, s[k] # s[1] PROVE s[k] \in Values(r)
      BY <1>1 DEF Values
    <2>1. k - 1 \in 1..(n - 1) /\ k - 1 + 1 = k
      BY <1>1
    <2>2. r[k - 1] = s[k]
      BY <1>1, <2>1
    <2>3. QED
      BY <1>1, <2>1, <2>2 DEF Values
  <1>6. QED
    BY <1>1, <1>2, <1>3, <1>4, <1>5 DEF r, n

-----------------------------------------------------------------------------
(* The array filter (x => S.has(x)), written as a fold. *)

Keep(s, S) == FoldLeft(LAMBDA kept, x : IF x \in S THEN Append(kept, x) ELSE kept, <<>>, s)

KeepStep(X, S) == [p \in Seq(X) \X X |-> IF p[2] \in S THEN Append(p[1], p[2]) ELSE p[1]]

Keeper(g, S, s, D) ==
  g = [t \in SUBSET D |-> IF t = {} THEN <<>>
                          ELSE IF s[Max(t)] \in S THEN Append(g[t \ {Max(t)}], s[Max(t)])
                               ELSE g[t \ {Max(t)}]]

LEMMA KeepIsFold ==
  ASSUME NEW X, NEW s \in Seq(X), NEW S
  PROVE  Keep(s, S) = FoldFrom(KeepStep(X, S), <<>>, s)
  <1> DEFINE st == KeepStep(X, S)
             D == 1..Len(s)
             h == CHOOSE h : Keeper(h, S, s, D)
  <1>1. \A v \in Seq(X), x \in X : st[<<v, x>>] = IF x \in S THEN Append(v, x) ELSE v
    BY DEF KeepStep
  <1>2. \A v \in Seq(X), x \in X : st[<<v, x>>] \in Seq(X)
    BY DEF KeepStep
  <1> HIDE DEF st
  <1>3. PICK g : g \in [SUBSET D -> Seq(X)] /\ Lefter(g, st, <<>>, s, D)
    <2>1. <<>> \in Seq(X)
      OBVIOUS
    <2>2. \E g \in [SUBSET (1..Len(s)) -> Seq(X)] : Lefter(g, st, <<>>, s, 1..Len(s))
      BY <1>2, <2>1, LefterExists
    <2>3. QED
      BY <2>2
  <1>4. IsInterval(D) /\ D = DOMAIN s /\ (\A i \in D : s[i] \in X)
        /\ (\A t \in SUBSET D : t # {} => Max(t) \in t)
    <2>1. Len(s) \in Nat /\ D = DOMAIN s /\ \A i \in D : s[i] \in X
      OBVIOUS
    <2>2. IsInterval(D)
      BY <2>1 DEF IsInterval
    <2>3. \A t \in SUBSET D : t # {} => Max(t) \in t
      BY <2>1, MaxIn
    <2>4. QED
      BY <2>1, <2>2, <2>3
  <1> HIDE DEF D
  <1>5. \A t \in SUBSET D : g[t] = IF t = {} THEN <<>> ELSE st[<<g[t \ {Max(t)}], s[Max(t)]>>]
    BY <1>3 DEF Lefter
  <1>6. \A t \in SUBSET D : t # {} => st[<<g[t \ {Max(t)}], s[Max(t)]>>]
                             = IF s[Max(t)] \in S THEN Append(g[t \ {Max(t)}], s[Max(t)])
                               ELSE g[t \ {Max(t)}]
    <2>1. \A t \in SUBSET D : t \ {Max(t)} \in SUBSET D
      OBVIOUS
    <2>2. \A t \in SUBSET D : t # {} => g[t \ {Max(t)}] \in Seq(X) /\ s[Max(t)] \in X
      BY <1>3, <1>4, <2>1
    <2>3. QED
      BY <1>1, <2>2
  <1>7. Keeper(g, S, s, D)
    <2>1. g = [t \in SUBSET D |-> g[t]]
      BY <1>3
    <2>2. QED
      BY <1>5, <1>6, <2>1 DEF Keeper
  <1>8. Keeper(h, S, s, D)
    BY <1>7
  <1>9. Keep(s, S) = h[D]
    BY <1>4 DEF Keeper, Keep, FoldLeft, MapThenFoldSet
  <1> HIDE DEF h
  <1> DEFINE V == {g[t] : t \in SUBSET D} \cup {h[t] : t \in SUBSET D}
             all == [p \in V \X X |-> IF p[2] \in S THEN Append(p[1], p[2]) ELSE p[1]]
  <1>10. \A v \in V, x \in X : all[<<v, x>>] = IF x \in S THEN Append(v, x) ELSE v
    OBVIOUS
  <1>11. \A t \in SUBSET D : g[t] \in V /\ h[t] \in V
    OBVIOUS
  <1> HIDE DEF V, all
  <1>12. ASSUME NEW f, Keeper(f, S, s, D), \A t \in SUBSET D : f[t] \in V
         PROVE  Lefter(f, all, <<>>, s, D)
    <2>1. f = [t \in SUBSET D |-> IF t = {} THEN <<>>
                          ELSE IF s[Max(t)] \in S THEN Append(f[t \ {Max(t)}], s[Max(t)])
                               ELSE f[t \ {Max(t)}]]
      BY <1>12 DEF Keeper
    <2>2. \A t \in SUBSET D : t # {} => all[<<f[t \ {Max(t)}], s[Max(t)]>>]
                             = IF s[Max(t)] \in S THEN Append(f[t \ {Max(t)}], s[Max(t)])
                               ELSE f[t \ {Max(t)}]
      <3>1. \A t \in SUBSET D : t \ {Max(t)} \in SUBSET D
        OBVIOUS
      <3>2. \A t \in SUBSET D : t # {} => f[t \ {Max(t)}] \in V /\ s[Max(t)] \in X
        BY <1>4, <1>12, <3>1
      <3>3. QED
        BY <1>10, <3>2
    <2>3. QED
      BY <2>1, <2>2 DEF Lefter
  <1>13. Lefter(g, all, <<>>, s, D) /\ Lefter(h, all, <<>>, s, D)
    BY <1>7, <1>8, <1>11, <1>12
  <1>14. g[D] = h[D]
    <2>1. SameOn(s, s, D) /\ D \in SUBSET D
      BY DEF SameOn
    <2>2. \A t \in SUBSET D : g[t] = h[t]
      BY <1>4, <1>13, <2>1, LeftersAgree
    <2>3. QED
      BY <2>2
  <1>15. FoldFrom(st, <<>>, s) = g[D]
    BY <1>3, FoldIsLefter DEF D
  <1>16. QED
    BY <1>9, <1>14, <1>15 DEF st

\* The filter of the empty sequence, and what a filter returns.
LEMMA KeepNil ==
  ASSUME NEW X, NEW S
  PROVE  Keep(<<>>, S) = <<>> /\ \A s \in Seq(X) : Keep(s, S) \in Seq(X)
  <1> DEFINE st == KeepStep(X, S)
             V == Seq(X)
             nil == <<>>
  <1>1. \A v \in Seq(X), x \in X : st[<<v, x>>] = IF x \in S THEN Append(v, x) ELSE v
    BY DEF KeepStep
  <1>2. \A v \in Seq(X), x \in X : st[<<v, x>>] \in Seq(X)
    BY DEF KeepStep
  <1>3. \A s \in Seq(X) : Keep(s, S) = FoldFrom(st, <<>>, s)
    BY KeepIsFold
  <1>4. nil \in V /\ \A v \in V, x \in X : st[<<v, x>>] \in V
    BY <1>2
  <1> HIDE DEF st, V, nil
  <1>5. \A s \in Seq(X) : FoldFrom(st, nil, s) \in V
    BY <1>4, FoldType
  <1>6. FoldFrom(st, nil, <<>>) = nil
    <2>1. <<>> \in Seq(X)
      OBVIOUS
    <2>2. QED
      BY <1>4, <2>1, FoldType
  <1>7. Keep(<<>>, S) = <<>>
    <2>1. <<>> \in Seq(X)
      OBVIOUS
    <2>2. QED
      BY <1>3, <1>6, <2>1 DEF nil
  <1>8. \A s \in Seq(X) : Keep(s, S) \in Seq(X)
    BY <1>3, <1>5 DEF nil, V
  <1>9. QED
    BY <1>7, <1>8

\* The filter, element by element.
LEMMA KeepAppend ==
  ASSUME NEW X, NEW S, NEW r \in Seq(X), NEW a \in X
  PROVE  Keep(Append(r, a), S) = IF a \in S THEN Append(Keep(r, S), a) ELSE Keep(r, S)
  <1> DEFINE st == KeepStep(X, S)
             V == Seq(X)
             nil == <<>>
  <1>1. \A v \in Seq(X), x \in X : st[<<v, x>>] = IF x \in S THEN Append(v, x) ELSE v
    BY DEF KeepStep
  <1>2. \A v \in Seq(X), x \in X : st[<<v, x>>] \in Seq(X)
    BY DEF KeepStep
  <1>3. \A s \in Seq(X) : Keep(s, S) = FoldFrom(st, <<>>, s)
    BY KeepIsFold
  <1>4. nil \in V /\ \A v \in V, x \in X : st[<<v, x>>] \in V
    BY <1>2
  <1> HIDE DEF st, V, nil
  <1>5. \A s \in Seq(X) : FoldFrom(st, nil, s) \in V
    BY <1>4, FoldType
  <1>6. ASSUME NEW s \in Seq(X), NEW x \in X
        PROVE Keep(Append(s, x), S) = IF x \in S THEN Append(Keep(s, S), x) ELSE Keep(s, S)
    <2>1. Append(s, x) \in Seq(X)
      OBVIOUS
    <2>2. FoldFrom(st, nil, Append(s, x)) = st[<<FoldFrom(st, nil, s), x>>]
      BY <1>4, FoldAppend
    <2>3. FoldFrom(st, nil, s) \in V
      BY <1>5
    <2>4. Keep(Append(s, x), S) = st[<<Keep(s, S), x>>]
      BY <1>3, <2>1, <2>2 DEF nil
    <2>5. Keep(s, S) \in Seq(X)
      BY <1>3, <2>3 DEF nil, V
    <2>6. QED
      BY <1>1, <2>4, <2>5
  <1>7. QED
    BY <1>6

\* What the filter leaves: values of the set, and everything when all are in it.
LEMMA KeepValues ==
  ASSUME NEW X, NEW s \in Seq(X), NEW S
  PROVE  /\ Keep(s, S) \in Seq(X)
         /\ Len(Keep(s, S)) <= Len(s)
         /\ Values(s) \subseteq S => Len(Keep(s, S)) = Len(s)
  <1> DEFINE P(q) == Len(Keep(q, S)) <= Len(q) /\ (Values(q) \subseteq S => Len(Keep(q, S)) = Len(q))
             T == {n \in Nat : \E q \in Seq(X) : Len(q) = n /\ ~P(q)}
  <1>0. \A q \in Seq(X), x \in X : Keep(Append(q, x), S) = IF x \in S THEN Append(Keep(q, S), x) ELSE Keep(q, S)
    BY KeepAppend
  <1>1. \A q \in Seq(X) : Keep(q, S) \in Seq(X)
    BY KeepNil
  <1>2. T = {}
    <2>1. SUFFICES ASSUME T # {} PROVE FALSE
      OBVIOUS
    <2>2. PICK n \in T : \A y \in T : n <= y
      <3>1. T \in SUBSET Nat
        OBVIOUS
      <3> HIDE DEF T
      <3>2. QED
        BY <2>1, <3>1, LeastNat
    <2>3. PICK q \in Seq(X) : Len(q) = n /\ ~P(q)
      OBVIOUS
    <2>4. CASE q = <<>>
      <3>1. Keep(q, S) = <<>> /\ Len(q) = 0
        BY <2>4, KeepNil
      <3>2. P(q)
        BY <2>4, <3>1
      <3>3. QED
        BY <2>3, <3>2
    <2>5. CASE q # <<>>
      <3>1. PICK r \in Seq(X), x \in X : q = Append(r, x) /\ Len(q) = Len(r) + 1
        BY <2>5, SplitLast
      <3>2. P(r)
        <4>1. Len(r) \in Nat /\ Len(r) < n
          BY <2>3, <3>1
        <4>2. Len(r) \notin T
          BY <2>2, <4>1
        <4> HIDE DEF P
        <4>3. QED
          BY <4>1, <4>2
      <3> DEFINE w == Keep(r, S)
      <3>3. w \in Seq(X)
        BY <1>1
      <3>4. Keep(q, S) = IF x \in S THEN Append(w, x) ELSE w
        BY <1>0, <3>1
      <3>5. Values(q) = Values(r) \cup {x}
        BY <3>1, AppendValues
      <3>6. Len(w) <= Len(r) /\ (Values(r) \subseteq S => Len(w) = Len(r))
        BY <3>2
      <3> HIDE DEF w
      <3>7. Len(Append(w, x)) = Len(w) + 1 /\ Len(w) \in Nat /\ Len(r) \in Nat
        BY <3>3
      <3>8. P(q)
        <4>1. CASE x \in S
          <5>1. Keep(q, S) = Append(w, x)
            BY <3>4, <4>1
          <5>2. Len(Keep(q, S)) = Len(w) + 1
            BY <3>7, <5>1
          <5>3. Values(q) \subseteq S => Values(r) \subseteq S
            BY <3>5
          <5>4. QED
            BY <3>1, <3>6, <3>7, <5>2, <5>3
        <4>2. CASE x \notin S
          <5>1. Keep(q, S) = w
            BY <3>4, <4>2
          <5>2. ~(Values(q) \subseteq S)
            BY <3>5, <4>2
          <5>3. QED
            BY <3>1, <3>6, <3>7, <5>1, <5>2
        <4>3. QED
          BY <4>1, <4>2
      <3>9. QED
        BY <2>3, <3>8
    <2>6. QED
      BY <2>4, <2>5
  <1>3. P(s)
    <2> HIDE DEF P
    <2>1. Len(s) \notin T /\ Len(s) \in Nat
      BY <1>2
    <2>2. QED
      BY <2>1
  <1>4. QED
    BY <1>1, <1>3

-----------------------------------------------------------------------------
(* A stable sort, written with ranks: in a strict total order on 1..n, each number
   of predecessors below n is that of exactly one element. *)

Predecessors(B, n, k) == {j \in 1..n : <<j, k>> \in B}

LEMMA RanksCover ==
  ASSUME NEW n \in Nat, NEW B,
         \A k \in 1..n : <<k, k>> \notin B,
         \A i, j, k \in 1..n : <<i, j>> \in B /\ <<j, k>> \in B => <<i, k>> \in B,
         \A j, k \in 1..n : j # k => <<j, k>> \in B \/ <<k, j>> \in B
  PROVE  /\ \A k \in 1..n : Cardinality(Predecessors(B, n, k)) \in 0..(n - 1)
         /\ \A m \in 0..(n - 1) : \E k \in 1..n : Cardinality(Predecessors(B, n, k)) = m
         /\ \A j, k \in 1..n : Cardinality(Predecessors(B, n, j)) = Cardinality(Predecessors(B, n, k)) => j = k
  <1> DEFINE D == 1..n
             P(k) == Predecessors(B, n, k)
             E == 0..(n - 1)
             f == [k \in D |-> Cardinality(P(k))]
  <1>1. IsFiniteSet(D) /\ Cardinality(D) = n /\ IsFiniteSet(E) /\ Cardinality(E) = n
    <2>1. 0 \in Int /\ 1 \in Int /\ n \in Int /\ n - 1 \in Int
      OBVIOUS
    <2>2. IsFiniteSet(1..n) /\ Cardinality(1..n) = IF 1 > n THEN 0 ELSE n - 1 + 1
      BY <2>1, FS_Interval
    <2>3. IsFiniteSet(0..(n - 1)) /\ Cardinality(0..(n - 1)) = IF 0 > n - 1 THEN 0 ELSE (n - 1) - 0 + 1
      BY <2>1, FS_Interval
    <2>4. QED
      BY <2>2, <2>3
  <1>2. \A k \in D : P(k) \in SUBSET (D \ {k})
    BY DEF Predecessors
  <1> HIDE DEF D
  <1>3. \A k \in D : IsFiniteSet(P(k)) /\ Cardinality(P(k)) \in Nat /\ Cardinality(P(k)) < n
    <2> SUFFICES ASSUME NEW k \in D PROVE IsFiniteSet(P(k)) /\ Cardinality(P(k)) \in Nat /\ Cardinality(P(k)) < n
      OBVIOUS
    <2>1. IsFiniteSet(D \ {k}) /\ Cardinality(D \ {k}) = n - 1
      BY <1>1, FS_RemoveElement
    <2>2. P(k) \in SUBSET (D \ {k})
      BY <1>2
    <2> HIDE DEF P
    <2>3. IsFiniteSet(P(k)) /\ Cardinality(P(k)) <= n - 1
      BY <2>1, <2>2, FS_Subset
    <2>4. Cardinality(P(k)) \in Nat
      BY <2>3, FS_CardinalityType
    <2>5. QED
      BY <2>3, <2>4
  <1>4. ASSUME NEW j \in D, NEW k \in D, <<j, k>> \in B PROVE Cardinality(P(j)) < Cardinality(P(k))
    <2>1. j \notin P(j) /\ P(j) \cup {j} \in SUBSET P(k)
      BY <1>4 DEF Predecessors, D
    <2>2. IsFiniteSet(P(j)) /\ IsFiniteSet(P(k)) /\ Cardinality(P(j)) \in Nat /\ Cardinality(P(k)) \in Nat
      BY <1>3
    <2> HIDE DEF P
    <2>3. Cardinality(P(j) \cup {j}) = Cardinality(P(j)) + 1
      BY <2>1, <2>2, FS_AddElement
    <2>4. Cardinality(P(j) \cup {j}) <= Cardinality(P(k))
      BY <2>1, <2>2, FS_Subset
    <2>5. QED
      BY <2>2, <2>3, <2>4
  <1>5. \A j, k \in D : j # k => <<j, k>> \in B \/ <<k, j>> \in B
    BY DEF D
  <1>6. \A j, k \in D : Cardinality(P(j)) = Cardinality(P(k)) => j = k
    <2> SUFFICES ASSUME NEW j \in D, NEW k \in D, Cardinality(P(j)) = Cardinality(P(k)), j # k PROVE FALSE
      OBVIOUS
    <2> HIDE DEF P
    <2>1. <<j, k>> \in B \/ <<k, j>> \in B
      BY <1>5
    <2>2. Cardinality(P(j)) < Cardinality(P(k)) \/ Cardinality(P(k)) < Cardinality(P(j))
      BY <1>4, <2>1
    <2>3. Cardinality(P(j)) \in Nat
      BY <1>3
    <2>4. QED
      BY <2>2, <2>3
  <1>7. f \in Injection(D, E)
    <2>1. \A k \in D : Cardinality(P(k)) \in E
      <3> HIDE DEF P
      <3>1. QED
        BY <1>3
    <2> HIDE DEF P, E
    <2>2. f \in [D -> E] /\ \A j, k \in D : f[j] = f[k] => j = k
      BY <1>6, <2>1
    <2> HIDE DEF f
    <2>3. QED
      BY <2>2 DEF Injection, IsInjective
  <1>8. f \in Surjection(D, E)
    <2> HIDE DEF f, E
    <2>1. QED
      BY <1>1, <1>7, FS_Injection
  <1>9. \A m \in E : \E k \in D : f[k] = m
    <2> HIDE DEF f, E
    <2>1. QED
      BY <1>8 DEF Surjection
  <1>10. QED
    <2>1. \A k \in D : f[k] = Cardinality(P(k)) /\ f[k] \in E
      <3>1. \A k \in D : f[k] = Cardinality(P(k))
        OBVIOUS
      <3> HIDE DEF P, f
      <3>2. QED
        BY <1>3, <3>1
    <2> HIDE DEF f
    <2>2. QED
      BY <1>6, <1>9, <2>1 DEF D
=============================================================================
