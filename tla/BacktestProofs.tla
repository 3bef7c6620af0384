--------------------------- MODULE BacktestProofs ---------------------------
(***************************************************************************)
(* Proofs about the backtests, for every set of tapes, candidate, size of  *)
(* window, timeframe, price, fee and slippage: no run depends on a bar     *)
(* that came later, and round trips add up to what the curve gained.       *)
(*                                                                         *)
(* A loop over bars is a FoldLeft, which is defined by a choice of a       *)
(* recursive function.  FoldRuns turns it into its course: the values      *)
(* after each bar, from the base, by one step per bar.  Every fact about a *)
(* run is then an invariant of its course (CourseWithin), and two runs     *)
(* over bars that agree for a while have one course that long              *)
(* (CourseUnique).                                                         *)
(***************************************************************************)
EXTENDS Backtest, FiniteSetTheorems, WellFoundedInduction, TLAPS

-----------------------------------------------------------------------------
(* Folds.                                                                  *)

\* Every set of indices has a least element.
LEMMA Least ==
  ASSUME NEW n \in Nat, NEW T \in SUBSET (0 .. n), T # {}
  PROVE  \E m \in T : \A k \in T : m <= k
<1>0. T \subseteq Nat OBVIOUS
<1>1. \E m \in T : \A k \in T : ~(<<k, m>> \in OpToRel(<, Nat))
  BY <1>0, NatLessThanWellFounded, WFMin
<1>2. PICK m \in T : \A k \in T : ~(<<k, m>> \in OpToRel(<, Nat)) BY <1>1
<1>3. ASSUME NEW k \in T PROVE m <= k
  <2>1. ~(k < m) BY <1>0, <1>2, <1>3 DEF OpToRel
  <2> QED BY <1>0, <2>1
<1> QED BY <1>3

\* The last index of a set of indices.
LEMMA Greatest ==
  ASSUME NEW n \in Nat, NEW s \in SUBSET (1 .. n), s # {}
  PROVE  Max(s) \in s /\ \A i \in s : i <= Max(s)
<1> DEFINE T == {m \in 0 .. n : \A i \in s : i <= m}
<1>1. T # {}
  <2>1. n \in T OBVIOUS
  <2> QED BY <2>1
<1>2. PICK m \in T : \A k \in T : m <= k
  <2> HIDE DEF T
  <2>1. T \in SUBSET (0 .. n) BY DEF T
  <2> QED BY <1>1, <2>1, Least
<1>3. m \in s
  <2> SUFFICES ASSUME m \notin s PROVE FALSE OBVIOUS
  <2>1. PICK i \in s : TRUE OBVIOUS
  <2>2. m - 1 \in T BY <2>1
  <2> QED BY <1>2, <2>2
<1>4. m \in s /\ \A i \in s : m >= i BY <1>3
<1>5. Max(s) \in s /\ \A i \in s : Max(s) >= i BY <1>4 DEF Max
<1> QED BY <1>5

LEMMA GreatestOf ==
  ASSUME NEW n \in Nat, n > 0
  PROVE  Max(1 .. n) = n /\ (1 .. n) \ {Max(1 .. n)} = 1 .. n - 1
<1>1. Max(1 .. n) \in 1 .. n /\ \A i \in 1 .. n : i <= Max(1 .. n)
  <2>1. n \in 1 .. n /\ 1 .. n \in SUBSET (1 .. n) OBVIOUS
  <2> QED BY <2>1, Greatest
<1>2. Max(1 .. n) = n BY <1>1
<1> QED BY <1>2

\* it holds what a fold of F over the indices of s has come to.
Folded(it, V, F, base, s) ==
  /\ it \in [SUBSET s -> V]
  /\ \A u \in SUBSET s : it[u] = IF u = {} THEN base ELSE F[<<it[u \ {Max(u)}], Max(u)>>]

LEMMA SmallestIndices ==
  ASSUME NEW n \in Nat, NEW T, T \subseteq SUBSET (1 .. n), T # {}
  PROVE  \E s \in T : \A t \in SUBSET s : t # s => t \notin T
<1> DEFINE R == StrictSubsetOrdering(1 .. n)
<1>0. IsFiniteSet(1 .. n) BY FS_Interval
<1>1. IsWellFoundedOn(R, SUBSET (1 .. n))
  <2>1. FiniteSubsetsOf(1 .. n) = SUBSET (1 .. n) BY <1>0, FS_FiniteSubsetsOfFinite
  <2>2. IsWellFoundedOn(R, FiniteSubsetsOf(1 .. n)) BY FS_StrictSubsetOrderingWellFounded
  <2> QED BY <2>1, <2>2
<1>2. PICK s \in T : \A t \in T : ~ (<<t, s>> \in R)
  <2> HIDE DEF R
  <2> QED BY <1>1, WFMin
<1>3. \A t \in SUBSET s : t # s => t \notin T
  <2> TAKE t \in SUBSET s
  <2>1. t # s => <<t, s>> \in R BY DEF StrictSubsetOrdering
  <2> QED BY <1>2, <2>1
<1> QED BY <1>3

\* Some function holds it.
LEMMA FoldedExists ==
  ASSUME NEW n \in Nat, NEW V, NEW F, F \in [V \X (1 .. n) -> V], NEW base \in V
  PROVE  \E it : Folded(it, V, F, base, 1 .. n)
<1> DEFINE Has(g, s) == Folded(g, V, F, base, s)
           T == {s \in SUBSET (1 .. n) : ~ \E g : Has(g, s)}
<1> SUFFICES ASSUME T # {} PROVE FALSE OBVIOUS
<1>1. T \subseteq SUBSET (1 .. n) OBVIOUS
<1>2. PICK s \in T : \A t \in SUBSET s : t # s => t \notin T
  <2> HIDE DEF T
  <2> QED BY <1>1, SmallestIndices
<1>3. s \in SUBSET (1 .. n) /\ ~ \E g : Has(g, s) OBVIOUS
<1> DEFINE G(t) == CHOOSE g : Has(g, t)
<1>4. \A t \in SUBSET s : t # s => Has(G(t), t)
  <2> HIDE DEF Has
  <2> TAKE t \in SUBSET s
  <2>1. t # s => \E g : Has(g, t) BY <1>2, <1>3
  <2> QED BY <2>1
<1> HIDE DEF T, G
<1>5. ASSUME NEW t \in SUBSET (1 .. n), NEW v \in SUBSET t, NEW g, NEW h, Has(g, t), Has(h, v)
      PROVE  g[v] = h[v]
  <2> DEFINE D == {u \in SUBSET v : g[u] # h[u]}
  <2> SUFFICES ASSUME D # {} PROVE FALSE OBVIOUS
  <2>1. D \subseteq SUBSET (1 .. n) OBVIOUS
  <2>2. PICK u \in D : \A w \in SUBSET u : w # u => w \notin D
    <3> HIDE DEF D, Has
    <3> QED BY <2>1, SmallestIndices
  <2>3. u \in SUBSET v /\ u \in SUBSET t /\ g[u] # h[u] OBVIOUS
  <2>4. CASE u = {} BY <1>5, <2>3, <2>4 DEF Folded
  <2>5. CASE u # {}
    <3>1. Max(u) \in u
      <4>1. u \in SUBSET (1 .. n) BY <2>3
      <4> QED BY <2>5, <4>1, Greatest
    <3>2. u \ {Max(u)} \notin D BY <2>2, <3>1
    <3>3. g[u \ {Max(u)}] = h[u \ {Max(u)}] BY <2>3, <3>2
    <3> QED BY <1>5, <2>3, <2>5, <3>3 DEF Folded
  <2> QED BY <2>4, <2>5
<1>6. ASSUME NEW t \in SUBSET s, NEW u \in SUBSET t, t # s
      PROVE  G(t)[u] = G(u)[u]
  <2>1. u \in SUBSET s /\ u # s BY <1>6
  <2>2. Has(G(t), t) /\ Has(G(u), u) BY <1>4, <1>6, <2>1
  <2>3. t \in SUBSET (1 .. n) BY <1>3
  <2> HIDE DEF Has
  <2> QED BY <1>5, <2>2, <2>3
<1> DEFINE r == s \ {Max(s)}
           last == IF s = {} THEN base ELSE F[<<G(r)[r], Max(s)>>]
           g == [t \in SUBSET s |-> IF t = s THEN last ELSE G(t)[t]]
<1>7. s # {} => Max(s) \in s BY <1>3, Greatest
<1>8. \A t \in SUBSET s : t # s => G(t)[t] \in V BY <1>4 DEF Folded
<1>9. last \in V
  <2>1. CASE s = {} BY <2>1
  <2>2. CASE s # {}
    <3>1. Max(s) \in 1 .. n BY <1>3, <1>7, <2>2
    <3>2. G(r)[r] \in V BY <1>7, <1>8, <2>2
    <3> HIDE DEF r
    <3>3. <<G(r)[r], Max(s)>> \in V \X (1 .. n) BY <3>1, <3>2
    <3>4. F[<<G(r)[r], Max(s)>>] \in V BY <3>3
    <3> QED BY <2>2, <3>4
  <2> QED BY <2>1, <2>2
<1>10. g \in [SUBSET s -> V] BY <1>8, <1>9
<1>11. ASSUME NEW t \in SUBSET s
       PROVE  g[t] = IF t = {} THEN base ELSE F[<<g[t \ {Max(t)}], Max(t)>>]
  <2>0. t # {} => Max(t) \in t
    <3>1. t \in SUBSET (1 .. n) BY <1>3
    <3> QED BY <3>1, Greatest
  <2>1. CASE t = s
    <3>1. g[t] = last BY <2>1
    <3>2. s # {} => g[r] = G(r)[r] BY <1>7
    <3> QED BY <2>1, <3>1, <3>2
  <2>2. CASE t # s
    <3>1. g[t] = G(t)[t] BY <2>2
    <3>2. G(t)[t] = IF t = {} THEN base ELSE F[<<G(t)[t \ {Max(t)}], Max(t)>>]
      BY <1>4, <2>2 DEF Folded
    <3>3. t # {} => g[t \ {Max(t)}] = G(t)[t \ {Max(t)}]
      <4> HAVE t # {}
      <4> DEFINE u == t \ {Max(t)}
      <4>1. u \in SUBSET s /\ u # s /\ u \in SUBSET t BY <2>0
      <4>2. g[u] = G(u)[u] BY <4>1
      <4>3. G(t)[u] = G(u)[u] BY <4>1, <1>6, <2>2
      <4> QED BY <4>2, <4>3
    <3> QED BY <3>1, <3>2, <3>3
  <2> QED BY <2>1, <2>2
<1> HIDE DEF g
<1>12. Has(g, s) BY <1>10, <1>11 DEF Folded
<1> QED BY <1>3, <1>12

\* h is what a fold that steps by F has come to after each of n elements.
Course(h, V, F, base, n) ==
  /\ h[0] = base /\ \A i \in 0 .. n : h[i] \in V
  /\ \A i \in 1 .. n : h[i] = F[<<h[i - 1], i>>]

\* A function built as a fold builds it runs through the same values, if it steps
\* by F as long as it is in V.
LEMMA FoldRuns ==
  ASSUME NEW n \in Nat, NEW V, NEW F, F \in [V \X (1 .. n) -> V], NEW base \in V, NEW it,
         it[{}] = base,
         \A i \in 1 .. n : it[1 .. i - 1] \in V => it[1 .. i] = F[<<it[1 .. i - 1], i>>]
  PROVE  Course([i \in 0 .. n |-> it[1 .. i]], V, F, base, n)
<1> DEFINE h == [i \in 0 .. n |-> it[1 .. i]]
           T == {i \in 0 .. n : h[i] \notin V}
<1>0. 1 .. 0 = {} OBVIOUS
<1>1. h[0] = base BY <1>0
<1>2. ASSUME NEW i \in 1 .. n PROVE h[i - 1] \in V => h[i] = F[<<h[i - 1], i>>]
  <2>1. i \in 0 .. n /\ i - 1 \in 0 .. n OBVIOUS
  <2>2. h[i] = it[1 .. i] /\ h[i - 1] = it[1 .. i - 1] BY <2>1
  <2> HIDE DEF h
  <2> QED BY <2>2
<1>3. h = [i \in 0 .. n |-> h[i]] OBVIOUS
<1> HIDE DEF h
<1>4. T = {}
  <2> SUFFICES ASSUME T # {} PROVE FALSE OBVIOUS
  <2>1. PICK m \in T : \A k \in T : m <= k
    <3>1. T \in SUBSET (0 .. n) OBVIOUS
    <3> HIDE DEF T
    <3> QED BY <3>1, Least
  <2>2. m # 0 BY <1>1
  <2>3. m \in 1 .. n /\ m - 1 \in 0 .. n /\ m - 1 \notin T BY <2>1, <2>2
  <2>4. h[m - 1] \in V BY <2>3
  <2>5. <<h[m - 1], m>> \in V \X (1 .. n) BY <2>3, <2>4
  <2>6. F[<<h[m - 1], m>>] \in V BY <2>5
  <2> QED BY <1>2, <2>3, <2>4, <2>6
<1>5. \A i \in 0 .. n : h[i] \in V BY <1>4
<1>7. \A i \in 1 .. n : h[i] = F[<<h[i - 1], i>>] BY <1>2, <1>5
<1>8. Course(h, V, F, base, n) BY <1>1, <1>5, <1>7 DEF Course
<1> QED BY <1>8 DEF h

\* There is one course.
LEMMA CourseUnique ==
  ASSUME NEW n \in Nat, NEW V, NEW F, NEW base, NEW f, NEW g,
         Course(f, V, F, base, n), Course(g, V, F, base, n)
  PROVE  \A i \in 0 .. n : f[i] = g[i]
<1> DEFINE T == {i \in 0 .. n : f[i] # g[i]}
<1> SUFFICES ASSUME T # {} PROVE FALSE OBVIOUS
<1>1. PICK k \in T : \A i \in T : k <= i
  <2>1. T \in SUBSET (0 .. n) OBVIOUS
  <2> HIDE DEF T
  <2> QED BY <2>1, Least
<1>2. k \in 0 .. n /\ f[k] # g[k] OBVIOUS
<1>3. k # 0 BY <1>2 DEF Course
<1>4. k \in 1 .. n /\ k - 1 \in 0 .. n BY <1>2, <1>3
<1>5. f[k - 1] = g[k - 1]
  <2>1. k - 1 \notin T BY <1>1, <1>2
  <2> QED BY <1>4, <2>1
<1>6. f[k] = F[<<f[k - 1], k>>] /\ g[k] = F[<<g[k - 1], k>>] BY <1>4 DEF Course
<1> QED BY <1>2, <1>5, <1>6

\* A course that a set of values per step holds stays in them.
LEMMA CourseWithin ==
  ASSUME NEW n \in Nat, NEW m \in 0 .. n, NEW V, NEW F, NEW base, NEW h, NEW S,
         Course(h, V, F, base, n), h[m] \in S[m],
         \A i \in m + 1 .. n : \A x \in V : x \in S[i - 1] => F[<<x, i>>] \in S[i]
  PROVE  \A i \in m .. n : h[i] \in S[i]
<1> DEFINE T == {i \in m .. n : h[i] \notin S[i]}
<1> SUFFICES ASSUME T # {} PROVE FALSE OBVIOUS
<1>1. PICK k \in T : \A i \in T : k <= i
  <2>1. T \in SUBSET (0 .. n) OBVIOUS
  <2> HIDE DEF T
  <2> QED BY <2>1, Least
<1>2. k \in m .. n /\ h[k] \notin S[k] OBVIOUS
<1>3. k # m BY <1>2
<1>4. k \in m + 1 .. n /\ k - 1 \in m .. n /\ k \in 1 .. n /\ k - 1 \in 0 .. n BY <1>2, <1>3
<1>5. h[k - 1] \in S[k - 1]
  <2>1. k - 1 \notin T BY <1>1, <1>2
  <2> QED BY <1>4, <2>1
<1>6. h[k] = F[<<h[k - 1], k>>] /\ h[k - 1] \in V BY <1>4 DEF Course
<1> QED BY <1>2, <1>4, <1>5, <1>6

(***************************************************************************)
(* Sums                                                                    *)
(***************************************************************************)

adding(s) == [x \in Int \X (1 .. Len(s)) |-> x[1] + s[x[2]]]

LEMMA TotalFold ==
  ASSUME NEW s \in Seq(Int)
  PROVE  \E h : Course(h, Int, adding(s), 0, Len(s)) /\ total(s) = h[Len(s)]
<1>0. PICK n \in Nat : n = Len(s) OBVIOUS
<1> DEFINE F == adding(s)
           E(g) == g = [u \in SUBSET (DOMAIN s) |-> IF u = {} THEN 0 ELSE g[u \ {Max(u)}] + s[Max(u)]]
           it == CHOOSE g : E(g)
<1>1. DOMAIN s = 1 .. n /\ s \in [1 .. n -> Int] BY <1>0
<1>2. total(s) = it[DOMAIN s] BY DEF total, FoldLeft, MapThenFoldSet
<1>3. \A x \in Int, i \in 1 .. n : F[<<x, i>>] = x + s[i] /\ F[<<x, i>>] \in Int BY <1>0, <1>1 DEF adding
<1>4. F \in [Int \X (1 .. n) -> Int] BY <1>0, <1>1 DEF adding
<1> DEFINE V == Int
           base == 0
<1>41. base \in V OBVIOUS
<1>42. F \in [V \X (1 .. n) -> V] BY <1>4
<1> HIDE DEF F, E, V, base
<1>5. PICK g : Folded(g, V, F, base, 1 .. n) BY <1>41, <1>42, FoldedExists
<1>6. E(g)
  <2>1. ASSUME NEW u \in SUBSET (1 .. n), u # {}
        PROVE  g[u] = g[u \ {Max(u)}] + s[Max(u)]
    <3>1. Max(u) \in 1 .. n BY <1>1, <2>1, Greatest
    <3>2. g[u \ {Max(u)}] \in Int /\ g[u] = F[<<g[u \ {Max(u)}], Max(u)>>] BY <1>5, <2>1 DEF Folded, V
    <3> QED BY <1>3, <3>1, <3>2
  <2>2. g = [u \in SUBSET (1 .. n) |-> g[u]] /\ g[{}] = 0 BY <1>5 DEF Folded, base
  <2>3. g = [u \in SUBSET (1 .. n) |-> IF u = {} THEN 0 ELSE g[u \ {Max(u)}] + s[Max(u)]]
    BY <2>1, <2>2
  <2> QED BY <1>1, <2>3 DEF E
<1>7. E(it) BY <1>6
<1> HIDE DEF it
<1>8. it[{}] = base BY <1>7 DEF E, base
<1>9. ASSUME NEW i \in 1 .. n, it[1 .. i - 1] \in V
      PROVE  it[1 .. i] = F[<<it[1 .. i - 1], i>>]
  <2>1. i \in Nat /\ i > 0 /\ (1 .. i) \in SUBSET (1 .. n) /\ i \in 1 .. i OBVIOUS
  <2>2. Max(1 .. i) = i /\ (1 .. i) \ {Max(1 .. i)} = 1 .. i - 1 BY <2>1, GreatestOf
  <2>3. it[1 .. i] = it[(1 .. i) \ {Max(1 .. i)}] + s[Max(1 .. i)] BY <1>1, <1>7, <2>1 DEF E
  <2> QED BY <1>3, <1>9, <2>2, <2>3 DEF V
<1> DEFINE h == [i \in 0 .. n |-> it[1 .. i]]
<1>10. Course(h, V, F, base, n) BY <1>41, <1>42, <1>8, <1>9, FoldRuns
<1>11. h[n] = total(s) BY <1>1, <1>2
<1> QED BY <1>0, <1>10, <1>11 DEF F, V, base

\* The sum of nothing.
LEMMA TotalEmpty == total(<<>>) = 0
<1>1. <<>> \in Seq(Int) /\ Len(<<>>) = 0 OBVIOUS
<1>2. PICK h : Course(h, Int, adding(<<>>), 0, Len(<<>>)) /\ total(<<>>) = h[Len(<<>>)]
  BY <1>1, TotalFold
<1> QED BY <1>1, <1>2 DEF Course

\* A sum grows by what is appended.
LEMMA TotalAppend ==
  ASSUME NEW s \in Seq(Int), NEW x \in Int
  PROVE  total(s) \in Int /\ total(Append(s, x)) = total(s) + x
<1>1. PICK n \in Nat : n = Len(s) OBVIOUS
<1>2. PICK t \in Seq(Int) : t = Append(s, x)
  <2>1. Append(s, x) \in Seq(Int) OBVIOUS
  <2> QED BY <2>1
<1>3. Len(t) = n + 1 /\ t[n + 1] = x /\ \A i \in 1 .. n : t[i] = s[i] BY <1>1, <1>2
<1>4. PICK f : Course(f, Int, adding(s), 0, n) /\ total(s) = f[n] BY <1>1, TotalFold
<1>5. PICK g : Course(g, Int, adding(t), 0, n + 1) /\ total(t) = g[n + 1] BY <1>3, TotalFold
<1>6. Course(g, Int, adding(s), 0, n)
  <2>1. \A i \in 1 .. n : \A y \in Int : adding(s)[<<y, i>>] = adding(t)[<<y, i>>]
    BY <1>1, <1>3 DEF adding
  <2> QED BY <1>5, <2>1 DEF Course
<1>7. \A i \in 0 .. n : f[i] = g[i]
  <2> DEFINE V == Int
             base == 0
  <2>1. Course(f, V, adding(s), base, n) /\ Course(g, V, adding(s), base, n) BY <1>4, <1>6
  <2> HIDE DEF V, base
  <2> QED BY <2>1, CourseUnique
<1>8. f[n] = g[n] /\ f[n] \in Int BY <1>4, <1>7 DEF Course
<1>9. g[n + 1] = adding(t)[<<g[n], n + 1>>] BY <1>5 DEF Course
<1>10. adding(t)[<<g[n], n + 1>>] = g[n] + x BY <1>3, <1>8 DEF adding
<1> QED BY <1>2, <1>4, <1>5, <1>8, <1>9, <1>10

(***************************************************************************)
(* Round trips                                                             *)
(***************************************************************************)

Trade ==
  [side : {"BUY", "SELL"}, quantity : Int, price : Int, fee : Int, at : Int, bar : Int]

Rounds == [open : {<<>>} \cup {<<t>> : t \in Trade}, pnls : Seq(Int)]

noRounds == [open |-> <<>>, pnls |-> <<>>]

LEMMA PairTyped ==
  ASSUME NEW acc \in Rounds, NEW t \in Trade
  PROVE  /\ pairTrade(acc, t) \in Rounds
         /\ t.side = "BUY" => pairTrade(acc, t) = [open |-> <<t>>, pnls |-> acc.pnls]
         /\ t.side = "SELL" /\ acc.open # <<>> =>
              pairTrade(acc, t) =
                [open |-> <<>>, pnls |-> Append(acc.pnls,
                   (t.price - acc.open[1].price) * t.quantity - t.fee - acc.open[1].fee)]
<1>1. CASE t.side = "BUY"
  <2>1. pairTrade(acc, t) = [acc EXCEPT !.open = <<t>>] BY <1>1 DEF pairTrade
  <2>2. pairTrade(acc, t) = [open |-> <<t>>, pnls |-> acc.pnls] BY <2>1 DEF Rounds
  <2>3. <<t>> \in {<<u>> : u \in Trade} OBVIOUS
  <2> QED BY <1>1, <2>2, <2>3 DEF Rounds
<1>2. CASE t.side = "SELL" /\ acc.open # <<>>
  <2> DEFINE p == (t.price - acc.open[1].price) * t.quantity - t.fee - acc.open[1].fee
  <2>1. pairTrade(acc, t) = [open |-> <<>>, pnls |-> Append(acc.pnls, p)]
    BY <1>2 DEF pairTrade
  <2>2. PICK u \in Trade : acc.open = <<u>> BY <1>2 DEF Rounds
  <2>3. p \in Int BY <2>2 DEF Trade
  <2> HIDE DEF p
  <2>4. Append(acc.pnls, p) \in Seq(Int) BY <2>3 DEF Rounds
  <2>5. pairTrade(acc, t) \in Rounds BY <2>1, <2>4 DEF Rounds
  <2> QED BY <1>2, <2>1, <2>5 DEF p
<1>3. CASE t.side = "SELL" /\ acc.open = <<>>
  <2>1. pairTrade(acc, t) = acc BY <1>3 DEF pairTrade
  <2> QED BY <1>3, <2>1
<1> QED BY <1>1, <1>2, <1>3 DEF Trade

pairing(s) == [x \in Rounds \X (1 .. Len(s)) |-> pairTrade(x[1], s[x[2]])]

\* The pairing of trades as a course over the trades.
LEMMA RoundsFold ==
  ASSUME NEW s \in Seq(Trade)
  PROVE  \E h : /\ Course(h, Rounds, pairing(s), noRounds, Len(s))
                /\ paired(s) = h[Len(s)]
<1>1. PICK n \in Nat : n = Len(s) OBVIOUS
<1>2. DOMAIN s = 1 .. n /\ s \in [1 .. n -> Trade] BY <1>1
<1> DEFINE F == pairing(s)
           E(g) == g = [u \in SUBSET (DOMAIN s) |->
                          IF u = {} THEN noRounds ELSE pairTrade(g[u \ {Max(u)}], s[Max(u)])]
           it == CHOOSE g : E(g)
<1>3. paired(s) = it[DOMAIN s] BY DEF paired, FoldLeft, MapThenFoldSet, noRounds
<1>4. \A x \in Rounds, i \in 1 .. n : F[<<x, i>>] = pairTrade(x, s[i]) BY <1>1 DEF pairing
<1>5. F \in [Rounds \X (1 .. n) -> Rounds] BY <1>1, <1>2, PairTyped DEF pairing
<1>6. noRounds \in Rounds BY DEF noRounds, Rounds
<1> HIDE DEF F, E
<1>7. PICK g : Folded(g, Rounds, F, noRounds, 1 .. n) BY <1>5, <1>6, FoldedExists
<1>8. E(g)
  <2>1. ASSUME NEW u \in SUBSET (1 .. n), u # {}
        PROVE  g[u] = pairTrade(g[u \ {Max(u)}], s[Max(u)])
    <3>1. Max(u) \in 1 .. n BY <2>1, Greatest
    <3>2. g[u \ {Max(u)}] \in Rounds /\ g[u] = F[<<g[u \ {Max(u)}], Max(u)>>]
      BY <1>7, <2>1 DEF Folded
    <3> QED BY <1>4, <3>1, <3>2
  <2>2. g = [u \in SUBSET (1 .. n) |-> g[u]] /\ g[{}] = noRounds BY <1>7 DEF Folded
  <2>3. g = [u \in SUBSET (1 .. n) |->
               IF u = {} THEN noRounds ELSE pairTrade(g[u \ {Max(u)}], s[Max(u)])]
    BY <2>1, <2>2
  <2> QED BY <1>2, <2>3 DEF E
<1>9. E(it) BY <1>8
<1> HIDE DEF it
<1>10. it[{}] = noRounds BY <1>9 DEF E
<1>11. ASSUME NEW i \in 1 .. n, it[1 .. i - 1] \in Rounds
       PROVE  it[1 .. i] = F[<<it[1 .. i - 1], i>>]
  <2>1. i \in Nat /\ i > 0 /\ (1 .. i) \in SUBSET (1 .. n) /\ i \in 1 .. i OBVIOUS
  <2>2. Max(1 .. i) = i /\ (1 .. i) \ {Max(1 .. i)} = 1 .. i - 1 BY <2>1, GreatestOf
  <2>3. it[1 .. i] = pairTrade(it[(1 .. i) \ {Max(1 .. i)}], s[Max(1 .. i)])
    BY <1>2, <1>9, <2>1 DEF E
  <2> QED BY <1>4, <1>11, <2>2, <2>3
<1> DEFINE h == [i \in 0 .. n |-> it[1 .. i]]
<1>12. Course(h, Rounds, F, noRounds, n) BY <1>5, <1>6, <1>10, <1>11, FoldRuns
<1>13. h[n] = paired(s) BY <1>2, <1>3
<1> QED BY <1>1, <1>12, <1>13 DEF F

LEMMA PairedEmpty == paired(<<>>) = noRounds
<1>1. <<>> \in Seq(Trade) /\ Len(<<>>) = 0 OBVIOUS
<1>2. PICK h : Course(h, Rounds, pairing(<<>>), noRounds, Len(<<>>)) /\ paired(<<>>) = h[Len(<<>>)]
  BY <1>1, RoundsFold
<1> QED BY <1>1, <1>2 DEF Course

LEMMA PairedTyped ==
  ASSUME NEW s \in Seq(Trade)
  PROVE  paired(s) \in Rounds /\ total(paired(s).pnls) \in Int
<1>1. PICK n \in Nat : n = Len(s) OBVIOUS
<1>2. PICK f : Course(f, Rounds, pairing(s), noRounds, n) /\ paired(s) = f[n]
  BY <1>1, RoundsFold
<1>3. paired(s) \in Rounds BY <1>2 DEF Course
<1>4. paired(s).pnls \in Seq(Int) BY <1>3 DEF Rounds
<1>5. PICK zero \in Int : zero = 0 OBVIOUS
<1> QED BY <1>3, <1>4, <1>5, TotalAppend

\* The pairing goes on by one trade.
LEMMA PairedAppend ==
  ASSUME NEW s \in Seq(Trade), NEW t \in Trade
  PROVE  paired(s) \in Rounds /\ paired(Append(s, t)) = pairTrade(paired(s), t)
<1>1. PICK n \in Nat : n = Len(s) OBVIOUS
<1>2. PICK r \in Seq(Trade) : r = Append(s, t)
  <2>1. Append(s, t) \in Seq(Trade) OBVIOUS
  <2> QED BY <2>1
<1>3. Len(r) = n + 1 /\ r[n + 1] = t /\ \A i \in 1 .. n : r[i] = s[i] BY <1>1, <1>2
<1>4. PICK f : Course(f, Rounds, pairing(s), noRounds, n) /\ paired(s) = f[n]
  BY <1>1, RoundsFold
<1>5. PICK g : Course(g, Rounds, pairing(r), noRounds, n + 1) /\ paired(r) = g[n + 1]
  BY <1>3, RoundsFold
<1>6. Course(g, Rounds, pairing(s), noRounds, n)
  <2>1. \A i \in 1 .. n : \A y \in Rounds : pairing(s)[<<y, i>>] = pairing(r)[<<y, i>>]
    BY <1>1, <1>3 DEF pairing
  <2> QED BY <1>5, <2>1 DEF Course
<1>7. \A i \in 0 .. n : f[i] = g[i] BY <1>4, <1>6, CourseUnique
<1>8. f[n] = g[n] /\ f[n] \in Rounds BY <1>4, <1>7 DEF Course
<1>9. g[n + 1] = pairing(r)[<<g[n], n + 1>>] BY <1>5 DEF Course
<1>10. pairing(r)[<<g[n], n + 1>>] = pairTrade(g[n], t) BY <1>3, <1>8 DEF pairing
<1> QED BY <1>2, <1>4, <1>5, <1>8, <1>9, <1>10

(***************************************************************************)
(* Fills                                                                   *)
(***************************************************************************)

Money ==
  /\ Scale \in Nat \ {0} /\ InitialCash \in Nat \ {0}
  /\ Slippage \in Int /\ FeePerShare \in Int /\ MinFee \in Int

LEMMA LesserOf ==
  ASSUME NEW a \in Int, NEW b \in Int
  PROVE  Min({a, b}) = IF a < b THEN a ELSE b
<1>1. CASE a < b
  <2>1. a \in {a, b} /\ \A y \in {a, b} : a <= y BY <1>1
  <2>2. \A x \in {a, b} : (\A y \in {a, b} : x <= y) => x = a BY <1>1
  <2> QED BY <1>1, <2>1, <2>2 DEF Min
<1>2. CASE ~(a < b)
  <2>1. b \in {a, b} /\ \A y \in {a, b} : b <= y BY <1>2
  <2>2. \A x \in {a, b} : (\A y \in {a, b} : x <= y) => x = b BY <1>2
  <2> QED BY <1>2, <2>1, <2>2 DEF Min
<1> QED BY <1>1, <1>2

\* A fill has the side, the quantity and the bar of its order.
LEMMA TradeTyped ==
  ASSUME Money, NEW side \in {"BUY", "SELL"}, NEW quantity \in Int, NEW price \in Int,
         NEW at \in Int, NEW bar \in Int
  PROVE  /\ fill(side, quantity, price, at, bar) \in Trade
         /\ fill(side, quantity, price, at, bar).side = side
         /\ fill(side, quantity, price, at, bar).quantity = quantity
         /\ fill(side, quantity, price, at, bar).bar = bar
<1>1. fillPrice(side, price) \in Int
  <2>1. (IF side = "BUY" THEN Scale + Slippage ELSE Scale - Slippage) \in Int BY DEF Money
  <2> QED BY <2>1 DEF fillPrice
<1>2. feeOf(quantity) \in Int
  <2>1. quantity * FeePerShare \in Int BY DEF Money
  <2> QED BY <2>1 DEF feeOf, larger, Money
<1> QED BY <1>1, <1>2 DEF fill, Trade

\* What a fill does to the cash.
LEMMA CashTyped ==
  ASSUME NEW cash \in Int, NEW t \in Trade
  PROVE  /\ cashAfter(cash, t) \in Int
         /\ t.side = "BUY" => cashAfter(cash, t) = cash - (t.quantity * t.price + t.fee)
         /\ t.side = "SELL" => cashAfter(cash, t) = cash + t.quantity * t.price - t.fee
<1>1. t.quantity * t.price \in Int /\ t.fee \in Int BY DEF Trade
<1> QED BY <1>1 DEF cashAfter, Trade

(***************************************************************************)
(* The signal models                                                       *)
(***************************************************************************)

\* What a signal model may have seen and computed.
Models(p) ==
  [seen : Seq(Bar), prev : {<<>>} \cup {<<crossing(p, closes(s))>> : s \in Seq(Bar)},
   holding : BOOLEAN]

Signal == {"BUY", "SELL", NoSignal}

\* The crossover model stays a model and answers with a signal.
LEMMA MovingAverageTyped ==
  ASSUME NEW p, NEW model \in Models(p), NEW bar \in Bar
  PROVE  movingAverage(p, model, bar).model \in Models(p)
         /\ movingAverage(p, model, bar).side \in Signal
<1> DEFINE seen == Append(model.seen, bar)
           now == crossing(p, closes(seen))
           known == model.prev # <<>>
           side == CASE known /\ model.prev[1] <= 0 /\ now > 0 -> "BUY"
                     [] known /\ model.prev[1] >= 0 /\ now < 0 -> "SELL"
                     [] OTHER -> NoSignal
<1>1. seen \in Seq(Bar) BY DEF Models
<1>2. <<now>> \in {<<crossing(p, closes(s))>> : s \in Seq(Bar)} BY <1>1
<1>3. side \in Signal BY DEF Signal
<1> HIDE DEF side
<1>4. movingAverage(p, model, bar) =
        IF Len(seen) < p.long
        THEN [model |-> [model EXCEPT !.seen = seen], side |-> NoSignal]
        ELSE [model |-> [model EXCEPT !.seen = seen, !.prev = <<now>>], side |-> side]
  BY DEF movingAverage, side
<1> HIDE DEF seen, now
<1>5. [model EXCEPT !.seen = seen] \in Models(p) BY <1>1 DEF Models
<1>6. [model EXCEPT !.seen = seen, !.prev = <<now>>] \in Models(p)
  <2>1. <<now>> \in {<<>>} \cup {<<crossing(p, closes(s))>> : s \in Seq(Bar)} BY <1>2
  <2> QED BY <1>1, <2>1 DEF Models
<1> QED BY <1>3, <1>4, <1>5, <1>6 DEF Signal

\* A factor model buys when it does not hold and sells when it does.
LEMMA FactorTyped ==
  ASSUME NEW p, NEW model \in Models(p), NEW bar \in Bar
  PROVE  LET signal == factor(p, model, bar)
         IN /\ signal.model \in Models(p) /\ signal.side \in Signal
            /\ signal.side = "BUY" => ~model.holding /\ signal.model.holding
            /\ signal.side = "SELL" => model.holding /\ ~signal.model.holding
            /\ signal.side = NoSignal => signal.model.holding = model.holding
<1> DEFINE seen == Append(model.seen, bar)
           c == closes(seen)
           back(n) == c[Len(c) - n]
           entry == /\ atLeast(bar.close, back(p.trend), p.minTrend)
                    /\ atLeast(bar.close, back(p.momentum), p.minMomentum)
                    /\ QuietAndLiquid(p, seen)
                    /\ crossing(p, c) > 0
           exit == \/ atMost(bar.close, back(p.trend), p.exitTrend)
                   \/ atMost(bar.close, back(p.momentum), p.exitMomentum)
                   \/ crossing(p, c) < 0
           side == CASE ~model.holding /\ entry -> "BUY"
                     [] model.holding /\ exit -> "SELL"
                     [] OTHER -> NoSignal
           holds == (side = "BUY") \/ (model.holding /\ side # "SELL")
           signal == factor(p, model, bar)
<1>1. seen \in Seq(Bar) /\ model.holding \in BOOLEAN BY DEF Models
<1>2. signal = IF Len(seen) < larger(requiredHistory(p), p.volume) + 1
               THEN [model |-> [model EXCEPT !.seen = seen], side |-> NoSignal]
               ELSE [model |-> [model EXCEPT !.seen = seen, !.holding = holds], side |-> side]
  BY DEF factor
<1> HIDE DEF entry, exit, seen
<1>3. /\ side \in Signal
      /\ side = "BUY" => ~model.holding
      /\ side = "SELL" => model.holding
  BY <1>1 DEF Signal, NoSignal
<1> HIDE DEF side
<1>4. /\ holds \in BOOLEAN
      /\ side = "BUY" => holds
      /\ side = "SELL" => ~holds
      /\ side = NoSignal => (holds = model.holding)
  BY <1>1 DEF NoSignal
<1> HIDE DEF holds, signal
<1>5. [model EXCEPT !.seen = seen] \in Models(p)
      /\ [model EXCEPT !.seen = seen].holding = model.holding
  BY <1>1 DEF Models
<1>6. [model EXCEPT !.seen = seen, !.holding = holds] \in Models(p)
      /\ [model EXCEPT !.seen = seen, !.holding = holds].holding = holds
  BY <1>1, <1>4 DEF Models
<1>7. CASE Len(seen) < larger(requiredHistory(p), p.volume) + 1
  <2>1. signal = [model |-> [model EXCEPT !.seen = seen], side |-> NoSignal] BY <1>2, <1>7
  <2>2. signal.side = NoSignal /\ signal.model = [model EXCEPT !.seen = seen] BY <2>1
  <2>3. signal.model \in Models(p) /\ signal.model.holding = model.holding BY <1>5, <2>2
  <2>4. signal.side \in Signal /\ signal.side # "BUY" /\ signal.side # "SELL"
    BY <2>2 DEF NoSignal, Signal
  <2> QED BY <2>3, <2>4 DEF signal
<1>8. CASE ~(Len(seen) < larger(requiredHistory(p), p.volume) + 1)
  <2>1. signal = [model |-> [model EXCEPT !.seen = seen, !.holding = holds], side |-> side]
    BY <1>2, <1>8
  <2>2. signal.side = side /\ signal.model = [model EXCEPT !.seen = seen, !.holding = holds]
    BY <2>1
  <2>3. signal.model \in Models(p) /\ signal.model.holding = holds BY <1>6, <2>2
  <2> QED BY <1>3, <1>4, <2>2, <2>3 DEF signal
<1> QED BY <1>7, <1>8

(***************************************************************************)
(* The bars of a daily run                                                 *)
(***************************************************************************)

Books(p) ==
  [cash : Int, position : Int, pending : Signal, trades : Seq(Trade), curve : Seq(Int),
   exposure : Int, model : Models(p)]

\* How much the order of the bar before asks for.
ordered(p, book) ==
  IF book.pending = "BUY" THEN p.quantity
  ELSE IF p.quantity < book.position THEN p.quantity ELSE book.position

\* That order, filled on bar i.
Filled(p, book, i, done) ==
  \E t \in Trade :
    /\ t.side = book.pending /\ t.quantity = ordered(p, book) /\ t.bar = i
    /\ done.cash = cashAfter(book.cash, t) /\ done.trades = Append(book.trades, t)
    /\ done.position = IF t.side = "BUY" THEN book.position + ordered(p, book)
                       ELSE book.position - ordered(p, book)

\* The order of the bar before is dropped, or filled at the open of this one.
LEMMA Executed ==
  ASSUME Money, NEW p, p.quantity \in Int, NEW book \in Books(p), NEW bar \in Bar, NEW i \in Nat
  PROVE  LET done == executeSignal(book, p, bar, i)
         IN /\ done \in Books(p) /\ done.model = book.model /\ done.curve = book.curve
            /\ \/ done = book /\ (book.pending = "SELL" => ordered(p, book) <= 0)
               \/ ordered(p, book) > 0 /\ Filled(p, book, i, done)
<1> DEFINE done == executeSignal(book, p, bar, i)
           quantity == ordered(p, book)
<1>1. /\ book.cash \in Int /\ book.position \in Int /\ book.pending \in Signal
      /\ book.trades \in Seq(Trade) /\ bar.open \in Int
  BY DEF Books, Bar
<1>2. CASE book.pending = NoSignal
  <2>1. done = book BY <1>2 DEF executeSignal
  <2> QED BY <1>2, <2>1 DEF NoSignal
<1>3. CASE book.pending # NoSignal
  <2>1. book.pending \in {"BUY", "SELL"} BY <1>1, <1>3 DEF Signal
  <2>2. quantity \in Int BY <1>1 DEF ordered
  <2> DEFINE t == fill(book.pending, quantity, bar.open, i, i)
             booked == [book EXCEPT
               !.cash = cashAfter(book.cash, t), !.trades = Append(book.trades, t),
               !.position = book.position + (IF t.side = "BUY" THEN quantity ELSE -quantity)]
  <2>3. quantity = IF book.pending = "BUY" THEN p.quantity ELSE Min({p.quantity, book.position})
    BY <1>1, LesserOf DEF ordered
  <2>4. done = IF t.quantity <= 0 \/ refused(book.cash, t) THEN book ELSE booked
    <3> HIDE DEF quantity
    <3> QED BY <1>3, <2>3 DEF executeSignal, Once
  <2> HIDE DEF quantity
  <2>5. t \in Trade /\ t.side = book.pending /\ t.quantity = quantity /\ t.bar = i
    <3>1. PICK side \in {"BUY", "SELL"} : side = book.pending BY <2>1
    <3>2. PICK q \in Int : q = quantity BY <2>2
    <3>3. PICK price \in Int : price = bar.open BY <1>1
    <3>4. PICK at \in Int : at = i OBVIOUS
    <3>5. t = fill(side, q, price, at, at) BY <3>1, <3>2, <3>3, <3>4
    <3>6. fill(side, q, price, at, at) \in Trade BY TradeTyped
    <3>7. /\ fill(side, q, price, at, at).side = side
          /\ fill(side, q, price, at, at).quantity = q
          /\ fill(side, q, price, at, at).bar = at
      BY DEF fill
    <3> HIDE DEF t
    <3> QED BY <3>1, <3>2, <3>4, <3>5, <3>6, <3>7
  <2> HIDE DEF t, done
  <2>6. book.pending = "SELL" => ~refused(book.cash, t) BY <2>5 DEF refused
  <2>7. CASE t.quantity <= 0 \/ refused(book.cash, t)
    <3>1. done = book BY <2>4, <2>7
    <3>2. book.pending = "SELL" => quantity <= 0 BY <2>5, <2>6, <2>7
    <3> QED BY <3>1, <3>2 DEF done, quantity
  <2>8. CASE ~(t.quantity <= 0 \/ refused(book.cash, t))
    <3>1. done = booked BY <2>4, <2>8
    <3>2. quantity > 0 BY <2>2, <2>5, <2>8
    <3>3. cashAfter(book.cash, t) \in Int BY <1>1, <2>5, CashTyped
    <3>4. Append(book.trades, t) \in Seq(Trade) BY <1>1, <2>5
    <3>5. book.position + (IF t.side = "BUY" THEN quantity ELSE -quantity) \in Int BY <1>1, <2>2
    <3>6. booked \in Books(p) BY <3>3, <3>4, <3>5 DEF Books
    <3>7. /\ done.cash = cashAfter(book.cash, t) /\ done.trades = Append(book.trades, t)
          /\ done.position = book.position + (IF t.side = "BUY" THEN quantity ELSE -quantity)
          /\ done.model = book.model /\ done.curve = book.curve
      BY <3>1 DEF Books
    <3>8. done.position = IF t.side = "BUY" THEN book.position + quantity
                          ELSE book.position - quantity
      BY <1>1, <2>2, <3>7
    <3>9. Filled(p, book, i, done) BY <2>5, <3>7, <3>8 DEF Filled, quantity
    <3> QED BY <3>1, <3>2, <3>6, <3>7, <3>9 DEF done, quantity
  <2> QED BY <2>7, <2>8
<1> QED BY <1>2, <1>3

LEMMA SignalTyped ==
  ASSUME NEW p, NEW model \in Models(p), NEW bar \in Bar
  PROVE  onBarClose(p, model, bar).model \in Models(p) /\ onBarClose(p, model, bar).side \in Signal
<1>1. CASE p.kind = "moving_average_crossover"
  <2>1. onBarClose(p, model, bar) = movingAverage(p, model, bar) BY <1>1 DEF onBarClose
  <2> QED BY <2>1, MovingAverageTyped
<1>2. CASE p.kind # "moving_average_crossover"
  <2>1. onBarClose(p, model, bar) = factor(p, model, bar) BY <1>2 DEF onBarClose
  <2> QED BY <2>1, FactorTyped
<1> QED BY <1>1, <1>2

\* A bar values the account after the order of the bar before, and leaves this
\* bar's signal unless it is the last one.
LEMMA DailyBar ==
  ASSUME Money, NEW p, p.quantity \in Int, NEW bars \in Seq(Bar), NEW i \in 1 .. Len(bars),
         NEW book \in Books(p)
  PROVE  LET done == executeSignal(book, p, bars[i], i)
             next == dailyBar(bars, p, book, i)
             signal == onBarClose(p, done.model, bars[i])
         IN /\ next \in Books(p)
            /\ next.cash = done.cash /\ next.position = done.position /\ next.trades = done.trades
            /\ next.curve = Append(done.curve, done.cash + Scale * done.position * bars[i].close)
            /\ IF i = Len(bars) THEN next.pending = NoSignal /\ next.model = done.model
               ELSE next.pending = signal.side /\ next.model = signal.model
<1> DEFINE done == executeSignal(book, p, bars[i], i)
           next == dailyBar(bars, p, book, i)
           signal == onBarClose(p, done.model, bars[i])
           value == done.cash + Scale * done.position * bars[i].close
           days == done.exposure + (IF done.position > 0 THEN 1 ELSE 0)
           valued == [done EXCEPT !.curve = Append(done.curve, value), !.exposure = days,
                                  !.pending = NoSignal]
           signalled == [valued EXCEPT !.pending = signal.side, !.model = signal.model]
<1>1. i \in Nat /\ bars[i] \in Bar /\ bars[i].close \in Int
  <2>1. i \in Nat /\ bars[i] \in Bar OBVIOUS
  <2> QED BY <2>1 DEF Bar
<1>2. done \in Books(p) BY <1>1, Executed
<1>3. next = IF i = Len(bars) THEN valued ELSE signalled
  BY DEF dailyBar, Once
<1> HIDE DEF done, next
<1>4. /\ done.cash \in Int /\ done.position \in Int /\ done.exposure \in Int
      /\ done.curve \in Seq(Int) /\ done.model \in Models(p)
  BY <1>2 DEF Books
<1>5. value \in Int
  <2>1. Scale * done.position * bars[i].close \in Int BY <1>1, <1>4 DEF Money
  <2> QED BY <1>4, <2>1
<1>6. days \in Int BY <1>4
<1>7. signal.model \in Models(p) /\ signal.side \in Signal BY <1>1, <1>4, SignalTyped
<1> HIDE DEF value, days, signal
<1>8. Append(done.curve, value) \in Seq(Int) BY <1>4, <1>5
<1>9. /\ valued \in Books(p) /\ valued.cash = done.cash /\ valued.position = done.position
      /\ valued.trades = done.trades /\ valued.curve = Append(done.curve, value)
      /\ valued.pending = NoSignal /\ valued.model = done.model
  BY <1>2, <1>6, <1>8 DEF Books, Signal
<1>10. /\ signalled \in Books(p) /\ signalled.cash = done.cash
       /\ signalled.position = done.position
       /\ signalled.trades = done.trades /\ signalled.curve = Append(done.curve, value)
       /\ signalled.pending = signal.side /\ signalled.model = signal.model
  <2> HIDE DEF valued
  <2>1. signalled \in Books(p) BY <1>7, <1>9 DEF Books
  <2>2. /\ signalled.cash = valued.cash /\ signalled.position = valued.position
        /\ signalled.trades = valued.trades /\ signalled.curve = valued.curve
        /\ signalled.pending = signal.side /\ signalled.model = signal.model
    BY <1>9 DEF Books
  <2> QED BY <1>9, <2>1, <2>2
<1> HIDE DEF valued, signalled
<1>11. CASE i = Len(bars)
  <2>1. next = valued BY <1>3, <1>11
  <2> QED BY <1>9, <1>11, <2>1 DEF done, next, value, signal
<1>12. CASE i # Len(bars)
  <2>1. next = signalled BY <1>3, <1>12
  <2> QED BY <1>10, <1>12, <2>1 DEF done, next, value, signal
<1> QED BY <1>11, <1>12

dailySteps(bars, p) ==
  [x \in Books(p) \X (1 .. Len(bars)) |-> dailyBar(bars, p, x[1], x[2])]

\* run_backtest() as a course over the bars.
LEMMA DailyFold ==
  ASSUME Money, NEW p, p.quantity \in Int, NEW bars \in Seq(Bar)
  PROVE  \E h : /\ Course(h, Books(p), dailySteps(bars, p), newBook, Len(bars))
                /\ runBacktest(bars, p) = h[Len(bars)]
<1>1. PICK n \in Nat : n = Len(bars) OBVIOUS
<1> DEFINE F == dailySteps(bars, p)
           days == [i \in 1 .. Len(bars) |-> i]
           E(g) == g = [u \in SUBSET (DOMAIN days) |->
                          IF u = {} THEN newBook
                          ELSE dailyBar(bars, p, g[u \ {Max(u)}], days[Max(u)])]
           it == CHOOSE g : E(g)
<1>2. DOMAIN days = 1 .. n /\ \A i \in 1 .. n : days[i] = i BY <1>1
<1>3. runBacktest(bars, p) = it[DOMAIN days] BY DEF runBacktest, FoldLeft, MapThenFoldSet
<1> HIDE DEF days
<1>4. \A x \in Books(p), i \in 1 .. n : F[<<x, i>>] = dailyBar(bars, p, x, i)
  BY <1>1 DEF dailySteps
<1>5. F \in [Books(p) \X (1 .. n) -> Books(p)] BY <1>1, DailyBar DEF dailySteps
<1>6. newBook \in Books(p)
  <2>1. newModel \in Models(p) BY DEF newModel, Models
  <2>2. Scale * InitialCash \in Int BY DEF Money
  <2> QED BY <2>1, <2>2 DEF newBook, Books, Signal
<1> HIDE DEF F, E
<1>7. PICK g : Folded(g, Books(p), F, newBook, 1 .. n) BY <1>5, <1>6, FoldedExists
<1>8. E(g)
  <2>1. ASSUME NEW u \in SUBSET (1 .. n), u # {}
        PROVE  g[u] = dailyBar(bars, p, g[u \ {Max(u)}], days[Max(u)])
    <3>1. Max(u) \in 1 .. n BY <2>1, Greatest
    <3>2. g[u \ {Max(u)}] \in Books(p) /\ g[u] = F[<<g[u \ {Max(u)}], Max(u)>>]
      BY <1>7, <2>1 DEF Folded
    <3> QED BY <1>2, <1>4, <3>1, <3>2
  <2>2. g = [u \in SUBSET (1 .. n) |-> g[u]] /\ g[{}] = newBook BY <1>7 DEF Folded
  <2>3. g = [u \in SUBSET (1 .. n) |->
               IF u = {} THEN newBook
               ELSE dailyBar(bars, p, g[u \ {Max(u)}], days[Max(u)])]
    BY <2>1, <2>2
  <2> QED BY <1>2, <2>3 DEF E
<1>9. E(it) BY <1>8
<1> HIDE DEF it
<1>10. it[{}] = newBook BY <1>9 DEF E
<1>11. ASSUME NEW i \in 1 .. n, it[1 .. i - 1] \in Books(p)
       PROVE  it[1 .. i] = F[<<it[1 .. i - 1], i>>]
  <2>1. i \in Nat /\ i > 0 /\ (1 .. i) \in SUBSET (1 .. n) /\ i \in 1 .. i OBVIOUS
  <2>2. Max(1 .. i) = i /\ (1 .. i) \ {Max(1 .. i)} = 1 .. i - 1 BY <2>1, GreatestOf
  <2>3. it[1 .. i] = dailyBar(bars, p, it[(1 .. i) \ {Max(1 .. i)}], days[Max(1 .. i)])
    BY <1>2, <1>9, <2>1 DEF E
  <2>4. PICK x \in Books(p) : x = it[1 .. i - 1] BY <1>11
  <2>5. it[1 .. i] = dailyBar(bars, p, x, i)
    <3>1. days[Max(1 .. i)] = i BY <1>2, <2>2
    <3>2. it[(1 .. i) \ {Max(1 .. i)}] = x BY <2>2, <2>4
    <3> QED BY <2>3, <3>1, <3>2
  <2>6. F[<<x, i>>] = dailyBar(bars, p, x, i) BY <1>4
  <2> QED BY <2>4, <2>5, <2>6
<1> DEFINE h == [i \in 0 .. n |-> it[1 .. i]]
<1>12. Course(h, Books(p), F, newBook, n) BY <1>5, <1>6, <1>10, <1>11, FoldRuns
<1>13. h[n] = runBacktest(bars, p) BY <1>2, <1>3
<1> QED BY <1>1, <1>12, <1>13 DEF F

(***************************************************************************)
(* Round trips of a daily run                                              *)
(***************************************************************************)

\* A flat account has what it began with and its round trips; one that holds has
\* paid for the last purchase besides.
Paid(book, quantity) ==
  \E t \in Trade :
    /\ paired(book.trades).open = <<t>> /\ t.quantity = quantity
    /\ book.cash = Scale * InitialCash + total(paired(book.trades).pnls)
                   - (t.quantity * t.price + t.fee)

Balanced(p, book) ==
  \/ /\ book.position = 0
     /\ book.cash = Scale * InitialCash + total(paired(book.trades).pnls)
  \/ book.position = p.quantity /\ p.quantity > 0 /\ Paid(book, p.quantity)

\* What the factor model believes, and what it has asked for.
Believed(book) ==
  /\ book.pending = "BUY" => book.model.holding /\ book.position = 0
  /\ book.pending = "SELL" => ~book.model.holding
  /\ book.pending = NoSignal /\ ~book.model.holding => book.position = 0

\* A purchase is held until a sale.
LEMMA BuyPaired ==
  ASSUME NEW trades \in Seq(Trade), NEW t \in Trade, t.side = "BUY"
  PROVE  /\ paired(Append(trades, t)).open = <<t>>
         /\ paired(Append(trades, t)).pnls = paired(trades).pnls
<1>1. paired(trades) \in Rounds /\ paired(Append(trades, t)) = pairTrade(paired(trades), t)
  BY PairedAppend
<1>2. pairTrade(paired(trades), t) = [open |-> <<t>>, pnls |-> paired(trades).pnls]
  BY <1>1, PairTyped
<1> QED BY <1>1, <1>2

\* A sale closes the purchase that is held, at its gain less both fees.
LEMMA SalePaired ==
  ASSUME NEW trades \in Seq(Trade), NEW t \in Trade, t.side = "SELL", NEW bought \in Trade,
         paired(trades).open = <<bought>>, t.quantity = bought.quantity
  PROVE  /\ total(paired(trades).pnls) \in Int
         /\ total(paired(Append(trades, t)).pnls) =
              total(paired(trades).pnls) + t.quantity * t.price - t.fee
              - (bought.quantity * bought.price + bought.fee)
<1> DEFINE pnl == (t.price - bought.price) * t.quantity - t.fee - bought.fee
<1>1. paired(trades) \in Rounds /\ paired(Append(trades, t)) = pairTrade(paired(trades), t)
  BY PairedAppend
<1>2. paired(trades).open # <<>> /\ paired(trades).open[1] = bought OBVIOUS
<1>3. pairTrade(paired(trades), t) = [open |-> <<>>, pnls |-> Append(paired(trades).pnls, pnl)]
  BY <1>1, <1>2, PairTyped
<1>4. /\ t.price \in Int /\ bought.price \in Int /\ t.quantity \in Int /\ t.fee \in Int
      /\ bought.fee \in Int
  BY DEF Trade
<1>5. pnl = t.quantity * t.price - t.fee - (bought.quantity * bought.price + bought.fee)
  <2>1. \A a, b, q \in Int : (a - b) * q = q * a - q * b OBVIOUS
  <2>2. (t.price - bought.price) * t.quantity = t.quantity * t.price - t.quantity * bought.price
    BY <1>4, <2>1
  <2>3. t.quantity * t.price \in Int /\ t.quantity * bought.price \in Int BY <1>4
  <2> QED BY <1>4, <2>2, <2>3
<1>6. pnl \in Int BY <1>4
<1>7. paired(trades).pnls \in Seq(Int) BY <1>1 DEF Rounds
<1> HIDE DEF pnl
<1>8. /\ total(paired(trades).pnls) \in Int
      /\ total(Append(paired(trades).pnls, pnl)) = total(paired(trades).pnls) + pnl
  BY <1>6, <1>7, TotalAppend
<1>9. t.quantity * t.price \in Int /\ bought.quantity * bought.price \in Int BY <1>4
<1> QED BY <1>1, <1>3, <1>4, <1>5, <1>8, <1>9

\* The order of the bar before leaves a balanced account, flat unless the model
\* holds.
LEMMA ExecutedBalanced ==
  ASSUME Money, NEW p, p.quantity \in Int, NEW book \in Books(p), NEW bar \in Bar, NEW i \in Nat,
         Balanced(p, book), Believed(book)
  PROVE  LET done == executeSignal(book, p, bar, i)
         IN /\ Balanced(p, done) /\ done.model = book.model /\ done.curve = book.curve
            /\ ~book.model.holding => done.position = 0
<1> DEFINE done == executeSignal(book, p, bar, i)
<1>1. /\ done.model = book.model /\ done.curve = book.curve
      /\ \/ done = book /\ (book.pending = "SELL" => ordered(p, book) <= 0)
         \/ ordered(p, book) > 0 /\ Filled(p, book, i, done)
  BY Executed
<1>2. /\ book.cash \in Int /\ book.position \in Int /\ book.trades \in Seq(Trade)
      /\ book.pending \in Signal
  BY DEF Books
<1>3. Scale * InitialCash \in Int BY DEF Money
<1>4. book.position = 0 \/ (book.position = p.quantity /\ p.quantity > 0) BY DEF Balanced
<1> HIDE DEF done
<1>5. CASE done = book /\ (book.pending = "SELL" => ordered(p, book) <= 0)
  <2>1. book.pending = "SELL" => book.position = 0 BY <1>2, <1>4, <1>5 DEF ordered
  <2>2. ~book.model.holding => book.position = 0 BY <1>2, <2>1 DEF Believed, Signal
  <2> QED BY <1>1, <1>5, <2>2 DEF done
<1>6. CASE ordered(p, book) > 0 /\ Filled(p, book, i, done) /\ book.pending = "BUY"
  <2>1. book.position = 0 /\ book.model.holding BY <1>6 DEF Believed
  <2>2. PICK t \in Trade :
          /\ t.side = "BUY" /\ t.quantity = p.quantity
          /\ done.cash = cashAfter(book.cash, t) /\ done.trades = Append(book.trades, t)
          /\ done.position = book.position + p.quantity
    BY <1>6 DEF Filled, ordered
  <2>3. done.position = p.quantity /\ p.quantity > 0 BY <1>6, <2>1, <2>2 DEF ordered
  <2>4. book.cash = Scale * InitialCash + total(paired(book.trades).pnls)
    BY <2>1, <2>3 DEF Balanced
  <2>5. cashAfter(book.cash, t) = book.cash - (t.quantity * t.price + t.fee)
    BY <1>2, <2>2, CashTyped
  <2>6. /\ paired(done.trades).open = <<t>>
        /\ paired(done.trades).pnls = paired(book.trades).pnls
    BY <1>2, <2>2, BuyPaired
  <2>7. done.cash = Scale * InitialCash + total(paired(done.trades).pnls)
                    - (t.quantity * t.price + t.fee)
    <3>1. total(paired(book.trades).pnls) \in Int BY <1>2, PairedTyped
    <3>2. t.quantity * t.price + t.fee \in Int BY DEF Trade
    <3> QED BY <1>3, <2>2, <2>4, <2>5, <2>6, <3>1, <3>2
  <2>8. Paid(done, p.quantity) BY <2>2, <2>6, <2>7 DEF Paid
  <2> QED BY <1>1, <2>1, <2>3, <2>8 DEF Balanced, done
<1>7. CASE ordered(p, book) > 0 /\ Filled(p, book, i, done) /\ book.pending = "SELL"
  <2>1. book.position = p.quantity /\ p.quantity > 0 /\ ordered(p, book) = p.quantity
    BY <1>2, <1>4, <1>7 DEF ordered
  <2>2. PICK t \in Trade :
          /\ t.side = "SELL" /\ t.quantity = p.quantity
          /\ done.cash = cashAfter(book.cash, t) /\ done.trades = Append(book.trades, t)
          /\ done.position = book.position - p.quantity
    BY <1>7, <2>1 DEF Filled
  <2>3. done.position = 0 BY <1>2, <2>1, <2>2
  <2>4. PICK bought \in Trade :
          /\ paired(book.trades).open = <<bought>> /\ bought.quantity = p.quantity
          /\ book.cash = Scale * InitialCash + total(paired(book.trades).pnls)
                         - (bought.quantity * bought.price + bought.fee)
    BY <2>1 DEF Balanced, Paid
  <2>5. cashAfter(book.cash, t) = book.cash + t.quantity * t.price - t.fee
    BY <1>2, <2>2, CashTyped
  <2>6. /\ total(paired(book.trades).pnls) \in Int
        /\ total(paired(done.trades).pnls) =
             total(paired(book.trades).pnls) + t.quantity * t.price - t.fee
             - (bought.quantity * bought.price + bought.fee)
    BY <1>2, <2>2, <2>4, SalePaired
  <2>7. done.cash = Scale * InitialCash + total(paired(done.trades).pnls)
    <3>1. t.quantity * t.price \in Int /\ t.fee \in Int BY DEF Trade
    <3>2. bought.quantity * bought.price \in Int /\ bought.fee \in Int BY DEF Trade
    <3> QED BY <1>3, <2>2, <2>4, <2>5, <2>6, <3>1, <3>2
  <2> QED BY <1>1, <2>3, <2>7 DEF Balanced, done
<1>8. Filled(p, book, i, done) => book.pending = "BUY" \/ book.pending = "SELL"
  BY DEF Filled, Trade
<1> QED BY <1>1, <1>5, <1>6, <1>7, <1>8

\* A flat account is worth its cash.
Valued(book) ==
  book.curve # <<>> /\ (book.position = 0 => book.curve[Len(book.curve)] = book.cash)

\* A bar keeps the account balanced, as long as the factor model decides.
LEMMA DailyBalanced ==
  ASSUME Money, NEW p, p.quantity \in Int, p.kind = "us_stock_factor",
         NEW bars \in Seq(Bar), NEW i \in 1 .. Len(bars), NEW book \in Books(p),
         Balanced(p, book), Believed(book)
  PROVE  LET next == dailyBar(bars, p, book, i)
         IN next \in Books(p) /\ Balanced(p, next) /\ Believed(next) /\ Valued(next)
<1> DEFINE done == executeSignal(book, p, bars[i], i)
           next == dailyBar(bars, p, book, i)
           signal == onBarClose(p, done.model, bars[i])
<1>1. i \in Nat /\ bars[i] \in Bar /\ bars[i].close \in Int
  <2>1. i \in Nat /\ bars[i] \in Bar OBVIOUS
  <2> QED BY <2>1 DEF Bar
<1>2. done \in Books(p) BY <1>1, Executed
<1>3. /\ Balanced(p, done) /\ done.model = book.model
      /\ ~book.model.holding => done.position = 0
  BY <1>1, ExecutedBalanced
<1>4. /\ next \in Books(p)
      /\ next.cash = done.cash /\ next.position = done.position /\ next.trades = done.trades
      /\ next.curve = Append(done.curve, done.cash + Scale * done.position * bars[i].close)
      /\ IF i = Len(bars) THEN next.pending = NoSignal /\ next.model = done.model
         ELSE next.pending = signal.side /\ next.model = signal.model
  BY DailyBar
<1>5. signal = factor(p, done.model, bars[i]) BY DEF onBarClose
<1> HIDE DEF done, next
<1>6. /\ done.cash \in Int /\ done.position \in Int /\ done.model \in Models(p)
      /\ done.curve \in Seq(Int) /\ next.pending \in Signal
  BY <1>2, <1>4 DEF Books
<1>7. /\ signal.side = "BUY" => ~done.model.holding /\ signal.model.holding
      /\ signal.side = "SELL" => done.model.holding /\ ~signal.model.holding
      /\ signal.side = NoSignal => signal.model.holding = done.model.holding
  BY <1>1, <1>5, <1>6, FactorTyped
<1> HIDE DEF signal
<1>8. Balanced(p, next) BY <1>3, <1>4 DEF Balanced, Paid
<1>9. Believed(next)
  <2>1. CASE i = Len(bars) BY <1>3, <1>4, <2>1 DEF Believed, NoSignal
  <2>2. CASE i # Len(bars) BY <1>3, <1>4, <1>7, <2>2 DEF Believed
  <2> QED BY <2>1, <2>2
<1>10. Valued(next)
  <2> DEFINE value == done.cash + Scale * done.position * bars[i].close
  <2>1. done.position = 0 => value = done.cash
    <3> HAVE done.position = 0
    <3>1. Scale * 0 = 0 /\ 0 * bars[i].close = 0 BY <1>1 DEF Money
    <3> QED BY <1>6, <3>1
  <2>2. value \in Int
    <3>1. Scale * done.position * bars[i].close \in Int BY <1>1, <1>6 DEF Money
    <3> QED BY <1>6, <3>1
  <2> HIDE DEF value
  <2>3. next.curve = Append(done.curve, value) BY <1>4 DEF value
  <2>4. next.curve # <<>> /\ next.curve[Len(next.curve)] = value
    <3>1. ASSUME NEW s \in Seq(Int), NEW x \in Int
          PROVE  Append(s, x) # <<>> /\ Append(s, x)[Len(Append(s, x))] = x
      <4>1. Len(Append(s, x)) = Len(s) + 1 OBVIOUS
      <4>2. Append(s, x)[Len(s) + 1] = x OBVIOUS
      <4>3. Append(s, x) # <<>> BY <4>1
      <4> QED BY <4>1, <4>2, <4>3
    <3> QED BY <1>6, <2>2, <2>3, <3>1
  <2> QED BY <1>4, <2>1, <2>4 DEF Valued
<1> QED BY <1>4, <1>8, <1>9, <1>10 DEF next

\* A daily run that ends flat has gained what its round trips add up to.
LEMMA DailyRoundTrips ==
  ASSUME Money, NEW p, p.quantity \in Int, p.kind = "us_stock_factor",
         NEW bars \in Seq(Bar), Len(bars) > 0, runBacktest(bars, p).position = 0
  PROVE  total(roundTrips(runBacktest(bars, p).trades)) = gain(runBacktest(bars, p))
<1>1. PICK n \in Nat : n = Len(bars) OBVIOUS
<1>2. PICK h : Course(h, Books(p), dailySteps(bars, p), newBook, n) /\ runBacktest(bars, p) = h[n]
  BY <1>1, DailyFold
<1> DEFINE V == Books(p)
           F == dailySteps(bars, p)
           S == [i \in 0 .. n |->
                   {b \in V : Balanced(p, b) /\ Believed(b) /\ (i > 0 => Valued(b))}]
<1>3. \A i \in 1 .. n : \A x \in V : F[<<x, i>>] = dailyBar(bars, p, x, i)
  BY <1>1 DEF dailySteps
<1>4. h[0] \in S[0]
  <2>1. h[0] = newBook /\ h[0] \in V BY <1>2 DEF Course
  <2>2. newBook.position = 0 /\ newBook.trades = <<>> /\ newBook.pending = NoSignal
        /\ newBook.cash = Scale * InitialCash
    BY DEF newBook
  <2>3. total(paired(newBook.trades).pnls) = 0 BY <2>2, PairedEmpty, TotalEmpty DEF noRounds
  <2>4. Scale * InitialCash \in Int BY DEF Money
  <2>5. newBook.cash = Scale * InitialCash + total(paired(newBook.trades).pnls)
    BY <2>2, <2>3, <2>4
  <2>6. Balanced(p, newBook) BY <2>2, <2>5 DEF Balanced
  <2>7. Believed(newBook) BY <2>2 DEF Believed, NoSignal
  <2> QED BY <2>1, <2>6, <2>7
<1>5. \A i \in 0 + 1 .. n : \A x \in V : x \in S[i - 1] => F[<<x, i>>] \in S[i]
  <2> TAKE i \in 0 + 1 .. n
  <2> TAKE x \in V
  <2> HAVE x \in S[i - 1]
  <2>1. i \in 1 .. n /\ i - 1 \in 0 .. n /\ i \in 0 .. n OBVIOUS
  <2>2. Balanced(p, x) /\ Believed(x) BY <2>1
  <2>3. LET next == dailyBar(bars, p, x, i)
        IN next \in Books(p) /\ Balanced(p, next) /\ Believed(next) /\ Valued(next)
    BY <1>1, <2>1, <2>2, DailyBalanced
  <2> QED BY <1>3, <2>1, <2>3
<1>6. h[n] \in S[n]
  <2> HIDE DEF S, V, F
  <2>1. Course(h, V, F, newBook, n) BY <1>2 DEF V, F
  <2>2. \A i \in 0 .. n : h[i] \in S[i] BY <1>4, <1>5, <2>1, CourseWithin
  <2> QED BY <2>2
<1> DEFINE r == h[n]
<1>7. n \in 0 .. n /\ n > 0 BY <1>1
<1>8. r \in Books(p) /\ Balanced(p, r) /\ Valued(r) BY <1>6, <1>7
<1> HIDE DEF r
<1>9. r.position = 0 BY <1>2 DEF r
<1>10. /\ r.curve[Len(r.curve)] = r.cash
       /\ r.cash = Scale * InitialCash + total(roundTrips(r.trades))
  <2>1. r.curve[Len(r.curve)] = r.cash BY <1>8, <1>9 DEF Valued
  <2>2. r.cash = Scale * InitialCash + total(paired(r.trades).pnls)
    BY <1>8, <1>9 DEF Balanced
  <2> QED BY <2>1, <2>2 DEF roundTrips
<1>11. total(roundTrips(r.trades)) \in Int /\ Scale * InitialCash \in Int
  <2>1. r.trades \in Seq(Trade) BY <1>8 DEF Books
  <2> QED BY <2>1, PairedTyped DEF roundTrips, Money
<1>12. total(roundTrips(r.trades)) = gain(r) BY <1>10, <1>11 DEF gain
<1> QED BY <1>2, <1>12 DEF r

(***************************************************************************)
(* What a daily run knew                                                   *)
(***************************************************************************)

\* A new point leaves the curve before it.
LEMMA CurveKept ==
  ASSUME NEW s \in Seq(Int), NEW x \in Int, NEW j \in Nat, j <= Len(s)
  PROVE  SubSeq(Append(s, x), 1, j) = SubSeq(s, 1, j)
<1>1. Append(s, x) \in Seq(Int) /\ Len(Append(s, x)) = Len(s) + 1 OBVIOUS
<1>2. \A i \in 1 .. j : Append(s, x)[i] = s[i] OBVIOUS
<1>3. SubSeq(s, 1, j) \in Seq(Int) /\ Len(SubSeq(s, 1, j)) = j OBVIOUS
<1>4. SubSeq(Append(s, x), 1, j) \in Seq(Int) /\ Len(SubSeq(Append(s, x), 1, j)) = j BY <1>1
<1>5. \A i \in 1 .. j : SubSeq(s, 1, j)[i] = s[i] OBVIOUS
<1>6. \A i \in 1 .. j : SubSeq(Append(s, x), 1, j)[i] = Append(s, x)[i] BY <1>1
<1> QED BY <1>2, <1>3, <1>4, <1>5, <1>6

\* A trade on a later bar leaves the trades before it.
LEMMA TradesKept ==
  ASSUME NEW s \in Seq(Trade), NEW t \in Trade, NEW j \in Nat, t.bar > j
  PROVE  tradesUntil(Append(s, t), j) = tradesUntil(s, j)
<1> DEFINE r == Append(s, t)
           n == Len(s) + 1
<1>1. /\ DOMAIN r = 1 .. n /\ DOMAIN s = 1 .. n - 1 /\ r[n] = t /\ n \in Nat
      /\ \A i \in 1 .. n - 1 : r[i] = s[i]
  OBVIOUS
<1>2. t.bar \in Int BY DEF Trade
<1> HIDE DEF r, n
<1>3. {m \in DOMAIN r : r[m].bar <= j} = {m \in DOMAIN s : s[m].bar <= j}
  <2>1. ASSUME NEW m \in DOMAIN r, r[m].bar <= j PROVE m \in DOMAIN s /\ s[m].bar <= j
    <3>1. m # n BY <1>1, <1>2, <2>1
    <3>2. m \in 1 .. n - 1 BY <1>1, <3>1
    <3> QED BY <1>1, <2>1, <3>2
  <2>2. ASSUME NEW m \in DOMAIN s, s[m].bar <= j PROVE m \in DOMAIN r /\ r[m].bar <= j
    BY <1>1, <2>2
  <2> QED BY <2>1, <2>2
<1>4. \A m \in DOMAIN s : r[m] = s[m] BY <1>1
<1>5. {<<i, r[i]>> : i \in {m \in DOMAIN r : r[m].bar <= j}} =
      {<<i, s[i]>> : i \in {m \in DOMAIN s : s[m].bar <= j}}
  BY <1>3, <1>4
<1> QED BY <1>5 DEF tradesUntil, r

\* A bar adds one point to the curve and trades only on itself.
LEMMA DailyKept ==
  ASSUME Money, NEW p, p.quantity \in Int, NEW bars \in Seq(Bar), NEW i \in 1 .. Len(bars),
         NEW book \in Books(p), Len(book.curve) = i - 1
  PROVE  /\ Len(dailyBar(bars, p, book, i).curve) = i
         /\ \A j \in 0 .. i - 1 : until(dailyBar(bars, p, book, i), j) = until(book, j)
<1> DEFINE done == executeSignal(book, p, bars[i], i)
           next == dailyBar(bars, p, book, i)
           value == done.cash + Scale * done.position * bars[i].close
<1>1. i \in Nat /\ bars[i] \in Bar /\ bars[i].close \in Int
  <2>1. i \in Nat /\ bars[i] \in Bar OBVIOUS
  <2> QED BY <2>1 DEF Bar
<1>2. /\ done \in Books(p) /\ done.curve = book.curve
      /\ done = book \/ Filled(p, book, i, done)
  BY <1>1, Executed
<1>3. next.trades = done.trades /\ next.curve = Append(done.curve, value) BY DailyBar
<1> HIDE DEF done, next
<1>4. value \in Int
  <2>1. done.cash \in Int /\ done.position \in Int BY <1>2 DEF Books
  <2>2. Scale * done.position * bars[i].close \in Int BY <1>1, <2>1 DEF Money
  <2> QED BY <2>1, <2>2
<1> HIDE DEF value
<1>5. book.curve \in Seq(Int) /\ book.trades \in Seq(Trade) BY DEF Books
<1>6. next.curve = Append(book.curve, value) BY <1>2, <1>3
<1>7. Len(next.curve) = i BY <1>1, <1>4, <1>5, <1>6
<1>8. ASSUME NEW j \in 0 .. i - 1 PROVE until(next, j) = until(book, j)
  <2>0. j \in Nat /\ j <= Len(book.curve) BY <1>1
  <2>1. SubSeq(next.curve, 1, j) = SubSeq(book.curve, 1, j)
    BY <1>4, <1>5, <1>6, <2>0, CurveKept
  <2>2. tradesUntil(next.trades, j) = tradesUntil(book.trades, j)
    <3>1. CASE done = book BY <1>3, <3>1
    <3>2. CASE Filled(p, book, i, done)
      <4>1. PICK t \in Trade : t.bar = i /\ done.trades = Append(book.trades, t)
        BY <3>2 DEF Filled
      <4>2. t.bar > j BY <1>1, <2>0, <4>1
      <4>3. tradesUntil(Append(book.trades, t), j) = tradesUntil(book.trades, j)
        BY <1>5, <2>0, <4>2, TradesKept
      <4> QED BY <1>3, <4>1, <4>3
    <3> QED BY <1>2, <3>1, <3>2
  <2> QED BY <2>1, <2>2 DEF until
<1> QED BY <1>7, <1>8 DEF next

\* The curve has a point for each bar so far.
LEMMA DailyLength ==
  ASSUME Money, NEW p, p.quantity \in Int, NEW bars \in Seq(Bar), NEW n \in Nat, n = Len(bars),
         NEW h, Course(h, Books(p), dailySteps(bars, p), newBook, n)
  PROVE  \A i \in 0 .. n : h[i] \in Books(p) /\ Len(h[i].curve) = i
<1> DEFINE V == Books(p)
           F == dailySteps(bars, p)
           L == [i \in 0 .. n |-> {b \in V : Len(b.curve) = i}]
<1>1. \A i \in 1 .. n : \A x \in V :
        /\ F[<<x, i>>] = dailyBar(bars, p, x, i) /\ dailyBar(bars, p, x, i) \in V
        /\ Len(x.curve) = i - 1 => Len(dailyBar(bars, p, x, i).curve) = i
  BY DailyBar, DailyKept DEF dailySteps
<1>2. h[0] \in L[0]
  <2>1. h[0] = newBook /\ Len(newBook.curve) = 0 /\ h[0] \in V BY DEF Course, newBook
  <2> QED BY <2>1
<1>3. \A i \in 0 + 1 .. n : \A x \in V : x \in L[i - 1] => F[<<x, i>>] \in L[i]
  <2> TAKE i \in 0 + 1 .. n
  <2> TAKE x \in V
  <2> HAVE x \in L[i - 1]
  <2>1. i \in 1 .. n /\ i \in 0 .. n /\ i - 1 \in 0 .. n OBVIOUS
  <2>2. Len(x.curve) = i - 1 BY <2>1
  <2> QED BY <1>1, <2>1, <2>2
<1>4. \A i \in 0 .. n : h[i] \in L[i]
  <2> HIDE DEF L, V, F
  <2>1. Course(h, V, F, newBook, n) BY DEF V, F
  <2> QED BY <1>2, <1>3, <2>1, CourseWithin
<1> QED BY <1>4

\* From bar j on, a run adds to what it had done and changes none of it.
LEMMA DailyPast ==
  ASSUME Money, NEW p, p.quantity \in Int, NEW bars \in Seq(Bar), NEW n \in Nat, n = Len(bars),
         NEW j \in 0 .. n, NEW h, Course(h, Books(p), dailySteps(bars, p), newBook, n)
  PROVE  until(h[n], j) = until(h[j], j)
<1> DEFINE V == Books(p)
           F == dailySteps(bars, p)
           S == [i \in 0 .. n |-> {b \in V : Len(b.curve) = i /\ until(b, j) = until(h[j], j)}]
<1>1. \A i \in 1 .. n : \A x \in V :
        F[<<x, i>>] = dailyBar(bars, p, x, i) /\ dailyBar(bars, p, x, i) \in V
  BY DailyBar DEF dailySteps
<1>2. \A i \in 1 .. n : \A x \in V : Len(x.curve) = i - 1 =>
        /\ Len(dailyBar(bars, p, x, i).curve) = i
        /\ \A k \in 0 .. i - 1 : until(dailyBar(bars, p, x, i), k) = until(x, k)
  BY DailyKept
<1>3. h[j] \in S[j] BY DailyLength
<1>4. \A i \in j + 1 .. n : \A x \in V : x \in S[i - 1] => F[<<x, i>>] \in S[i]
  <2> TAKE i \in j + 1 .. n
  <2> TAKE x \in V
  <2> HAVE x \in S[i - 1]
  <2>1. i \in 1 .. n /\ i \in 0 .. n /\ i - 1 \in 0 .. n /\ j \in 0 .. i - 1 OBVIOUS
  <2>2. Len(x.curve) = i - 1 /\ until(x, j) = until(h[j], j) BY <2>1
  <2>3. dailyBar(bars, p, x, i) \in V /\ F[<<x, i>>] = dailyBar(bars, p, x, i) BY <1>1, <2>1
  <2>4. /\ Len(dailyBar(bars, p, x, i).curve) = i
        /\ until(dailyBar(bars, p, x, i), j) = until(x, j)
    BY <1>2, <2>1, <2>2
  <2> QED BY <2>1, <2>2, <2>3, <2>4
<1>5. h[n] \in S[n]
  <2> HIDE DEF S, V, F
  <2>1. Course(h, V, F, newBook, n) BY DEF V, F
  <2>2. \A i \in j .. n : h[i] \in S[i] BY <1>3, <1>4, <2>1, CourseWithin
  <2> QED BY <2>2
<1> QED BY <1>5

\* Bars that agree up to j give daily runs that agree up to j.
LEMMA DailyBlind ==
  ASSUME Money, NEW p, p.quantity \in Int, NEW a \in Seq(Bar), NEW b \in Seq(Bar),
         Len(a) = Len(b), NEW j \in 0 .. Len(a), \A i \in 1 .. j : a[i] = b[i]
  PROVE  until(runBacktest(a, p), j) = until(runBacktest(b, p), j)
<1>1. PICK n \in Nat : n = Len(a) /\ n = Len(b) OBVIOUS
<1>2. PICK f : Course(f, Books(p), dailySteps(a, p), newBook, n) /\ runBacktest(a, p) = f[n]
  BY <1>1, DailyFold
<1>3. PICK g : Course(g, Books(p), dailySteps(b, p), newBook, n) /\ runBacktest(b, p) = g[n]
  BY <1>1, DailyFold
<1>4. ASSUME NEW i \in 1 .. j, NEW x \in Books(p)
      PROVE  dailySteps(a, p)[<<x, i>>] = dailySteps(b, p)[<<x, i>>]
  <2>1. a[i] = b[i] /\ i \in 1 .. n BY <1>1
  <2>2. dailyBar(a, p, x, i) = dailyBar(b, p, x, i) BY <1>1, <2>1 DEF dailyBar
  <2> QED BY <1>1, <2>1, <2>2 DEF dailySteps
<1>5. j \in Nat /\ j <= n /\ j \in 0 .. n BY <1>1
<1>6. Course(f, Books(p), dailySteps(a, p), newBook, j) BY <1>2, <1>5 DEF Course
<1>7. Course(g, Books(p), dailySteps(a, p), newBook, j)
  <2>1. /\ g[0] = newBook /\ \A i \in 0 .. j : g[i] \in Books(p)
        /\ \A i \in 1 .. j : g[i] = dailySteps(b, p)[<<g[i - 1], i>>]
    BY <1>3, <1>5 DEF Course
  <2>2. \A i \in 1 .. j : g[i] = dailySteps(a, p)[<<g[i - 1], i>>]
    <3> TAKE i \in 1 .. j
    <3>1. i - 1 \in 0 .. j BY <1>5
    <3> QED BY <1>4, <2>1, <3>1
  <2> QED BY <2>1, <2>2 DEF Course
<1>8. f[j] = g[j]
  <2>1. \A i \in 0 .. j : f[i] = g[i] BY <1>5, <1>6, <1>7, CourseUnique
  <2> QED BY <1>5, <2>1
<1>9. until(f[n], j) = until(f[j], j) BY <1>1, <1>2, <1>5, DailyPast
<1>10. until(g[n], j) = until(g[j], j) BY <1>1, <1>3, <1>5, DailyPast
<1> QED BY <1>2, <1>3, <1>8, <1>9, <1>10

(***************************************************************************)
(* Scores                                                                  *)
(***************************************************************************)

\* Numbers none of which is positive add up to one that is not.
LEMMA TotalOfLosses ==
  ASSUME NEW s \in Seq(Int), \A i \in DOMAIN s : s[i] <= 0
  PROVE  total(s) <= 0
<1>1. PICK n \in Nat : n = Len(s) OBVIOUS
<1>2. PICK h : Course(h, Int, adding(s), 0, n) /\ total(s) = h[n] BY <1>1, TotalFold
<1> DEFINE V == Int
           F == adding(s)
           base == 0
           S == [i \in 0 .. n |-> {x \in Int : x <= 0}]
<1>3. h[0] \in S[0] BY <1>2 DEF Course
<1>4. \A i \in 0 + 1 .. n : \A x \in V : x \in S[i - 1] => F[<<x, i>>] \in S[i]
  <2> TAKE i \in 0 + 1 .. n
  <2> TAKE x \in V
  <2> HAVE x \in S[i - 1]
  <2>1. i \in 1 .. n /\ i \in 0 .. n /\ i - 1 \in 0 .. n /\ i \in DOMAIN s BY <1>1
  <2>2. F[<<x, i>>] = x + s[i] /\ s[i] \in Int /\ s[i] <= 0 /\ x <= 0 BY <1>1, <2>1 DEF adding
  <2> HIDE DEF F
  <2> QED BY <2>1, <2>2
<1>5. h[n] \in S[n]
  <2>1. Course(h, V, F, base, n) BY <1>2
  <2> HIDE DEF S, V, F, base
  <2>2. PICK m \in 0 .. n : m = 0 OBVIOUS
  <2>3. h[m] \in S[m] BY <1>3, <2>2
  <2>4. \A i \in m + 1 .. n : \A x \in V : x \in S[i - 1] => F[<<x, i>>] \in S[i] BY <1>4, <2>2
  <2>5. \A i \in m .. n : h[i] \in S[i] BY <2>1, <2>3, <2>4, CourseWithin
  <2> QED BY <2>2, <2>5
<1> QED BY <1>2, <1>5

LEMMA TotalInt ==
  ASSUME NEW s \in Seq(Int)
  PROVE  total(s) \in Int
<1>1. PICK x \in Int : x = 0 OBVIOUS
<1> QED BY <1>1, TotalAppend

LEMMA WinRateTyped ==
  ASSUME NEW pnls \in Seq(Int)
  PROVE  winRate(pnls) \in Int
<1>1. PICK n \in Nat : n = Len(pnls) OBVIOUS
<1>2. winsOf(pnls) \subseteq 1 .. n BY <1>1 DEF winsOf
<1>3. IsFiniteSet(1 .. n) BY FS_Interval
<1>4. Cardinality(winsOf(pnls)) \in Nat
  <2>1. IsFiniteSet(winsOf(pnls)) BY <1>2, <1>3, FS_Subset
  <2> QED BY <2>1, FS_CardinalityType
<1>5. pnls # <<>> => n > 0 BY <1>1
<1>6. n > 0 => (100 * Cardinality(winsOf(pnls))) \div n \in Int BY <1>4
<1> QED BY <1>1, <1>5, <1>6 DEF winRate

LEMMA ProfitFactorTyped ==
  ASSUME NEW pnls \in Seq(Int)
  PROVE  profitFactor(pnls) \in Int
<1> DEFINE won == totalOf(pnls, winsOf(pnls))
           lost == totalOf(pnls, lossesOf(pnls))
           part(some) == [n \in DOMAIN pnls |-> IF n \in some THEN pnls[n] ELSE 0]
<1>1. \A some : part(some) \in Seq(Int) OBVIOUS
<1>2. \A some : totalOf(pnls, some) = total(part(some)) BY DEF totalOf
<1>3. won \in Int /\ lost \in Int BY <1>1, <1>2, TotalInt
<1>4. lost <= 0
  <2>1. DOMAIN part(lossesOf(pnls)) = DOMAIN pnls OBVIOUS
  <2>2. \A n \in DOMAIN pnls : part(lossesOf(pnls))[n] <= 0 BY DEF lossesOf, winsOf
  <2> HIDE DEF part
  <2> QED BY <1>1, <1>2, <2>1, <2>2, TotalOfLosses
<1> HIDE DEF won, lost
<1>5. lost # 0 => won \div (-lost) \in Int BY <1>3, <1>4
<1>6. lost # 0 => Min({10, won \div (-lost)}) \in Int
  <2> HAVE lost # 0
  <2>1. PICK x \in Int : x = won \div (-lost) BY <1>5
  <2>2. Min({10, x}) = IF 10 < x THEN 10 ELSE x BY LesserOf
  <2> QED BY <2>1, <2>2
<1> QED BY <1>6 DEF profitFactor, won, lost

Drawdown == [peak : Int, worst : Int]

drawing(s) == [x \in Drawdown \X (1 .. Len(s)) |-> drawdownPoint(x[1], s[x[2]])]

LEMMA PointTyped ==
  ASSUME NEW acc \in Drawdown, NEW equity \in Int
  PROVE  drawdownPoint(acc, equity) \in Drawdown
<1> DEFINE peak == larger(acc.peak, equity)
           fall == (100 * (peak - equity)) \div peak
           worst == IF peak > 0 THEN larger(acc.worst, fall) ELSE acc.worst
<1>1. acc.peak \in Int /\ acc.worst \in Int BY DEF Drawdown
<1>2. peak \in Int BY <1>1 DEF larger
<1> HIDE DEF peak
<1>3. peak > 0 => fall \in Int BY <1>2
<1> HIDE DEF fall
<1>4. worst \in Int BY <1>1, <1>3 DEF larger
<1>5. drawdownPoint(acc, equity) = [peak |-> peak, worst |-> worst]
  BY DEF drawdownPoint, peak, fall
<1> HIDE DEF worst
<1> QED BY <1>2, <1>4, <1>5 DEF Drawdown

\* The drawdown of a curve with a point is a number.
LEMMA DrawdownTyped ==
  ASSUME NEW s \in Seq(Int), s # <<>>
  PROVE  maxDrawdown(s) \in Int
<1>1. PICK n \in Nat : n = Len(s) OBVIOUS
<1>2. DOMAIN s = 1 .. n /\ s \in [1 .. n -> Int] /\ s[1] \in Int BY <1>1
<1> DEFINE F == drawing(s)
           base == [peak |-> s[1], worst |-> 0]
           E(g) == g = [u \in SUBSET (DOMAIN s) |->
                          IF u = {} THEN base ELSE drawdownPoint(g[u \ {Max(u)}], s[Max(u)])]
           it == CHOOSE g : E(g)
<1>3. maxDrawdown(s) = it[DOMAIN s].worst BY DEF maxDrawdown, FoldLeft, MapThenFoldSet
<1>4. \A x \in Drawdown, i \in 1 .. n : F[<<x, i>>] = drawdownPoint(x, s[i])
  BY <1>1 DEF drawing
<1>5. F \in [Drawdown \X (1 .. n) -> Drawdown] BY <1>1, <1>2, PointTyped DEF drawing
<1>6. base \in Drawdown BY <1>2 DEF Drawdown
<1> HIDE DEF F, E, base
<1>7. PICK g : Folded(g, Drawdown, F, base, 1 .. n) BY <1>5, <1>6, FoldedExists
<1>8. E(g)
  <2>1. ASSUME NEW u \in SUBSET (1 .. n), u # {}
        PROVE  g[u] = drawdownPoint(g[u \ {Max(u)}], s[Max(u)])
    <3>1. Max(u) \in 1 .. n BY <2>1, Greatest
    <3>2. g[u \ {Max(u)}] \in Drawdown /\ g[u] = F[<<g[u \ {Max(u)}], Max(u)>>]
      BY <1>7, <2>1 DEF Folded
    <3> QED BY <1>4, <3>1, <3>2
  <2>2. g = [u \in SUBSET (1 .. n) |-> g[u]] /\ g[{}] = base BY <1>7 DEF Folded
  <2>3. g = [u \in SUBSET (1 .. n) |->
               IF u = {} THEN base ELSE drawdownPoint(g[u \ {Max(u)}], s[Max(u)])]
    BY <2>1, <2>2
  <2> QED BY <1>2, <2>3 DEF E
<1>9. E(it) BY <1>8
<1> HIDE DEF it
<1>10. it[{}] = base BY <1>9 DEF E
<1>11. ASSUME NEW i \in 1 .. n, it[1 .. i - 1] \in Drawdown
       PROVE  it[1 .. i] = F[<<it[1 .. i - 1], i>>]
  <2>1. i \in Nat /\ i > 0 /\ (1 .. i) \in SUBSET (1 .. n) /\ i \in 1 .. i OBVIOUS
  <2>2. Max(1 .. i) = i /\ (1 .. i) \ {Max(1 .. i)} = 1 .. i - 1 BY <2>1, GreatestOf
  <2>3. it[1 .. i] = drawdownPoint(it[(1 .. i) \ {Max(1 .. i)}], s[Max(1 .. i)])
    BY <1>2, <1>9, <2>1 DEF E
  <2> QED BY <1>4, <1>11, <2>2, <2>3
<1> DEFINE h == [i \in 0 .. n |-> it[1 .. i]]
<1>12. Course(h, Drawdown, F, base, n) BY <1>5, <1>6, <1>10, <1>11, FoldRuns
<1>13. h[n] \in Drawdown /\ h[n] = it[1 .. n]
  <2>1. h[n] = it[1 .. n] OBVIOUS
  <2> HIDE DEF h
  <2> QED BY <1>12, <2>1 DEF Course
<1>14. maxDrawdown(s) = h[n].worst BY <1>2, <1>3, <1>13
<1> HIDE DEF h
<1> QED BY <1>13, <1>14 DEF Drawdown

LEMMA DailyResult ==
  ASSUME Money, NEW p, p.quantity \in Int, NEW bars \in Seq(Bar)
  PROVE  runBacktest(bars, p) \in Books(p) /\ Len(runBacktest(bars, p).curve) = Len(bars)
<1>1. PICK n \in Nat : n = Len(bars) OBVIOUS
<1>2. PICK h : Course(h, Books(p), dailySteps(bars, p), newBook, n) /\ runBacktest(bars, p) = h[n]
  BY <1>1, DailyFold
<1>3. \A i \in 0 .. n : h[i] \in Books(p) /\ Len(h[i].curve) = i BY <1>1, <1>2, DailyLength
<1> QED BY <1>1, <1>2, <1>3

\* The score of a run is a number when its Sharpe ratio is.
LEMMA ScoreTyped ==
  ASSUME Money, NEW p, p.quantity \in Int, NEW bars \in Seq(Bar), Len(bars) > 0,
         Sharpe(runBacktest(bars, p).curve) \in Int
  PROVE  selectionScore(runBacktest(bars, p)) \in Int
<1> DEFINE r == runBacktest(bars, p)
           pnls == roundTrips(r.trades)
<1>1. r \in Books(p) /\ Len(r.curve) = Len(bars) BY DailyResult
<1>2. Sharpe(r.curve) \in Int OBVIOUS
<1> HIDE DEF r
<1>3. r.curve \in Seq(Int) /\ r.trades \in Seq(Trade) BY <1>1 DEF Books
<1>4. r.curve # <<>> /\ r.curve[Len(r.curve)] \in Int BY <1>1, <1>3
<1>5. maxDrawdown(r.curve) \in Int BY <1>3, <1>4, DrawdownTyped
<1>6. totalReturn(r.curve) \in Int
  <2> DEFINE cash == Scale * InitialCash
  <2>1. cash \in Int /\ cash > 0 BY DEF Money
  <2>2. totalReturn(r.curve) = (100 * (r.curve[Len(r.curve)] - cash)) \div cash
    BY DEF totalReturn
  <2> HIDE DEF cash
  <2>3. 100 * (r.curve[Len(r.curve)] - cash) \in Int BY <1>4, <2>1
  <2> QED BY <2>1, <2>2, <2>3
<1>7. paired(r.trades) \in Rounds BY <1>3, PairedTyped
<1>8. pnls \in Seq(Int) BY <1>7 DEF roundTrips, Rounds
<1> HIDE DEF pnls
<1>9. winRate(pnls) \in Int /\ profitFactor(pnls) \in Int
  BY <1>8, WinRateTyped, ProfitFactorTyped
<1>10. winRate(pnls) \div 20 + profitFactor(pnls) \in Int BY <1>9
<1>11. selectionScore(r) =
         totalReturn(r.curve) - maxDrawdown(r.curve) + Sharpe(r.curve)
         + (winRate(pnls) \div 20 + profitFactor(pnls))
         - (IF r.trades = <<>> THEN 5 ELSE 0)
  BY DEF selectionScore, Once, pnls
<1>12. (IF r.trades = <<>> THEN 5 ELSE 0) \in Int OBVIOUS
<1>13. selectionScore(r) \in Int BY <1>2, <1>5, <1>6, <1>10, <1>11, <1>12
<1> QED BY <1>13 DEF r

\* One of the candidates has the best score.
LEMMA BestExists ==
  ASSUME NEW n \in Nat \ {0}, NEW s \in [1 .. n -> Int]
  PROVE  firstBest(s) \in 1 .. n
<1> DEFINE Best(k) == \E c \in 1 .. k : \A d \in 1 .. k : s[d] <= s[c]
           T == {k \in 1 .. n : ~Best(k)}
<1>1. T = {}
  <2> SUFFICES ASSUME T # {} PROVE FALSE OBVIOUS
  <2>1. PICK k \in T : \A i \in T : k <= i
    <3>1. T \in SUBSET (0 .. n) OBVIOUS
    <3> HIDE DEF T
    <3> QED BY <3>1, Least
  <2>2. k \in 1 .. n /\ ~Best(k) OBVIOUS
  <2>3. k # 1
    <3>1. 1 \in 1 .. 1 /\ \A d \in 1 .. 1 : s[d] <= s[1] OBVIOUS
    <3>2. Best(1) BY <3>1
    <3> QED BY <2>2, <3>2
  <2>4. k - 1 \in 1 .. n /\ Best(k - 1)
    <3>1. k - 1 \in 1 .. n BY <2>2, <2>3
    <3>2. ~(k <= k - 1) BY <2>2
    <3>3. k - 1 \notin T
      <4> HIDE DEF T
      <4> QED BY <2>1, <3>2
    <3> QED BY <3>1, <3>3
  <2>5. PICK c \in 1 .. k - 1 : \A d \in 1 .. k - 1 : s[d] <= s[c] BY <2>4
  <2>6. s[c] \in Int /\ s[k] \in Int BY <2>2, <2>5
  <2>7. CASE s[k] <= s[c]
    <3>1. ASSUME NEW d \in 1 .. k PROVE s[d] <= s[c]
      <4>1. d # k => d \in 1 .. k - 1 BY <2>2
      <4> QED BY <2>5, <2>7, <4>1
    <3>2. c \in 1 .. k BY <2>2
    <3> QED BY <2>2, <3>1, <3>2
  <2>8. CASE ~(s[k] <= s[c])
    <3>1. ASSUME NEW d \in 1 .. k PROVE s[d] <= s[k]
      <4>1. d # k => d \in 1 .. k - 1 /\ s[d] \in Int BY <2>2
      <4> QED BY <2>5, <2>6, <2>8, <4>1
    <3>2. k \in 1 .. k BY <2>2
    <3> QED BY <2>2, <3>1, <3>2
  <2> QED BY <2>7, <2>8
<1>2. PICK best \in 1 .. n : \A d \in 1 .. n : s[d] <= s[best]
  <2>1. n \in 1 .. n OBVIOUS
  <2> QED BY <1>1, <2>1
<1> DEFINE B == {c \in DOMAIN s : \A d \in DOMAIN s : s[d] <= s[c]}
<1>3. B \in SUBSET (0 .. n) /\ best \in B BY <1>2
<1>4. firstBest(s) = Min(B) BY DEF firstBest
<1>5. B \subseteq 1 .. n OBVIOUS
<1> HIDE DEF B
<1>6. PICK m \in B : \A k \in B : m <= k BY <1>3, Least
<1>7. Min(B) \in B BY <1>6 DEF Min
<1> QED BY <1>4, <1>5, <1>7

\* What the parameters of the strategies have in common.
Parameters ==
  /\ Len(Candidates) \in Nat \ {0} /\ DOMAIN Candidates = 1 .. Len(Candidates)
  /\ \A c \in DOMAIN Candidates : Candidates[c].quantity \in Int

\* The parameters chosen on a window are one of the candidates.
LEMMA ChosenExists ==
  ASSUME Money, Parameters, NEW train \in Seq(Bar), Len(train) > 0,
         \A c \in DOMAIN Candidates : Sharpe(runBacktest(train, Candidates[c]).curve) \in Int
  PROVE  selectParameters(train) \in DOMAIN Candidates
<1> DEFINE scores == [c \in DOMAIN Candidates |-> selectionScore(runBacktest(train, Candidates[c]))]
<1>1. PICK n \in Nat \ {0} : DOMAIN Candidates = 1 .. n BY DEF Parameters
<1>2. ASSUME NEW c \in DOMAIN Candidates
      PROVE  selectionScore(runBacktest(train, Candidates[c])) \in Int
  <2>1. PICK p : p = Candidates[c] OBVIOUS
  <2>2. p.quantity \in Int BY <2>1 DEF Parameters
  <2>3. Sharpe(runBacktest(train, p).curve) \in Int BY <2>1
  <2> QED BY <2>1, <2>2, <2>3, ScoreTyped
<1>3. scores \in [1 .. n -> Int] BY <1>1, <1>2
<1>4. selectParameters(train) = firstBest(scores)
  <2>1. \A c \in DOMAIN Candidates :
          Once(runBacktest(train, Candidates[c]), selectionScore) =
          selectionScore(runBacktest(train, Candidates[c]))
    BY DEF Once
  <2>2. selectParameters(train) =
          firstBest([c \in DOMAIN Candidates |->
                       Once(runBacktest(train, Candidates[c]), selectionScore)])
    BY DEF selectParameters, Once
  <2> QED BY <2>1, <2>2
<1> HIDE DEF scores
<1> QED BY <1>1, <1>3, <1>4, BestExists

(***************************************************************************)
(* The bars of an intraday run                                             *)
(***************************************************************************)

Levels ==
  {StopMultiple, TargetMultiple, Tick, Quantity} \subseteq Int

\* Bars whose prices and ranges are numbers.
IntradayBars(bars) ==
  /\ Len(bars) \in Nat /\ DOMAIN bars = 1 .. Len(bars)
  /\ \A i \in DOMAIN bars :
       /\ bars[i].open \in Int /\ bars[i].close \in Int /\ bars[i].minute \in Int
       /\ AverageRange(closedBars(SubSeq(bars, 1, i), bars[i].minute)) \in Int

Position == [stop : Int, target : Int, since : Int, index : Int]

DayBooks ==
  [cash : Int, position : {<<>>} \cup {<<x>> : x \in Position}, trades : Seq(Trade),
   curve : Seq(Int), exposure : Int]

\* An analysis gives no levels or levels that are numbers.
LEMMA AnalyzeTyped ==
  ASSUME Levels, NEW trend, NEW setup, NEW entry, NEW price \in Int, NEW now,
         AverageRange(closedBars(entry, now)) \in Int
  PROVE  \/ analyzeMultiTimeframe(trend, setup, entry, price, now) = <<>>
         \/ \E level \in [stop : Int, target : Int] :
              analyzeMultiTimeframe(trend, setup, entry, price, now) = <<level>>
<1> DEFINE risk == AverageRange(closedBars(entry, now)) * StopMultiple
           reward == AverageRange(closedBars(entry, now)) * TargetMultiple
           level == [stop |-> price - risk, target |-> price + reward]
<1>1. risk \in Int /\ reward \in Int BY DEF Levels
<1>2. analyzeMultiTimeframe(trend, setup, entry, price, now) \in {<<>>, <<level>>}
  BY DEF analyzeMultiTimeframe
<1> HIDE DEF risk, reward
<1>3. level \in [stop : Int, target : Int] BY <1>1
<1> QED BY <1>2, <1>3

\* A sale at an exit price, on bar i.
Sold(book, i, done) ==
  \E t \in Trade :
    /\ t.side = "SELL" /\ t.quantity = Quantity /\ t.bar = i
    /\ done.cash = cashAfter(book.cash, t) /\ done.trades = Append(book.trades, t)
    /\ done.position = <<>>

\* An exit sells what was held.
LEMMA Leave ==
  ASSUME Money, Levels, NEW book \in DayBooks, NEW price \in Int, NEW minute \in Int, NEW i \in Int
  PROVE  LET done == leave(book, price, minute, i)
         IN /\ done \in DayBooks /\ Sold(book, i, done)
            /\ done.curve = book.curve /\ done.exposure = book.exposure
<1> DEFINE t == fill("SELL", Quantity, price, minute, i)
           done == leave(book, price, minute, i)
<1>1. Quantity \in Int BY DEF Levels
<1>2. t \in Trade
  <2>1. PICK side \in {"BUY", "SELL"} : side = "SELL" OBVIOUS
  <2>2. PICK q \in Int : q = Quantity BY <1>1
  <2>3. fill(side, q, price, minute, i) \in Trade BY TradeTyped
  <2> QED BY <2>1, <2>2, <2>3
<1>3. t.side = "SELL" /\ t.quantity = Quantity /\ t.bar = i BY DEF fill
<1>4. done = [book EXCEPT !.cash = cashAfter(book.cash, t), !.trades = Append(book.trades, t),
                          !.position = <<>>]
  BY DEF leave
<1> HIDE DEF t, done
<1>5. book.cash \in Int /\ book.trades \in Seq(Trade) BY DEF DayBooks
<1>6. cashAfter(book.cash, t) \in Int BY <1>2, <1>5, CashTyped
<1>7. Append(book.trades, t) \in Seq(Trade) BY <1>2, <1>5
<1>8. /\ done \in DayBooks
      /\ done.cash = cashAfter(book.cash, t) /\ done.trades = Append(book.trades, t)
      /\ done.position = <<>> /\ done.curve = book.curve /\ done.exposure = book.exposure
  BY <1>4, <1>6, <1>7 DEF DayBooks
<1>9. Sold(book, i, done) BY <1>2, <1>3, <1>8 DEF Sold
<1> QED BY <1>8, <1>9 DEF done

\* A bar closes the position or leaves the book as it was.
LEMMA Exited ==
  ASSUME Money, Levels, NEW book \in DayBooks, NEW bar, NEW i \in Int,
         bar.close \in Int, bar.minute \in Int
  PROVE  LET done == exited(book, bar, i)
         IN /\ done \in DayBooks /\ done.curve = book.curve /\ done.exposure = book.exposure
            /\ done = book \/ (book.position # <<>> /\ Sold(book, i, done))
<1> DEFINE done == exited(book, bar, i)
           price == checkExit(bar, book.position[1])
<1>1. CASE book.position = <<>> \/ book.position[1].index = i
  <2>1. done = book BY <1>1 DEF exited
  <2> QED BY <2>1
<1>2. CASE ~(book.position = <<>> \/ book.position[1].index = i)
  <2>1. PICK x \in Position : book.position = <<x>> BY <1>2 DEF DayBooks
  <2>2. price = <<>> \/ \E y \in Int : price = <<y>>
    <3>1. x.stop \in Int /\ x.target \in Int /\ book.position[1] = x BY <2>1 DEF Position
    <3>2. price \in {<<>>, <<x.stop>>, <<x.target>>, <<bar.close>>}
      BY <3>1 DEF checkExit
    <3> HIDE DEF price
    <3> QED BY <3>1, <3>2
  <2>3. done = IF price = <<>> THEN book ELSE leave(book, price[1], bar.minute, i)
    BY <1>2 DEF exited
  <2> HIDE DEF price, done
  <2>4. CASE price = <<>> BY <2>3, <2>4 DEF done
  <2>5. CASE price # <<>>
    <3>1. PICK y \in Int : price[1] = y BY <2>2, <2>5
    <3>2. done = leave(book, y, bar.minute, i) BY <2>3, <2>5, <3>1
    <3>3. PICK minute \in Int : minute = bar.minute OBVIOUS
    <3>4. /\ done \in DayBooks /\ Sold(book, i, done)
          /\ done.curve = book.curve /\ done.exposure = book.exposure
      BY <3>2, <3>3, Leave
    <3> QED BY <1>2, <3>4 DEF done
  <2> QED BY <2>4, <2>5
<1> QED BY <1>1, <1>2

\* A purchase at the open of bar i.
Bought(book, i, done) ==
  \E t \in Trade :
    /\ t.side = "BUY" /\ t.quantity = Quantity /\ t.bar = i
    /\ done.cash = cashAfter(book.cash, t) /\ done.trades = Append(book.trades, t)
    /\ done.position # <<>>

\* An entry buys on the next bar or leaves the book as it was.
LEMMA Entered ==
  ASSUME Money, Levels, NEW book \in DayBooks, NEW level \in [stop : Int, target : Int],
         NEW next, NEW i \in Int, next.open \in Int, next.minute \in Int
  PROVE  LET done == enter(book, level, next, i)
         IN /\ done \in DayBooks /\ done.curve = book.curve /\ done.exposure = book.exposure
            /\ done = book \/ Bought(book, i, done)
<1> DEFINE t == fill("BUY", Quantity, next.open, next.minute, i)
           stop == orFallback(level.stop, next.open - Tick)
           target == orFallback(level.target, next.open + Tick)
           x == [stop |-> stop, target |-> target, since |-> next.minute, index |-> i]
           full == [book EXCEPT !.cash = cashAfter(book.cash, t),
                                !.trades = Append(book.trades, t), !.position = <<x>>]
           done == enter(book, level, next, i)
<1>1. Quantity \in Int /\ Tick \in Int BY DEF Levels
<1>2. t \in Trade
  <2>1. PICK side \in {"BUY", "SELL"} : side = "BUY" OBVIOUS
  <2>2. PICK q \in Int : q = Quantity BY <1>1
  <2>3. PICK price \in Int : price = next.open OBVIOUS
  <2>4. PICK minute \in Int : minute = next.minute OBVIOUS
  <2>5. fill(side, q, price, minute, i) \in Trade BY TradeTyped
  <2> QED BY <2>1, <2>2, <2>3, <2>4, <2>5
<1>3. t.side = "BUY" /\ t.quantity = Quantity /\ t.bar = i BY DEF fill
<1>4. x \in Position
  <2>1. stop \in Int /\ target \in Int BY <1>1 DEF orFallback
  <2> HIDE DEF stop, target
  <2> QED BY <2>1 DEF Position
<1>5. done = IF refused(book.cash, t) THEN book ELSE full BY DEF enter
<1> HIDE DEF t, x
<1>6. book.cash \in Int /\ book.trades \in Seq(Trade) BY DEF DayBooks
<1>7. cashAfter(book.cash, t) \in Int BY <1>2, <1>6, CashTyped
<1>8. Append(book.trades, t) \in Seq(Trade) BY <1>2, <1>6
<1>9. <<x>> \in {<<y>> : y \in Position} BY <1>4
<1>10. /\ full \in DayBooks /\ full.curve = book.curve /\ full.exposure = book.exposure
       /\ full.cash = cashAfter(book.cash, t) /\ full.trades = Append(book.trades, t)
       /\ full.position = <<x>>
  BY <1>7, <1>8, <1>9 DEF DayBooks
<1> HIDE DEF full
<1>11. Bought(book, i, full) BY <1>2, <1>3, <1>10 DEF Bought
<1> QED BY <1>5, <1>10, <1>11

Held(book) == IF book.position = <<>> THEN 0 ELSE 1

\* A bar exits or not, values the account, and may enter at the open of the next.
LEMMA IntradayBar ==
  ASSUME Money, Levels, NEW bars, IntradayBars(bars), NEW size, NEW i \in 1 .. Len(bars),
         NEW book \in DayBooks
  PROVE  LET done == exited(book, bars[i], i)
             next == intradayBar(bars, size, book, i)
             value == done.cash + Scale * Held(done) * Quantity * bars[i].close
         IN /\ next \in DayBooks /\ value \in Int /\ next.curve = Append(done.curve, value)
            /\ \/ /\ next.cash = done.cash /\ next.trades = done.trades
                  /\ next.position = done.position
               \/ i < Len(bars) /\ done.position = <<>> /\ Bought(done, i + 1, next)
<1> DEFINE done == exited(book, bars[i], i)
           next == intradayBar(bars, size, book, i)
           value == done.cash + Scale * Held(done) * Quantity * bars[i].close
           held == Held(done)
           days == done.exposure + held
           valued == [done EXCEPT !.curve = Append(done.curve, value), !.exposure = days]
           seen == SubSeq(bars, 1, i)
           level == analyzeMultiTimeframe(resample(seen, group(TrendGroup, size)),
                            resample(seen, group(SetupGroup, size)),
                            seen, bars[i].close, bars[i].minute)
<1>1. /\ i \in Int /\ i \in DOMAIN bars /\ bars[i].close \in Int /\ bars[i].minute \in Int
      /\ AverageRange(closedBars(seen, bars[i].minute)) \in Int
  BY DEF IntradayBars
<1>2. done \in DayBooks BY <1>1, Exited
<1>3. next = IF held = 1 \/ i = Len(bars) \/ level = <<>> THEN valued
             ELSE enter(valued, level[1], bars[i + 1], i + 1)
  BY DEF intradayBar, Held
<1>4. level = <<>> \/ \E x \in [stop : Int, target : Int] : level = <<x>> BY <1>1, AnalyzeTyped
<1> HIDE DEF done, next, level, seen
<1>5. done.cash \in Int /\ done.curve \in Seq(Int) /\ done.exposure \in Int BY <1>2 DEF DayBooks
<1>6. held \in Int /\ (held = 0 \/ held = 1) /\ (held = 0 => done.position = <<>>) BY DEF Held
<1>7. value \in Int
  <2>1. Scale * held * Quantity * bars[i].close \in Int BY <1>1, <1>6 DEF Money, Levels
  <2> QED BY <1>5, <2>1
<1>8. days \in Int BY <1>5, <1>6
<1> HIDE DEF value, held
<1>9. Append(done.curve, value) \in Seq(Int) BY <1>5, <1>7
<1>10. /\ valued \in DayBooks /\ valued.curve = Append(done.curve, value)
       /\ valued.cash = done.cash /\ valued.trades = done.trades
       /\ valued.position = done.position
  <2> HIDE DEF days
  <2> QED BY <1>2, <1>8, <1>9 DEF DayBooks
<1> HIDE DEF valued
<1>11. CASE held = 1 \/ i = Len(bars) \/ level = <<>>
  <2>1. next = valued BY <1>3, <1>11
  <2> QED BY <1>7, <1>10, <2>1 DEF done, next, value, held
<1>12. CASE ~(held = 1 \/ i = Len(bars) \/ level = <<>>)
  <2>1. PICK x \in [stop : Int, target : Int] : level = <<x>> BY <1>4, <1>12
  <2>2. next = enter(valued, x, bars[i + 1], i + 1) BY <1>3, <1>12, <2>1
  <2>3. i < Len(bars) /\ i + 1 \in DOMAIN bars
    <3>1. PICK n \in Nat : n = Len(bars) /\ DOMAIN bars = 1 .. n BY DEF IntradayBars
    <3>2. i \in 1 .. n /\ i # n BY <1>12, <3>1
    <3>3. i < n /\ i + 1 \in 1 .. n BY <3>2
    <3> QED BY <3>1, <3>3
  <2>4. bars[i + 1].open \in Int /\ bars[i + 1].minute \in Int BY <2>3 DEF IntradayBars
  <2>5. PICK k \in Int : k = i + 1 BY <1>1
  <2>6. PICK bar : bar = bars[k] /\ bar.open \in Int /\ bar.minute \in Int BY <2>4, <2>5
  <2>7. next = enter(valued, x, bar, k) BY <2>2, <2>5, <2>6
  <2>8. /\ next \in DayBooks /\ next.curve = valued.curve
        /\ next = valued \/ Bought(valued, k, next)
    BY <1>10, <2>6, <2>7, Entered
  <2>9. Bought(valued, k, next) => Bought(done, i + 1, next) BY <1>10, <2>5 DEF Bought
  <2>10. done.position = <<>> BY <1>6, <1>12
  <2> QED BY <1>7, <1>10, <2>3, <2>8, <2>9, <2>10 DEF done, next, value, held
<1> QED BY <1>11, <1>12

intradaySteps(bars, size) ==
  [x \in DayBooks \X (1 .. Len(bars)) |-> intradayBar(bars, size, x[1], x[2])]

\* run_intraday_backtest() as a course over the merged bars.
LEMMA IntradayFold ==
  ASSUME Money, Levels, NEW tape5m, NEW size, NEW bars, bars = resample(tape5m, size),
         IntradayBars(bars)
  PROVE  \E h : /\ Course(h, DayBooks, intradaySteps(bars, size), newIntradayBook, Len(bars))
                /\ runIntradayBacktest(tape5m, size) = liquidated(h[Len(bars)], bars)
<1>1. PICK n \in Nat : n = Len(bars) BY DEF IntradayBars
<1> DEFINE F == intradaySteps(bars, size)
           numbers == [i \in 1 .. Len(bars) |-> i]
           E(g) == g = [u \in SUBSET (DOMAIN numbers) |->
                          IF u = {} THEN newIntradayBook
                          ELSE intradayBar(bars, size, g[u \ {Max(u)}], numbers[Max(u)])]
           it == CHOOSE g : E(g)
<1>2. DOMAIN numbers = 1 .. n /\ \A i \in 1 .. n : numbers[i] = i BY <1>1
<1>3. runIntradayBacktest(tape5m, size) = liquidated(it[DOMAIN numbers], bars)
  BY DEF runIntradayBacktest, FoldLeft, MapThenFoldSet
<1> HIDE DEF numbers
<1>4. \A x \in DayBooks, i \in 1 .. n : F[<<x, i>>] = intradayBar(bars, size, x, i)
  BY <1>1 DEF intradaySteps
<1>5. F \in [DayBooks \X (1 .. n) -> DayBooks]
  <2>1. \A x \in DayBooks, i \in 1 .. n : intradayBar(bars, size, x, i) \in DayBooks
    BY <1>1, IntradayBar
  <2> QED BY <1>1, <2>1 DEF intradaySteps
<1>6. newIntradayBook \in DayBooks
  <2>1. Scale * InitialCash \in Int BY DEF Money
  <2> QED BY <2>1 DEF newIntradayBook, DayBooks
<1> HIDE DEF F, E
<1>7. PICK g : Folded(g, DayBooks, F, newIntradayBook, 1 .. n) BY <1>5, <1>6, FoldedExists
<1>8. E(g)
  <2>1. ASSUME NEW u \in SUBSET (1 .. n), u # {}
        PROVE  g[u] = intradayBar(bars, size, g[u \ {Max(u)}], numbers[Max(u)])
    <3>1. Max(u) \in 1 .. n BY <2>1, Greatest
    <3>2. g[u \ {Max(u)}] \in DayBooks /\ g[u] = F[<<g[u \ {Max(u)}], Max(u)>>]
      BY <1>7, <2>1 DEF Folded
    <3> QED BY <1>2, <1>4, <3>1, <3>2
  <2>2. g = [u \in SUBSET (1 .. n) |-> g[u]] /\ g[{}] = newIntradayBook BY <1>7 DEF Folded
  <2>3. g = [u \in SUBSET (1 .. n) |->
               IF u = {} THEN newIntradayBook
               ELSE intradayBar(bars, size, g[u \ {Max(u)}], numbers[Max(u)])]
    BY <2>1, <2>2
  <2> QED BY <1>2, <2>3 DEF E
<1>9. E(it) BY <1>8
<1> HIDE DEF it
<1>10. it[{}] = newIntradayBook BY <1>9 DEF E
<1>11. ASSUME NEW i \in 1 .. n, it[1 .. i - 1] \in DayBooks
       PROVE  it[1 .. i] = F[<<it[1 .. i - 1], i>>]
  <2>1. i \in Nat /\ i > 0 /\ (1 .. i) \in SUBSET (1 .. n) /\ i \in 1 .. i OBVIOUS
  <2>2. Max(1 .. i) = i /\ (1 .. i) \ {Max(1 .. i)} = 1 .. i - 1 BY <2>1, GreatestOf
  <2>3. it[1 .. i] = intradayBar(bars, size, it[(1 .. i) \ {Max(1 .. i)}], numbers[Max(1 .. i)])
    BY <1>2, <1>9, <2>1 DEF E
  <2>4. it[1 .. i] = intradayBar(bars, size, it[1 .. i - 1], i) BY <1>2, <2>2, <2>3
  <2> QED BY <1>4, <1>11, <2>4
<1> DEFINE h == [i \in 0 .. n |-> it[1 .. i]]
<1>12. Course(h, DayBooks, F, newIntradayBook, n) BY <1>5, <1>6, <1>10, <1>11, FoldRuns
<1>13. h[n] = it[1 .. n] OBVIOUS
<1>14. runIntradayBacktest(tape5m, size) = liquidated(h[n], bars) BY <1>2, <1>3, <1>13
<1> QED BY <1>1, <1>12, <1>14 DEF F

(***************************************************************************)
(* Round trips of an intraday run                                          *)
(***************************************************************************)

BalancedDay(book) ==
  IF book.position = <<>>
  THEN book.cash = Scale * InitialCash + total(paired(book.trades).pnls)
  ELSE Paid(book, Quantity)

\* An exit leaves a flat account balanced.
LEMMA SoldBalanced ==
  ASSUME Money, NEW book \in DayBooks, Paid(book, Quantity), NEW i, NEW done, Sold(book, i, done)
  PROVE  BalancedDay(done)
<1>1. book.cash \in Int /\ book.trades \in Seq(Trade) BY DEF DayBooks
<1>2. PICK t \in Trade :
        /\ t.side = "SELL" /\ t.quantity = Quantity
        /\ done.cash = cashAfter(book.cash, t) /\ done.trades = Append(book.trades, t)
        /\ done.position = <<>>
  BY DEF Sold
<1>3. PICK bought \in Trade :
        /\ paired(book.trades).open = <<bought>> /\ bought.quantity = Quantity
        /\ book.cash = Scale * InitialCash + total(paired(book.trades).pnls)
                       - (bought.quantity * bought.price + bought.fee)
  BY DEF Paid
<1>4. done.cash = book.cash + t.quantity * t.price - t.fee BY <1>1, <1>2, CashTyped
<1>5. /\ total(paired(book.trades).pnls) \in Int
      /\ total(paired(done.trades).pnls) =
           total(paired(book.trades).pnls) + t.quantity * t.price - t.fee
           - (bought.quantity * bought.price + bought.fee)
  <2>1. t.quantity = bought.quantity BY <1>2, <1>3
  <2> QED BY <1>1, <1>2, <1>3, <2>1, SalePaired
<1>6. done.cash = Scale * InitialCash + total(paired(done.trades).pnls)
  <2>1. t.quantity * t.price \in Int /\ t.fee \in Int BY DEF Trade
  <2>2. bought.quantity * bought.price \in Int /\ bought.fee \in Int BY DEF Trade
  <2>3. Scale * InitialCash \in Int BY DEF Money
  <2> QED BY <1>3, <1>4, <1>5, <2>1, <2>2, <2>3
<1> QED BY <1>2, <1>6 DEF BalancedDay

\* An entry leaves an account that has paid for it.
LEMMA BoughtBalanced ==
  ASSUME Money, NEW book \in DayBooks, book.position = <<>>, BalancedDay(book), NEW i, NEW done,
         Bought(book, i, done)
  PROVE  BalancedDay(done)
<1>1. book.cash \in Int /\ book.trades \in Seq(Trade) BY DEF DayBooks
<1>2. PICK t \in Trade :
        /\ t.side = "BUY" /\ t.quantity = Quantity
        /\ done.cash = cashAfter(book.cash, t) /\ done.trades = Append(book.trades, t)
        /\ done.position # <<>>
  BY DEF Bought
<1>3. book.cash = Scale * InitialCash + total(paired(book.trades).pnls) BY DEF BalancedDay
<1>4. done.cash = book.cash - (t.quantity * t.price + t.fee) BY <1>1, <1>2, CashTyped
<1>5. /\ paired(done.trades).open = <<t>>
      /\ paired(done.trades).pnls = paired(book.trades).pnls
  BY <1>1, <1>2, BuyPaired
<1>6. done.cash = Scale * InitialCash + total(paired(done.trades).pnls)
                  - (t.quantity * t.price + t.fee)
  <2>1. total(paired(book.trades).pnls) \in Int BY <1>1, PairedTyped
  <2>2. t.quantity * t.price + t.fee \in Int BY DEF Trade
  <2>3. Scale * InitialCash \in Int BY DEF Money
  <2> QED BY <1>3, <1>4, <1>5, <2>1, <2>2, <2>3
<1>7. Paid(done, Quantity) BY <1>2, <1>5, <1>6 DEF Paid
<1> QED BY <1>2, <1>7 DEF BalancedDay

\* A bar keeps the account balanced.
LEMMA IntradayBalanced ==
  ASSUME Money, Levels, NEW bars, IntradayBars(bars), NEW size, NEW i \in 1 .. Len(bars),
         NEW book \in DayBooks, BalancedDay(book)
  PROVE  LET next == intradayBar(bars, size, book, i)
         IN /\ BalancedDay(next)
            /\ i = Len(bars) /\ next.position = <<>> => next.curve[Len(next.curve)] = next.cash
<1> DEFINE done == exited(book, bars[i], i)
           next == intradayBar(bars, size, book, i)
           value == done.cash + Scale * Held(done) * Quantity * bars[i].close
<1>1. i \in Int /\ bars[i].close \in Int /\ bars[i].minute \in Int BY DEF IntradayBars
<1>2. /\ done \in DayBooks /\ done.curve = book.curve
      /\ done = book \/ (book.position # <<>> /\ Sold(book, i, done))
  BY <1>1, Exited
<1>3. /\ next \in DayBooks /\ value \in Int /\ next.curve = Append(done.curve, value)
      /\ \/ /\ next.cash = done.cash /\ next.trades = done.trades
            /\ next.position = done.position
         \/ i < Len(bars) /\ done.position = <<>> /\ Bought(done, i + 1, next)
  BY IntradayBar
<1>4. done.position = <<>> => value = done.cash
  <2> HAVE done.position = <<>>
  <2>1. Held(done) = 0 BY DEF Held
  <2>2. Scale * 0 * Quantity * bars[i].close = 0 BY <1>1 DEF Money, Levels
  <2>3. done.cash \in Int BY <1>2 DEF DayBooks
  <2> HIDE DEF done
  <2> QED BY <2>1, <2>2, <2>3
<1> HIDE DEF done, next, value
<1>5. BalancedDay(done)
  <2>1. CASE done = book BY <2>1
  <2>2. CASE book.position # <<>> /\ Sold(book, i, done)
    <3>1. Paid(book, Quantity) BY <2>2 DEF BalancedDay
    <3> QED BY <2>2, <3>1, SoldBalanced
  <2> QED BY <1>2, <2>1, <2>2
<1>6. done.curve \in Seq(Int) BY <1>2 DEF DayBooks
<1>7. next.curve[Len(next.curve)] = value
  <2>1. PICK s \in Seq(Int) : s = done.curve BY <1>6
  <2>2. PICK x \in Int : x = value BY <1>3
  <2>3. Len(Append(s, x)) = Len(s) + 1 /\ Append(s, x)[Len(s) + 1] = x OBVIOUS
  <2> QED BY <1>3, <2>1, <2>2, <2>3
<1>8. CASE /\ next.cash = done.cash /\ next.trades = done.trades
           /\ next.position = done.position
  <2>1. BalancedDay(next) BY <1>5, <1>8 DEF BalancedDay, Paid
  <2> QED BY <1>4, <1>7, <1>8, <2>1 DEF next
<1>9. CASE i < Len(bars) /\ done.position = <<>> /\ Bought(done, i + 1, next)
  <2>1. BalancedDay(next) BY <1>2, <1>5, <1>9, BoughtBalanced
  <2>2. next.position # <<>> BY <1>9 DEF Bought
  <2> QED BY <2>1, <2>2 DEF next
<1> QED BY <1>3, <1>8, <1>9

\* The curve of a run has a point per bar, and past trades and points stay.
LEMMA IntradayKept ==
  ASSUME Money, Levels, NEW bars, IntradayBars(bars), NEW size, NEW i \in 1 .. Len(bars),
         NEW book \in DayBooks, Len(book.curve) = i - 1
  PROVE  /\ Len(intradayBar(bars, size, book, i).curve) = i
         /\ \A j \in 0 .. i - 1 : until(intradayBar(bars, size, book, i), j) = until(book, j)
<1> DEFINE done == exited(book, bars[i], i)
           next == intradayBar(bars, size, book, i)
           value == done.cash + Scale * Held(done) * Quantity * bars[i].close
<1>1. i \in Int /\ bars[i].close \in Int /\ bars[i].minute \in Int BY DEF IntradayBars
<1>2. /\ done \in DayBooks /\ done.curve = book.curve
      /\ done = book \/ (book.position # <<>> /\ Sold(book, i, done))
  BY <1>1, Exited
<1>3. /\ next \in DayBooks /\ value \in Int /\ next.curve = Append(done.curve, value)
      /\ \/ /\ next.cash = done.cash /\ next.trades = done.trades
            /\ next.position = done.position
         \/ i < Len(bars) /\ done.position = <<>> /\ Bought(done, i + 1, next)
  BY IntradayBar
<1> HIDE DEF done, next, value
<1>4. /\ book.curve \in Seq(Int) /\ book.trades \in Seq(Trade) /\ done.trades \in Seq(Trade)
      /\ i \in Nat
  <2>1. i \in Nat BY DEF IntradayBars
  <2> QED BY <1>2, <2>1 DEF DayBooks
<1>5. Len(next.curve) = i BY <1>2, <1>3, <1>4
<1>6. ASSUME NEW j \in 0 .. i - 1 PROVE until(next, j) = until(book, j)
  <2>0. j \in Nat /\ j <= Len(book.curve) /\ j < i BY <1>4
  <2>1. SubSeq(next.curve, 1, j) = SubSeq(book.curve, 1, j)
    BY <1>2, <1>3, <1>4, <2>0, CurveKept
  <2>2. tradesUntil(done.trades, j) = tradesUntil(book.trades, j)
    <3>1. CASE done = book BY <3>1
    <3>2. CASE Sold(book, i, done)
      <4>1. PICK t \in Trade : t.bar = i /\ done.trades = Append(book.trades, t)
        BY <3>2 DEF Sold
      <4>2. t.bar > j BY <1>4, <2>0, <4>1
      <4>3. tradesUntil(Append(book.trades, t), j) = tradesUntil(book.trades, j)
        BY <1>4, <2>0, <4>2, TradesKept
      <4> QED BY <4>1, <4>3
    <3> QED BY <1>2, <3>1, <3>2
  <2>3. tradesUntil(next.trades, j) = tradesUntil(done.trades, j)
    <3>1. CASE next.trades = done.trades BY <3>1
    <3>2. CASE Bought(done, i + 1, next)
      <4>1. PICK t \in Trade : t.bar = i + 1 /\ next.trades = Append(done.trades, t)
        BY <3>2 DEF Bought
      <4>2. t.bar > j BY <1>4, <2>0, <4>1
      <4>3. tradesUntil(Append(done.trades, t), j) = tradesUntil(done.trades, j)
        BY <1>4, <2>0, <4>2, TradesKept
      <4> QED BY <4>1, <4>3
    <3> QED BY <1>3, <3>1, <3>2
  <2> QED BY <2>1, <2>2, <2>3 DEF until
<1> QED BY <1>5, <1>6 DEF next

\* The curve has a point for each bar so far, and the account is balanced.
LEMMA IntradayRun ==
  ASSUME Money, Levels, NEW bars, IntradayBars(bars), NEW size, NEW n \in Nat, n = Len(bars),
         NEW h, Course(h, DayBooks, intradaySteps(bars, size), newIntradayBook, n)
  PROVE  \A i \in 0 .. n :
           /\ h[i] \in DayBooks /\ Len(h[i].curve) = i /\ BalancedDay(h[i])
           /\ i = n /\ n > 0 /\ h[i].position = <<>> => h[i].curve[Len(h[i].curve)] = h[i].cash
<1> DEFINE V == DayBooks
           F == intradaySteps(bars, size)
           Worth(x) == x.position = <<>> => x.curve[Len(x.curve)] = x.cash
           S == [i \in 0 .. n |->
                   {x \in V : Len(x.curve) = i /\ BalancedDay(x) /\ (i = n /\ n > 0 => Worth(x))}]
<1>1. \A i \in 1 .. n : \A x \in V :
        F[<<x, i>>] = intradayBar(bars, size, x, i) /\ intradayBar(bars, size, x, i) \in V
  BY IntradayBar DEF intradaySteps
<1>2. \A i \in 1 .. n : \A x \in V : Len(x.curve) = i - 1 =>
        Len(intradayBar(bars, size, x, i).curve) = i
  BY IntradayKept
<1>3. \A i \in 1 .. n : \A x \in V : BalancedDay(x) =>
        /\ BalancedDay(intradayBar(bars, size, x, i))
        /\ i = n => Worth(intradayBar(bars, size, x, i))
  BY IntradayBalanced
<1>4. PICK m \in 0 .. n : m = 0 OBVIOUS
<1>5. h[m] \in S[m]
  <2>1. h[0] = newIntradayBook /\ h[0] \in V BY DEF Course
  <2>2. /\ newIntradayBook.position = <<>> /\ newIntradayBook.trades = <<>>
        /\ newIntradayBook.curve = <<>> /\ newIntradayBook.cash = Scale * InitialCash
    BY DEF newIntradayBook
  <2>3. total(paired(newIntradayBook.trades).pnls) = 0
    BY <2>2, PairedEmpty, TotalEmpty DEF noRounds
  <2>4. Scale * InitialCash \in Int BY DEF Money
  <2>5. BalancedDay(newIntradayBook) BY <2>2, <2>3, <2>4 DEF BalancedDay
  <2>6. Len(newIntradayBook.curve) = 0 BY <2>2
  <2> QED BY <1>4, <2>1, <2>5, <2>6
<1>6. \A i \in m + 1 .. n : \A x \in V : x \in S[i - 1] => F[<<x, i>>] \in S[i]
  <2> TAKE i \in m + 1 .. n
  <2> TAKE x \in V
  <2> HAVE x \in S[i - 1]
  <2>1. i \in 1 .. n /\ i \in 0 .. n /\ i - 1 \in 0 .. n BY <1>4
  <2>2. Len(x.curve) = i - 1 /\ BalancedDay(x) BY <2>1
  <2> DEFINE next == intradayBar(bars, size, x, i)
  <2>3. next \in V /\ F[<<x, i>>] = next BY <1>1, <2>1
  <2>4. Len(next.curve) = i BY <1>2, <2>1, <2>2
  <2>5. BalancedDay(next) /\ (i = n => Worth(next)) BY <1>3, <2>1, <2>2
  <2> HIDE DEF next, Worth, F
  <2> QED BY <2>1, <2>3, <2>4, <2>5
<1>7. \A i \in m .. n : h[i] \in S[i]
  <2> HIDE DEF S, V, F
  <2>1. Course(h, V, F, newIntradayBook, n) BY DEF V, F
  <2> QED BY <1>5, <1>6, <2>1, CourseWithin
<1> QED BY <1>4, <1>7

\* An intraday run has gained what its round trips add up to.
LEMMA IntradayRoundTrips ==
  ASSUME Money, Levels, NEW tape5m, NEW size, IntradayBars(resample(tape5m, size)),
         Len(resample(tape5m, size)) > 0
  PROVE  total(roundTrips(runIntradayBacktest(tape5m, size).trades))
         = gain(runIntradayBacktest(tape5m, size))
<1>1. PICK bars : bars = resample(tape5m, size) /\ IntradayBars(bars) OBVIOUS
<1>2. PICK n \in Nat : n = Len(bars) /\ n > 0 BY <1>1 DEF IntradayBars
<1>3. PICK h : /\ Course(h, DayBooks, intradaySteps(bars, size), newIntradayBook, n)
               /\ runIntradayBacktest(tape5m, size) = liquidated(h[n], bars)
  BY <1>1, <1>2, IntradayFold
<1> DEFINE last == h[n]
           r == liquidated(last, bars)
<1>4. /\ last \in DayBooks /\ Len(last.curve) = n /\ BalancedDay(last)
      /\ last.position = <<>> => last.curve[Len(last.curve)] = last.cash
  <2>1. n \in 0 .. n OBVIOUS
  <2> QED BY <1>1, <1>2, <1>3, <2>1, IntradayRun
<1> HIDE DEF last
<1>5. ASSUME NEW book, book.trades \in Seq(Trade),
             book.cash = Scale * InitialCash + total(paired(book.trades).pnls),
             book.curve[Len(book.curve)] = book.cash
      PROVE  total(roundTrips(book.trades)) = gain(book)
  <2>1. total(paired(book.trades).pnls) \in Int BY <1>5, PairedTyped
  <2>2. Scale * InitialCash \in Int BY DEF Money
  <2> QED BY <1>5, <2>1, <2>2 DEF gain, roundTrips
<1>6. CASE last.position = <<>>
  <2>1. r = last BY <1>6 DEF liquidated
  <2>2. last.cash = Scale * InitialCash + total(paired(last.trades).pnls)
    BY <1>4, <1>6 DEF BalancedDay
  <2>3. last.trades \in Seq(Trade) BY <1>4 DEF DayBooks
  <2>4. total(roundTrips(last.trades)) = gain(last) BY <1>4, <1>5, <1>6, <2>2, <2>3
  <2> QED BY <1>3, <2>1, <2>4 DEF last
<1>7. CASE last.position # <<>>
  <2> DEFINE sold == leave(last, bars[n].close, bars[n].minute, n)
  <2>1. PICK price \in Int, minute \in Int, k \in Int :
          price = bars[n].close /\ minute = bars[n].minute /\ k = n
    <3>1. n \in DOMAIN bars BY <1>1, <1>2 DEF IntradayBars
    <3>2. bars[n].close \in Int /\ bars[n].minute \in Int BY <1>1, <3>1 DEF IntradayBars
    <3> QED BY <3>2
  <2>2. sold \in DayBooks /\ Sold(last, n, sold) /\ sold.curve = last.curve
    <3>1. LET done == leave(last, price, minute, k)
          IN done \in DayBooks /\ Sold(last, k, done) /\ done.curve = last.curve
      BY <1>4, Leave
    <3> QED BY <2>1, <3>1
  <2>3. r = [sold EXCEPT !.curve[n] = sold.cash, !.exposure = larger(sold.exposure - 1, 0)]
    BY <1>2, <1>7 DEF liquidated
  <2> HIDE DEF sold, r
  <2>4. r.cash = sold.cash /\ r.trades = sold.trades
        /\ r.curve = [sold.curve EXCEPT ![n] = sold.cash]
    BY <2>2, <2>3 DEF DayBooks
  <2>5. BalancedDay(sold)
    <3>1. Paid(last, Quantity) BY <1>4, <1>7 DEF BalancedDay
    <3> QED BY <1>4, <2>2, <3>1, SoldBalanced
  <2>6. r.cash = Scale * InitialCash + total(paired(r.trades).pnls)
    BY <2>2, <2>4, <2>5 DEF BalancedDay, Sold
  <2>7. r.trades \in Seq(Trade) BY <2>2, <2>4 DEF DayBooks
  <2>8. r.curve[Len(r.curve)] = r.cash
    <3>1. PICK c \in Seq(Int) : c = sold.curve /\ Len(c) = n BY <1>4, <2>2 DEF DayBooks
    <3>2. PICK x \in Int : x = sold.cash BY <2>2 DEF DayBooks
    <3>3. Len([c EXCEPT ![n] = x]) = n /\ [c EXCEPT ![n] = x][n] = x BY <1>2, <3>1
    <3> QED BY <2>4, <3>1, <3>2, <3>3
  <2>9. total(roundTrips(r.trades)) = gain(r) BY <1>5, <2>6, <2>7, <2>8
  <2> QED BY <1>3, <2>9 DEF r, last
<1> QED BY <1>6, <1>7

(***************************************************************************)
(* What an intraday run knew                                               *)
(***************************************************************************)

\* What was done by bar j is never changed by the bars after it.
LEMMA IntradayPast ==
  ASSUME Money, Levels, NEW bars, IntradayBars(bars), NEW size, NEW n \in Nat, n = Len(bars),
         NEW j \in 0 .. n, NEW h,
         Course(h, DayBooks, intradaySteps(bars, size), newIntradayBook, n)
  PROVE  until(h[n], j) = until(h[j], j)
<1> DEFINE V == DayBooks
           F == intradaySteps(bars, size)
           S == [i \in 0 .. n |-> {b \in V : Len(b.curve) = i /\ until(b, j) = until(h[j], j)}]
<1>1. \A i \in 1 .. n : \A x \in V :
        F[<<x, i>>] = intradayBar(bars, size, x, i) /\ intradayBar(bars, size, x, i) \in V
  BY IntradayBar DEF intradaySteps
<1>2. \A i \in 1 .. n : \A x \in V : Len(x.curve) = i - 1 =>
        /\ Len(intradayBar(bars, size, x, i).curve) = i
        /\ \A k \in 0 .. i - 1 : until(intradayBar(bars, size, x, i), k) = until(x, k)
  BY IntradayKept
<1>3. h[j] \in S[j]
  <2>1. h[j] \in DayBooks /\ Len(h[j].curve) = j BY IntradayRun
  <2> QED BY <2>1
<1>4. \A i \in j + 1 .. n : \A x \in V : x \in S[i - 1] => F[<<x, i>>] \in S[i]
  <2> TAKE i \in j + 1 .. n
  <2> TAKE x \in V
  <2> HAVE x \in S[i - 1]
  <2>1. i \in 1 .. n /\ i \in 0 .. n /\ i - 1 \in 0 .. n /\ j \in 0 .. i - 1 OBVIOUS
  <2>2. Len(x.curve) = i - 1 /\ until(x, j) = until(h[j], j) BY <2>1
  <2> DEFINE next == intradayBar(bars, size, x, i)
  <2>3. next \in V /\ F[<<x, i>>] = next BY <1>1, <2>1
  <2>4. Len(next.curve) = i /\ until(next, j) = until(x, j) BY <1>2, <2>1, <2>2
  <2> HIDE DEF next, F
  <2> QED BY <2>1, <2>2, <2>3, <2>4
<1>5. h[n] \in S[n]
  <2> HIDE DEF S, V, F
  <2>1. Course(h, V, F, newIntradayBook, n) BY DEF V, F
  <2>2. \A i \in j .. n : h[i] \in S[i] BY <1>3, <1>4, <2>1, CourseWithin
  <2> QED BY <2>2
<1> QED BY <1>5

\* The sale after the last bar changes nothing before that bar.
LEMMA LiquidatedPast ==
  ASSUME Money, Levels, NEW bars, IntradayBars(bars), NEW n \in Nat, n = Len(bars),
         NEW j \in Nat, j < n, NEW book \in DayBooks, Len(book.curve) = n
  PROVE  until(liquidated(book, bars), j) = until(book, j)
<1> DEFINE r == liquidated(book, bars)
<1>1. CASE book.position = <<>>
  <2>1. r = book BY <1>1 DEF liquidated
  <2> QED BY <2>1
<1>2. CASE book.position # <<>>
  <2> DEFINE sold == leave(book, bars[n].close, bars[n].minute, n)
  <2>1. PICK price \in Int, minute \in Int, k \in Int :
          price = bars[n].close /\ minute = bars[n].minute /\ k = n
    <3>1. n \in DOMAIN bars BY DEF IntradayBars
    <3>2. bars[n].close \in Int /\ bars[n].minute \in Int BY <3>1 DEF IntradayBars
    <3> QED BY <3>2
  <2>2. sold \in DayBooks /\ Sold(book, n, sold) /\ sold.curve = book.curve
    <3>1. LET done == leave(book, price, minute, k)
          IN done \in DayBooks /\ Sold(book, k, done) /\ done.curve = book.curve
      BY Leave
    <3> QED BY <2>1, <3>1
  <2>3. r = [sold EXCEPT !.curve[n] = sold.cash, !.exposure = larger(sold.exposure - 1, 0)]
    BY <1>2 DEF liquidated
  <2> HIDE DEF sold, r
  <2>4. r.trades = sold.trades /\ r.curve = [sold.curve EXCEPT ![n] = sold.cash]
    BY <2>2, <2>3 DEF DayBooks
  <2>5. PICK c \in Seq(Int), x \in Int : c = book.curve /\ x = sold.cash
    BY <2>2 DEF DayBooks
  <2>6. SubSeq(r.curve, 1, j) = SubSeq(book.curve, 1, j)
    <3> DEFINE d == [c EXCEPT ![n] = x]
    <3>0. Len(c) = n BY <2>5
    <3>1. d \in Seq(Int) /\ Len(d) = n /\ \A i \in 1 .. j : d[i] = c[i] BY <3>0
    <3> HIDE DEF d
    <3>2. SubSeq(c, 1, j) \in Seq(Int) /\ Len(SubSeq(c, 1, j)) = j BY <3>0
    <3>3. SubSeq(d, 1, j) \in Seq(Int) /\ Len(SubSeq(d, 1, j)) = j BY <3>1
    <3>4. \A i \in 1 .. j : SubSeq(c, 1, j)[i] = c[i] BY <3>0
    <3>5. \A i \in 1 .. j : SubSeq(d, 1, j)[i] = d[i] BY <3>1
    <3>6. SubSeq(d, 1, j) = SubSeq(c, 1, j) BY <3>1, <3>2, <3>3, <3>4, <3>5
    <3>7. r.curve = d BY <2>2, <2>4, <2>5 DEF d
    <3> QED BY <2>5, <3>6, <3>7
  <2>7. tradesUntil(r.trades, j) = tradesUntil(book.trades, j)
    <3>1. PICK t \in Trade : t.bar = n /\ sold.trades = Append(book.trades, t)
      BY <2>2 DEF Sold
    <3>2. book.trades \in Seq(Trade) /\ t.bar > j BY <3>1 DEF DayBooks
    <3>3. tradesUntil(Append(book.trades, t), j) = tradesUntil(book.trades, j)
      BY <3>2, TradesKept
    <3> QED BY <2>4, <3>1, <3>3
  <2>8. until(r, j) = until(book, j) BY <2>6, <2>7 DEF until
  <2> QED BY <2>8 DEF r
<1> QED BY <1>1, <1>2

\* A bar that two runs see the same way leaves them the same past, whatever comes
\* after it: what it enters, it enters on the next bar.
LEMMA SameBar ==
  ASSUME Money, Levels, NEW a, NEW b, IntradayBars(a), IntradayBars(b), NEW size,
         NEW n \in Nat, n = Len(a), n = Len(b), NEW j \in 1 .. n, a[j] = b[j],
         NEW book \in DayBooks
  PROVE  until(intradayBar(a, size, book, j), j) = until(intradayBar(b, size, book, j), j)
<1> DEFINE done == exited(book, a[j], j)
           value == done.cash + Scale * Held(done) * Quantity * a[j].close
           Same(next) ==
             /\ next.curve = Append(done.curve, value)
             /\ \/ next.trades = done.trades
                \/ Bought(done, j + 1, next)
<1>1. j \in Int /\ j \in Nat /\ a[j].close \in Int /\ a[j].minute \in Int
  <2>1. j \in DOMAIN a BY DEF IntradayBars
  <2> QED BY <2>1 DEF IntradayBars
<1>2. done \in DayBooks BY <1>1, Exited
<1>3. Same(intradayBar(a, size, book, j)) BY IntradayBar
<1>4. Same(intradayBar(b, size, book, j))
  <2>1. done = exited(book, b[j], j) OBVIOUS
  <2>2. value = done.cash + Scale * Held(done) * Quantity * b[j].close OBVIOUS
  <2> DEFINE next == intradayBar(b, size, book, j)
  <2>3. LET d == exited(book, b[j], j)
            v == d.cash + Scale * Held(d) * Quantity * b[j].close
        IN /\ next.curve = Append(d.curve, v)
           /\ next.trades = d.trades \/ Bought(d, j + 1, next)
    BY IntradayBar
  <2> HIDE DEF next, done, value
  <2>4. Same(next) BY <2>1, <2>2, <2>3
  <2> QED BY <2>4 DEF next
<1> HIDE DEF value, done
<1>5. ASSUME NEW next, Same(next)
      PROVE  until(next, j) = <<SubSeq(Append(done.curve, value), 1, j), tradesUntil(done.trades, j)>>
  <2>1. done.trades \in Seq(Trade) BY <1>2 DEF DayBooks
  <2>2. tradesUntil(next.trades, j) = tradesUntil(done.trades, j)
    <3>1. CASE next.trades = done.trades BY <3>1
    <3>2. CASE Bought(done, j + 1, next)
      <4>1. PICK t \in Trade : t.bar = j + 1 /\ next.trades = Append(done.trades, t)
        BY <3>2 DEF Bought
      <4>2. t.bar > j BY <1>1, <4>1
      <4>3. tradesUntil(Append(done.trades, t), j) = tradesUntil(done.trades, j)
        BY <1>1, <2>1, <4>2, TradesKept
      <4> QED BY <4>1, <4>3
    <3> QED BY <1>5, <3>1, <3>2
  <2>3. next.curve = Append(done.curve, value) BY <1>5
  <2> QED BY <2>2, <2>3 DEF until
<1> HIDE DEF Same
<1> QED BY <1>3, <1>4, <1>5

\* Merged bars that agree up to j give intraday runs that agree up to j.
LEMMA IntradayBlind ==
  ASSUME Money, Levels, NEW tapeA, NEW tapeB, NEW size, NEW a, NEW b,
         a = resample(tapeA, size), b = resample(tapeB, size), IntradayBars(a), IntradayBars(b),
         Len(a) = Len(b), NEW j \in Nat, j < Len(a),
         \A i \in 1 .. j : a[i] = b[i] /\ SubSeq(a, 1, i) = SubSeq(b, 1, i)
  PROVE  until(runIntradayBacktest(tapeA, size), j) = until(runIntradayBacktest(tapeB, size), j)
<1>1. PICK n \in Nat : n = Len(a) /\ n = Len(b) BY DEF IntradayBars
<1>2. PICK f : /\ Course(f, DayBooks, intradaySteps(a, size), newIntradayBook, n)
               /\ runIntradayBacktest(tapeA, size) = liquidated(f[n], a)
  BY <1>1, IntradayFold
<1>3. PICK g : /\ Course(g, DayBooks, intradaySteps(b, size), newIntradayBook, n)
               /\ runIntradayBacktest(tapeB, size) = liquidated(g[n], b)
  BY <1>1, IntradayFold
<1>4. j < n /\ j \in 0 .. n /\ n \in 0 .. n BY <1>1
<1>5. f[n] \in DayBooks /\ Len(f[n].curve) = n BY <1>1, <1>2, <1>4, IntradayRun
<1>6. g[n] \in DayBooks /\ Len(g[n].curve) = n BY <1>1, <1>3, <1>4, IntradayRun
<1>7. until(liquidated(f[n], a), j) = until(f[j], j)
  <2>1. until(liquidated(f[n], a), j) = until(f[n], j) BY <1>1, <1>4, <1>5, LiquidatedPast
  <2>2. until(f[n], j) = until(f[j], j) BY <1>1, <1>2, <1>4, IntradayPast
  <2> QED BY <2>1, <2>2
<1>8. until(liquidated(g[n], b), j) = until(g[j], j)
  <2>1. until(liquidated(g[n], b), j) = until(g[n], j) BY <1>1, <1>4, <1>6, LiquidatedPast
  <2>2. until(g[n], j) = until(g[j], j) BY <1>1, <1>3, <1>4, IntradayPast
  <2> QED BY <2>1, <2>2
<1>9. until(f[j], j) = until(g[j], j)
  <2>1. CASE j = 0
    <3>1. f[0] = newIntradayBook /\ g[0] = newIntradayBook BY <1>2, <1>3 DEF Course
    <3> QED BY <2>1, <3>1
  <2>2. CASE j # 0
    <3>1. PICK k \in Nat : k = j - 1 /\ k + 1 = j BY <2>2
    <3>2. k \in 0 .. n /\ j \in 1 .. n /\ j \in 1 .. j BY <1>4, <3>1
    <3>3. ASSUME NEW i \in 1 .. k, NEW x \in DayBooks
          PROVE  intradaySteps(a, size)[<<x, i>>] = intradaySteps(b, size)[<<x, i>>]
      <4>1. i \in 1 .. j /\ i + 1 \in 1 .. j /\ i \in 1 .. n BY <1>4, <3>1
      <4>2. a[i] = b[i] /\ a[i + 1] = b[i + 1] /\ SubSeq(a, 1, i) = SubSeq(b, 1, i) BY <4>1
      <4>3. intradayBar(a, size, x, i) = intradayBar(b, size, x, i) BY <4>2 DEF intradayBar
      <4> QED BY <1>1, <4>1, <4>3 DEF intradaySteps
    <3>4. Course(f, DayBooks, intradaySteps(a, size), newIntradayBook, k)
      BY <1>2, <3>2 DEF Course
    <3>5. Course(g, DayBooks, intradaySteps(a, size), newIntradayBook, k)
      <4>1. /\ g[0] = newIntradayBook /\ \A i \in 0 .. k : g[i] \in DayBooks
            /\ \A i \in 1 .. k : g[i] = intradaySteps(b, size)[<<g[i - 1], i>>]
        BY <1>3, <3>2 DEF Course
      <4>2. \A i \in 1 .. k : g[i] = intradaySteps(a, size)[<<g[i - 1], i>>]
        <5> TAKE i \in 1 .. k
        <5>1. i - 1 \in 0 .. k OBVIOUS
        <5> QED BY <3>3, <4>1, <5>1
      <4> QED BY <4>1, <4>2 DEF Course
    <3>6. f[k] = g[k] /\ f[k] \in DayBooks
      <4>1. \A i \in 0 .. k : f[i] = g[i] BY <3>4, <3>5, CourseUnique
      <4>2. k \in 0 .. k OBVIOUS
      <4>3. f[k] \in DayBooks BY <1>2, <3>2 DEF Course
      <4> QED BY <4>1, <4>2, <4>3
    <3>7. f[j] = intradayBar(a, size, f[k], j)
      <4>1. f[j] = intradaySteps(a, size)[<<f[j - 1], j>>] BY <1>2, <3>2 DEF Course
      <4> QED BY <1>1, <3>1, <3>2, <3>6, <4>1 DEF intradaySteps
    <3>8. g[j] = intradayBar(b, size, f[k], j)
      <4>1. g[j] = intradaySteps(b, size)[<<g[j - 1], j>>] BY <1>3, <3>2 DEF Course
      <4> QED BY <1>1, <3>1, <3>2, <3>6, <4>1 DEF intradaySteps
    <3>9. a[j] = b[j] BY <3>2
    <3>10. until(intradayBar(a, size, f[k], j), j) = until(intradayBar(b, size, f[k], j), j)
      <4>1. PICK x \in DayBooks : x = f[k] BY <3>6
      <4>2. until(intradayBar(a, size, x, j), j) = until(intradayBar(b, size, x, j), j)
        BY <1>1, <3>2, <3>9, SameBar
      <4> QED BY <4>1, <4>2
    <3> QED BY <3>7, <3>8, <3>10
  <2> QED BY <2>1, <2>2
<1> QED BY <1>2, <1>3, <1>7, <1>8, <1>9

(***************************************************************************)
(* Merged bars                                                             *)
(***************************************************************************)

\* A number of bars has a number of whole groups.
LEMMA WholeGroups ==
  ASSUME NEW n \in Nat, NEW size \in Nat \ {0}
  PROVE  n \div size \in Nat
OBVIOUS

\* The g-th group of bars ends with bar g * size.
LEMMA GroupEnds ==
  ASSUME NEW n \in Nat, NEW size \in Nat \ {0}, NEW g \in 1 .. n \div size
  PROVE  /\ n \div size \in Nat
         /\ g * size \in Nat /\ (g - 1) * size \in Nat
         /\ (g - 1) * size + 1 <= g * size /\ g * size <= n
<1>1. PICK q \in Nat : q = n \div size OBVIOUS
<1>2. q * size <= n BY <1>1
<1>3. g \in Nat /\ g >= 1 /\ g <= q BY <1>1
<1>4. \A x, y \in Nat : x <= y => x * size <= y * size
  <2> TAKE x, y \in Nat
  <2> HAVE x <= y
  <2>1. PICK d \in Nat : y = x + d BY y - x \in Nat, y = x + (y - x)
  <2>2. y * size = x * size + d * size BY <2>1
  <2>3. d * size \in Nat /\ x * size \in Nat OBVIOUS
  <2> QED BY <2>2, <2>3
<1>5. g * size <= q * size BY <1>1, <1>3, <1>4
<1>6. g * size = (g - 1) * size + size BY <1>3
<1>7. g * size \in Nat /\ (g - 1) * size \in Nat /\ q * size \in Nat BY <1>3
<1> QED BY <1>1, <1>2, <1>3, <1>5, <1>6, <1>7

LEMMA Parts ==
  ASSUME NEW S, NEW s \in Seq(S), NEW from \in Nat, NEW to \in Nat, from >= 1, from <= to,
         to <= Len(s)
  PROVE  /\ SubSeq(s, from, to) \in Seq(S) /\ Len(SubSeq(s, from, to)) = to - from + 1
         /\ \A i \in 1 .. to - from + 1 : SubSeq(s, from, to)[i] = s[from + i - 1]
OBVIOUS

\* The merged bars are numbers, one for each complete group.
LEMMA MergedTyped ==
  ASSUME NEW bars \in Seq(Bar), NEW size \in Nat \ {0}
  PROVE  LET merged == resample(bars, size)
         IN /\ Len(merged) = Len(bars) \div size /\ Len(merged) \in Nat
            /\ DOMAIN merged = 1 .. Len(merged)
            /\ \A g \in DOMAIN merged :
                 /\ merged[g].open \in Int /\ merged[g].close \in Int
                 /\ merged[g].minute \in Int
                 /\ merged[g] = merge(SubSeq(bars, (g - 1) * size + 1, g * size))
<1> DEFINE merged == resample(bars, size)
<1>1. PICK n \in Nat : n = Len(bars) OBVIOUS
<1>2. PICK q \in Nat : q = n \div size OBVIOUS
<1>3. merged = [g \in 1 .. q |-> merge(SubSeq(bars, (g - 1) * size + 1, g * size))]
  BY <1>1, <1>2 DEF resample
<1> HIDE DEF merged
<1>4. DOMAIN merged = 1 .. q /\ Len(merged) = q BY <1>3
<1>5. ASSUME NEW g \in 1 .. q
      PROVE  /\ merged[g].open \in Int /\ merged[g].close \in Int /\ merged[g].minute \in Int
             /\ merged[g] = merge(SubSeq(bars, (g - 1) * size + 1, g * size))
  <2> DEFINE some == SubSeq(bars, (g - 1) * size + 1, g * size)
  <2>1. PICK from \in Nat, to \in Nat :
          from = (g - 1) * size + 1 /\ to = g * size /\ from >= 1 /\ from <= to /\ to <= n
    BY <1>2, GroupEnds
  <2>2. some \in Seq(Bar) /\ Len(some) = to - from + 1 BY <1>1, <2>1, Parts
  <2>3. merged[g] = merge(some) BY <1>3
  <2> HIDE DEF some
  <2>4. PICK k \in Nat : k = Len(some) /\ k >= 1 BY <2>1, <2>2
  <2>5. some[1] \in Bar /\ some[k] \in Bar BY <2>2, <2>4
  <2>6. some[1].open \in Int /\ some[k].close \in Int /\ some[k].minute \in Int BY <2>5 DEF Bar
  <2>7. /\ merge(some).open = some[1].open /\ merge(some).close = some[k].close
        /\ merge(some).minute = some[k].minute
    BY <2>4 DEF merge
  <2> QED BY <2>3, <2>6, <2>7 DEF some
<1> QED BY <1>1, <1>2, <1>4, <1>5 DEF merged

\* Tapes that agree up to bar k have the same merged bars up to the last complete one.
LEMMA MergedAlike ==
  ASSUME NEW a \in Seq(Bar), NEW b \in Seq(Bar), Len(a) = Len(b), NEW size \in Nat \ {0},
         NEW k \in Nat, k <= Len(a), \A i \in 1 .. k : a[i] = b[i]
  PROVE  \A g \in 1 .. k \div size :
           /\ resample(a, size)[g] = resample(b, size)[g]
           /\ SubSeq(resample(a, size), 1, g) = SubSeq(resample(b, size), 1, g)
<1> DEFINE ra == resample(a, size)
           rb == resample(b, size)
<1>1. PICK n \in Nat : n = Len(a) /\ n = Len(b) OBVIOUS
<1>2. PICK j \in Nat, q \in Nat : j = k \div size /\ q = n \div size BY WholeGroups
<1>3. /\ Len(ra) = q /\ DOMAIN ra = 1 .. q
      /\ \A g \in 1 .. q : ra[g] = merge(SubSeq(a, (g - 1) * size + 1, g * size))
  BY <1>1, <1>2, MergedTyped
<1>4. /\ Len(rb) = q /\ DOMAIN rb = 1 .. q
      /\ \A g \in 1 .. q : rb[g] = merge(SubSeq(b, (g - 1) * size + 1, g * size))
  BY <1>1, <1>2, MergedTyped
<1>5. j <= q BY <1>1, <1>2
<1>8. ra = [g \in 1 .. q |-> ra[g]] /\ rb = [g \in 1 .. q |-> rb[g]]
  BY <1>1, <1>2 DEF resample
<1> HIDE DEF ra, rb
<1>6. ASSUME NEW g \in 1 .. j PROVE ra[g] = rb[g]
  <2> DEFINE first == (g - 1) * size + 1
             last == g * size
  <2>0. g \in 1 .. k \div size BY <1>2
  <2>9. first \in Nat /\ last \in Nat /\ first >= 1 /\ first <= last /\ last <= k
    <3>1. /\ last \in Nat /\ (g - 1) * size \in Nat
          /\ (g - 1) * size + 1 <= last /\ last <= k
      BY <2>0, GroupEnds
    <3>2. PICK z \in Nat : z = (g - 1) * size BY <3>1
    <3> QED BY <3>1, <3>2
  <2> HIDE DEF first, last
  <2>1. PICK from \in Nat, to \in Nat :
          from = first /\ to = last /\ from >= 1 /\ from <= to /\ to <= k
    BY <2>9
  <2>2. to <= n BY <1>1, <2>1
  <2> DEFINE x == SubSeq(a, from, to)
             y == SubSeq(b, from, to)
  <2>3. /\ x \in Seq(Bar) /\ Len(x) = to - from + 1
        /\ \A i \in 1 .. to - from + 1 : x[i] = a[from + i - 1]
    BY <1>1, <2>1, <2>2, Parts
  <2>4. /\ y \in Seq(Bar) /\ Len(y) = to - from + 1
        /\ \A i \in 1 .. to - from + 1 : y[i] = b[from + i - 1]
    BY <1>1, <2>1, <2>2, Parts
  <2>5. \A i \in 1 .. to - from + 1 : from + i - 1 \in 1 .. k BY <2>1
  <2> HIDE DEF x, y
  <2>6. x = y
    <3>1. PICK m \in Nat : m = to - from + 1 BY <2>1
    <3>2. \A i \in 1 .. m : x[i] = y[i] BY <2>1, <2>3, <2>4, <2>5, <3>1
    <3>3. Len(x) = m /\ Len(y) = m BY <2>3, <2>4, <3>1
    <3> QED BY <2>3, <2>4, <3>2, <3>3
  <2>7. g \in 1 .. q BY <1>5
  <2> QED BY <1>3, <1>4, <2>1, <2>6, <2>7 DEF x, y, first, last
<1>7. ASSUME NEW g \in 1 .. j PROVE SubSeq(ra, 1, g) = SubSeq(rb, 1, g)
  <2> DEFINE S == {ra[i] : i \in 1 .. q} \cup {rb[i] : i \in 1 .. q}
  <2>1. ra \in Seq(S) /\ rb \in Seq(S)
    <3>1. ra \in [1 .. q -> S] /\ rb \in [1 .. q -> S] BY <1>8
    <3> HIDE DEF S
    <3> QED BY <3>1
  <2> HIDE DEF S
  <2>2. g \in Nat /\ 1 <= g /\ g <= q /\ g - 1 + 1 = g BY <1>5
  <2>3. /\ SubSeq(ra, 1, g) \in Seq(S) /\ Len(SubSeq(ra, 1, g)) = g
        /\ \A i \in 1 .. g : SubSeq(ra, 1, g)[i] = ra[i]
    BY <1>3, <2>1, <2>2
  <2>4. /\ SubSeq(rb, 1, g) \in Seq(S) /\ Len(SubSeq(rb, 1, g)) = g
        /\ \A i \in 1 .. g : SubSeq(rb, 1, g)[i] = rb[i]
    BY <1>4, <2>1, <2>2
  <2>5. \A i \in 1 .. g : ra[i] = rb[i] BY <1>6, <2>2
  <2> QED BY <2>3, <2>4, <2>5
<1> QED BY <1>2, <1>6, <1>7 DEF ra, rb

(***************************************************************************)
(* The tape and its other continuations                                    *)
(***************************************************************************)

LEMMA AssumedTyped ==
  ASSUME BacktestAssumption
  PROVE  /\ Money /\ Levels /\ Parameters
         /\ TrainSize \in Nat \ {0} /\ TestSize \in Nat \ {0} /\ StepSize \in Nat
         /\ SetupGroup \in Nat \ {0} /\ TrendGroup \in Nat \ {0}
BY DEF BacktestAssumption, Money, Levels, Parameters

\* Another continuation of a tape is a tape and agrees with it up to k.
LEMMA Continued ==
  ASSUME NEW bars \in Seq(Bar), NEW k \in DOMAIN bars
  PROVE  /\ unknownAfter(bars, k) \in Seq(Bar) /\ Len(unknownAfter(bars, k)) = Len(bars)
         /\ \A i \in 1 .. k : unknownAfter(bars, k)[i] = bars[i]
<1>1. PICK n \in Nat : n = Len(bars) /\ DOMAIN bars = 1 .. n OBVIOUS
<1> DEFINE u == unknownAfter(bars, k)
<1>2. u = [i \in 1 .. n |-> IF i <= k THEN bars[i] ELSE [bars[k] EXCEPT !.minute = bars[i].minute]]
  BY <1>1 DEF unknownAfter
<1>3. \A i \in 1 .. n : bars[i] \in Bar BY <1>1
<1>4. k \in 1 .. n BY <1>1
<1>5. ASSUME NEW i \in 1 .. n PROVE [bars[k] EXCEPT !.minute = bars[i].minute] \in Bar
  <2>1. bars[k] \in Bar /\ bars[i].minute \in Int BY <1>3, <1>4 DEF Bar
  <2> QED BY <2>1 DEF Bar
<1>6. u \in [1 .. n -> Bar] BY <1>2, <1>3, <1>5
<1>7. u \in Seq(Bar) /\ Len(u) = n BY <1>1, <1>6
<1>8. \A i \in 1 .. k : u[i] = bars[i] BY <1>2, <1>4
<1> HIDE DEF u
<1>9. u \in Seq(Bar) /\ Len(u) = Len(bars) /\ \A i \in 1 .. k : u[i] = bars[i]
  BY <1>1, <1>7, <1>8
<1> QED BY <1>9 DEF u

\* After the last bar there is nothing to continue.
LEMMA SameTape ==
  ASSUME NEW bars \in Seq(Bar), NEW k \in DOMAIN bars, k = Len(bars)
  PROVE  unknownAfter(bars, k) = bars
<1>1. PICK u \in Seq(Bar) : u = unknownAfter(bars, k) BY Continued
<1>2. Len(u) = k /\ \A i \in 1 .. k : u[i] = bars[i] BY <1>1, Continued
<1>3. Len(bars) = k /\ k \in Nat OBVIOUS
<1>4. u = bars BY <1>2, <1>3
<1> QED BY <1>1, <1>4

\* An intraday run over any continuation runs on numbers.
LEMMA MergedBars ==
  ASSUME BacktestAssumption, NEW bars \in Tapes, NEW k \in DOMAIN bars,
         NEW size \in {1, SetupGroup, TrendGroup}
  PROVE  IntradayBars(resample(unknownAfter(bars, k), size))
<1>1. bars \in Seq(Bar) /\ size \in Nat \ {0} BY DEF BacktestAssumption
<1>2. PICK u \in Seq(Bar) : u = unknownAfter(bars, k) BY <1>1, Continued
<1>3. PICK merged : merged = resample(u, size) OBVIOUS
<1>4. /\ Len(merged) \in Nat /\ DOMAIN merged = 1 .. Len(merged)
      /\ \A i \in DOMAIN merged :
           merged[i].open \in Int /\ merged[i].close \in Int /\ merged[i].minute \in Int
  BY <1>1, <1>3, MergedTyped
<1>5. \A i \in DOMAIN merged :
        AverageRange(closedBars(SubSeq(merged, 1, i), merged[i].minute)) \in Int
  BY <1>2, <1>3 DEF BacktestAssumption
<1>6. IntradayBars(merged) BY <1>4, <1>5 DEF IntradayBars
<1> QED BY <1>2, <1>3, <1>6

LEMMA MergedTape ==
  ASSUME BacktestAssumption, NEW bars \in Tapes, Len(bars) > 0,
         NEW size \in {1, SetupGroup, TrendGroup}
  PROVE  IntradayBars(resample(bars, size))
<1>1. bars \in Seq(Bar) BY DEF BacktestAssumption
<1>2. PICK k \in DOMAIN bars : k = Len(bars) BY <1>1
<1>3. unknownAfter(bars, k) = bars BY <1>1, <1>2, SameTape
<1> QED BY <1>2, <1>3, MergedBars

(***************************************************************************)
(* The invariant                                                           *)
(***************************************************************************)

\* Where a fold of a tape may begin, and what the results must be.
Starts(bars) == {s \in Nat : s + TrainSize + TestSize <= Len(bars)}

\* The frame the i-th comparison runs on.
ComparedOn(bars, i, result) ==
  /\ i \in 1 .. 3 /\ Len(bars) \div Timeframes[i] >= 2
  /\ result = runIntradayBacktest(bars, Timeframes[i])

BacktestInv ==
  /\ series \in Tapes
  /\ start \in Nat
  /\ folds \in Seq({fold(series, s) : s \in Starts(series)})
  /\ compared \in Seq({runIntradayBacktest(series, Timeframes[i]) : i \in 1 .. 3})
  /\ \A i \in DOMAIN compared : ComparedOn(series, i, compared[i])

LEMMA Appended ==
  ASSUME NEW S, NEW s \in Seq(S), NEW x \in S
  PROVE  /\ Append(s, x) \in Seq(S) /\ Len(Append(s, x)) = Len(s) + 1 /\ Len(s) \in Nat
         /\ \A i \in DOMAIN Append(s, x) :
              \/ i \in DOMAIN s /\ Append(s, x)[i] = s[i]
              \/ i = Len(s) + 1 /\ Append(s, x)[i] = x
OBVIOUS

LEMMA InvInit == BacktestAssumption /\ BacktestInit => BacktestInv
<1> SUFFICES ASSUME BacktestAssumption, BacktestInit PROVE BacktestInv OBVIOUS
<1>1. series \in Tapes /\ start \in Nat /\ folds = <<>> /\ compared = <<>> BY DEF BacktestInit
<1>2. \A S : <<>> \in Seq(S) OBVIOUS
<1>3. DOMAIN compared = {} BY <1>1
<1> QED BY <1>1, <1>2, <1>3 DEF BacktestInv

LEMMA InvStep == BacktestAssumption /\ BacktestInv /\ [BacktestNext]_backtestVars => BacktestInv'
<1> SUFFICES ASSUME BacktestAssumption, BacktestInv, [BacktestNext]_backtestVars PROVE BacktestInv' OBVIOUS
<1>1. TrainSize \in Nat /\ TestSize \in Nat /\ StepSize \in Nat BY AssumedTyped
<1>2. CASE Fold
  <2>1. series' = series /\ compared' = compared BY <1>2 DEF Fold
  <2>2. start \in Starts(series) BY <1>2 DEF BacktestInv, Fold, Starts
  <2>3. PICK S : S = {fold(series, s) : s \in Starts(series)} OBVIOUS
  <2>4. PICK x \in S : x = fold(series, start) BY <2>2, <2>3
  <2>5. folds \in Seq(S) BY <2>3 DEF BacktestInv
  <2>6. folds' = Append(folds, x) BY <1>2, <2>4 DEF Fold
  <2>7. folds' \in Seq(S) BY <2>5, <2>6, Appended
  <2>8. start' \in Nat BY <1>1, <1>2 DEF BacktestInv, Fold
  <2> QED BY <2>1, <2>3, <2>7, <2>8 DEF BacktestInv
<1>3. CASE Compare
  <2>1. series' = series /\ start' = start /\ folds' = folds BY <1>3 DEF Compare
  <2>2. PICK S : S = {runIntradayBacktest(series, Timeframes[i]) : i \in 1 .. 3} OBVIOUS
  <2>3. compared \in Seq(S) BY <2>2 DEF BacktestInv
  <2>4. PICK n \in Nat : n = Len(compared) BY <2>3
  <2>5. n < 3 /\ n + 1 \in 1 .. 3 BY <1>3, <2>4 DEF Compare, Timeframes
  <2>6. PICK x : x = runIntradayBacktest(series, Timeframes[n + 1]) OBVIOUS
  <2>7. compared' = Append(compared, x) /\ Len(series) \div Timeframes[n + 1] >= 2
    BY <1>3, <2>4, <2>6 DEF Compare
  <2>8. x \in S BY <2>2, <2>5, <2>6
  <2>9. compared' \in Seq(S) BY <2>3, <2>7, <2>8, Appended
  <2>10. ASSUME NEW i \in DOMAIN compared' PROVE ComparedOn(series, i, compared'[i])
    <3>1. \/ i \in DOMAIN compared /\ compared'[i] = compared[i]
          \/ i = n + 1 /\ compared'[i] = x
      BY <2>3, <2>4, <2>7, <2>8, Appended
    <3>2. CASE i \in DOMAIN compared /\ compared'[i] = compared[i] BY <3>2 DEF BacktestInv
    <3>3. CASE i = n + 1 /\ compared'[i] = x BY <2>5, <2>6, <2>7, <3>3 DEF ComparedOn
    <3> QED BY <3>1, <3>2, <3>3
  <2> QED BY <2>1, <2>2, <2>9, <2>10 DEF BacktestInv
<1>4. CASE UNCHANGED backtestVars BY <1>4 DEF BacktestInv, backtestVars
<1> QED BY <1>2, <1>3, <1>4 DEF BacktestNext

(***************************************************************************)
(* Round trips                                                             *)
(***************************************************************************)

\* A fold trains and tests on neighbouring windows of the tape.
LEMMA FoldParts ==
  ASSUME BacktestAssumption, NEW bars \in Seq(Bar), NEW s \in Starts(bars)
  PROVE  LET train == SubSeq(bars, s + 1, s + TrainSize)
             test == SubSeq(bars, s + TrainSize + 1, s + TrainSize + TestSize)
         IN /\ fold(bars, s) = [from |-> s, chosen |-> selectParameters(train),
                                test |-> runBacktest(test, Candidates[selectParameters(train)])]
            /\ train \in Seq(Bar) /\ Len(train) = TrainSize
            /\ \A i \in 1 .. TrainSize : train[i] = bars[s + i]
            /\ test \in Seq(Bar) /\ Len(test) = TestSize
            /\ \A i \in 1 .. TestSize : test[i] = bars[s + TrainSize + i]
<1> DEFINE train == SubSeq(bars, s + 1, s + TrainSize)
           test == SubSeq(bars, s + TrainSize + 1, s + TrainSize + TestSize)
<1>1. fold(bars, s) = [from |-> s, chosen |-> selectParameters(train),
                       test |-> runBacktest(test, Candidates[selectParameters(train)])]
  BY DEF fold, Once
<1>2. PICK m \in Nat \ {0}, n \in Nat \ {0} : m = TrainSize /\ n = TestSize BY AssumedTyped
<1>3. s \in Nat /\ s + m + n <= Len(bars) BY <1>2 DEF Starts
<1>4. PICK a \in Nat, b \in Nat, c \in Nat, d \in Nat :
        a = s + 1 /\ b = s + m /\ c = s + m + 1 /\ d = s + m + n
  BY <1>3
<1>5. train = SubSeq(bars, a, b) /\ test = SubSeq(bars, c, d) BY <1>2, <1>4
<1>6. /\ a >= 1 /\ a <= b /\ b <= Len(bars) /\ b - a + 1 = m
      /\ c >= 1 /\ c <= d /\ d <= Len(bars) /\ d - c + 1 = n
  BY <1>3, <1>4
<1>7. /\ train \in Seq(Bar) /\ Len(train) = b - a + 1
      /\ \A i \in 1 .. b - a + 1 : train[i] = bars[a + i - 1]
  <2>1. /\ SubSeq(bars, a, b) \in Seq(Bar) /\ Len(SubSeq(bars, a, b)) = b - a + 1
        /\ \A i \in 1 .. b - a + 1 : SubSeq(bars, a, b)[i] = bars[a + i - 1]
    BY <1>6, Parts
  <2> HIDE DEF train, test
  <2> QED BY <1>5, <2>1
<1>8. /\ test \in Seq(Bar) /\ Len(test) = d - c + 1
      /\ \A i \in 1 .. d - c + 1 : test[i] = bars[c + i - 1]
  <2>1. /\ SubSeq(bars, c, d) \in Seq(Bar) /\ Len(SubSeq(bars, c, d)) = d - c + 1
        /\ \A i \in 1 .. d - c + 1 : SubSeq(bars, c, d)[i] = bars[c + i - 1]
    BY <1>6, Parts
  <2> HIDE DEF train, test
  <2> QED BY <1>5, <2>1
<1>9. \A i \in 1 .. m : a + i - 1 = s + i BY <1>3, <1>4
<1>10. \A i \in 1 .. n : c + i - 1 = s + m + i BY <1>3, <1>4
<1> HIDE DEF train, test
<1>11. \A i \in 1 .. TrainSize : train[i] = bars[s + i] BY <1>2, <1>6, <1>7, <1>9
<1>12. \A i \in 1 .. TestSize : test[i] = bars[s + TrainSize + i] BY <1>2, <1>6, <1>8, <1>10
<1> QED BY <1>1, <1>2, <1>6, <1>7, <1>8, <1>11, <1>12 DEF train, test

\* The windows of the fold that begins at s.
Windows(bars, s, train, test) ==
  /\ train = SubSeq(bars, s + 1, s + TrainSize)
  /\ fold(bars, s) = [from |-> s, chosen |-> selectParameters(train),
                      test |-> runBacktest(test, Candidates[selectParameters(train)])]
  /\ Len(train) = TrainSize /\ \A i \in 1 .. TrainSize : train[i] = bars[s + i]
  /\ Len(test) = TestSize /\ \A i \in 1 .. TestSize : test[i] = bars[s + TrainSize + i]

LEMMA FoldWindows ==
  ASSUME BacktestAssumption, NEW bars \in Seq(Bar), NEW s \in Starts(bars)
  PROVE  \E train \in Seq(Bar), test \in Seq(Bar) : Windows(bars, s, train, test)
<1> DEFINE train == SubSeq(bars, s + 1, s + TrainSize)
           test == SubSeq(bars, s + TrainSize + 1, s + TrainSize + TestSize)
<1>1. /\ fold(bars, s) = [from |-> s, chosen |-> selectParameters(train),
                          test |-> runBacktest(test, Candidates[selectParameters(train)])]
      /\ train \in Seq(Bar) /\ Len(train) = TrainSize
      /\ \A i \in 1 .. TrainSize : train[i] = bars[s + i]
      /\ test \in Seq(Bar) /\ Len(test) = TestSize
      /\ \A i \in 1 .. TestSize : test[i] = bars[s + TrainSize + i]
  BY FoldParts
<1>2. train = SubSeq(bars, s + 1, s + TrainSize) OBVIOUS
<1> HIDE DEF train, test
<1>3. Windows(bars, s, train, test) BY <1>1, <1>2 DEF Windows
<1> QED BY <1>1, <1>3

\* Each fold of a tape chooses one of the candidates.
LEMMA FoldChooses ==
  ASSUME BacktestAssumption, NEW bars \in Tapes, NEW s \in Starts(bars)
  PROVE  selectParameters(SubSeq(bars, s + 1, s + TrainSize)) \in DOMAIN Candidates
<1>1. bars \in Seq(Bar) BY DEF BacktestAssumption
<1>2. PICK train \in Seq(Bar) : train = SubSeq(bars, s + 1, s + TrainSize) /\ Len(train) = TrainSize
  BY <1>1, FoldParts
<1>3. Len(train) > 0 BY <1>2, AssumedTyped
<1>4. s \in 0 .. Len(bars) - TrainSize BY <1>1, AssumedTyped DEF Starts
<1>5. \A c \in DOMAIN Candidates : Sharpe(runBacktest(train, Candidates[c]).curve) \in Int
  BY <1>2, <1>4 DEF BacktestAssumption
<1> QED BY <1>2, <1>3, <1>5, AssumedTyped, ChosenExists

LEMMA InvAddsUp == BacktestAssumption /\ BacktestInv => RoundTripsAddUp
<1> SUFFICES ASSUME BacktestAssumption, BacktestInv PROVE RoundTripsAddUp OBVIOUS
<1>1. series \in Tapes /\ series \in Seq(Bar) BY DEF BacktestInv, BacktestAssumption
<1>2. ASSUME NEW i \in DOMAIN compared
      PROVE  total(roundTrips(compared[i].trades)) = gain(compared[i])
  <2>1. PICK size : size = Timeframes[i] OBVIOUS
  <2>2. i \in 1 .. 3 /\ Len(series) \div size >= 2 /\ compared[i] = runIntradayBacktest(series, size)
    BY <2>1 DEF BacktestInv, ComparedOn
  <2>3. size \in {1, SetupGroup, TrendGroup} BY <2>1, <2>2 DEF Timeframes
  <2>4. size \in Nat \ {0} BY <2>3, AssumedTyped
  <2>5. PICK n \in Nat : n = Len(series) BY <1>1
  <2>6. n > 0
    <3>1. CASE n = 0
      <4>1. n \div size = 0 BY <2>4, <3>1
      <4> QED BY <2>2, <2>5, <4>1
    <3> QED BY <3>1
  <2>7. IntradayBars(resample(series, size)) BY <1>1, <2>3, <2>5, <2>6, MergedTape
  <2>8. Len(resample(series, size)) = Len(series) \div size BY <1>1, <2>4, MergedTyped
  <2>9. Len(resample(series, size)) > 0
    <3>1. PICK q \in Nat : q = Len(series) \div size BY <2>4, <2>5
    <3> QED BY <2>2, <2>8, <3>1
  <2>10. Money /\ Levels BY AssumedTyped
  <2>11. total(roundTrips(runIntradayBacktest(series, size).trades))
         = gain(runIntradayBacktest(series, size))
    BY <2>7, <2>9, <2>10, IntradayRoundTrips
  <2> QED BY <2>2, <2>11
<1>3. ASSUME NEW i \in DOMAIN folds, Candidates[folds[i].chosen].kind = "us_stock_factor",
             folds[i].test.position = 0
      PROVE  total(roundTrips(folds[i].test.trades)) = gain(folds[i].test)
  <2>1. PICK s \in Starts(series) : folds[i] = fold(series, s) BY DEF BacktestInv
  <2>2. PICK test \in Seq(Bar), chosen \in DOMAIN Candidates :
          /\ Len(test) = TestSize
          /\ fold(series, s) = [from |-> s, chosen |-> chosen,
                              test |-> runBacktest(test, Candidates[chosen])]
    BY <1>1, FoldParts, FoldChooses
  <2>3. PICK p : p = Candidates[chosen] OBVIOUS
  <2>4. folds[i].chosen = chosen /\ folds[i].test = runBacktest(test, p) BY <2>1, <2>2, <2>3
  <2>5. p.quantity \in Int /\ p.kind = "us_stock_factor" /\ Len(test) > 0
    BY <1>3, <2>2, <2>3, <2>4, AssumedTyped DEF Parameters
  <2>6. runBacktest(test, p).position = 0 /\ Money BY <1>3, <2>4, AssumedTyped
  <2>7. total(roundTrips(runBacktest(test, p).trades)) = gain(runBacktest(test, p))
    BY <2>5, <2>6, DailyRoundTrips
  <2> QED BY <2>4, <2>7
<1> QED BY <1>2, <1>3 DEF RoundTripsAddUp

(***************************************************************************)
(* No look-ahead                                                           *)
(***************************************************************************)

\* A fold does not depend on bars after the cut.
LEMMA FoldIsBlind ==
  ASSUME BacktestAssumption, NEW bars \in Tapes, NEW s \in Starts(bars),
         NEW k \in 1 .. Len(bars) - 1, k - s - TrainSize >= 0
  PROVE  LET f == fold(bars, s)
             g == fold(unknownAfter(bars, k), s)
             j == k - s - TrainSize
         IN f.from = s /\ g.chosen = f.chosen /\ until(g.test, j) = until(f.test, j)
<1>1. bars \in Seq(Bar) BY DEF BacktestAssumption
<1>2. PICK n \in Nat : n = Len(bars) /\ k \in DOMAIN bars BY <1>1
<1>3. PICK u \in Seq(Bar) : u = unknownAfter(bars, k) BY <1>1, <1>2, Continued
<1>4. Len(u) = Len(bars) /\ \A i \in 1 .. k : u[i] = bars[i] BY <1>1, <1>2, <1>3, Continued
<1>5. s \in Starts(u) BY <1>4 DEF Starts
<1>6. PICK m \in Nat, t \in Nat : m = TrainSize /\ t = TestSize BY AssumedTyped
<1>7. s \in Nat BY DEF Starts
<1>8. PICK j \in Nat : j = k - s - m /\ s + m + j = k BY <1>2, <1>6, <1>7
<1>9. PICK trainA \in Seq(Bar), testA \in Seq(Bar) : Windows(bars, s, trainA, testA)
  BY <1>1, FoldWindows
<1>10. PICK trainB \in Seq(Bar), testB \in Seq(Bar) : Windows(u, s, trainB, testB)
  BY <1>5, FoldWindows
<1>11. /\ Len(trainA) = m /\ \A i \in 1 .. m : trainA[i] = bars[s + i]
       /\ Len(testA) = t /\ \A i \in 1 .. t : testA[i] = bars[s + m + i]
  BY <1>6, <1>9 DEF Windows
<1>12. /\ Len(trainB) = m /\ \A i \in 1 .. m : trainB[i] = u[s + i]
       /\ Len(testB) = t /\ \A i \in 1 .. t : testB[i] = u[s + m + i]
  BY <1>6, <1>10 DEF Windows
<1>13. trainB = trainA
  <2>1. ASSUME NEW i \in 1 .. m PROVE trainB[i] = trainA[i]
    <3>1. s + i \in 1 .. k BY <1>7, <1>8
    <3> QED BY <1>4, <1>11, <1>12, <3>1
  <2>2. Len(trainA) = m /\ Len(trainB) = m BY <1>11, <1>12
  <2> QED BY <2>1, <2>2
<1>14. PICK c \in DOMAIN Candidates : c = selectParameters(trainA) BY <1>9, FoldChooses DEF Windows
<1>15. PICK p : p = Candidates[c] /\ p.quantity \in Int BY AssumedTyped DEF Parameters
<1>16. until(runBacktest(testA, p), j) = until(runBacktest(testB, p), j)
  <2>1. ASSUME NEW i \in 1 .. t, i <= j PROVE testA[i] = testB[i]
    <3>1. s + m + i \in 1 .. k BY <1>7, <1>8, <2>1
    <3> QED BY <1>4, <1>11, <1>12, <3>1
  <2>2. Len(testA) = t /\ Len(testB) = t BY <1>11, <1>12
  <2>3. CASE j <= t
    <3>1. j \in 0 .. Len(testA) BY <2>2, <2>3
    <3>2. \A i \in 1 .. j : testA[i] = testB[i] BY <2>1, <2>3
    <3>3. Len(testA) = Len(testB) BY <2>2
    <3> QED BY <1>15, <3>1, <3>2, <3>3, AssumedTyped, DailyBlind
  <2>4. CASE ~(j <= t)
    <3>1. \A i \in 1 .. t : testA[i] = testB[i] BY <2>1, <2>4
    <3>2. testA = testB BY <2>2, <3>1
    <3> QED BY <3>2
  <2> QED BY <2>3, <2>4
<1>17. /\ fold(bars, s).from = s /\ fold(bars, s).chosen = c /\ fold(u, s).chosen = c
       /\ fold(bars, s).test = runBacktest(testA, p) /\ fold(u, s).test = runBacktest(testB, p)
  <2>1. fold(bars, s) = [from |-> s, chosen |-> c, test |-> runBacktest(testA, p)]
    <3>1. fold(bars, s) = [from |-> s, chosen |-> selectParameters(trainA),
                           test |-> runBacktest(testA, Candidates[selectParameters(trainA)])]
      BY <1>9 DEF Windows
    <3> QED BY <1>14, <1>15, <3>1
  <2>2. fold(u, s) = [from |-> s, chosen |-> c, test |-> runBacktest(testB, p)]
    <3>1. fold(u, s) = [from |-> s, chosen |-> selectParameters(trainB),
                        test |-> runBacktest(testB, Candidates[selectParameters(trainB)])]
      BY <1>10 DEF Windows
    <3> QED BY <1>13, <1>14, <1>15, <3>1
  <2> QED BY <2>1, <2>2
<1> QED BY <1>3, <1>6, <1>8, <1>16, <1>17

\* An intraday run up to the last merged bar before the cut does not depend on bars after it.
LEMMA ComparisonIsBlind ==
  ASSUME BacktestAssumption, NEW bars \in Tapes, NEW size \in {1, SetupGroup, TrendGroup},
         NEW k \in 1 .. Len(bars) - 1, k \div size < Len(bars) \div size
  PROVE  until(runIntradayBacktest(unknownAfter(bars, k), size), k \div size)
         = until(runIntradayBacktest(bars, size), k \div size)
<1>1. bars \in Seq(Bar) /\ size \in Nat \ {0}
  <2>1. bars \in Seq(Bar) BY DEF BacktestAssumption
  <2>2. SetupGroup \in Nat \ {0} /\ TrendGroup \in Nat \ {0} BY AssumedTyped
  <2> QED BY <2>1, <2>2
<1>2. PICK n \in Nat : n = Len(bars) /\ k \in DOMAIN bars /\ k \in Nat /\ k <= n /\ n > 0 BY <1>1
<1>3. PICK u \in Seq(Bar) : u = unknownAfter(bars, k) BY <1>1, <1>2, Continued
<1>4. Len(bars) = Len(u) /\ \A i \in 1 .. k : bars[i] = u[i] BY <1>1, <1>2, <1>3, Continued
<1>5. PICK j \in Nat : j = k \div size BY <1>1, <1>2
<1>6. PICK a, b : a = resample(bars, size) /\ b = resample(u, size) OBVIOUS
<1>7. IntradayBars(a) BY <1>2, <1>6, MergedTape
<1>8. IntradayBars(b) BY <1>2, <1>3, <1>6, MergedBars
<1>9. Len(a) = Len(bars) \div size BY <1>1, <1>6, MergedTyped
<1>10. Len(b) = Len(u) \div size BY <1>1, <1>6, MergedTyped
<1>11. Len(a) = Len(b) /\ j < Len(a) BY <1>4, <1>5, <1>9, <1>10
<1>12. \A i \in 1 .. j : a[i] = b[i] /\ SubSeq(a, 1, i) = SubSeq(b, 1, i)
  <2>1. k <= Len(bars) BY <1>2
  <2>2. \A g \in 1 .. k \div size :
          /\ resample(bars, size)[g] = resample(u, size)[g]
          /\ SubSeq(resample(bars, size), 1, g) = SubSeq(resample(u, size), 1, g)
    BY <1>1, <1>2, <1>4, <2>1, MergedAlike
  <2> QED BY <1>5, <1>6, <2>2
<1>13. Money /\ Levels BY AssumedTyped
<1>14. until(runIntradayBacktest(bars, size), j) = until(runIntradayBacktest(u, size), j)
  BY <1>6, <1>7, <1>8, <1>11, <1>12, <1>13, IntradayBlind
<1> QED BY <1>3, <1>5, <1>14

LEMMA InvForesees == BacktestAssumption /\ BacktestInv => NoLookAhead
<1> SUFFICES ASSUME BacktestAssumption, BacktestInv, NEW k \in 1 .. Len(series) - 1
             PROVE  /\ folds # <<>> => ~foldForesees(k)
                    /\ compared # <<>> => ~comparisonForesees(k)
  BY DEF NoLookAhead
<1>1. series \in Tapes /\ series \in Seq(Bar) BY DEF BacktestInv, BacktestAssumption
<1>2. ASSUME folds # <<>> PROVE ~foldForesees(k)
  <2>1. Len(folds) \in DOMAIN folds
    <3>1. PICK S : folds \in Seq(S) BY DEF BacktestInv
    <3> QED BY <1>2, <3>1
  <2>2. PICK s \in Starts(series) : folds[Len(folds)] = fold(series, s) BY <2>1 DEF BacktestInv
  <2>3. SUFFICES ASSUME foldForesees(k) PROVE FALSE OBVIOUS
  <2>4. PICK f : f = fold(series, s) OBVIOUS
  <2>5. f.from = s BY <1>1, <2>4, FoldParts
  <2>6. PICK g : g = fold(unknownAfter(series, k), s) OBVIOUS
  <2>7. PICK j : j = k - s - TrainSize OBVIOUS
  <2>8. j >= 0 /\ (g.chosen # f.chosen \/ until(g.test, j) # until(f.test, j))
    BY <2>2, <2>3, <2>4, <2>5, <2>6, <2>7 DEF foldForesees
  <2>9. g.chosen = f.chosen /\ until(g.test, j) = until(f.test, j)
    BY <1>1, <2>4, <2>6, <2>7, <2>8, FoldIsBlind
  <2> QED BY <2>8, <2>9
<1>3. ASSUME compared # <<>> PROVE ~comparisonForesees(k)
  <2>1. PICK i : i = Len(compared) /\ i \in DOMAIN compared
    <3>1. PICK S : compared \in Seq(S) BY DEF BacktestInv
    <3> QED BY <1>3, <3>1
  <2>2. PICK size : size = Timeframes[i] OBVIOUS
  <2>3. i \in 1 .. 3 /\ compared[i] = runIntradayBacktest(series, size)
    BY <2>1, <2>2 DEF BacktestInv, ComparedOn
  <2>4. size \in {1, SetupGroup, TrendGroup} BY <2>2, <2>3 DEF Timeframes
  <2>5. SUFFICES ASSUME comparisonForesees(k) PROVE FALSE OBVIOUS
  <2>6. /\ k \div size < Len(series) \div size
        /\ until(runIntradayBacktest(unknownAfter(series, k), size), k \div size)
           # until(compared[i], k \div size)
    BY <2>1, <2>2, <2>5 DEF comparisonForesees
  <2>7. until(runIntradayBacktest(unknownAfter(series, k), size), k \div size)
        = until(runIntradayBacktest(series, size), k \div size)
    BY <1>1, <2>4, <2>6, ComparisonIsBlind
  <2> QED BY <2>3, <2>6, <2>7
<1> QED BY <1>2, <1>3

(***************************************************************************)
(* The theorems                                                            *)
(***************************************************************************)

\* The results are always those of the runs over the tape that was drawn.
LEMMA BacktestInvariant == BacktestSpec => []BacktestInv
<1>0. BacktestAssumption BY BacktestAssumed
<1>1. BacktestInit => BacktestInv BY <1>0, InvInit
<1>2. BacktestInv /\ [BacktestNext]_backtestVars => BacktestInv' BY <1>0, InvStep
<1> QED BY <1>1, <1>2, PTL DEF BacktestSpec

\* Whatever the tape, the sizes of the windows and the candidates, neither a
\* backtest, nor a choice of parameters, nor a bar merged from smaller ones
\* depends on a bar that came later.
THEOREM BacktestSeesNoFuture == BacktestSpec => []NoLookAhead
<1>1. BacktestInv => NoLookAhead BY BacktestAssumed, InvForesees
<1> QED BY <1>1, BacktestInvariant, PTL

\* Whatever the prices, fees and slippage, the round trips the metrics are
\* computed from add up to what the equity curve gained.
THEOREM BacktestAddsUp == BacktestSpec => []RoundTripsAddUp
<1>1. BacktestInv => RoundTripsAddUp BY BacktestAssumed, InvAddsUp
<1> QED BY <1>1, BacktestInvariant, PTL
=============================================================================
