------------------------- MODULE PaperTradingProofs -------------------------
(***************************************************************************)
(* What PaperTrading keeps, for every number of proposals, requests,       *)
(* dashboard loads and faults, and every kind of proposal.                 *)
(***************************************************************************)
EXTENDS PaperTrading, FiniteSetTheorems, WellFoundedInduction, TLAPS

-----------------------------------------------------------------------------
(* Sums over finite sets: what MapThenSumSet() of the community modules    *)
(* computes, as a function of the subsets (Adds), and what becomes of a    *)
(* sum when one of the summands changes.  The induction over the subsets   *)
(* is a smallest counterexample: the strict subsets of a finite set are    *)
(* well founded.                                                           *)

\* The element that MapThenSumSet() takes of s.
pick(s) == CHOOSE x \in s : TRUE

\* The sum of f over S.
SumOver(f, S) == MapThenSumSet(LAMBDA x : f[x], S)

\* g[t] is the sum of f over t, for the subsets t of s.
Adds(g, f, s) ==
  /\ g \in [SUBSET s -> Int]
  /\ \A t \in SUBSET s : g[t] = IF t = {} THEN 0 ELSE f[pick(t)] + g[t \ {pick(t)}]

\* g is a function that the definition of the fold describes.
Built(g, f, s) == g = [t \in SUBSET s |-> IF t = {} THEN 0 ELSE f[pick(t)] + g[t \ {pick(t)}]]

\* A non-empty set of finite sets has a smallest element.
LEMMA SmallestSubset ==
  ASSUME NEW S, IsFiniteSet(S), NEW T, T \subseteq SUBSET S, T # {}
  PROVE  \E s \in T : \A t \in SUBSET s : t # s => t \notin T
<1> DEFINE R == StrictSubsetOrdering(S)
<1>1. IsWellFoundedOn(R, SUBSET S)
  BY FS_StrictSubsetOrderingWellFounded, FS_FiniteSubsetsOfFinite
<1>2. PICK s \in T : \A t \in T : ~ (<<t, s>> \in R)
  <2> HIDE DEF R
  <2> QED BY <1>1, WFMin
<1>3. \A t \in SUBSET s : t # s => t \notin T
  <2> TAKE t \in SUBSET s
  <2>1. t # s => <<t, s>> \in R BY DEF StrictSubsetOrdering
  <2> QED BY <1>2, <2>1
<1> QED BY <1>3

\* Two functions that add agree wherever both are defined.
LEMMA AddsAgree ==
  ASSUME NEW S, IsFiniteSet(S), NEW f, NEW s \in SUBSET S, NEW t \in SUBSET S, NEW g, NEW h,
         Adds(g, f, s), Adds(h, f, t)
  PROVE  \A u \in SUBSET (s \cap t) : g[u] = h[u]
<1> DEFINE T == {u \in SUBSET (s \cap t) : g[u] # h[u]}
<1> SUFFICES ASSUME T # {} PROVE FALSE OBVIOUS
<1>1. T \subseteq SUBSET S OBVIOUS
<1>2. PICK u \in T : \A v \in SUBSET u : v # u => v \notin T
  <2> HIDE DEF T
  <2> QED BY <1>1, SmallestSubset
<1>3. u \in SUBSET (s \cap t) /\ g[u] # h[u] OBVIOUS
<1>4. CASE u = {} BY <1>3, <1>4 DEF Adds
<1>5. CASE u # {}
  <2>1. pick(u) \in u BY <1>5 DEF pick
  <2>2. u \ {pick(u)} \notin T BY <1>2, <2>1
  <2>3. g[u \ {pick(u)}] = h[u \ {pick(u)}] BY <1>3, <2>2
  <2> QED BY <1>3, <1>5, <2>3 DEF Adds
<1> QED BY <1>4, <1>5

\* So there is one sum.
LEMMA AddsUnique ==
  ASSUME NEW S, IsFiniteSet(S), NEW f, NEW g, NEW h, Adds(g, f, S), Adds(h, f, S)
  PROVE  g[S] = h[S]
<1>1. \A s, t \in SUBSET S : Adds(g, f, s) /\ Adds(h, f, t) => \A u \in SUBSET (s \cap t) : g[u] = h[u]
  <2> SUFFICES ASSUME NEW s \in SUBSET S, NEW t \in SUBSET S, Adds(g, f, s), Adds(h, f, t)
               PROVE  \A u \in SUBSET (s \cap t) : g[u] = h[u]
    OBVIOUS
  <2> QED BY AddsAgree
<1>2. S \in SUBSET S /\ S \in SUBSET (S \cap S) OBVIOUS
<1> QED BY <1>1, <1>2

\* There is a function that adds.
LEMMA AddsExists ==
  ASSUME NEW S, IsFiniteSet(S), NEW f \in [S -> Int]
  PROVE  \E g : Adds(g, f, S)
<1> DEFINE T == {s \in SUBSET S : ~ \E g : Adds(g, f, s)}
<1> SUFFICES ASSUME T # {} PROVE FALSE OBVIOUS
<1>1. T \subseteq SUBSET S OBVIOUS
<1>2. PICK s \in T : \A t \in SUBSET s : t # s => t \notin T
  <2> HIDE DEF T
  <2> QED BY <1>1, SmallestSubset
<1>3. s \in SUBSET S /\ (~ \E g : Adds(g, f, s)) OBVIOUS
<1> DEFINE G(t) == CHOOSE g : Adds(g, f, t)
<1>4. \A t \in SUBSET s : t # s => Adds(G(t), f, t)
  <2> TAKE t \in SUBSET s
  <2>1. t # s => \E g : Adds(g, f, t) BY <1>2, <1>3
  <2> QED BY <2>1
<1> HIDE DEF T, G
<1>5. \A t \in SUBSET s : \A u \in SUBSET t : t # s => G(t)[u] = G(u)[u]
  <2> TAKE t \in SUBSET s
  <2> TAKE u \in SUBSET t
  <2> HAVE t # s
  <2>1. u \in SUBSET s /\ u # s OBVIOUS
  <2>2. Adds(G(t), f, t) /\ Adds(G(u), f, u) BY <1>4, <2>1
  <2>3. t \in SUBSET S /\ u \in SUBSET S /\ u \in SUBSET (t \cap u) BY <1>3
  <2> QED BY <2>2, <2>3, AddsAgree
<1> DEFINE last == IF s = {} THEN 0 ELSE f[pick(s)] + G(s \ {pick(s)})[s \ {pick(s)}]
           g == [t \in SUBSET s |-> IF t = s THEN last ELSE G(t)[t]]
<1>6. s # {} => pick(s) \in s BY DEF pick
<1>7. \A t \in SUBSET s : t # s => G(t)[t] \in Int BY <1>4 DEF Adds
<1>8. last \in Int
  <2>1. CASE s = {} BY <2>1
  <2>2. CASE s # {}
    <3>1. f[pick(s)] \in Int BY <1>3, <1>6, <2>2
    <3>2. G(s \ {pick(s)})[s \ {pick(s)}] \in Int BY <1>6, <1>7, <2>2
    <3> QED BY <2>2, <3>1, <3>2
  <2> QED BY <2>1, <2>2
<1>9. g \in [SUBSET s -> Int] BY <1>7, <1>8
<1>10. ASSUME NEW t \in SUBSET s
       PROVE  g[t] = IF t = {} THEN 0 ELSE f[pick(t)] + g[t \ {pick(t)}]
  <2>0. t # {} => pick(t) \in t BY DEF pick
  <2>1. CASE t = s
    <3>1. g[t] = last BY <2>1
    <3>2. s # {} => g[s \ {pick(s)}] = G(s \ {pick(s)})[s \ {pick(s)}] BY <1>6
    <3> QED BY <2>1, <3>1, <3>2
  <2>2. CASE t # s
    <3>1. g[t] = G(t)[t] BY <2>2
    <3>2. G(t)[t] = IF t = {} THEN 0 ELSE f[pick(t)] + G(t)[t \ {pick(t)}]
      BY <1>4, <2>2 DEF Adds
    <3>3. t # {} => g[t \ {pick(t)}] = G(t)[t \ {pick(t)}]
      <4> HAVE t # {}
      <4> DEFINE u == t \ {pick(t)}
      <4>1. u \in SUBSET s /\ u # s /\ u \in SUBSET t BY <2>0
      <4>2. g[u] = G(u)[u] BY <4>1
      <4>3. G(t)[u] = G(u)[u] BY <4>1, <1>5, <2>2
      <4> QED BY <4>2, <4>3
    <3> QED BY <3>1, <3>2, <3>3
  <2> QED BY <2>1, <2>2
<1> HIDE DEF g
<1>11. Adds(g, f, s) BY <1>9, <1>10 DEF Adds
<1> QED BY <1>3, <1>11

\* A function that is built this way adds: its values are integers.
LEMMA FixAdds ==
  ASSUME NEW S, IsFiniteSet(S), NEW f \in [S -> Int], NEW it,
         Built(it, f, S)
  PROVE  Adds(it, f, S)
<1>0. it = [s \in SUBSET S |-> IF s = {} THEN 0 ELSE f[pick(s)] + it[s \ {pick(s)}]] BY DEF Built
<1>1. \A s \in SUBSET S : it[s] = IF s = {} THEN 0 ELSE f[pick(s)] + it[s \ {pick(s)}] BY <1>0
<1> DEFINE T == {s \in SUBSET S : it[s] \notin Int}
<1>2. T = {}
  <2> SUFFICES ASSUME T # {} PROVE FALSE OBVIOUS
  <2>1. T \subseteq SUBSET S OBVIOUS
  <2>2. PICK s \in T : \A t \in SUBSET s : t # s => t \notin T
    <3> HIDE DEF T
    <3> QED BY <2>1, SmallestSubset
  <2>3. s \in SUBSET S /\ it[s] \notin Int OBVIOUS
  <2>4. s # {} BY <1>1, <2>3
  <2>5. pick(s) \in s BY <2>4 DEF pick
  <2>6. s \ {pick(s)} \notin T BY <2>2, <2>5
  <2>7. it[s \ {pick(s)}] \in Int /\ f[pick(s)] \in Int BY <2>3, <2>5, <2>6
  <2>8. it[s] = f[pick(s)] + it[s \ {pick(s)}] BY <1>1, <2>3, <2>4
  <2>9. f[pick(s)] + it[s \ {pick(s)}] \in Int BY <2>7
  <2> QED BY <2>3, <2>8, <2>9
<1>3. \A s \in SUBSET S : it[s] \in Int BY <1>2
<1>4. it \in [SUBSET S -> Int] BY <1>0, <1>3
<1> QED BY <1>1, <1>4 DEF Adds

\* What MapThenSumSet() computes: there is a function that adds, and so the one
\* that it chooses does.
LEMMA SumIsAdds ==
  ASSUME NEW S, IsFiniteSet(S), NEW f \in [S -> Int]
  PROVE  \E g : Adds(g, f, S) /\ SumOver(f, S) = g[S]
<1> DEFINE D(g) == [s \in SUBSET S |-> IF s = {} THEN 0 ELSE f[pick(s)] + g[s \ {pick(s)}]]
           it == CHOOSE g : g = D(g)
<1>1. PICK g : Adds(g, f, S) BY AddsExists
<1>2. g = D(g) BY <1>1 DEF Adds
<1>3. it = D(it) BY <1>2
<1>4. SumOver(f, S) = it[S]
  BY DEF SumOver, MapThenSumSet, MapThenFoldSet, pick
<1> HIDE DEF it
<1>5. Adds(it, f, S) BY <1>3, FixAdds DEF Built
<1> QED BY <1>4, <1>5

\* Every function that adds has the same sum.
LEMMA FixIsSum ==
  ASSUME NEW S, IsFiniteSet(S), NEW f \in [S -> Int], NEW it,
         Built(it, f, S)
  PROVE  it[S] = SumOver(f, S)
<1>1. PICK g : Adds(g, f, S) /\ SumOver(f, S) = g[S] BY SumIsAdds
<1>2. Adds(it, f, S) BY FixAdds
<1>3. it[S] = g[S] BY <1>1, <1>2, AddsUnique
<1> QED BY <1>1, <1>3

\* There is such a function.
LEMMA FixExists ==
  ASSUME NEW S, IsFiniteSet(S), NEW f \in [S -> Int]
  PROVE  \E it : Built(it, f, S)
<1>1. PICK g : Adds(g, f, S) BY AddsExists
<1>2. Built(g, f, S) BY <1>1 DEF Adds, Built
<1> QED BY <1>2

\* The sum of integers is one.
LEMMA SumIsInt ==
  ASSUME NEW S, IsFiniteSet(S), NEW f \in [S -> Int]
  PROVE  SumOver(f, S) \in Int
<1>1. PICK g : Adds(g, f, S) /\ SumOver(f, S) = g[S] BY SumIsAdds
<1>2. S \in SUBSET S OBVIOUS
<1> QED BY <1>1, <1>2 DEF Adds

\* When one summand changes by d, so does the sum.
LEMMA SumStep ==
  ASSUME NEW S, IsFiniteSet(S), NEW f \in [S -> Int], NEW x \in S, NEW d \in Int
  PROVE  SumOver([f EXCEPT ![x] = f[x] + d], S) = SumOver(f, S) + d
<1> DEFINE h == [f EXCEPT ![x] = f[x] + d]
<1>1. h \in [S -> Int] /\ h[x] = f[x] + d /\ \A y \in S \ {x} : h[y] = f[y] OBVIOUS
<1> HIDE DEF h
<1>2. PICK g : Adds(g, f, S) /\ SumOver(f, S) = g[S] BY SumIsAdds
<1>3. PICK k : Adds(k, h, S) /\ SumOver(h, S) = k[S] BY <1>1, SumIsAdds
<1> DEFINE T == {s \in SUBSET S : k[s] # g[s] + (IF x \in s THEN d ELSE 0)}
<1>4. T = {}
  <2> SUFFICES ASSUME T # {} PROVE FALSE OBVIOUS
  <2>1. T \subseteq SUBSET S OBVIOUS
  <2>2. PICK s \in T : \A t \in SUBSET s : t # s => t \notin T
    <3> HIDE DEF T
    <3> QED BY <2>1, SmallestSubset
  <2>3. s \in SUBSET S /\ k[s] # g[s] + (IF x \in s THEN d ELSE 0) OBVIOUS
  <2>4. s # {}
    <3> SUFFICES ASSUME s = {} PROVE FALSE OBVIOUS
    <3>1. k[{}] = 0 /\ g[{}] = 0 BY <1>2, <1>3 DEF Adds
    <3>2. k[{}] # g[{}] + 0 BY <2>3
    <3> QED BY <3>1, <3>2
  <2> DEFINE y == pick(s)  t == s \ {y}
  <2>5. y \in s /\ y \in S /\ t \in SUBSET S BY <2>3, <2>4 DEF pick
  <2>6. k[t] = g[t] + (IF x \in t THEN d ELSE 0) BY <2>2, <2>5
  <2>7. k[s] = h[y] + k[t] /\ g[s] = f[y] + g[t] BY <1>2, <1>3, <2>3, <2>4 DEF Adds
  <2>8. f[y] \in Int /\ g[t] \in Int BY <1>2, <2>5 DEF Adds
  <2> HIDE DEF y, T
  <2>9. CASE y = x BY <1>1, <2>3, <2>5, <2>6, <2>7, <2>8, <2>9
  <2>10. CASE y # x BY <1>1, <2>3, <2>5, <2>6, <2>7, <2>8, <2>10
  <2> QED BY <2>9, <2>10
<1>5. k[S] = g[S] + d BY <1>4
<1> QED BY <1>2, <1>3, <1>5 DEF h

\* A sum of nothing but zeros.
LEMMA SumOfZeros ==
  ASSUME NEW S, IsFiniteSet(S), NEW f \in [S -> Int], \A x \in S : f[x] = 0
  PROVE  SumOver(f, S) = 0
<1>2. PICK g : Adds(g, f, S) /\ SumOver(f, S) = g[S] BY SumIsAdds
<1> DEFINE T == {s \in SUBSET S : g[s] # 0}
<1>4. T = {}
  <2> SUFFICES ASSUME T # {} PROVE FALSE OBVIOUS
  <2>1. T \subseteq SUBSET S OBVIOUS
  <2>2. PICK s \in T : \A t \in SUBSET s : t # s => t \notin T
    <3> HIDE DEF T
    <3> QED BY <2>1, SmallestSubset
  <2>3. s \in SUBSET S /\ g[s] # 0 OBVIOUS
  <2>4. s # {} BY <1>2, <2>3 DEF Adds
  <2> DEFINE y == pick(s)  t == s \ {y}
  <2>5. y \in s /\ y \in S BY <2>3, <2>4 DEF pick
  <2>6. g[t] = 0 BY <2>2, <2>5
  <2>7. g[s] = f[y] + g[t] BY <1>2, <2>3, <2>4 DEF Adds
  <2> QED BY <2>3, <2>5, <2>6, <2>7
<1> QED BY <1>2, <1>4

\* A sum is within what its summands allow: c for those in T, nothing for the others.
LEMMA SumBounds ==
  ASSUME NEW S, IsFiniteSet(S), NEW f \in [S -> Int], NEW T \in SUBSET S, NEW c \in Nat,
         \A x \in S : f[x] <= (IF x \in T THEN c ELSE 0)
  PROVE  SumOver(f, S) <= c * Cardinality(T)
<1>1. PICK g : Adds(g, f, S) /\ SumOver(f, S) = g[S] BY SumIsAdds
<1>2. IsFiniteSet(T) /\ \A s \in SUBSET S : IsFiniteSet(s \cap T)
  BY FS_Subset
<1> DEFINE n(s) == Cardinality(s \cap T)
           W    == {s \in SUBSET S : ~(g[s] <= c * n(s))}
<1>3. W = {}
  <2> SUFFICES ASSUME W # {} PROVE FALSE OBVIOUS
  <2>1. W \subseteq SUBSET S OBVIOUS
  <2>2. PICK s \in W : \A t \in SUBSET s : t # s => t \notin W
    <3> HIDE DEF W
    <3> QED BY <2>1, SmallestSubset
  <2>3. s \in SUBSET S /\ ~(g[s] <= c * n(s)) OBVIOUS
  <2>4. \A u \in SUBSET S : n(u) \in Nat BY <1>2, FS_CardinalityType
  <2>5. s # {}
    <3> SUFFICES ASSUME s = {} PROVE FALSE OBVIOUS
    <3>1. g[s] = 0 BY <1>1, <2>3 DEF Adds
    <3>2. c * n(s) \in Nat BY <2>3, <2>4
    <3> HIDE DEF n
    <3> QED BY <2>3, <3>1, <3>2
  <2> DEFINE y == pick(s)  t == s \ {y}
  <2>6. y \in s /\ y \in S /\ t \in SUBSET S /\ t # s BY <2>3, <2>5 DEF pick
  <2>7. g[t] <= c * n(t) BY <2>2, <2>6
  <2>8. g[s] = f[y] + g[t] BY <1>1, <2>3, <2>5 DEF Adds
  <2>9. f[y] \in Int /\ g[t] \in Int BY <1>1, <2>6 DEF Adds
  <2>10. y \in T => n(s) = n(t) + 1
    <3> HAVE y \in T
    <3>1. t \cap T = (s \cap T) \ {y} /\ y \in s \cap T BY <2>6
    <3>2. Cardinality((s \cap T) \ {y}) = Cardinality(s \cap T) - 1 BY <1>2, <2>3, <3>1, FS_RemoveElement
    <3>3. n(t) = n(s) - 1 BY <3>1, <3>2
    <3>4. n(s) \in Nat BY <2>3, <2>4
    <3> HIDE DEF n, t
    <3> QED BY <3>3, <3>4
  <2>11. y \notin T => n(s) = n(t)
    <3> HAVE y \notin T
    <3>1. t \cap T = s \cap T BY <2>6
    <3> QED BY <3>1
  <2>12. n(t) \in Nat BY <2>4, <2>6
  <2> HIDE DEF n, W, y
  <2>13. CASE y \in T
    <3>1. f[y] <= c BY <2>6, <2>13
    <3>2. c * (n(t) + 1) = c * n(t) + c /\ c * n(t) \in Nat BY <2>12
    <3>3. g[s] <= c * n(t) + c BY <2>7, <2>8, <2>9, <3>1, <3>2
    <3>4. n(s) = n(t) + 1 BY <2>10, <2>13
    <3> QED BY <2>3, <3>2, <3>3, <3>4
  <2>14. CASE y \notin T
    <3>1. f[y] <= 0 BY <2>6, <2>14
    <3>2. c * n(t) \in Nat BY <2>12
    <3>3. g[s] <= c * n(t) BY <2>7, <2>8, <2>9, <3>1, <3>2
    <3>4. n(s) = n(t) BY <2>11, <2>14
    <3> QED BY <2>3, <3>3, <3>4
  <2> QED BY <2>13, <2>14
<1>4. g[S] <= c * n(S) BY <1>3
<1>5. S \cap T = T OBVIOUS
<1> QED BY <1>1, <1>4, <1>5

\* A sum of nothing below 0 is not below 0.
LEMMA SumNotNegative ==
  ASSUME NEW S, IsFiniteSet(S), NEW f \in [S -> Int], \A x \in S : f[x] >= 0
  PROVE  SumOver(f, S) >= 0
<1>1. PICK g : Adds(g, f, S) /\ SumOver(f, S) = g[S] BY SumIsAdds
<1> DEFINE W == {s \in SUBSET S : ~(g[s] >= 0)}
<1>2. W = {}
  <2> SUFFICES ASSUME W # {} PROVE FALSE OBVIOUS
  <2>1. W \subseteq SUBSET S OBVIOUS
  <2>2. PICK s \in W : \A t \in SUBSET s : t # s => t \notin W
    <3> HIDE DEF W
    <3> QED BY <2>1, SmallestSubset
  <2>3. s \in SUBSET S /\ ~(g[s] >= 0) OBVIOUS
  <2>4. s # {}
    <3> SUFFICES ASSUME s = {} PROVE FALSE OBVIOUS
    <3>1. g[s] = 0 BY <1>1, <2>3 DEF Adds
    <3> HIDE DEF W
    <3> QED BY <2>3, <3>1
  <2> DEFINE y == pick(s)  t == s \ {y}
  <2>5. y \in s /\ y \in S /\ t \in SUBSET S /\ t # s BY <2>3, <2>4 DEF pick
  <2>6. g[t] >= 0 BY <2>2, <2>5
  <2>7. g[s] = f[y] + g[t] BY <1>1, <2>3, <2>4 DEF Adds
  <2>8. f[y] \in Int /\ g[t] \in Int BY <1>1, <2>5 DEF Adds
  <2> HIDE DEF W, y
  <2> QED BY <2>3, <2>5, <2>6, <2>7, <2>8
<1> QED BY <1>1, <1>2

\* The same, of a function that differs from f at x alone.
LEMMA SumChange ==
  ASSUME NEW S, IsFiniteSet(S), NEW f \in [S -> Int], NEW g \in [S -> Int], NEW x \in S, NEW d \in Int,
         g[x] = f[x] + d, \A y \in S \ {x} : g[y] = f[y]
  PROVE  SumOver(g, S) = SumOver(f, S) + d
<1>1. g = [f EXCEPT ![x] = f[x] + d] OBVIOUS
<1>2. SumOver([f EXCEPT ![x] = f[x] + d], S) = SumOver(f, S) + d BY SumStep
<1> QED BY <1>1, <1>2

\* Of three summands, those whose owner is in b.
part(f, own, S, b) == [o \in S |-> IF own[o] \in b THEN f[o] ELSE 0]
some(g, B, b)      == [p \in B |-> IF p \in b THEN g[p] ELSE 0]

\* From u to v three summands come in that were 0, and from m to n one that is no more than they bring.
Brought(S, B, u, v, m, n, e, x, y, p, d) ==
  /\ u \in [S -> Int] /\ v \in [S -> Int] /\ m \in [B -> Int] /\ n \in [B -> Int]
  /\ e \in S /\ x \in S /\ y \in S /\ e # x /\ e # y /\ x # y
  /\ u[e] = 0 /\ u[x] = 0 /\ u[y] = 0
  /\ \A o \in S \ {e, x, y} : v[o] = u[o]
  /\ p \in B /\ d \in Int /\ n[p] = m[p] + d
  /\ \A q \in B \ {p} : n[q] = m[q]
  /\ v[e] + v[x] + v[y] >= d
  /\ SumOver(u, S) >= SumOver(m, B)

\* Then the sum over v is still no less than the one over n.
LEMMA SumsKeepUp ==
  ASSUME NEW S, IsFiniteSet(S), NEW B, IsFiniteSet(B), NEW u, NEW v, NEW m, NEW n,
         NEW e, NEW x, NEW y, NEW p, NEW d, Brought(S, B, u, v, m, n, e, x, y, p, d)
  PROVE  SumOver(v, S) >= SumOver(n, B)
<1> DEFINE f1 == [u EXCEPT ![e] = v[e]]  f2 == [f1 EXCEPT ![x] = v[x]]
           i == v[e]  j == v[x]  k == v[y]
<1>0. Brought(S, B, u, v, m, n, e, x, y, p, d) OBVIOUS
<1>a. u \in [S -> Int] /\ v \in [S -> Int] /\ e \in S /\ x \in S /\ y \in S BY DEF Brought
<1>1. i \in Int /\ j \in Int /\ k \in Int /\ d \in Int /\ i + j + k >= d BY DEF Brought
<1>2. f1 \in [S -> Int] /\ f1[e] = u[e] + i /\ \A o \in S \ {e} : f1[o] = u[o] BY DEF Brought
<1>3. f2 \in [S -> Int] /\ f2[x] = f1[x] + j /\ \A o \in S \ {x} : f2[o] = f1[o] BY DEF Brought
<1>4. v[y] = f2[y] + k /\ \A o \in S \ {y} : v[o] = f2[o] BY DEF Brought
<1> HIDE DEF f1, f2, i, j, k
<1>5. SumOver(f1, S) = SumOver(u, S) + i BY <1>a, <1>1, <1>2, SumChange
<1>6. SumOver(f2, S) = SumOver(f1, S) + j BY <1>a, <1>1, <1>2, <1>3, SumChange
<1>7. SumOver(v, S) = SumOver(f2, S) + k BY <1>a, <1>1, <1>3, <1>4, SumChange
<1>8. SumOver(n, B) = SumOver(m, B) + d
  <2>1. m \in [B -> Int] /\ n \in [B -> Int] /\ p \in B /\ d \in Int /\ n[p] = m[p] + d /\ \A q \in B \ {p} : n[q] = m[q]
    BY DEF Brought
  <2> QED BY <2>1, SumChange
<1>9. SumOver(u, S) \in Int /\ SumOver(m, B) \in Int /\ SumOver(u, S) >= SumOver(m, B) BY SumIsInt DEF Brought
<1> QED BY <1>1, <1>5, <1>6, <1>7, <1>8, <1>9

\* e, x and y are the three that p owns, and make up for g[p].
Threefold(S, f, g, own, e, x, y, p) ==
  /\ e \in S /\ x \in S /\ y \in S /\ e # x /\ e # y /\ x # y
  /\ \A o \in S : own[o] = p <=> o \in {e, x, y}
  /\ f[e] + f[x] + f[y] >= g[p]

\* What SumOfThree sums over: the values f of S, each owned by one of B, and the values g of B.
Shared(S, B, f, g, own) ==
  f \in [S -> Int] /\ g \in [B -> Int] /\ own \in [S -> B] /\ IsFiniteSet(S) /\ IsFiniteSet(B)

\* The three of those in b sum up to no less than g over b.
more(S, B, f, g, own, b) == SumOver(part(f, own, S, b), S) >= SumOver(some(g, B, b), B)

\* One more p, and its three summands.
LEMMA OneOfThree ==
  ASSUME NEW S, NEW B, NEW f, NEW g, NEW own, Shared(S, B, f, g, own),
         NEW b \in SUBSET B, NEW p \in b, NEW e, NEW x, NEW y, Threefold(S, f, g, own, e, x, y, p),
         more(S, B, f, g, own, b \ {p})
  PROVE  more(S, B, f, g, own, b)
<1> DEFINE c == b \ {p}
           u == part(f, own, S, c)  v == part(f, own, S, b)
           m == some(g, B, c)       n == some(g, B, b)
           d == g[p]
<1>0. /\ f \in [S -> Int] /\ g \in [B -> Int] /\ own \in [S -> B] /\ IsFiniteSet(S) /\ IsFiniteSet(B)
      /\ p \in B /\ p \in b /\ e \in S /\ x \in S /\ y \in S /\ e # x /\ e # y /\ x # y
  BY DEF Shared, Threefold
<1>1. \A o \in S : own[o] = p <=> o \in {e, x, y} BY DEF Threefold
<1>2. u \in [S -> Int] /\ v \in [S -> Int] /\ m \in [B -> Int] /\ n \in [B -> Int] BY <1>0 DEF part, some
<1>3. u[e] = 0 /\ u[x] = 0 /\ u[y] = 0 BY <1>0, <1>1 DEF part
<1>4. v[e] = f[e] /\ v[x] = f[x] /\ v[y] = f[y] BY <1>0, <1>1 DEF part
<1>5. ASSUME NEW o \in S \ {e, x, y} PROVE v[o] = u[o]
  <2>1. own[o] # p BY <1>1
  <2> QED BY <1>0, <2>1 DEF part
<1>6. d \in Int /\ n[p] = m[p] + d BY <1>0 DEF some
<1>7. \A q \in B \ {p} : n[q] = m[q] BY <1>0 DEF some
<1>8. v[e] + v[x] + v[y] >= d BY <1>4 DEF Threefold
<1>9. SumOver(u, S) >= SumOver(m, B) BY DEF more
<1>10. SUFFICES SumOver(v, S) >= SumOver(n, B) BY DEF more
<1> HIDE DEF c, u, v, m, n, d
<1>11. Brought(S, B, u, v, m, n, e, x, y, p, d)
  BY <1>0, <1>2, <1>3, <1>5, <1>6, <1>7, <1>8, <1>9 DEF Brought
<1> QED BY <1>0, <1>11, SumsKeepUp

\* When the three summands of each p make up for g[p], so do the sums.
LEMMA SumOfThree ==
  ASSUME NEW S, NEW B, NEW f, NEW g, NEW own, Shared(S, B, f, g, own), NEW e, NEW x, NEW y,
         \A p \in B : Threefold(S, f, g, own, e[p], x[p], y[p], p)
  PROVE  SumOver(f, S) >= SumOver(g, B)
<1> DEFINE much(b) == more(S, B, f, g, own, b)
           W == {b \in SUBSET B : ~much(b)}
<1>0. f \in [S -> Int] /\ g \in [B -> Int] /\ own \in [S -> B] /\ IsFiniteSet(S) /\ IsFiniteSet(B)
  BY DEF Shared
<1>1. much({})
  <2> DEFINE u == part(f, own, S, {})  m == some(g, B, {})
  <2>1. u \in [S -> Int] /\ m \in [B -> Int] /\ (\A o \in S : u[o] = 0) /\ (\A p \in B : m[p] = 0)
    BY DEF part, some
  <2>2. SUFFICES SumOver(u, S) >= SumOver(m, B) BY DEF more
  <2> HIDE DEF u, m
  <2>3. SumOver(u, S) = 0 /\ SumOver(m, B) = 0 BY <1>0, <2>1, SumOfZeros
  <2> QED BY <2>3
<1>2. ASSUME NEW b \in SUBSET B, NEW p \in b, much(b \ {p}) PROVE much(b)
  <2>1. SUFFICES ASSUME NEW i, NEW j, NEW k, Threefold(S, f, g, own, i, j, k, p) PROVE much(b)
    OBVIOUS
  <2> QED BY <1>2, <2>1, OneOfThree
<1>3. part(f, own, S, B) = f /\ some(g, B, B) = g
  <2>1. part(f, own, S, B) = [o \in S |-> f[o]] BY <1>0 DEF part
  <2>2. some(g, B, B) = [p \in B |-> g[p]] BY <1>0 DEF some
  <2> QED BY <1>0, <2>1, <2>2
<1>4. much(B) => SumOver(f, S) >= SumOver(g, B) BY <1>3 DEF more
<1> HIDE DEF much
<1>5. W = {}
  <2> SUFFICES ASSUME W # {} PROVE FALSE OBVIOUS
  <2>1. PICK b \in W : \A c \in SUBSET b : c # b => c \notin W
    <3>1. W \subseteq SUBSET B OBVIOUS
    <3> HIDE DEF W
    <3> QED BY <1>0, <3>1, SmallestSubset
  <2>2. b \in SUBSET B /\ ~much(b) OBVIOUS
  <2>3. b # {} BY <1>1, <2>2
  <2>4. PICK p \in b : TRUE
    <3> HIDE DEF W
    <3> QED BY <2>3
  <2>5. b \ {p} \in SUBSET b /\ b \ {p} # b /\ b \ {p} \in SUBSET B BY <2>2
  <2>6. much(b \ {p})
    <3>1. b \ {p} \notin W BY <2>1, <2>5
    <3> QED BY <2>5, <3>1
  <2> QED BY <1>2, <2>2, <2>6
<1> QED BY <1>4, <1>5

-----------------------------------------------------------------------------
(* Who holds what: the invariant of the control, as predicates of values,  *)
(* so that they can be said of the old and of the new ones.                *)

Creating  == {"create", "created"}
Approving == {"approve", "approved"}
Executing == {"submit", "commit"}
Alone     == Creating \cup Approving \cup Executing

\* What the broker may answer, of any quantity.
Answers  == {Lost, ErrorAnswer} \cup [status: OrderStatus, quantity: Nat]
Verdicts == {"none", "PASS", "REJECT", "LOSS"}
FlowType == [pc: FlowPc, proposal: Proposals \cup {NoProposal}, held: Int, verdict: Verdicts,
             answer: Answers \cup {Unknown}]

\* A request finds its proposal as it left it: nobody else writes the row.
FlowOK(v, pr, ex, or) ==
  /\ v \in FlowType
  /\ v.pc # "idle" => v.proposal \in Proposals
  /\ v.pc \in Creating => pr[v.proposal].status = Absent
  /\ v.pc \in Approving => pr[v.proposal].status = "PENDING_APPROVAL"
  /\ v.pc = "execute" => pr[v.proposal].status # Absent
  /\ v.pc \in Executing => /\ pr[v.proposal].status \in {"APPROVED", "EXECUTION_ERROR"}
                           /\ ex[v.proposal] \in {"none", "ERROR"}
                           /\ or[entryOf(v.proposal)] = NoRow
  /\ v.pc = "commit" => v.answer # Unknown

Exclusive(fl) ==
  \A f, g \in Flows :
    (fl[f].pc \in Alone /\ fl[g].pc \in Alone /\ fl[f].proposal = fl[g].proposal) => f = g

FlowsOK(fl, pr, ex, or) ==
  /\ fl \in [Flows -> FlowType]
  /\ \A f \in Flows : FlowOK(fl[f], pr, ex, or)
  /\ Exclusive(fl)

\* The row p of each table goes with the others.
RowOK(p, row, e, or) ==
  /\ row \in [status: ProposalStatus \cup {Absent}, quantity: Nat, due: BOOLEAN]
  /\ isBuy(p) /\ row.status # Absent => row.quantity = Lot
  /\ row.status = Absent => e = "none"
  /\ e \in OrderStatus => or[entryOf(p)] # NoRow
  /\ (\E o \in OrderRows : o[1] = p /\ o[2] # "entry" /\ or[o] # NoRow) => isBuy(p) /\ e = "FILLED"

RowsOK(pr, ex, or) ==
  /\ pr \in [Proposals -> [status: ProposalStatus \cup {Absent}, quantity: Nat, due: BOOLEAN]]
  /\ ex \in [Proposals -> OrderStatus \cup {"none", "ERROR"}]
  /\ or \in [OrderRows -> Nat \cup {NoRow}]
  /\ \A p \in Proposals : RowOK(p, pr[p], ex[p], or)

PassType  == [pc: PassPc, todo: SUBSET OrderRows, cur: OrderRows \cup {NoOrderRow}, quantity: Nat]
Brackets  == Proposals \X {"bracket"}
TimeExits == Proposals \X TimeReasons

\* A dashboard works on entries that are on record as filled.
Bought(o, ex)    == isBuy(o[1]) /\ ex[o[1]] = "FILLED"
Timed(o)         == kind[o[1]].phase \in {25, 27}
PassOK(v, ex) ==
  /\ v \in PassType
  /\ \A o \in v.todo : Bought(o, ex)
  /\ v.pc \in {"brackets", "record"} => v.todo \subseteq Brackets
  /\ v.pc = "record" => v.cur \in Brackets /\ Bought(v.cur, ex)
  /\ v.pc \in {"intraday", "hourly", "cancel", "sell", "book"} =>
       v.todo \subseteq TimeExits /\ \A o \in v.todo : Timed(o)
  /\ v.pc \in {"cancel", "sell", "book"} => v.cur \in TimeExits /\ Bought(v.cur, ex) /\ Timed(v.cur)

PassesOK(ps, ex) ==
  /\ ps \in [Passes -> PassType]
  /\ \A r \in Passes : PassOK(ps[r], ex)

\* The broker knows a bracket only of an entry it knows.
OrderRec  == [status: OrderStatus, quantity: Nat] \cup {Unknown}
LegsRec   == [status: LegStatus, symbol: Symbols, quantity: Nat]
BrokerRec == [position: [Symbols -> Int], order: [Orders -> OrderRec], legs: [Proposals -> LegsRec]]

BrokerOK(b, pr) ==
  /\ b \in BrokerRec
  /\ \A p \in Proposals :
       /\ b.order[entryOf(p)] # Unknown => pr[p].status # Absent
       /\ b.legs[p].status # "none" =>
            b.order[entryOf(p)] # Unknown /\ b.legs[p].symbol = SymbolOf[p] /\ isBuy(p)

KindOK == kind \in [Proposals -> KindType]
RestOK ==
  /\ approval \in [Proposals -> SUBSET (Flows \X {"APPROVE", "REJECT"})]
  /\ position \in [Symbols -> Int]
  /\ enabled \in BOOLEAN /\ closing \in BOOLEAN
  /\ overdue \in [Proposals -> BOOLEAN]
  /\ faults \in 0 .. MaxFaults

Control ==
  /\ KindOK
  /\ FlowsOK(flow, proposal, execution, order)
  /\ RowsOK(proposal, execution, order)
  /\ PassesOK(pass, execution)
  /\ BrokerOK(broker, proposal)
  /\ RestOK

-----------------------------------------------------------------------------
(* Names.                                                                  *)

\* The orders of a proposal have names of their own.
LEMMA OrderNames ==
  /\ Orders \subseteq OrderRows /\ TimeExits \subseteq Orders /\ Brackets \subseteq OrderRows
  /\ \A p \in Proposals : entryOf(p) \in Orders /\ entryOf(p)[1] = p /\ entryOf(p)[2] = "entry"
  /\ \A p \in Proposals, why \in TimeReasons : exitOf(p, why) \in TimeExits
  /\ \A p \in Proposals : <<p, "bracket">> \in Brackets /\ <<p, "bracket">> \notin Orders
  /\ \A o \in OrderRows : o[1] \in Proposals /\ (o[2] = "entry" => o = entryOf(o[1]))
  /\ \A o \in TimeExits : o[2] # "entry"
  /\ \A o \in Brackets : o[2] # "entry" /\ o = <<o[1], "bracket">>
  /\ \A p, q \in Proposals : entryOf(p) = entryOf(q) => p = q
BY DEF Orders, OrderRows, TimeExits, Brackets, TimeReasons, entryOf, exitOf

\* Whatever is proposed is of some kind, and its symbol is one.
LEMMA Shape ==
  /\ KindOK => \A p \in Proposals : kind[p].side \in {"BUY", "SELL"}
                 /\ (isBuy(p) <=> kind[p].side = "BUY") /\ kind[p].phase \in {22, 25, 26, 27}
  /\ \A p \in Proposals : SymbolOf[p] \in Symbols
  /\ Lot \in Nat /\ Lot > 0
BY SymbolOfAssumption, LotAssumption DEF KindOK, KindType, isBuy

\* The statuses of this model.
LEMMA Statuses ==
  /\ {"RISK_REJECTED", "PENDING_APPROVAL", "APPROVED", "OWNER_REJECTED", "CANCELLED", "EXPIRED",
      "RISK_REJECTED_AFTER_APPROVAL", "EXECUTION_ERROR", "EXECUTION_REJECTED"} \subseteq ProposalStatus
  /\ {"FILLED", "PARTIALLY_FILLED", "SUBMITTED"} \subseteq ProposalStatus
  /\ Absent \notin ProposalStatus
<1> DEFINE A == allowedTransitions
<1>1. DOMAIN A = {"RISK_CHECKING", "PENDING_APPROVAL", "APPROVED", "REVALIDATING", "SUBMITTING", "SUBMITTED",
                  "PARTIALLY_FILLED", "CANCEL_PENDING", "EXECUTION_ERROR"}
  BY DEF allowedTransitions
<1>2. /\ A["RISK_CHECKING"] = {"RISK_REJECTED", "PENDING_APPROVAL", "EXPIRED", "CANCELLED"}
      /\ A["PENDING_APPROVAL"] = {"APPROVED", "OWNER_REJECTED", "EXPIRED", "CANCELLED"}
      /\ A["REVALIDATING"] = {"RISK_REJECTED_AFTER_APPROVAL", "SUBMITTING", "EXPIRED"}
      /\ A["SUBMITTED"] = {"PARTIALLY_FILLED", "FILLED", "EXECUTION_REJECTED", "EXECUTION_ERROR", "CANCEL_PENDING"}
  BY DEF allowedTransitions
<1>3. \A s \in DOMAIN A : "none" \notin A[s] BY DEF allowedTransitions
<1> HIDE DEF A
<1> DEFINE D == DOMAIN A  U == UNION {A[s] : s \in D}
<1>4. \A s \in D : A[s] \subseteq U OBVIOUS
<1>5. "none" \notin U /\ "none" \notin D BY <1>1, <1>3
<1>6. ProposalStatus = D \cup U BY DEF ProposalStatus, A
<1> HIDE DEF D, U
<1> QED BY <1>1, <1>2, <1>4, <1>5, <1>6 DEF D, Absent

\* What can be cancelled.
LEMMA Cancellable ==
  \A s : canMove(s, "CANCELLED") =>
    s \in {"RISK_CHECKING", "PENDING_APPROVAL", "CANCEL_PENDING", "EXECUTION_ERROR"}
<1> DEFINE A == allowedTransitions
<1>1. DOMAIN A = {"RISK_CHECKING", "PENDING_APPROVAL", "APPROVED", "REVALIDATING", "SUBMITTING", "SUBMITTED",
                  "PARTIALLY_FILLED", "CANCEL_PENDING", "EXECUTION_ERROR"}
  BY DEF allowedTransitions
<1>2. \A s \in {"APPROVED", "REVALIDATING", "SUBMITTING", "SUBMITTED", "PARTIALLY_FILLED"} : "CANCELLED" \notin A[s]
  BY DEF allowedTransitions
<1>3. \A s : canMove(s, "CANCELLED") => s \in DOMAIN A /\ "CANCELLED" \in A[s] BY DEF canMove
<1> HIDE DEF A
<1> QED BY <1>1, <1>2, <1>3

\* The status that an answer is recorded under.
LEMMA AnswerStatus ==
  /\ \A a \in Answers : a.quantity \in Nat /\ a.status \in OrderStatus \cup {"LOST", "ERROR"}
  /\ \A a \in Answers : a # Lost => a.status \in OrderStatus \cup {"ERROR"}
  /\ \A a \in Answers : a # Lost =>
       /\ fromBroker(a.status) \in ProposalStatus
       /\ fromBroker(a.status) \in {"FILLED", "PARTIALLY_FILLED", "SUBMITTED", "EXECUTION_REJECTED",
                                    "EXECUTION_ERROR"}
  /\ Unknown \notin Answers
BY Statuses DEF Answers, Lost, ErrorAnswer, Unknown, OrderStatus, fromBroker

-----------------------------------------------------------------------------
(* Steps that write one part of the state.                                 *)

\* Of proposal p, what a request that holds it rests on.
Same(p, pr, ex, or, pr2, ex2, or2) ==
  pr2[p].status = pr[p].status /\ ex2[p] = ex[p] /\ or2[entryOf(p)] = or[entryOf(p)]

\* A request whose proposal is as it was.
LEMMA FlowKeeps ==
  ASSUME NEW v, NEW pr, NEW ex, NEW or, NEW pr2, NEW ex2, NEW or2, FlowOK(v, pr, ex, or),
         v.pc \in Alone => Same(v.proposal, pr, ex, or, pr2, ex2, or2),
         v.pc = "execute" => pr2[v.proposal].status # Absent
  PROVE  FlowOK(v, pr2, ex2, or2)
BY DEF FlowOK, Same, Alone, Creating, Approving, Executing

\* One request moves, and leaves the proposals of the others as they were.
LEMMA MoveFlow ==
  ASSUME NEW fl, NEW pr, NEW ex, NEW or, NEW pr2, NEW ex2, NEW or2, FlowsOK(fl, pr, ex, or),
         NEW f \in Flows, NEW v, FlowOK(v, pr2, ex2, or2),
         \A g \in Flows \ {f} :
           /\ fl[g].pc \in Alone => Same(fl[g].proposal, pr, ex, or, pr2, ex2, or2)
           /\ fl[g].pc = "execute" => pr2[fl[g].proposal].status # Absent
           /\ v.pc \in Alone /\ fl[g].pc \in Alone => fl[g].proposal # v.proposal
  PROVE  FlowsOK([fl EXCEPT ![f] = v], pr2, ex2, or2)
<1> DEFINE fl2 == [fl EXCEPT ![f] = v]
<1>1. /\ fl2 \in [Flows -> FlowType] /\ fl2[f] = v
      /\ \A g \in Flows \ {f} : fl2[g] = fl[g]
  BY DEF FlowsOK, FlowOK
<1> HIDE DEF fl2
<1>2. ASSUME NEW g \in Flows PROVE FlowOK(fl2[g], pr2, ex2, or2)
  <2>1. CASE g = f BY <1>1, <2>1
  <2>2. CASE g # f
    <3>1. FlowOK(fl[g], pr, ex, or) BY DEF FlowsOK
    <3>2. FlowOK(fl[g], pr2, ex2, or2) BY <2>2, <3>1, FlowKeeps
    <3> QED BY <1>1, <2>2, <3>2
  <2> QED BY <2>1, <2>2
<1>3. Exclusive(fl2) BY <1>1 DEF Exclusive, FlowsOK
<1> QED BY <1>1, <1>2, <1>3 DEF FlowsOK, fl2

\* No request moves.
LEMMA FlowsStay ==
  ASSUME NEW fl, NEW pr, NEW ex, NEW or, NEW pr2, NEW ex2, NEW or2, FlowsOK(fl, pr, ex, or),
         \A g \in Flows :
           /\ fl[g].pc \in Alone => Same(fl[g].proposal, pr, ex, or, pr2, ex2, or2)
           /\ fl[g].pc = "execute" => pr2[fl[g].proposal].status # Absent
  PROVE  FlowsOK(fl, pr2, ex2, or2)
<1>1. ASSUME NEW g \in Flows PROVE FlowOK(fl[g], pr2, ex2, or2)
  <2>1. FlowOK(fl[g], pr, ex, or) BY DEF FlowsOK
  <2> QED BY <2>1, FlowKeeps
<1> QED BY <1>1 DEF FlowsOK

\* One row of the proposals is written.
LEMMA WriteRow ==
  ASSUME NEW pr, NEW ex, NEW or, RowsOK(pr, ex, or), NEW p \in Proposals, NEW row, RowOK(p, row, ex[p], or)
  PROVE  RowsOK([pr EXCEPT ![p] = row], ex, or)
BY DEF RowsOK, RowOK

\* An answer is recorded: the proposal, its execution and its order at once.
LEMMA WriteRecord ==
  ASSUME NEW pr, NEW ex, NEW or, RowsOK(pr, ex, or), NEW p \in Proposals, NEW row, NEW e, NEW q \in Nat,
         e \in OrderStatus \cup {"ERROR"}, ex[p] # "FILLED",
         RowOK(p, row, e, [or EXCEPT ![entryOf(p)] = q])
  PROVE  RowsOK([pr EXCEPT ![p] = row], [ex EXCEPT ![p] = e], [or EXCEPT ![entryOf(p)] = q])
<1> DEFINE pr2 == [pr EXCEPT ![p] = row]  ex2 == [ex EXCEPT ![p] = e]
           or2 == [or EXCEPT ![entryOf(p)] = q]
<1>1. entryOf(p) \in OrderRows /\ entryOf(p)[1] = p BY OrderNames
<1>2. /\ pr2 \in [Proposals -> [status: ProposalStatus \cup {Absent}, quantity: Nat, due: BOOLEAN]]
      /\ pr2[p] = row /\ \A r \in Proposals \ {p} : pr2[r] = pr[r]
  BY DEF RowsOK, RowOK
<1>3. /\ ex2 \in [Proposals -> OrderStatus \cup {"none", "ERROR"}]
      /\ ex2[p] = e /\ \A r \in Proposals \ {p} : ex2[r] = ex[r]
  BY DEF RowsOK
<1>4. /\ or2 \in [OrderRows -> Nat \cup {NoRow}] /\ or2[entryOf(p)] = q
      /\ \A o \in OrderRows \ {entryOf(p)} : or2[o] = or[o]
  BY <1>1 DEF RowsOK
<1>5. RowOK(p, pr2[p], ex2[p], or2) BY <1>2, <1>3
<1> HIDE DEF pr2, ex2, or2
<1>6. ASSUME NEW r \in Proposals \ {p} PROVE RowOK(r, pr2[r], ex2[r], or2)
  <2>1. RowOK(r, pr[r], ex[r], or) BY DEF RowsOK
  <2>2. entryOf(r) \in OrderRows /\ entryOf(r) # entryOf(p) BY OrderNames
  <2>3. \A o \in OrderRows : o[1] = r => or2[o] = or[o] BY <1>1, <1>4
  <2>4. or2[entryOf(r)] = or[entryOf(r)] BY <1>4, <2>2
  <2> QED BY <1>2, <1>3, <2>1, <2>3, <2>4 DEF RowOK
<1> QED BY <1>2, <1>3, <1>4, <1>5, <1>6 DEF RowsOK, pr2, ex2, or2

\* order[o], written.
Put(or, o, q) == [or EXCEPT ![o] = q]

\* An exit of p is put on record.
LEMMA WriteExit ==
  ASSUME NEW pr, NEW ex, NEW or, RowsOK(pr, ex, or), NEW o \in Brackets \cup TimeExits, NEW q \in Nat,
         NEW or2, or2 = Put(or, o, q), isBuy(o[1]), ex[o[1]] = "FILLED"
  PROVE  RowsOK(pr, ex, or2) /\ \A p \in Proposals : or2[entryOf(p)] = or[entryOf(p)]
<1>1. o \in OrderRows /\ o[1] \in Proposals /\ o[2] # "entry" BY OrderNames
<1>2. /\ or2 \in [OrderRows -> Nat \cup {NoRow}]
      /\ \A i \in OrderRows \ {o} : or2[i] = or[i]
  BY <1>1 DEF RowsOK, Put
<1>3. \A p \in Proposals : or2[entryOf(p)] = or[entryOf(p)] BY <1>1, <1>2, OrderNames
<1>4. ASSUME NEW p \in Proposals PROVE RowOK(p, pr[p], ex[p], or2)
  <2>1. RowOK(p, pr[p], ex[p], or) BY DEF RowsOK
  <2>2. (\E i \in OrderRows : i[1] = p /\ i[2] # "entry" /\ or2[i] # NoRow) => isBuy(p) /\ ex[p] = "FILLED"
    BY <1>1, <1>2, <2>1 DEF RowOK
  <2> QED BY <1>3, <2>1, <2>2 DEF RowOK
<1> QED BY <1>2, <1>3, <1>4 DEF RowsOK

\* One dashboard load moves.
LEMMA MovePass ==
  ASSUME NEW ps, NEW ex, PassesOK(ps, ex), NEW r \in Passes, NEW v, PassOK(v, ex)
  PROVE  PassesOK([ps EXCEPT ![r] = v], ex)
BY DEF PassesOK, PassOK

\* What is on record as filled stays so.
LEMMA PassesKeep ==
  ASSUME NEW ps, NEW ex, NEW ex2, PassesOK(ps, ex),
         \A p \in Proposals : ex[p] = "FILLED" => ex2[p] = "FILLED"
  PROVE  PassesOK(ps, ex2)
<1>1. ASSUME NEW r \in Passes PROVE PassOK(ps[r], ex2)
  <2>1. PassOK(ps[r], ex) BY DEF PassesOK
  <2>2. \A o \in ps[r].todo : o \in OrderRows BY <2>1 DEF PassOK, PassType
  <2>3. \A o \in OrderRows : o[1] \in Proposals BY OrderNames
  <2>4. \A o \in OrderRows : Bought(o, ex) => Bought(o, ex2) BY <2>3 DEF Bought
  <2>5. Brackets \subseteq OrderRows /\ TimeExits \subseteq OrderRows BY OrderNames
  <2> QED BY <2>1, <2>2, <2>4, <2>5 DEF PassOK
<1> QED BY <1>1 DEF PassesOK

\* So does a proposal that the broker knows an order of.
LEMMA BrokerKeeps ==
  ASSUME NEW b, NEW pr, NEW pr2, BrokerOK(b, pr),
         \A p \in Proposals : pr[p].status # Absent => pr2[p].status # Absent
  PROVE  BrokerOK(b, pr2)
BY DEF BrokerOK

-----------------------------------------------------------------------------
(* What a call of the broker does.                                         *)

\* The order of r is stored with an outcome, and what it filled is held.
Filled(b, b2, r, st, n) ==
  /\ b.order[r.order] = Unknown
  /\ st \in OrderStatus /\ n \in 0 .. r.quantity
  /\ st = "FILLED" => n = r.quantity
  /\ st = "REJECTED" => n = 0
  /\ r.side = "SELL" /\ n > 0 => b.position[r.symbol] >= n
  /\ b2.order = [b.order EXCEPT ![r.order] = [status |-> st, quantity |-> n]]
  /\ b2.position = [b.position EXCEPT ![r.symbol] = b.position[r.symbol] + signed(r.side, n)]
  /\ \/ b2.legs = b.legs
     \/ /\ r.bracket /\ r.side = "BUY" /\ st = "FILLED"
        /\ b2.legs = [b.legs EXCEPT ![r.proposal] =
                        [status |-> "PENDING", symbol |-> r.symbol, quantity |-> r.quantity]]

IsRequest(r) ==
  /\ r.proposal \in Proposals /\ r.order \in Orders /\ r.symbol \in Symbols /\ r.quantity \in Nat
  /\ r.side \in {"BUY", "SELL"}

\* A part of the quantity, or the whole of it.
LEMMA Drawn ==
  ASSUME NEW q \in Nat, NEW n \in fillQuantities(q) PROVE n \in 0 .. q
<1>1. q \div 2 \in Nat /\ q \div 2 <= q OBVIOUS
<1> QED BY <1>1 DEF fillQuantities

\* A BUY counts as it is, a SELL against it.
LEMMA SignedSum ==
  \A n \in Nat : /\ signed("BUY", n) = n /\ signed("SELL", n) = 0 - n
                 /\ \A side : signed(side, n) \in Int /\ signed(side, 0) = 0
<1>1. \A n \in Nat : -n = 0 - n OBVIOUS
<1>2. \A n \in Nat : \A side : signed(side, n) = IF side = "BUY" THEN n ELSE 0 - n BY <1>1 DEF signed
<1>3. \A side : signed(side, 0) = IF side = "BUY" THEN 0 ELSE 0 - 0 BY <1>2
<1> QED BY <1>2, <1>3

\* store() and applyFill() touch the order and the position.
LEMMA StoreFill ==
  ASSUME NEW b \in BrokerRec, NEW r, IsRequest(r), NEW st \in OrderStatus, NEW n \in Nat, NEW b2,
         b2 = applyFill(store(b, r.order, st, n), r.symbol, r.side, n)
  PROVE  /\ b2 \in BrokerRec
         /\ b2.order = [b.order EXCEPT ![r.order] = [status |-> st, quantity |-> n]]
         /\ b2.position = [b.position EXCEPT ![r.symbol] = b.position[r.symbol] + signed(r.side, n)]
         /\ b2.legs = b.legs
<1> DEFINE c == store(b, r.order, st, n)
<1>1. c \in BrokerRec /\ c.position = b.position /\ c.legs = b.legs
      /\ c.order = [b.order EXCEPT ![r.order] = [status |-> st, quantity |-> n]]
  BY DEF store, BrokerRec, OrderRec, IsRequest
<1> HIDE DEF c
<1>2. signed(r.side, n) \in Int BY DEF signed
<1>3. b2 = [c EXCEPT !.position[r.symbol] = @ + signed(r.side, n)] BY DEF applyFill, c
<1>4. c.position[r.symbol] + signed(r.side, n) \in Int BY <1>1, <1>2 DEF BrokerRec, IsRequest
<1> QED BY <1>1, <1>3, <1>4 DEF BrokerRec, IsRequest

\* A rejection fills nothing.
LEMMA StoreNone ==
  ASSUME NEW b \in BrokerRec, NEW r, IsRequest(r), NEW st \in OrderStatus, NEW b2, b2 = store(b, r.order, st, 0)
  PROVE  /\ b2 \in BrokerRec
         /\ b2.order = [b.order EXCEPT ![r.order] = [status |-> st, quantity |-> 0]]
         /\ b2.position = [b.position EXCEPT ![r.symbol] = b.position[r.symbol] + signed(r.side, 0)]
         /\ b2.legs = b.legs
<1>1. b2 \in BrokerRec /\ b2.position = b.position /\ b2.legs = b.legs
      /\ b2.order = [b.order EXCEPT ![r.order] = [status |-> st, quantity |-> 0]]
  BY DEF store, BrokerRec, OrderRec, IsRequest
<1>2. signed(r.side, 0) = 0 BY SignedSum
<1>3. b.position[r.symbol] + 0 = b.position[r.symbol] BY DEF BrokerRec, IsRequest
<1> QED BY <1>1, <1>2, <1>3 DEF BrokerRec

\* submitOrder(): the first answer again, or an order filled in whole, in part or not.
LEMMA SubmitOutcome ==
  ASSUME NEW b \in BrokerRec, NEW r, IsRequest(r), NEW b2 \in submitOrder(b, r)
  PROVE  /\ b2 \in BrokerRec /\ b2.order[r.order] # Unknown
         /\ \/ b2 = b
            \/ \E st \in OrderStatus, n \in Nat : Filled(b, b2, r, st, n)
<1>0. r.order \in Orders /\ r.quantity \in Nat BY DEF IsRequest
<1>1. CASE b.order[r.order] # Unknown BY <1>1 DEF submitOrder
<1>2. CASE b.order[r.order] = Unknown
  <2>1. SUFFICES \E st \in OrderStatus, n \in Nat : b2 \in BrokerRec /\ Filled(b, b2, r, st, n)
    <3> PICK st \in OrderStatus, n \in Nat : b2 \in BrokerRec /\ Filled(b, b2, r, st, n) BY <2>1
    <3>1. b2.order[r.order] = [status |-> st, quantity |-> n] BY <1>0 DEF Filled, BrokerRec
    <3>2. b2.order[r.order] # Unknown BY <3>1 DEF Unknown, OrderStatus
    <3> QED BY <3>2
  <2>2. CASE \E n \in fillQuantities(r.quantity) : checkFunds(b, r, n) /\ b2 = fillMarket(b, r, n)
    <3> PICK n \in fillQuantities(r.quantity) : checkFunds(b, r, n) /\ b2 = fillMarket(b, r, n) BY <2>2
    <3>1. n \in 0 .. r.quantity BY <1>0, Drawn
    <3> DEFINE st == IF n < r.quantity THEN "PARTIALLY_FILLED" ELSE "FILLED"
               c  == applyFill(store(b, r.order, st, n), r.symbol, r.side, n)
    <3>2. st \in OrderStatus /\ (st = "FILLED" => n = r.quantity) /\ st # "REJECTED"
      BY <1>0, <3>1 DEF OrderStatus
    <3>3. b2 = IF n = r.quantity THEN registerBracket(c, r) ELSE c BY DEF fillMarket
    <3>a. n = r.quantity => st = "FILLED" BY <1>0, <3>1
    <3> HIDE DEF st
    <3>4. /\ c \in BrokerRec
          /\ c.order = [b.order EXCEPT ![r.order] = [status |-> st, quantity |-> n]]
          /\ c.position = [b.position EXCEPT ![r.symbol] = b.position[r.symbol] + signed(r.side, n)]
          /\ c.legs = b.legs
      BY <3>1, <3>2, StoreFill
    <3> HIDE DEF c
    <3>5. b.position[r.symbol] >= n \/ r.side = "BUY" BY DEF checkFunds
    <3>6. CASE n = r.quantity /\ r.bracket /\ r.side = "BUY"
      <4> DEFINE leg == [status |-> "PENDING", symbol |-> r.symbol, quantity |-> r.quantity]
      <4>1. b2 = [c EXCEPT !.legs[r.proposal] = leg] BY <3>3, <3>6 DEF registerBracket
      <4>2. leg \in LegsRec BY DEF LegsRec, LegStatus, IsRequest
      <4> HIDE DEF leg
      <4>3. b2 \in BrokerRec /\ b2.order = c.order /\ b2.position = c.position
            /\ b2.legs = [c.legs EXCEPT ![r.proposal] = leg]
        BY <3>4, <4>1, <4>2 DEF BrokerRec, IsRequest
      <4>4. Filled(b, b2, r, st, n)
        BY <1>2, <3>1, <3>2, <3>a, <3>4, <3>6, <4>3 DEF Filled, leg
      <4> QED BY <3>1, <3>2, <4>3, <4>4
    <3>7. CASE ~(n = r.quantity /\ r.bracket /\ r.side = "BUY")
      <4>1. b2 = c BY <3>3, <3>7 DEF registerBracket
      <4>2. Filled(b, b2, r, st, n) BY <1>2, <3>1, <3>2, <3>4, <3>5, <4>1 DEF Filled, IsRequest
      <4> QED BY <3>1, <3>2, <3>4, <4>1, <4>2
    <3> QED BY <3>6, <3>7
  <2>3. CASE \E st \in {"REJECTED", "SUBMITTED"} : b2 = store(b, r.order, st, 0)
    <3> PICK st \in {"REJECTED", "SUBMITTED"} : b2 = store(b, r.order, st, 0) BY <2>3
    <3>1. st \in OrderStatus /\ 0 \in 0 .. r.quantity BY <1>0 DEF OrderStatus
    <3>2. Filled(b, b2, r, st, 0) /\ b2 \in BrokerRec BY <1>2, <3>1, StoreNone DEF Filled
    <3> QED BY <3>1, <3>2
  <2>4. CASE /\ checkFunds(b, r, r.quantity)
             /\ b2 = applyFill(store(b, r.order, "FILLED", r.quantity), r.symbol, r.side, r.quantity)
    <3>1. "FILLED" \in OrderStatus /\ r.quantity \in 0 .. r.quantity BY <1>0 DEF OrderStatus
    <3>2. b.position[r.symbol] >= r.quantity \/ r.side = "BUY" BY <2>4 DEF checkFunds
    <3>3. /\ b2 \in BrokerRec
          /\ b2.order = [b.order EXCEPT ![r.order] = [status |-> "FILLED", quantity |-> r.quantity]]
          /\ b2.position = [b.position EXCEPT ![r.symbol] = b.position[r.symbol] + signed(r.side, r.quantity)]
          /\ b2.legs = b.legs
      BY <1>0, <2>4, <3>1, StoreFill
    <3>4. Filled(b, b2, r, "FILLED", r.quantity) BY <1>2, <3>1, <3>2, <3>3 DEF Filled, IsRequest
    <3> QED BY <1>0, <3>1, <3>3, <3>4
  <2> QED BY <1>2, <2>2, <2>3, <2>4 DEF submitOrder, executeMarket, handleLimit
<1> QED BY <1>1, <1>2

\* What settles a bracket: a leg fills, or it is cancelled.
Settled(b, b2, p, st) ==
  /\ b.legs[p].status = "PENDING"
  /\ b2.order = b.order
  /\ b2.legs = [b.legs EXCEPT ![p] = [status |-> st, symbol |-> b.legs[p].symbol, quantity |-> b.legs[p].quantity]]

\* getOrder(): nothing, or the leg sells what the entry bought.
LEMMA GetOutcome ==
  ASSUME NEW b \in BrokerRec, NEW p \in Proposals, NEW b2 \in getOrder(b, p)
  PROVE  /\ b2 \in BrokerRec
         /\ \/ b2 = b
            \/ /\ Settled(b, b2, p, "FILLED")
               /\ b2.position = [b.position EXCEPT ![b.legs[p].symbol] =
                                   b.position[b.legs[p].symbol] - b.legs[p].quantity]
<1>1. CASE b2 = b BY <1>1
<1>2. CASE b2 # b
  <2> DEFINE c == [b EXCEPT !.legs[p].status = "FILLED"]  s == b.legs[p].symbol  n == b.legs[p].quantity
  <2>1. b.legs[p].status = "PENDING" /\ b2 = applyFill(c, s, "SELL", n)
    BY <1>2 DEF getOrder, fillBracketLeg
  <2>2. b.legs \in [Proposals -> LegsRec] /\ b.legs[p] \in LegsRec BY DEF BrokerRec
  <2>3. s \in Symbols /\ n \in Nat BY <2>2 DEF LegsRec
  <2>4. [b.legs[p] EXCEPT !.status = "FILLED"] = [status |-> "FILLED", symbol |-> s, quantity |-> n]
    BY <2>2 DEF LegsRec
  <2>5. [status |-> "FILLED", symbol |-> s, quantity |-> n] \in LegsRec BY <2>3 DEF LegsRec, LegStatus
  <2>6. c \in BrokerRec /\ c.order = b.order /\ c.position = b.position
        /\ c.legs = [b.legs EXCEPT ![p] = [status |-> "FILLED", symbol |-> s, quantity |-> n]]
    BY <2>4, <2>5 DEF BrokerRec
  <2> HIDE DEF c
  <2>7. b2 = [c EXCEPT !.position[s] = @ + signed("SELL", n)] BY <2>1 DEF applyFill
  <2>8. signed("SELL", n) = -n BY DEF signed
  <2>9. c.position[s] + signed("SELL", n) = b.position[s] - n /\ b.position[s] - n \in Int
    BY <2>3, <2>6, <2>8 DEF BrokerRec
  <2>10. b2 \in BrokerRec /\ b2.order = c.order /\ b2.legs = c.legs
         /\ b2.position = [b.position EXCEPT ![s] = b.position[s] - n]
    BY <2>3, <2>6, <2>7, <2>9 DEF BrokerRec
  <2> QED BY <2>1, <2>6, <2>10 DEF Settled
<1> QED BY <1>1, <1>2

\* cancelOrder() of a leg.
LEMMA CancelOutcome ==
  ASSUME NEW b \in BrokerRec, NEW p \in Proposals, NEW b2, b2 = cancelOrder(b, p)
  PROVE  /\ b2 \in BrokerRec /\ b2.legs[p].status # "PENDING"
         /\ b2 = b \/ (Settled(b, b2, p, "CANCELLED") /\ b2.position = b.position)
<1>1. CASE b.legs[p].status # "PENDING" BY <1>1 DEF cancelOrder
<1>2. CASE b.legs[p].status = "PENDING"
  <2>1. b2 = [b EXCEPT !.legs[p].status = "CANCELLED"] BY <1>2 DEF cancelOrder
  <2>2. b.legs \in [Proposals -> LegsRec] /\ b.legs[p] \in LegsRec BY DEF BrokerRec
  <2> DEFINE leg == [status |-> "CANCELLED", symbol |-> b.legs[p].symbol, quantity |-> b.legs[p].quantity]
  <2>3. leg \in LegsRec /\ leg = [b.legs[p] EXCEPT !.status = "CANCELLED"] BY <2>2 DEF LegsRec, LegStatus
  <2>4. leg.status # "PENDING" OBVIOUS
  <2>a. b2.legs = [b.legs EXCEPT ![p] = leg] /\ b2 \in BrokerRec /\ b2.order = b.order /\ b2.position = b.position
    BY <2>1, <2>3 DEF BrokerRec
  <2> HIDE DEF leg
  <2>5. b2.legs[p] = leg BY <2>2, <2>a
  <2> QED BY <1>2, <2>4, <2>5, <2>a DEF Settled, leg
<1> QED BY <1>1, <1>2
-----------------------------------------------------------------------------
(* Requests.                                                               *)

\* The next state keeps the control when its parts do.
LEMMA ControlNext ==
  ASSUME KindOK, kind' = kind,
         FlowsOK(flow', proposal', execution', order'), RowsOK(proposal', execution', order'),
         PassesOK(pass', execution'), BrokerOK(broker', proposal'), RestOK'
  PROVE  Control'
<1>1. KindOK' BY DEF KindOK
<1>2. (FlowsOK(flow, proposal, execution, order))' = FlowsOK(flow', proposal', execution', order')
  BY DEF FlowsOK, FlowOK, Exclusive
<1>3. (RowsOK(proposal, execution, order))' = RowsOK(proposal', execution', order')
  BY DEF RowsOK, RowOK, isBuy
<1>4. (PassesOK(pass, execution))' = PassesOK(pass', execution')
  BY DEF PassesOK, PassOK, Bought, Timed, isBuy
<1>5. (BrokerOK(broker, proposal))' = BrokerOK(broker', proposal')
  BY DEF BrokerOK, isBuy
<1> QED BY <1>1, <1>2, <1>3, <1>4, <1>5 DEF Control

\* A request that has ended knows nothing.
LEMMA IdleFlowOK ==
  ASSUME NEW pr, NEW ex, NEW or PROVE FlowOK(IdleFlow, pr, ex, or)
BY DEF FlowOK, IdleFlow, FlowType, FlowPc, Verdicts, Creating, Approving, Executing

\* A row that nobody holds: only a creation, which has written nothing, may run.
LEMMA NotLocked ==
  ASSUME Control, NEW p \in Proposals, ~locked(p), proposal[p].status # Absent
  PROVE  \A g \in Flows : flow[g].pc \in Alone => flow[g].proposal # p
<1> SUFFICES ASSUME NEW g \in Flows, flow[g].pc \in Alone, flow[g].proposal = p PROVE FALSE OBVIOUS
<1>1. FlowOK(flow[g], proposal, execution, order) BY DEF Control, FlowsOK
<1>2. flow[g].pc \notin Creating BY <1>1 DEF FlowOK
<1>3. flow[g].pc \in {"approve", "approved", "submit", "commit"} BY <1>2 DEF Alone, Approving, Executing
<1> QED BY <1>3 DEF locked

\* A request that moves while nothing else does.
LEMMA FlowStep ==
  ASSUME Control, NEW f \in Flows, NEW v, FlowOK(v, proposal, execution, order),
         v.pc \in Alone => \A g \in Flows \ {f} : flow[g].pc \in Alone => flow[g].proposal # v.proposal,
         flow' = [flow EXCEPT ![f] = v], faults' \in 0 .. MaxFaults,
         UNCHANGED <<kind, rows, broker, clock, pass>>
  PROVE  Control'
<1>1. \A p : Same(p, proposal, execution, order, proposal, execution, order) BY DEF Same
<1>2. \A g \in Flows : FlowOK(flow[g], proposal, execution, order) BY DEF Control, FlowsOK
<1>3. FlowsOK([flow EXCEPT ![f] = v], proposal, execution, order)
  <2>1. \A g \in Flows : flow[g].pc = "execute" => proposal[flow[g].proposal].status # Absent
    BY <1>2 DEF FlowOK
  <2> QED BY <1>1, <2>1, MoveFlow DEF Control
<1>4. RestOK' BY DEF Control, RestOK, rows, clock
<1>5. /\ proposal' = proposal /\ execution' = execution /\ order' = order
      /\ broker' = broker /\ pass' = pass /\ kind' = kind
  BY DEF rows
<1> QED BY <1>3, <1>4, <1>5, ControlNext DEF Control

\* What a request knows that has just started.
Started(pc, p, held) == [pc |-> pc, proposal |-> p, held |-> held, verdict |-> "none", answer |-> Unknown]

Begin(pc, p, held)   == [IdleFlow EXCEPT !.pc = pc, !.proposal = p, !.held = held]

\* A request that starts is one that knows its proposal, and what is held of it.
LEMMA StartedFlow ==
  ASSUME NEW pc, NEW p, NEW held
  PROVE  /\ [IdleFlow EXCEPT !.pc = pc, !.proposal = p] = Started(pc, p, 0)
         /\ Begin(pc, p, held) = Started(pc, p, held)
<1>1. [IdleFlow EXCEPT !.pc = pc] = Started(pc, NoProposal, 0) BY DEF IdleFlow, Started
<1>2. [Started(pc, NoProposal, 0) EXCEPT !.proposal = p] = Started(pc, p, 0) BY DEF Started
<1>3. [Started(pc, p, 0) EXCEPT !.held = held] = Started(pc, p, held) BY DEF Started
<1>4. [IdleFlow EXCEPT !.pc = pc, !.proposal = p] = [[IdleFlow EXCEPT !.pc = pc] EXCEPT !.proposal = p]
  OBVIOUS
<1>5. Begin(pc, p, held) = [[IdleFlow EXCEPT !.pc = pc, !.proposal = p] EXCEPT !.held = held]
  BY DEF Begin
<1> QED BY <1>1, <1>2, <1>3, <1>4, <1>5

\* It is where it starts.
LEMMA BeginPc ==
  ASSUME NEW pc, NEW p, NEW held PROVE Begin(pc, p, held).pc = pc
<1>1. Begin(pc, p, held) = Started(pc, p, held) BY StartedFlow
<1> QED BY <1>1 DEF Started

\* A creation starts: nobody works on its proposal.
LEMMA CreateStartOK ==
  ASSUME Control, NEW f \in Flows, NEW p \in Proposals, CreateStart(f, p)
  PROVE  Control'
<1> DEFINE held == broker.position[SymbolOf[p]]
           v    == [IdleFlow EXCEPT !.pc = "create", !.proposal = p, !.held = held]
<1>1. held \in Int BY Shape DEF Control, BrokerOK, BrokerRec
<1>3. proposal[p].status = Absent /\ flow' = [flow EXCEPT ![f] = v] BY DEF CreateStart
<1> HIDE DEF held
<1>a. v = Begin("create", p, held) BY DEF Begin
<1>2. v = Started("create", p, held)
  <2> HIDE DEF v
  <2> QED BY <1>a, StartedFlow
<1>4. \A g \in Flows : flow[g].proposal # p BY DEF CreateStart
<1> HIDE DEF v
<1>5. FlowOK(v, proposal, execution, order)
  BY <1>1, <1>2, <1>3 DEF Started, FlowOK, FlowType, FlowPc, Verdicts, Creating, Approving, Executing
<1>6. faults' \in 0 .. MaxFaults BY DEF CreateStart, Control, RestOK
<1> QED BY <1>2, <1>3, <1>4, <1>5, <1>6, FlowStep DEF CreateStart, Started

\* A request that goes on with the proposal that it has.
LEMMA SameProposal ==
  ASSUME Control, NEW f \in Flows, flow[f].pc \in Alone
  PROVE  \A g \in Flows \ {f} : flow[g].pc \in Alone => flow[g].proposal # flow[f].proposal
BY DEF Control, FlowsOK, Exclusive

\* The verdicts there are.
LEMMA VerdictNames ==
  \A p, held, q : verdicts(p, held, q) \subseteq Verdicts
BY DEF verdicts, Verdicts

\* The risk of a creation is judged.
LEMMA CreateRiskOK ==
  ASSUME Control, NEW f \in Flows, CreateRisk(f)
  PROVE  Control'
<1> DEFINE p == flow[f].proposal
<1>1. PICK w \in verdicts(p, flow[f].held, proposedQuantity(p, flow[f].held)) :
        flow' = [flow EXCEPT ![f].pc = "created", ![f].verdict = w]
  BY DEF CreateRisk
<1>2. w \in Verdicts BY VerdictNames
<1>3. flow[f].pc = "create" /\ FlowOK(flow[f], proposal, execution, order)
  BY DEF CreateRisk, Control, FlowsOK
<1> DEFINE v == [flow[f] EXCEPT !.pc = "created", !.verdict = w]
<1>4. flow' = [flow EXCEPT ![f] = v] BY <1>1
<1>5. /\ v.pc = "created" /\ v.proposal = flow[f].proposal /\ v \in FlowType
  BY <1>2, <1>3 DEF FlowOK, FlowType, FlowPc
<1> HIDE DEF v
<1>6. FlowOK(v, proposal, execution, order)
  BY <1>3, <1>5 DEF FlowOK, Creating, Approving, Executing
<1>7. faults' \in 0 .. MaxFaults BY DEF CreateRisk, Control, RestOK
<1>8. flow[f].pc \in Alone BY <1>3 DEF Alone, Creating
<1> QED BY <1>4, <1>5, <1>6, <1>7, <1>8, SameProposal, FlowStep DEF CreateRisk

\* An approval locks a pending proposal.
LEMMA ApproveStartOK ==
  ASSUME Control, NEW f \in Flows, NEW p \in Proposals, ApproveStart(f, p)
  PROVE  Control'
<1> DEFINE held == broker.position[SymbolOf[p]]
           v    == [IdleFlow EXCEPT !.pc = "approve", !.proposal = p, !.held = held]
<1>1. held \in Int BY Shape DEF Control, BrokerOK, BrokerRec
<1>3. proposal[p].status = "PENDING_APPROVAL" /\ ~locked(p) /\ flow' = [flow EXCEPT ![f] = v]
  BY DEF ApproveStart
<1> HIDE DEF held
<1>a. v = Begin("approve", p, held) BY DEF Begin
<1>2. v = Started("approve", p, held)
  <2> HIDE DEF v
  <2> QED BY <1>a, StartedFlow
<1>4. \A g \in Flows : flow[g].pc \in Alone => flow[g].proposal # p
  BY <1>3, NotLocked DEF Absent
<1> HIDE DEF v
<1>5. FlowOK(v, proposal, execution, order)
  BY <1>1, <1>2, <1>3 DEF Started, FlowOK, FlowType, FlowPc, Verdicts, Creating, Approving, Executing
<1>6. faults' \in 0 .. MaxFaults BY DEF ApproveStart, Control, RestOK
<1> QED BY <1>2, <1>3, <1>4, <1>5, <1>6, FlowStep DEF ApproveStart, Started

\* The risk of an approval is judged.
LEMMA ApproveRiskOK ==
  ASSUME Control, NEW f \in Flows, ApproveRisk(f)
  PROVE  Control'
<1> DEFINE p == flow[f].proposal
<1>1. PICK w \in verdicts(p, flow[f].held, proposal[p].quantity) :
        flow' = [flow EXCEPT ![f].pc = "approved", ![f].verdict = w]
  BY DEF ApproveRisk
<1>2. w \in Verdicts BY VerdictNames
<1>3. flow[f].pc = "approve" /\ FlowOK(flow[f], proposal, execution, order)
  BY DEF ApproveRisk, Control, FlowsOK
<1> DEFINE v == [flow[f] EXCEPT !.pc = "approved", !.verdict = w]
<1>4. flow' = [flow EXCEPT ![f] = v] BY <1>1
<1>5. /\ v.pc = "approved" /\ v.proposal = flow[f].proposal /\ v \in FlowType
  BY <1>2, <1>3 DEF FlowOK, FlowType, FlowPc
<1> HIDE DEF v
<1>6. FlowOK(v, proposal, execution, order)
  BY <1>3, <1>5 DEF FlowOK, Creating, Approving, Executing
<1>7. faults' \in 0 .. MaxFaults BY DEF ApproveRisk, Control, RestOK
<1>8. flow[f].pc \in Alone BY <1>3 DEF Alone, Approving
<1> QED BY <1>4, <1>5, <1>6, <1>7, <1>8, SameProposal, FlowStep DEF ApproveRisk

\* What may be executed is approved, or has failed before, and is not on record.
LEMMA ExecutableRow ==
  ASSUME Control, NEW p \in Proposals, executable(p)
  PROVE  /\ proposal[p].status \in {"APPROVED", "EXECUTION_ERROR"} /\ proposal[p].status # Absent
         /\ execution[p] \in {"none", "ERROR"} /\ order[entryOf(p)] = NoRow
BY DEF executable, alreadyExecuted, Absent

\* An approved request goes on to its execution, or ends.
LEMMA ExecuteStartOK ==
  ASSUME Control, NEW f \in Flows, ExecuteStart(f)
  PROVE  Control'
<1> DEFINE p == flow[f].proposal
<1>1. flow[f].pc = "execute" /\ FlowOK(flow[f], proposal, execution, order) /\ ~locked(p)
  BY DEF ExecuteStart, Control, FlowsOK
<1>2. p \in Proposals /\ proposal[p].status # Absent BY <1>1 DEF FlowOK
<1>3. faults' \in 0 .. MaxFaults BY DEF ExecuteStart, Control, RestOK
<1>4. CASE executable(p)
  <2> DEFINE v == [flow[f] EXCEPT !.pc = "submit"]
  <2>1. flow' = [flow EXCEPT ![f] = v] BY <1>4 DEF ExecuteStart
  <2>2. v.pc = "submit" /\ v.proposal = p /\ v \in FlowType BY <1>1 DEF FlowOK, FlowType, FlowPc
  <2> HIDE DEF v
  <2>3. FlowOK(v, proposal, execution, order)
    BY <1>2, <1>4, <2>2, ExecutableRow DEF FlowOK, Creating, Approving, Executing
  <2>4. \A g \in Flows : flow[g].pc \in Alone => flow[g].proposal # p BY <1>1, <1>2, NotLocked
  <2>5. UNCHANGED <<kind, rows, broker, clock, pass>> BY DEF ExecuteStart
  <2>6. v.pc \in Alone => \A g \in Flows \ {f} : flow[g].pc \in Alone => flow[g].proposal # v.proposal
    BY <2>2, <2>4
  <2> QED BY <1>3, <2>1, <2>3, <2>5, <2>6, FlowStep
<1>5. CASE ~executable(p)
  <2>1. flow' = [flow EXCEPT ![f] = IdleFlow] BY <1>5 DEF ExecuteStart
  <2>2. IdleFlow.pc \notin Alone BY DEF IdleFlow, Alone, Creating, Approving, Executing
  <2> QED BY <1>3, <2>1, <2>2, IdleFlowOK, FlowStep DEF ExecuteStart
<1> QED BY <1>4, <1>5

\* An execution is asked for.
LEMMA ExecuteRequestOK ==
  ASSUME Control, NEW f \in Flows, NEW p \in Proposals, ExecuteRequest(f, p)
  PROVE  Control'
<1> DEFINE v == [IdleFlow EXCEPT !.pc = "submit", !.proposal = p]
<1>1. flow' = [flow EXCEPT ![f] = v] /\ ~locked(p) /\ executable(p) BY DEF ExecuteRequest
<1>2. v = Started("submit", p, 0) BY StartedFlow
<1> HIDE DEF v
<1>3. FlowOK(v, proposal, execution, order)
  BY <1>1, <1>2, ExecutableRow DEF Started, FlowOK, FlowType, FlowPc, Verdicts, Creating, Approving, Executing
<1>4. \A g \in Flows : flow[g].pc \in Alone => flow[g].proposal # p BY <1>1, ExecutableRow, NotLocked
<1>5. faults' \in 0 .. MaxFaults BY DEF ExecuteRequest, Control, RestOK
<1> QED BY <1>1, <1>2, <1>3, <1>4, <1>5, FlowStep DEF ExecuteRequest, Started

\* A fault is within the bound.
LEMMA SpendOK ==
  ASSUME RestOK, NEW k, Spend(k) PROVE faults' \in 0 .. MaxFaults /\ faults' # 0
BY FaultsAssumption DEF RestOK, Spend

\* A request ends and leaves everything as it is.
LEMMA FlowEnds ==
  ASSUME Control, NEW f \in Flows, RecordExecutionFails(f) \/ FlowFails(f)
  PROVE  Control'
<1>1. flow' = [flow EXCEPT ![f] = IdleFlow] /\ UNCHANGED <<kind, rows, broker, clock, pass>>
  BY DEF RecordExecutionFails, FlowFails
<1>2. faults' \in 0 .. MaxFaults
  BY SpendOK DEF RecordExecutionFails, FlowFails, Control, RestOK
<1>3. IdleFlow.pc \notin Alone BY DEF IdleFlow, Alone, Creating, Approving, Executing
<1> QED BY <1>1, <1>2, <1>3, IdleFlowOK, FlowStep

\* A row is written by the request that holds it, which then goes on as v.
LEMMA FlowWritesRow ==
  ASSUME Control, NEW f \in Flows, flow[f].pc \in Alone, NEW p, p = flow[f].proposal,
         NEW row, RowOK(p, row, execution[p], order), row.status # Absent,
         NEW v, FlowOK(v, [proposal EXCEPT ![p] = row], execution, order), v.pc \notin Alone,
         flow' = [flow EXCEPT ![f] = v], proposal' = [proposal EXCEPT ![p] = row],
         enabled' \in BOOLEAN, approval' \in [Proposals -> SUBSET (Flows \X {"APPROVE", "REJECT"})],
         UNCHANGED <<kind, execution, order, position, broker, clock, pass, faults>>
  PROVE  Control'
<1> DEFINE pr2 == [proposal EXCEPT ![p] = row]
<1>1. \A g \in Flows : FlowOK(flow[g], proposal, execution, order) BY DEF Control, FlowsOK
<1>2. p \in Proposals BY <1>1 DEF FlowOK, Alone, Creating, Approving, Executing
<1>3. pr2[p] = row /\ \A q \in Proposals \ {p} : pr2[q] = proposal[q]
  BY <1>2 DEF Control, RowsOK
<1>4. RowsOK(pr2, execution, order) BY <1>2, WriteRow DEF Control
<1> HIDE DEF pr2
<1>5. \A g \in Flows \ {f} : flow[g].pc \in Alone => flow[g].proposal # p BY SameProposal
<1>6. \A g \in Flows : flow[g].pc \in Alone \cup {"execute"} => flow[g].proposal \in Proposals
  BY <1>1 DEF FlowOK, Alone, Creating, Approving, Executing
<1>7. \A g \in Flows \ {f} : flow[g].pc \in Alone =>
        Same(flow[g].proposal, proposal, execution, order, pr2, execution, order)
  BY <1>3, <1>5, <1>6 DEF Same
<1>8. \A q \in Proposals : proposal[q].status # Absent => pr2[q].status # Absent BY <1>3
<1>9. \A g \in Flows : flow[g].pc = "execute" => pr2[flow[g].proposal].status # Absent
  BY <1>1, <1>6, <1>8 DEF FlowOK
<1>10. FlowOK(v, pr2, execution, order) BY DEF pr2
<1>11. FlowsOK([flow EXCEPT ![f] = v], pr2, execution, order)
  BY <1>7, <1>9, <1>10, MoveFlow DEF Control
<1>12. BrokerOK(broker, pr2) BY <1>8, BrokerKeeps DEF Control
<1>13. RestOK' BY DEF Control, RestOK, clock
<1> QED BY <1>4, <1>11, <1>12, <1>13, ControlNext DEF Control, pr2

\* A creation commits: the row appears.
LEMMA CreateCommitOK ==
  ASSUME Control, NEW f \in Flows, CreateCommit(f)
  PROVE  Control'
<1> DEFINE p    == flow[f].proposal
           next == IF flow[f].verdict = "PASS" THEN "PENDING_APPROVAL" ELSE "RISK_REJECTED"
           q    == proposedQuantity(p, flow[f].held)
           row  == [proposal[p] EXCEPT !.status = next, !.quantity = q]
<1>1. flow[f].pc = "created" /\ FlowOK(flow[f], proposal, execution, order)
  BY DEF CreateCommit, Control, FlowsOK
<1>2. p \in Proposals /\ flow[f].held \in Int BY <1>1 DEF FlowOK, FlowType
<1>3. q \in Nat /\ (isBuy(p) => q = Lot) BY <1>2, Shape DEF proposedQuantity
<1>4. next \in ProposalStatus /\ next # Absent BY Statuses DEF Absent
<1>5. proposal' = [proposal EXCEPT ![p] = row] BY DEF CreateCommit
<1> HIDE DEF q, next
<1>6. RowOK(p, proposal[p], execution[p], order) BY <1>2 DEF Control, RowsOK
<1>7. row.status = next /\ row.quantity = q
      /\ row \in [status: ProposalStatus \cup {Absent}, quantity: Nat, due: BOOLEAN]
  BY <1>3, <1>4, <1>6 DEF RowOK
<1> HIDE DEF row
<1>8. RowOK(p, row, execution[p], order) BY <1>3, <1>4, <1>6, <1>7 DEF RowOK
<1>9. flow[f].pc \in Alone BY <1>1 DEF Alone, Creating
<1>10. IdleFlow.pc \notin Alone BY DEF IdleFlow, Alone, Creating, Approving, Executing
<1>11. enabled' \in BOOLEAN BY DEF CreateCommit, maybeAutoDisableKillSwitch
<1>12. approval' \in [Proposals -> SUBSET (Flows \X {"APPROVE", "REJECT"})]
  BY DEF CreateCommit, Control, RestOK
<1> QED BY <1>4, <1>5, <1>7, <1>8, <1>9, <1>10, <1>11, <1>12, IdleFlowOK, FlowWritesRow DEF CreateCommit

\* An approval commits, and may go on to the execution.
LEMMA ApproveCommitOK ==
  ASSUME Control, NEW f \in Flows, ApproveCommit(f)
  PROVE  Control'
<1> DEFINE p   == flow[f].proposal
           st  == IF flow[f].verdict = "PASS" THEN "APPROVED" ELSE "RISK_REJECTED_AFTER_APPROVAL"
           row == [proposal[p] EXCEPT !.status = st]
           v   == IF flow[f].verdict = "PASS" THEN [IdleFlow EXCEPT !.pc = "execute", !.proposal = p]
                  ELSE IdleFlow
           pr2 == [proposal EXCEPT ![p] = row]
<1>1. flow[f].pc = "approved" /\ FlowOK(flow[f], proposal, execution, order)
  BY DEF ApproveCommit, Control, FlowsOK
<1>2. p \in Proposals /\ proposal[p].status = "PENDING_APPROVAL"
  BY <1>1 DEF FlowOK, Approving
<1>3. st \in ProposalStatus /\ st # Absent BY Statuses DEF Absent
<1>4. /\ proposal' = pr2 /\ flow' = [flow EXCEPT ![f] = v]
      /\ UNCHANGED <<kind, execution, order, position, broker, clock, pass, faults>>
  BY DEF ApproveCommit
<1>5. RowOK(p, proposal[p], execution[p], order) BY <1>2 DEF Control, RowsOK
<1> HIDE DEF st
<1>6. row.status = st /\ row.quantity = proposal[p].quantity
      /\ row \in [status: ProposalStatus \cup {Absent}, quantity: Nat, due: BOOLEAN]
  BY <1>3, <1>5 DEF RowOK
<1>7. pr2[p] = row BY <1>2 DEF Control, RowsOK
<1> HIDE DEF row, pr2
<1>8. RowOK(p, row, execution[p], order) BY <1>2, <1>3, <1>5, <1>6 DEF RowOK, Absent
<1>9. FlowOK(v, pr2, execution, order) /\ v.pc \notin Alone
  <2>1. CASE flow[f].verdict = "PASS"
    <3>1. v = Started("execute", p, 0) BY <2>1, StartedFlow
    <3> HIDE DEF v
    <3> QED BY <1>2, <1>3, <1>6, <1>7, <3>1
            DEF Started, FlowOK, FlowType, FlowPc, Verdicts, Alone, Creating, Approving, Executing
  <2>2. CASE flow[f].verdict # "PASS"
    <3>1. v = IdleFlow BY <2>2
    <3>2. IdleFlow.pc \notin Alone BY DEF IdleFlow, Alone, Creating, Approving, Executing
    <3>3. FlowOK(IdleFlow, pr2, execution, order) BY IdleFlowOK
    <3> HIDE DEF v
    <3> QED BY <3>1, <3>2, <3>3
  <2> QED BY <2>1, <2>2
<1>10. flow[f].pc \in Alone BY <1>1 DEF Alone, Approving
<1>11. enabled' \in BOOLEAN BY DEF ApproveCommit, maybeAutoDisableKillSwitch
<1>12. approval' \in [Proposals -> SUBSET (Flows \X {"APPROVE", "REJECT"})]
  BY <1>2 DEF ApproveCommit, Control, RestOK
<1> HIDE DEF v
<1> QED BY <1>3, <1>4, <1>6, <1>8, <1>9, <1>10, <1>11, <1>12, FlowWritesRow DEF pr2

\* Rows are written while no request moves: those that a request holds keep their status.
LEMMA RowsWritten ==
  ASSUME Control, RowsOK(proposal', execution, order), PassesOK(pass', execution),
         \A g \in Flows : flow[g].pc \in Alone =>
           proposal'[flow[g].proposal].status = proposal[flow[g].proposal].status,
         \A q \in Proposals : proposal[q].status # Absent => proposal'[q].status # Absent,
         approval' \in [Proposals -> SUBSET (Flows \X {"APPROVE", "REJECT"})],
         UNCHANGED <<kind, execution, order, position, enabled, broker, clock, flow, faults>>
  PROVE  Control'
<1>1. \A g \in Flows : FlowOK(flow[g], proposal, execution, order) BY DEF Control, FlowsOK
<1>2. \A g \in Flows : flow[g].pc = "execute" => proposal'[flow[g].proposal].status # Absent
  BY <1>1 DEF FlowOK
<1>3. \A g \in Flows : flow[g].pc \in Alone =>
        Same(flow[g].proposal, proposal, execution, order, proposal', execution, order)
  BY DEF Same
<1>4. FlowsOK(flow, proposal', execution, order) BY <1>2, <1>3, FlowsStay DEF Control
<1>5. BrokerOK(broker, proposal') BY BrokerKeeps DEF Control
<1>6. RestOK' BY DEF Control, RestOK, clock
<1> QED BY <1>4, <1>5, <1>6, ControlNext DEF Control

\* One row is written by nobody's transaction.
LEMMA RowWritten ==
  ASSUME Control, NEW p \in Proposals, NEW row, RowOK(p, row, execution[p], order),
         row.status # Absent,
         row.status = proposal[p].status
           \/ \A g \in Flows : flow[g].pc \in Alone => flow[g].proposal # p,
         proposal' = [proposal EXCEPT ![p] = row],
         approval' \in [Proposals -> SUBSET (Flows \X {"APPROVE", "REJECT"})],
         UNCHANGED <<kind, execution, order, position, enabled, broker, clock, flow, pass, faults>>
  PROVE  Control'
<1>1. RowsOK(proposal', execution, order) BY WriteRow DEF Control
<1>2. proposal'[p] = row /\ \A q \in Proposals \ {p} : proposal'[q] = proposal[q]
  BY DEF Control, RowsOK
<1>3. \A g \in Flows : FlowOK(flow[g], proposal, execution, order) BY DEF Control, FlowsOK
<1>4. \A g \in Flows : flow[g].pc \in Alone => flow[g].proposal \in Proposals
  BY <1>3 DEF FlowOK, Alone, Creating, Approving, Executing
<1>5. \A g \in Flows : flow[g].pc \in Alone =>
        proposal'[flow[g].proposal].status = proposal[flow[g].proposal].status
  BY <1>2, <1>4
<1>6. \A q \in Proposals : proposal[q].status # Absent => proposal'[q].status # Absent BY <1>2
<1>7. PassesOK(pass', execution) BY DEF Control
<1> QED BY <1>1, <1>5, <1>6, <1>7, RowsWritten

\* A row that takes another status, of those there are.
LEMMA StatusWritten ==
  ASSUME Control, NEW p \in Proposals, NEW st \in ProposalStatus, proposal[p].status # Absent
  PROVE  /\ RowOK(p, [proposal[p] EXCEPT !.status = st], execution[p], order)
         /\ [proposal[p] EXCEPT !.status = st].status = st /\ st # Absent
<1> DEFINE row == [proposal[p] EXCEPT !.status = st]
<1>1. RowOK(p, proposal[p], execution[p], order) BY DEF Control, RowsOK
<1>2. row.status = st /\ row.quantity = proposal[p].quantity
      /\ row \in [status: ProposalStatus \cup {Absent}, quantity: Nat, due: BOOLEAN]
  BY <1>1 DEF RowOK
<1>3. st # Absent BY Statuses
<1> HIDE DEF row
<1>4. RowOK(p, row, execution[p], order) BY <1>1, <1>2, <1>3 DEF RowOK
<1> QED BY <1>2, <1>3, <1>4 DEF row

\* A rejection of a row that nobody holds.
LEMMA RejectProposalOK ==
  ASSUME Control, NEW f \in Flows, NEW p \in Proposals, RejectProposal(f, p)
  PROVE  Control'
<1> DEFINE row == [proposal[p] EXCEPT !.status = "OWNER_REJECTED"]
<1>1. /\ proposal' = [proposal EXCEPT ![p] = row] /\ proposal[p].status = "PENDING_APPROVAL" /\ ~locked(p)
      /\ UNCHANGED <<kind, execution, order, position, enabled, broker, clock, flow, pass, faults>>
  BY DEF RejectProposal
<1>2. proposal[p].status # Absent BY <1>1 DEF Absent
<1>3. RowOK(p, row, execution[p], order) /\ row.status # Absent BY <1>2, Statuses, StatusWritten
<1>4. \A g \in Flows : flow[g].pc \in Alone => flow[g].proposal # p BY <1>1, <1>2, NotLocked
<1>5. approval' \in [Proposals -> SUBSET (Flows \X {"APPROVE", "REJECT"})]
  BY DEF RejectProposal, Control, RestOK
<1> HIDE DEF row
<1> QED BY <1>1, <1>3, <1>4, <1>5, RowWritten

\* A cancellation of a row that nobody holds.
LEMMA CancelProposalOK ==
  ASSUME Control, NEW p \in Proposals, CancelProposal(p)
  PROVE  Control'
<1> DEFINE row == [proposal[p] EXCEPT !.status = "CANCELLED"]
<1>1. /\ proposal' = [proposal EXCEPT ![p] = row] /\ canMove(proposal[p].status, "CANCELLED") /\ ~locked(p)
      /\ UNCHANGED <<kind, approval, execution, order, position, enabled, broker, clock, flow, pass, faults>>
  BY DEF CancelProposal
<1>2. proposal[p].status # Absent BY <1>1, Cancellable DEF Absent
<1>3. RowOK(p, row, execution[p], order) /\ row.status # Absent BY <1>2, Statuses, StatusWritten
<1>4. \A g \in Flows : flow[g].pc \in Alone => flow[g].proposal # p BY <1>1, <1>2, NotLocked
<1>5. approval' \in [Proposals -> SUBSET (Flows \X {"APPROVE", "REJECT"})]
  BY <1>1 DEF Control, RestOK
<1> HIDE DEF row
<1> QED BY <1>1, <1>3, <1>4, <1>5, RowWritten

\* A row becomes due, whoever holds it.
LEMMA ExpiryPassesOK ==
  ASSUME Control, NEW p \in Proposals, ExpiryPasses(p)
  PROVE  Control'
<1> DEFINE row == [proposal[p] EXCEPT !.due = TRUE]
<1>1. /\ proposal' = [proposal EXCEPT ![p] = row] /\ proposal[p].status \in Expirable
      /\ UNCHANGED <<kind, approval, execution, order, position, enabled, broker, clock, flow, pass, faults>>
  BY DEF ExpiryPasses
<1>2. RowOK(p, proposal[p], execution[p], order) BY DEF Control, RowsOK
<1>3. row.status = proposal[p].status /\ row.quantity = proposal[p].quantity
      /\ row \in [status: ProposalStatus \cup {Absent}, quantity: Nat, due: BOOLEAN]
  BY <1>2 DEF RowOK
<1>4. row.status # Absent BY <1>1, <1>3 DEF Expirable, Absent
<1> HIDE DEF row
<1>5. RowOK(p, row, execution[p], order) BY <1>2, <1>3 DEF RowOK
<1>6. approval' \in [Proposals -> SUBSET (Flows \X {"APPROVE", "REJECT"})]
  BY <1>1 DEF Control, RestOK
<1> QED BY <1>1, <1>3, <1>4, <1>5, <1>6, RowWritten

\* expireOpenProposals() waits for the rows that it must change.
LEMMA Expired ==
  ASSUME Control, expireOpenProposals
  PROVE  /\ RowsOK(proposal', execution, order)
         /\ \A g \in Flows : flow[g].pc \in Alone =>
              proposal'[flow[g].proposal].status = proposal[flow[g].proposal].status
         /\ \A q \in Proposals : proposal[q].status # Absent => proposal'[q].status # Absent
         /\ \A q \in Proposals : proposal'[q].status # proposal[q].status =>
              ~locked(q) /\ proposal[q].status \in Expirable /\ proposal'[q].status = "EXPIRED"
<1>1. \A p \in dueOpen : ~locked(p) BY DEF expireOpenProposals
<1>2. proposal' = [p \in Proposals |-> IF p \in dueOpen THEN [proposal[p] EXCEPT !.status = "EXPIRED"]
                                      ELSE proposal[p]]
  BY DEF expireOpenProposals
<1>3. \A p \in dueOpen : p \in Proposals /\ proposal[p].status \in Expirable BY DEF dueOpen
<1>4. \A p \in dueOpen : proposal[p].status # Absent BY <1>3 DEF Expirable, Absent
<1>5. "EXPIRED" \in ProposalStatus BY Statuses
<1>6. ASSUME NEW p \in Proposals
      PROVE  /\ RowOK(p, proposal'[p], execution[p], order)
             /\ proposal[p].status # Absent => proposal'[p].status # Absent
             /\ proposal'[p].status # proposal[p].status =>
                  p \in dueOpen /\ proposal'[p].status = "EXPIRED"
  <2>1. CASE p \in dueOpen
    <3>1. proposal'[p] = [proposal[p] EXCEPT !.status = "EXPIRED"] BY <1>2, <2>1
    <3> QED BY <1>4, <1>5, <2>1, <3>1, StatusWritten
  <2>2. CASE p \notin dueOpen
    <3>1. proposal'[p] = proposal[p] BY <1>2, <2>2
    <3>2. RowOK(p, proposal[p], execution[p], order) BY DEF Control, RowsOK
    <3> QED BY <3>1, <3>2
  <2> QED BY <2>1, <2>2
<1>7. RowsOK(proposal', execution, order)
  <2>1. \A p \in Proposals : proposal'[p] \in [status: ProposalStatus \cup {Absent}, quantity: Nat, due: BOOLEAN]
    BY <1>6 DEF RowOK
  <2>2. proposal' \in [Proposals -> [status: ProposalStatus \cup {Absent}, quantity: Nat, due: BOOLEAN]]
    BY <1>2, <2>1
  <2> QED BY <1>6, <2>2 DEF Control, RowsOK
<1>8. ASSUME NEW g \in Flows, flow[g].pc \in Alone
      PROVE  proposal'[flow[g].proposal].status = proposal[flow[g].proposal].status
  <2>1. FlowOK(flow[g], proposal, execution, order) BY DEF Control, FlowsOK
  <2>2. flow[g].proposal \in Proposals BY <1>8, <2>1 DEF FlowOK, Alone, Creating, Approving, Executing
  <2>3. flow[g].proposal \notin dueOpen
    <3>1. SUFFICES ASSUME flow[g].proposal \in dueOpen PROVE FALSE OBVIOUS
    <3> QED BY <1>1, <1>4, <1>8, <2>2, <3>1, NotLocked
  <2> QED BY <1>6, <2>2, <2>3
<1> QED BY <1>1, <1>3, <1>6, <1>7, <1>8

\* The list and the dashboard expire what is due.
LEMMA ExpireOK ==
  ASSUME Control, ListProposals \/ \E r \in Passes : PassEnd(r)
  PROVE  Control'
<1>1. expireOpenProposals
      /\ UNCHANGED <<kind, approval, execution, order, position, enabled, broker, clock, flow, faults>>
  BY DEF ListProposals, PassEnd
<1>2. PassesOK(pass', execution)
  <2>1. CASE ListProposals BY <2>1 DEF ListProposals, Control
  <2>2. CASE \E r \in Passes : PassEnd(r)
    <3> PICK r \in Passes : PassEnd(r) BY <2>2
    <3>1. PassOK(IdlePass, execution) BY DEF PassOK, IdlePass, PassType, PassPc
    <3>2. pass' = [pass EXCEPT ![r] = IdlePass] BY DEF PassEnd
    <3> QED BY <3>1, <3>2, MovePass DEF Control
  <2> QED BY <2>1, <2>2
<1>3. approval' \in [Proposals -> SUBSET (Flows \X {"APPROVE", "REJECT"})]
  BY <1>1 DEF Control, RestOK
<1> QED BY <1>1, <1>2, <1>3, Expired, RowsWritten

\* The answer of the broker is written by the request that has it, which ends.
LEMMA FlowRecords ==
  ASSUME Control, NEW f \in Flows, flow[f].pc = "commit", NEW p, p = flow[f].proposal,
         NEW row, NEW e, NEW or2, row.status # Absent,
         RowsOK([proposal EXCEPT ![p] = row], [execution EXCEPT ![p] = e], or2),
         \A q \in Proposals \ {p} : or2[entryOf(q)] = order[entryOf(q)],
         flow' = [flow EXCEPT ![f] = IdleFlow], proposal' = [proposal EXCEPT ![p] = row],
         execution' = [execution EXCEPT ![p] = e], order' = or2, position' \in [Symbols -> Int],
         UNCHANGED <<kind, approval, enabled, broker, clock, pass, faults>>
  PROVE  Control'
<1> DEFINE pr2 == [proposal EXCEPT ![p] = row]  ex2 == [execution EXCEPT ![p] = e]
<1>1. \A g \in Flows : FlowOK(flow[g], proposal, execution, order) BY DEF Control, FlowsOK
<1>2. p \in Proposals /\ execution[p] \in {"none", "ERROR"} /\ flow[f].pc \in Alone
  BY <1>1 DEF FlowOK, Alone, Executing
<1>3. /\ pr2[p] = row /\ \A q \in Proposals \ {p} : pr2[q] = proposal[q] /\ ex2[q] = execution[q]
  BY <1>2 DEF Control, RowsOK
<1> HIDE DEF pr2, ex2
<1>4. \A g \in Flows : flow[g].pc \in Alone \cup {"execute"} => flow[g].proposal \in Proposals
  BY <1>1 DEF FlowOK, Alone, Creating, Approving, Executing
<1>5. \A g \in Flows \ {f} : flow[g].pc \in Alone => flow[g].proposal # p BY <1>2, SameProposal
<1>6. \A g \in Flows \ {f} : flow[g].pc \in Alone =>
        Same(flow[g].proposal, proposal, execution, order, pr2, ex2, or2)
  BY <1>3, <1>4, <1>5 DEF Same
<1>7. \A q \in Proposals : proposal[q].status # Absent => pr2[q].status # Absent BY <1>3
<1>8. \A g \in Flows : flow[g].pc = "execute" => pr2[flow[g].proposal].status # Absent
  BY <1>1, <1>4, <1>7 DEF FlowOK
<1>9. FlowOK(IdleFlow, pr2, ex2, or2) BY IdleFlowOK
<1>10. IdleFlow.pc \notin Alone BY DEF IdleFlow, Alone, Creating, Approving, Executing
<1>11. FlowsOK([flow EXCEPT ![f] = IdleFlow], pr2, ex2, or2)
  BY <1>6, <1>8, <1>9, <1>10, MoveFlow DEF Control
<1>12. \A q \in Proposals : execution[q] = "FILLED" => ex2[q] = "FILLED" BY <1>2, <1>3
<1>13. PassesOK(pass, ex2) BY <1>12, PassesKeep DEF Control
<1>14. BrokerOK(broker, pr2) BY <1>7, BrokerKeeps DEF Control
<1>15. RestOK' BY DEF Control, RestOK, clock
<1> QED BY <1>11, <1>13, <1>14, <1>15, ControlNext DEF Control, pr2, ex2

\* What the request at its commit rests on.
LEMMA Committing ==
  ASSUME Control, NEW f \in Flows, flow[f].pc = "commit"
  PROVE  /\ flow[f].proposal \in Proposals /\ flow[f].answer \in Answers
         /\ proposal[flow[f].proposal].status \in {"APPROVED", "EXECUTION_ERROR"}
         /\ proposal[flow[f].proposal].status # Absent
         /\ execution[flow[f].proposal] \in {"none", "ERROR"}
         /\ order[entryOf(flow[f].proposal)] = NoRow
<1>1. FlowOK(flow[f], proposal, execution, order) BY DEF Control, FlowsOK
<1> QED BY <1>1 DEF FlowOK, FlowType, Executing, Absent

\* A failure is recorded: no order.
LEMMA RecordFailureOK ==
  ASSUME Control, NEW f \in Flows, RecordFailure(f)
  PROVE  Control'
<1> DEFINE p == flow[f].proposal  row == [proposal[p] EXCEPT !.status = "EXECUTION_ERROR"]
<1>1. /\ flow[f].pc = "commit" /\ flow' = [flow EXCEPT ![f] = IdleFlow]
      /\ proposal' = [proposal EXCEPT ![p] = row] /\ execution' = [execution EXCEPT ![p] = "ERROR"]
      /\ UNCHANGED <<kind, approval, order, position, enabled, broker, clock, pass, faults>>
  BY DEF RecordFailure
<1>2. p \in Proposals /\ proposal[p].status # Absent /\ execution[p] \in {"none", "ERROR"}
  BY <1>1, Committing
<1>3. RowOK(p, row, execution[p], order) /\ row.status # Absent BY <1>2, Statuses, StatusWritten
<1> DEFINE pr2 == [proposal EXCEPT ![p] = row]  ex2 == [execution EXCEPT ![p] = "ERROR"]
<1> HIDE DEF row
<1>4. /\ pr2 \in [Proposals -> [status: ProposalStatus \cup {Absent}, quantity: Nat, due: BOOLEAN]]
      /\ pr2[p] = row /\ \A q \in Proposals \ {p} : pr2[q] = proposal[q]
  BY <1>2, <1>3 DEF Control, RowsOK, RowOK
<1>5. /\ ex2 \in [Proposals -> OrderStatus \cup {"none", "ERROR"}]
      /\ ex2[p] = "ERROR" /\ \A q \in Proposals \ {p} : ex2[q] = execution[q]
  BY <1>2 DEF Control, RowsOK
<1> HIDE DEF pr2, ex2
<1>6. RowOK(p, row, "ERROR", order) BY <1>2, <1>3 DEF RowOK, OrderStatus
<1>7. \A q \in Proposals : RowOK(q, pr2[q], ex2[q], order) BY <1>4, <1>5, <1>6 DEF Control, RowsOK
<1>8. RowsOK(pr2, ex2, order) BY <1>4, <1>5, <1>7 DEF Control, RowsOK
<1>9. position' \in [Symbols -> Int] BY <1>1 DEF Control, RestOK
<1> QED BY <1>1, <1>3, <1>8, <1>9, FlowRecords DEF pr2, ex2

\* calculatePositionAccounting() of a side.
LEMMA Accounted ==
  ASSUME RestOK, NEW s \in Symbols, NEW side, NEW q \in Nat, account(s, side, q)
  PROVE  /\ position' = [position EXCEPT ![s] = position[s] + signed(side, q)]
         /\ position' \in [Symbols -> Int]
<1>1. signed(side, q) \in Int BY SignedSum
<1>2. position[s] + signed(side, q) \in Int BY <1>1 DEF RestOK
<1> QED BY <1>2 DEF account, RestOK

\* An answer is recorded: the proposal, its execution, its order and the position.
LEMMA RecordExecutionOK ==
  ASSUME Control, NEW f \in Flows, RecordExecution(f)
  PROVE  Control'
<1> DEFINE p == flow[f].proposal  a == flow[f].answer  st == fromBroker(a.status)
           row == [proposal[p] EXCEPT !.status = st]
           or2 == [order EXCEPT ![entryOf(p)] = a.quantity]
<1>1. /\ flow[f].pc = "commit" /\ a # Lost /\ flow' = [flow EXCEPT ![f] = IdleFlow]
      /\ proposal' = [proposal EXCEPT ![p] = row] /\ execution' = [execution EXCEPT ![p] = a.status]
      /\ order' = or2
      /\ account(SymbolOf[p], kind[p].side, a.quantity) \/ overwrite(SymbolOf[p], a.quantity)
      /\ UNCHANGED <<kind, approval, enabled, broker, clock, pass, faults>>
  BY DEF RecordExecution
<1>2. /\ p \in Proposals /\ a \in Answers /\ proposal[p].status # Absent
      /\ execution[p] \in {"none", "ERROR"} /\ order[entryOf(p)] = NoRow
  BY <1>1, Committing
<1>3. a.quantity \in Nat /\ a.status \in OrderStatus \cup {"ERROR"} /\ st \in ProposalStatus
  BY <1>1, <1>2, AnswerStatus
<1> HIDE DEF a, st
<1>4. RowOK(p, row, execution[p], order) /\ row.status # Absent BY <1>2, <1>3, StatusWritten
<1>5. entryOf(p) \in OrderRows /\ entryOf(p)[2] = "entry" BY <1>2, OrderNames
<1>6. or2[entryOf(p)] # NoRow /\ \A o \in OrderRows \ {entryOf(p)} : or2[o] = order[o]
  BY <1>3, <1>5 DEF Control, RowsOK, NoRow
<1> HIDE DEF row, or2
<1>7. RowOK(p, row, a.status, or2)
  <2>1. ~ \E o \in OrderRows : o[1] = p /\ o[2] # "entry" /\ or2[o] # NoRow
    BY <1>2, <1>4, <1>5, <1>6 DEF RowOK
  <2> QED BY <1>4, <1>6, <2>1 DEF RowOK
<1>8. RowsOK([proposal EXCEPT ![p] = row], [execution EXCEPT ![p] = a.status], or2)
  BY <1>2, <1>3, <1>7, WriteRecord DEF Control, or2
<1>9. \A q \in Proposals \ {p} : or2[entryOf(q)] = order[entryOf(q)] BY <1>2, <1>6, OrderNames
<1>10. position' \in [Symbols -> Int]
  <2>1. SymbolOf[p] \in Symbols /\ RestOK BY <1>2, Shape DEF Control
  <2>2. CASE account(SymbolOf[p], kind[p].side, a.quantity) BY <1>3, <2>1, <2>2, Accounted
  <2>3. CASE overwrite(SymbolOf[p], a.quantity) BY <1>3, <2>1, <2>3 DEF overwrite, RestOK
  <2> QED BY <1>1, <2>2, <2>3
<1> QED BY <1>1, <1>4, <1>8, <1>9, <1>10, FlowRecords

-----------------------------------------------------------------------------
(* Calls of the broker.                                                    *)

\* The orders that this program places: a proposal's entry, and a time exit.
Proper(r) ==
  /\ IsRequest(r)
  /\ r.symbol = SymbolOf[r.proposal]
  /\ \/ r.order = entryOf(r.proposal) /\ proposal[r.proposal].status # Absent
        /\ r.side = kind[r.proposal].side /\ (r.bracket => isBuy(r.proposal))
     \/ /\ r.order \in TimeExits /\ r.order[1] = r.proposal /\ isBuy(r.proposal)
        /\ r.side = "SELL" /\ r.quantity = Lot /\ ~r.bracket

\* What the broker knows after a submission.
LEMMA SubmitKeeps ==
  ASSUME BrokerOK(broker, proposal), NEW r, Proper(r), NEW b2 \in submitOrder(broker, r)
  PROVE  BrokerOK(b2, proposal)
<1>1. broker \in BrokerRec /\ IsRequest(r) BY DEF BrokerOK, Proper
<1>2. b2 \in BrokerRec BY <1>1, SubmitOutcome
<1>3. CASE b2 = broker BY <1>3
<1>4. CASE \E st \in OrderStatus, n \in Nat : Filled(broker, b2, r, st, n)
  <2> PICK st \in OrderStatus, n \in Nat : Filled(broker, b2, r, st, n) BY <1>4
  <2> DEFINE rec == [status |-> st, quantity |-> n]
  <2>1. b2.order = [broker.order EXCEPT ![r.order] = rec] BY DEF Filled
  <2>2. rec # Unknown BY DEF Unknown, OrderStatus
  <2> HIDE DEF rec
  <2>3. r.order \in Orders /\ broker.order \in [Orders -> OrderRec] /\ broker.legs \in [Proposals -> LegsRec]
    BY <1>1 DEF IsRequest, BrokerRec
  <2>4. b2.order[r.order] # Unknown /\ \A o \in Orders \ {r.order} : b2.order[o] = broker.order[o]
    BY <2>1, <2>2, <2>3
  <2>5. ASSUME NEW p \in Proposals
        PROVE  /\ b2.order[entryOf(p)] # Unknown => proposal[p].status # Absent
               /\ b2.legs[p].status # "none" =>
                    b2.order[entryOf(p)] # Unknown /\ b2.legs[p].symbol = SymbolOf[p] /\ isBuy(p)
    <3>1. entryOf(p) \in Orders /\ entryOf(p) \notin TimeExits BY OrderNames
    <3>2. entryOf(p) # r.order => b2.order[entryOf(p)] = broker.order[entryOf(p)] BY <2>4, <3>1
    <3>3. entryOf(p) = r.order => p = r.proposal /\ proposal[p].status # Absent
      BY <3>1, OrderNames DEF Proper, IsRequest
    <3>4. b2.order[entryOf(p)] # Unknown => proposal[p].status # Absent
      BY <3>2, <3>3 DEF BrokerOK
    <3>5. broker.order[entryOf(p)] # Unknown => b2.order[entryOf(p)] # Unknown BY <2>4, <3>2
    <3>6. CASE b2.legs = broker.legs BY <3>4, <3>5, <3>6 DEF BrokerOK
    <3>7. CASE b2.legs # broker.legs
      <4> DEFINE leg == [status |-> "PENDING", symbol |-> r.symbol, quantity |-> r.quantity]
      <4>1. r.bracket /\ b2.legs = [broker.legs EXCEPT ![r.proposal] = leg] BY <3>7 DEF Filled
      <4>2. leg.symbol = r.symbol OBVIOUS
      <4> HIDE DEF leg
      <4>3. r.order = entryOf(r.proposal) /\ isBuy(r.proposal) /\ r.symbol = SymbolOf[r.proposal]
            /\ r.proposal \in Proposals
        BY <4>1 DEF Proper, IsRequest
      <4>4. b2.legs[r.proposal] = leg /\ (p # r.proposal => b2.legs[p] = broker.legs[p])
        BY <2>3, <4>1, <4>3
      <4>5. CASE p = r.proposal BY <2>4, <3>4, <4>2, <4>3, <4>4, <4>5
      <4>6. CASE p # r.proposal BY <3>4, <3>5, <4>4, <4>6 DEF BrokerOK
      <4> QED BY <4>5, <4>6
    <3> QED BY <3>6, <3>7
  <2> QED BY <1>2, <2>5 DEF BrokerOK
<1> QED BY <1>1, <1>3, <1>4, SubmitOutcome

\* A submission that may go wrong on the way.
LEMMA Submitted ==
  ASSUME Control, NEW r, Proper(r), NEW a, Submit(r, a)
  PROVE  BrokerOK(broker', proposal) /\ faults' \in 0 .. MaxFaults /\ a \in Answers
<1>1. broker' \in submitOrder(broker, r) \/ broker' = broker BY DEF Submit
<1>2. BrokerOK(broker', proposal) BY <1>1, SubmitKeeps DEF Control
<1>3. faults' \in 0 .. MaxFaults BY SpendOK DEF Submit, Control, RestOK
<1>4. a \in Answers
  <2>1. CASE broker' \in submitOrder(broker, r) /\ a = broker'.order[r.order]
    <3>1. broker' \in BrokerRec /\ broker'.order[r.order] # Unknown /\ r.order \in Orders
      BY <2>1, SubmitOutcome DEF Control, BrokerOK, Proper, IsRequest
    <3> QED BY <2>1, <3>1 DEF BrokerRec, OrderRec, Answers
  <2>2. CASE a \in {Lost, ErrorAnswer} BY <2>2 DEF Answers
  <2> QED BY <2>1, <2>2 DEF Submit
<1> QED BY <1>2, <1>3, <1>4

\* The entry of a request that may execute.
LEMMA EntryProper ==
  ASSUME Control, NEW f \in Flows, flow[f].pc = "submit"
  PROVE  /\ Proper(entryRequest(flow[f].proposal)) /\ flow[f].proposal \in Proposals
         /\ entryRequest(flow[f].proposal).order = entryOf(flow[f].proposal)
<1> DEFINE p == flow[f].proposal
<1>1. FlowOK(flow[f], proposal, execution, order) BY DEF Control, FlowsOK
<1>2. p \in Proposals /\ proposal[p].status # Absent BY <1>1 DEF FlowOK, Executing, Absent
<1>3. RowOK(p, proposal[p], execution[p], order) BY <1>2 DEF Control, RowsOK
<1>4. proposal[p].quantity \in Nat BY <1>3 DEF RowOK
<1>5. entryOf(p) \in Orders /\ SymbolOf[p] \in Symbols /\ kind[p].side \in {"BUY", "SELL"}
  BY <1>2, OrderNames, Shape DEF Control
<1> QED BY <1>2, <1>4, <1>5 DEF entryRequest, request, Proper, IsRequest

\* The entry goes to the broker.
LEMMA SubmitEntryOK ==
  ASSUME Control, NEW f \in Flows, SubmitEntry(f)
  PROVE  Control'
<1> DEFINE h == seen(SymbolOf[flow[f].proposal])
<1>1. PICK a : /\ Submit(entryRequest(flow[f].proposal), a)
               /\ flow' = [flow EXCEPT ![f].pc = "commit", ![f].answer = a, ![f].held = h]
  BY DEF SubmitEntry
<1>a. h \in Int BY DEF seen, NoRow
<1> HIDE DEF h
<1>2. flow[f].pc = "submit" /\ FlowOK(flow[f], proposal, execution, order)
      /\ UNCHANGED <<kind, rows, clock, pass>>
  BY DEF SubmitEntry, Control, FlowsOK
<1>3. BrokerOK(broker', proposal) /\ faults' \in 0 .. MaxFaults /\ a \in Answers BY <1>1, <1>2, EntryProper, Submitted
<1> DEFINE v == [flow[f] EXCEPT !.pc = "commit", !.answer = a, !.held = h]
<1>4. flow' = [flow EXCEPT ![f] = v] BY <1>1
<1>5. v.pc = "commit" /\ v.proposal = flow[f].proposal /\ v.answer = a /\ v \in FlowType
  BY <1>2, <1>3, <1>a DEF FlowOK, FlowType, FlowPc
<1> HIDE DEF v
<1>6. a # Unknown BY <1>3, AnswerStatus
<1>7. FlowOK(v, proposal, execution, order)
  BY <1>2, <1>5, <1>6 DEF FlowOK, Creating, Approving, Executing
<1>8. flow[f].pc \in Alone BY <1>2 DEF Alone, Executing
<1>9. \A g \in Flows : FlowOK(flow[g], proposal, execution, order) BY DEF Control, FlowsOK
<1>10. \A g \in Flows : flow[g].pc = "execute" => proposal[flow[g].proposal].status # Absent
  BY <1>9 DEF FlowOK
<1>11. \A p : Same(p, proposal, execution, order, proposal, execution, order) BY DEF Same
<1>12. FlowsOK([flow EXCEPT ![f] = v], proposal, execution, order)
  BY <1>5, <1>7, <1>8, <1>10, <1>11, SameProposal, MoveFlow DEF Control
<1>13. /\ proposal' = proposal /\ execution' = execution /\ order' = order
       /\ pass' = pass /\ kind' = kind
  BY <1>2 DEF rows
<1>14. RestOK' BY <1>2, <1>3 DEF Control, RestOK, rows, clock
<1> QED BY <1>3, <1>4, <1>12, <1>13, <1>14, ControlNext DEF Control

-----------------------------------------------------------------------------
(* Dashboards.                                                             *)

\* A dashboard load moves, and may have called the broker.
LEMMA PassStep ==
  ASSUME Control, NEW r \in Passes, NEW v, PassOK(v, execution), pass' = [pass EXCEPT ![r] = v],
         BrokerOK(broker', proposal), faults' \in 0 .. MaxFaults, UNCHANGED <<kind, rows, clock, flow>>
  PROVE  Control'
<1>1. PassesOK(pass', execution) BY MovePass DEF Control
<1>2. RestOK' BY DEF Control, RestOK, rows, clock
<1>3. /\ proposal' = proposal /\ execution' = execution /\ order' = order
      /\ flow' = flow /\ kind' = kind
  BY DEF rows
<1> QED BY <1>1, <1>2, <1>3, ControlNext DEF Control

\* A dashboard load that neither calls the broker nor fails.
LEMMA PassOnly ==
  ASSUME Control, NEW r \in Passes, NEW v, PassOK(v, execution), pass' = [pass EXCEPT ![r] = v],
         UNCHANGED <<kind, rows, broker, clock, flow, faults>>
  PROVE  Control'
<1>1. faults' \in 0 .. MaxFaults BY DEF Control, RestOK
<1> QED BY <1>1, PassStep DEF Control

\* The names of a scan's orders, and what they are of.
LEMMA Scanned ==
  ASSUME NEW p \in Proposals, entered(p)
  PROVE  /\ Bought(<<p, "bracket">>, execution)
         /\ \A why \in TimeReasons : Bought(exitOf(p, why), execution)
BY DEF entered, Bought, exitOf

\* The dashboard is loaded: the brackets of what is on record as filled.
LEMMA PassStartOK ==
  ASSUME Control, NEW r \in Passes, PassStart(r)
  PROVE  Control'
<1> DEFINE todo == findOpenBracketOrders \X {"bracket"}
           v    == [pass[r] EXCEPT !.pc = "brackets", !.todo = todo]
<1>1. PassOK(pass[r], execution) BY DEF Control, PassesOK
<1>2. todo \subseteq Brackets BY DEF findOpenBracketOrders, Brackets
<1>3. \A o \in todo : Bought(o, execution) BY DEF findOpenBracketOrders, Bought, entered
<1>4. pass' = [pass EXCEPT ![r] = v] BY DEF PassStart
<1> HIDE DEF todo
<1>5. v.pc = "brackets" /\ v.todo = todo /\ v \in PassType
  BY <1>1, <1>2, OrderNames DEF PassOK, PassType, PassPc
<1> HIDE DEF v
<1>6. PassOK(v, execution) BY <1>2, <1>3, <1>5 DEF PassOK
<1> QED BY <1>4, <1>6, PassOnly DEF PassStart

\* A bracket that is settled stays the bracket of its entry.
LEMMA SettledKeeps ==
  ASSUME NEW b, NEW pr, BrokerOK(b, pr), NEW p \in Proposals, NEW st, NEW b2 \in BrokerRec,
         Settled(b, b2, p, st)
  PROVE  BrokerOK(b2, pr)
<1> DEFINE leg == [status |-> st, symbol |-> b.legs[p].symbol, quantity |-> b.legs[p].quantity]
<1>1. b.legs \in [Proposals -> LegsRec] /\ b.legs[p].status = "PENDING" /\ b2.order = b.order
      /\ b2.legs = [b.legs EXCEPT ![p] = leg]
  BY DEF BrokerOK, BrokerRec, Settled
<1>2. leg.symbol = b.legs[p].symbol OBVIOUS
<1> HIDE DEF leg
<1>3. b2.legs[p] = leg /\ \A q \in Proposals \ {p} : b2.legs[q] = b.legs[q] BY <1>1
<1> QED BY <1>1, <1>2, <1>3 DEF BrokerOK

\* The legs of a bracket are asked for.
LEMMA GetLegsOK ==
  ASSUME Control, NEW r \in Passes, GetLegs(r)
  PROVE  Control'
<1>1. PICK o \in pass[r].todo :
        /\ broker' \in getOrder(broker, o[1])
        /\ pass' = [pass EXCEPT ![r].todo = @ \ {o},
                                ![r].pc   = IF broker'.legs[o[1]].status = "FILLED" THEN "record" ELSE @,
                                ![r].cur  = IF broker'.legs[o[1]].status = "FILLED" THEN o ELSE @]
  BY DEF GetLegs
<1>2. PassOK(pass[r], execution) /\ pass[r].pc = "brackets" BY DEF GetLegs, Control, PassesOK
<1>3. o \in Brackets /\ o \in OrderRows /\ Bought(o, execution) /\ o[1] \in Proposals
  BY <1>1, <1>2, OrderNames DEF PassOK, PassType
<1> DEFINE filled == broker'.legs[o[1]].status = "FILLED"
           v == [pass[r] EXCEPT !.todo = @ \ {o}, !.pc = IF filled THEN "record" ELSE @,
                                !.cur = IF filled THEN o ELSE @]
<1>4. pass' = [pass EXCEPT ![r] = v] BY <1>1
<1> HIDE DEF filled
<1>5. /\ v.pc = IF filled THEN "record" ELSE pass[r].pc
      /\ v.cur = IF filled THEN o ELSE pass[r].cur
      /\ v.todo = pass[r].todo \ {o}
      /\ v \in PassType
  BY <1>2, <1>3 DEF PassOK, PassType, PassPc
<1> HIDE DEF v
<1>6. PassOK(v, execution) BY <1>2, <1>3, <1>5 DEF PassOK
<1>7. BrokerOK(broker', proposal)
  <2>1. CASE broker' = broker BY <2>1 DEF Control
  <2>2. CASE broker' # broker
    <3>1. broker \in BrokerRec BY DEF Control, BrokerOK
    <3>2. broker' \in BrokerRec /\ Settled(broker, broker', o[1], "FILLED")
      BY <1>1, <1>3, <2>2, <3>1, GetOutcome
    <3> QED BY <1>3, <3>1, <3>2, SettledKeeps DEF Control
  <2> QED BY <2>1, <2>2
<1>8. faults' \in 0 .. MaxFaults BY DEF GetLegs, Control, RestOK
<1> QED BY <1>4, <1>6, <1>7, <1>8, PassStep DEF GetLegs

\* A load that goes on after one of its orders.
LEMMA Resumed ==
  ASSUME Control, NEW r \in Passes, NEW pc, Resume(r, pc),
         \/ pass[r].pc = "record" /\ pc = "brackets"
         \/ pass[r].pc \in {"cancel", "sell", "book"} /\ pc \in {"intraday", "hourly"}
  PROVE  \E v : PassOK(v, execution) /\ pass' = [pass EXCEPT ![r] = v]
<1> DEFINE v == [pass[r] EXCEPT !.pc = pc, !.cur = NoOrderRow, !.quantity = 0]
<1>1. PassOK(pass[r], execution) BY DEF Control, PassesOK
<1>2. pass' = [pass EXCEPT ![r] = v] BY DEF Resume
<1>3. v.pc = pc /\ v.todo = pass[r].todo /\ v \in PassType
  BY <1>1 DEF PassOK, PassType, PassPc
<1> HIDE DEF v
<1>4. PassOK(v, execution) BY <1>1, <1>3 DEF PassOK
<1> QED BY <1>2, <1>4

\* An exit is put on record, or it is not, and the load goes on.
LEMMA ExitWritten ==
  ASSUME Control, NEW o \in Brackets \cup TimeExits, Bought(o, execution), NEW q \in Nat,
         \/ order' = [order EXCEPT ![o] = q] /\ account(SymbolOf[o[1]], "SELL", q)
         \/ UNCHANGED <<order, position>>,
         PassesOK(pass', execution),
         UNCHANGED <<kind, proposal, approval, execution, enabled, broker, clock, flow, faults>>
  PROVE  Control'
<1>1. o[1] \in Proposals BY OrderNames
<1>a. ASSUME NEW or2, or2 = Put(order, o, q)
      PROVE  RowsOK(proposal, execution, or2) /\ \A p \in Proposals : or2[entryOf(p)] = order[entryOf(p)]
  <2>1. isBuy(o[1]) /\ execution[o[1]] = "FILLED" BY DEF Bought
  <2>2. RowsOK(proposal, execution, order) BY DEF Control
  <2>3. RowsOK(proposal, execution, or2) BY <1>a, <2>1, <2>2, WriteExit
  <2>4. o \in OrderRows /\ \A p \in Proposals : entryOf(p) \in OrderRows /\ entryOf(p) # o BY OrderNames
  <2>5. \A p \in Proposals : or2[entryOf(p)] = order[entryOf(p)]
    BY <1>a, <2>2, <2>4 DEF RowsOK, Put
  <2> QED BY <2>3, <2>5
<1>2. RowsOK(proposal, execution, order') /\ \A p \in Proposals : order'[entryOf(p)] = order[entryOf(p)]
  <2>1. CASE order' = Put(order, o, q) BY <1>a, <2>1
  <2>2. CASE order' = order BY <2>2 DEF Control
  <2> QED BY <2>1, <2>2 DEF Put
<1>3. \A g \in Flows : FlowOK(flow[g], proposal, execution, order) BY DEF Control, FlowsOK
<1>4. \A g \in Flows : flow[g].pc \in Alone \cup {"execute"} => flow[g].proposal \in Proposals
  BY <1>3 DEF FlowOK, Alone, Creating, Approving, Executing
<1>5. \A g \in Flows : flow[g].pc \in Alone =>
        Same(flow[g].proposal, proposal, execution, order, proposal, execution, order')
  BY <1>2, <1>4 DEF Same
<1>6. \A g \in Flows : flow[g].pc = "execute" => proposal[flow[g].proposal].status # Absent
  BY <1>3 DEF FlowOK
<1>7. FlowsOK(flow, proposal, execution, order') BY <1>5, <1>6, FlowsStay DEF Control
<1>8. position' \in [Symbols -> Int]
  BY <1>1, Accounted, Shape DEF Control, RestOK
<1>9. RestOK' BY <1>8 DEF Control, RestOK, clock
<1> QED BY <1>2, <1>7, <1>9, ControlNext DEF Control

\* A bracket exit is recorded.
LEMMA RecordBracketExitOK ==
  ASSUME Control, NEW r \in Passes, RecordBracketExit(r)
  PROVE  Control'
<1> DEFINE o == pass[r].cur
<1>1. PassOK(pass[r], execution) /\ pass[r].pc = "record" BY DEF RecordBracketExit, Control, PassesOK
<1>2. o \in Brackets /\ Bought(o, execution) /\ o = <<o[1], "bracket">>
  BY <1>1, OrderNames DEF PassOK
<1>3. PICK v : PassOK(v, execution) /\ pass' = [pass EXCEPT ![r] = v]
  BY <1>1, Resumed DEF RecordBracketExit
<1>4. PassesOK(pass', execution) BY <1>3, MovePass DEF Control
<1>5. \/ order' = [order EXCEPT ![o] = Lot] /\ account(SymbolOf[o[1]], "SELL", Lot)
      \/ UNCHANGED <<order, position>>
  BY <1>2 DEF RecordBracketExit
<1>6. UNCHANGED <<kind, proposal, approval, execution, enabled, broker, clock, flow, faults>>
  BY DEF RecordBracketExit
<1> HIDE DEF o
<1> QED BY <1>2, <1>4, <1>5, <1>6, ExitWritten, Shape

\* A time exit is recorded.
LEMMA RecordTimeExitOK ==
  ASSUME Control, NEW r \in Passes, RecordTimeExit(r)
  PROVE  Control'
<1> DEFINE o == pass[r].cur  q == pass[r].quantity
<1>1. PassOK(pass[r], execution) /\ pass[r].pc = "book" BY DEF RecordTimeExit, Control, PassesOK
<1>2. o \in TimeExits /\ Bought(o, execution) /\ q \in Nat BY <1>1 DEF PassOK, PassType
<1>3. PICK v : PassOK(v, execution) /\ pass' = [pass EXCEPT ![r] = v]
  BY <1>1, Resumed DEF RecordTimeExit, scanOf
<1>4. PassesOK(pass', execution) BY <1>3, MovePass DEF Control
<1>5. \/ order' = [order EXCEPT ![o] = q] /\ account(SymbolOf[o[1]], "SELL", q)
      \/ UNCHANGED <<order, position>>
  BY DEF RecordTimeExit
<1>6. UNCHANGED <<kind, proposal, approval, execution, enabled, broker, clock, flow, faults>>
  BY DEF RecordTimeExit
<1> HIDE DEF o, q
<1> QED BY <1>2, <1>4, <1>5, <1>6, ExitWritten

\* A scan looks for the positions to be sold.
LEMMA ScanOK ==
  ASSUME Control, NEW r \in Passes, IntradayScan(r) \/ HourlyScan(r)
  PROVE  Control'
<1> PICK n \in {25, 27}, pc \in {"intraday", "hourly"} :
      pass' = [pass EXCEPT ![r].pc = pc, ![r].todo = timeExits(n)]
  BY DEF IntradayScan, HourlyScan
<1> DEFINE v == [pass[r] EXCEPT !.pc = pc, !.todo = timeExits(n)]
<1>1. PassOK(pass[r], execution) BY DEF Control, PassesOK
<1>2. \A o \in timeExits(n) : o \in TimeExits /\ Bought(o, execution) /\ Timed(o)
  BY DEF timeExits, findOpenPositions, entered, Bought, Timed, TimeExits, TimeReasons, exitOf
<1>3. pass' = [pass EXCEPT ![r] = v] OBVIOUS
<1>4. v.pc = pc /\ v.todo = timeExits(n) /\ v \in PassType
  BY <1>1, <1>2, OrderNames DEF PassOK, PassType, PassPc
<1> HIDE DEF v
<1>5. PassOK(v, execution) BY <1>2, <1>4 DEF PassOK
<1> QED BY <1>3, <1>5, PassOnly DEF IntradayScan, HourlyScan

\* An order of the scan is taken up, or is done with.
LEMMA TimeExitStartOK ==
  ASSUME Control, NEW r \in Passes, TimeExitStart(r)
  PROVE  Control'
<1>1. PICK o \in pass[r].todo :
        pass' = [pass EXCEPT ![r].todo = @ \ {o},
                             ![r].pc   = IF hasExit(o[1]) THEN @ ELSE "cancel",
                             ![r].cur  = IF hasExit(o[1]) THEN @ ELSE o]
  BY DEF TimeExitStart
<1>2. PassOK(pass[r], execution) /\ pass[r].pc \in {"intraday", "hourly"}
  BY DEF TimeExitStart, Control, PassesOK
<1>3. o \in TimeExits /\ o \in OrderRows /\ Bought(o, execution) /\ Timed(o) BY <1>2, OrderNames DEF PassOK
<1> DEFINE done == hasExit(o[1])
           v == [pass[r] EXCEPT !.todo = @ \ {o}, !.pc = IF done THEN @ ELSE "cancel",
                                !.cur = IF done THEN @ ELSE o]
<1>4. pass' = [pass EXCEPT ![r] = v] BY <1>1
<1> HIDE DEF done
<1>5. /\ v.pc = IF done THEN pass[r].pc ELSE "cancel"
      /\ v.cur = IF done THEN pass[r].cur ELSE o
      /\ v.todo = pass[r].todo \ {o}
      /\ v \in PassType
  BY <1>2, <1>3 DEF PassOK, PassType, PassPc
<1> HIDE DEF v
<1>6. PassOK(v, execution) BY <1>2, <1>3, <1>5 DEF PassOK
<1> QED BY <1>4, <1>6, PassOnly DEF TimeExitStart

\* The legs are cancelled, or the cancellation fails.
LEMMA CancelLegsOK ==
  ASSUME Control, NEW r \in Passes, CancelLegs(r)
  PROVE  Control'
<1> DEFINE p == pass[r].cur[1]  v == [pass[r] EXCEPT !.pc = "sell"]
<1>1. PassOK(pass[r], execution) /\ pass[r].pc = "cancel" BY DEF CancelLegs, Control, PassesOK
<1>2. p \in Proposals BY <1>1, OrderNames DEF PassOK
<1>3. pass' = [pass EXCEPT ![r] = v] BY DEF CancelLegs
<1>4. v.pc = "sell" /\ v.todo = pass[r].todo /\ v.cur = pass[r].cur /\ v \in PassType
  BY <1>1 DEF PassOK, PassType, PassPc
<1> HIDE DEF v
<1>5. PassOK(v, execution) BY <1>1, <1>4 DEF PassOK
<1>6. BrokerOK(broker', proposal)
  <2>1. CASE broker' = broker BY <2>1 DEF Control
  <2>2. CASE broker' # broker
    <3>1. broker \in BrokerRec /\ broker' = cancelOrder(broker, p) BY <2>2 DEF CancelLegs, Control, BrokerOK
    <3>2. broker' \in BrokerRec /\ Settled(broker, broker', p, "CANCELLED")
      BY <1>2, <2>2, <3>1, CancelOutcome
    <3> QED BY <1>2, <3>2, SettledKeeps DEF Control
  <2> QED BY <2>1, <2>2
<1>7. faults' \in 0 .. MaxFaults BY SpendOK DEF CancelLegs, Control, RestOK
<1> QED BY <1>3, <1>5, <1>6, <1>7, PassStep DEF CancelLegs

\* The time exit that a load is at.
LEMMA ExitProper ==
  ASSUME Control, NEW r \in Passes, pass[r].pc = "sell"
  PROVE  LET o == pass[r].cur IN
         /\ Proper(request(o[1], o, SymbolOf[o[1]], "SELL", Lot, "MARKET", FALSE))
         /\ o \in TimeExits /\ o[1] \in Proposals /\ Bought(o, execution)
<1> DEFINE o == pass[r].cur
<1>1. PassOK(pass[r], execution) BY DEF Control, PassesOK
<1>2. o \in TimeExits /\ o \in Orders /\ o[1] \in Proposals /\ Bought(o, execution) BY <1>1, OrderNames DEF PassOK
<1> HIDE DEF o
<1>3. SymbolOf[o[1]] \in Symbols /\ Lot \in Nat BY <1>2, Shape
<1>4. Proper(request(o[1], o, SymbolOf[o[1]], "SELL", Lot, "MARKET", FALSE))
  BY <1>2, <1>3 DEF Proper, IsRequest, request, Bought
<1> QED BY <1>2, <1>4 DEF o

\* A time exit goes to the broker.
LEMMA SubmitTimeExitOK ==
  ASSUME Control, NEW r \in Passes, SubmitTimeExit(r)
  PROVE  Control'
<1> DEFINE o == pass[r].cur
<1>1. PICK a :
        /\ Submit(request(o[1], o, SymbolOf[o[1]], "SELL", Lot, "MARKET", FALSE), a)
        /\ IF a.quantity = 0 THEN Resume(r, scanOf(o[1]))
           ELSE pass' = [pass EXCEPT ![r].pc = "book", ![r].quantity = a.quantity]
  BY DEF SubmitTimeExit
<1>2. PassOK(pass[r], execution) /\ pass[r].pc = "sell" BY DEF SubmitTimeExit, Control, PassesOK
<1>3. BrokerOK(broker', proposal) /\ faults' \in 0 .. MaxFaults /\ a \in Answers BY <1>1, <1>2, ExitProper, Submitted
<1>4. \E v : PassOK(v, execution) /\ pass' = [pass EXCEPT ![r] = v]
  <2>1. CASE a.quantity = 0 BY <1>1, <1>2, <2>1, Resumed DEF scanOf
  <2>2. CASE a.quantity # 0
    <3> DEFINE v == [pass[r] EXCEPT !.pc = "book", !.quantity = a.quantity]
    <3>1. pass' = [pass EXCEPT ![r] = v] BY <1>1, <2>2
    <3>2. a.quantity \in Nat BY <1>3, AnswerStatus
    <3>3. v.pc = "book" /\ v.todo = pass[r].todo /\ v.cur = pass[r].cur /\ v \in PassType
      BY <1>2, <3>2 DEF PassOK, PassType, PassPc
    <3> HIDE DEF v
    <3>4. PassOK(v, execution) BY <1>2, <3>3 DEF PassOK
    <3> QED BY <3>1, <3>4
  <2> QED BY <2>1, <2>2
<1> QED BY <1>3, <1>4, PassStep DEF SubmitTimeExit

\* A load is taken back at one of its orders.
LEMMA PassFailsOK ==
  ASSUME Control, NEW r \in Passes, PassFails(r)
  PROVE  Control'
<1>1. \E v : PassOK(v, execution) /\ pass' = [pass EXCEPT ![r] = v]
  BY Resumed DEF PassFails, scanOf
<1>2. faults' \in 0 .. MaxFaults BY SpendOK DEF PassFails, Control
<1>3. BrokerOK(broker', proposal) BY DEF PassFails, Control
<1> QED BY <1>1, <1>2, <1>3, PassStep DEF PassFails

-----------------------------------------------------------------------------
(* Time, the switch, restarts: and the control is kept.                    *)

\* What requests, loads and rows do not take part in.
LEMMA OtherOK ==
  ASSUME Control, UNCHANGED <<kind, proposal, approval, execution, order, position, flow, pass>>,
         BrokerOK(broker', proposal), enabled' \in BOOLEAN, closing' \in BOOLEAN,
         overdue' \in [Proposals -> BOOLEAN], faults' \in 0 .. MaxFaults
  PROVE  Control'
<1>1. RestOK' BY DEF Control, RestOK
<1> QED BY <1>1, ControlNext DEF Control

\* A broker that has just started knows nothing.
LEMMA EmptyBrokerOK ==
  ASSUME NEW pr PROVE BrokerOK(emptyBroker, pr)
<1> DEFINE po == [s \in Symbols |-> 0]  or == [o \in Orders |-> Unknown]  le == [p \in Proposals |-> legsNone]
<1>1. po \in [Symbols -> Int] /\ or \in [Orders -> OrderRec] BY DEF OrderRec
<1>2. Symbols # {} => legsNone \in LegsRec /\ legsNone.status = "none"
  BY DEF legsNone, LegsRec, LegStatus
<1>3. \A p \in Proposals : Symbols # {} BY Shape
<1>4. le \in [Proposals -> LegsRec] /\ \A p \in Proposals : le[p].status = "none" BY <1>2, <1>3
<1>5. \A p \in Proposals : or[entryOf(p)] = Unknown BY OrderNames
<1>6. emptyBroker = [position |-> po, order |-> or, legs |-> le] BY DEF emptyBroker
<1> HIDE DEF po, or, le
<1> QED BY <1>1, <1>4, <1>5, <1>6 DEF BrokerOK, BrokerRec

\* The market and the owner.
LEMMA EnvironmentOK ==
  ASSUME Control, SessionTurns \/ SetKillSwitch \/ BrokerRestart
                    \/ \E p \in Proposals : HoldingTimePasses(p)
  PROVE  Control'
<1>1. UNCHANGED <<kind, proposal, approval, execution, order, position, flow, pass>>
  BY DEF SessionTurns, SetKillSwitch, BrokerRestart, HoldingTimePasses, rows, clock
<1>2. enabled' \in BOOLEAN /\ closing' \in BOOLEAN /\ overdue' \in [Proposals -> BOOLEAN]
  BY DEF SessionTurns, SetKillSwitch, BrokerRestart, HoldingTimePasses, rows, clock, Control, RestOK
<1>3. faults' \in 0 .. MaxFaults
  BY SpendOK DEF SessionTurns, SetKillSwitch, BrokerRestart, HoldingTimePasses, Control, RestOK
<1>4. BrokerOK(broker', proposal)
  BY EmptyBrokerOK DEF SessionTurns, SetKillSwitch, BrokerRestart, HoldingTimePasses, Control
<1> QED BY <1>1, <1>2, <1>3, <1>4, OtherOK

\* Requests and loads that all end at once.
LEMMA CrashOK ==
  ASSUME Control, Crash
  PROVE  Control'
<1>1. /\ flow' = [f \in Flows |-> IdleFlow] /\ pass' = [r \in Passes |-> IdlePass]
      /\ proposal' = proposal /\ execution' = execution /\ order' = order /\ broker' = broker
      /\ kind' = kind /\ UNCHANGED <<approval, position, enabled, clock>>
  BY DEF Crash, rows
<1>2. FlowOK(IdleFlow, proposal, execution, order) BY IdleFlowOK
<1>3. IdleFlow \in FlowType /\ IdleFlow.pc \notin Alone
  BY <1>2 DEF FlowOK, IdleFlow, Alone, Creating, Approving, Executing
<1> DEFINE fl == [f \in Flows |-> IdleFlow]
<1>4. fl \in [Flows -> FlowType] /\ \A f \in Flows : fl[f] = IdleFlow BY <1>3
<1> HIDE DEF fl
<1>5. FlowsOK(fl, proposal, execution, order) BY <1>2, <1>3, <1>4 DEF FlowsOK, Exclusive
<1>6. PassOK(IdlePass, execution) BY DEF PassOK, IdlePass, PassType, PassPc
<1>7. PassesOK(pass', execution) BY <1>1, <1>6 DEF PassesOK, PassOK
<1>8. faults' \in 0 .. MaxFaults BY SpendOK DEF Crash, Control
<1>9. RestOK' BY <1>1, <1>8 DEF Control, RestOK, clock
<1> QED BY <1>1, <1>5, <1>7, <1>9, ControlNext DEF Control, fl

\* Nothing is proposed at first.
LEMMA InitControl ==
  ASSUME Init PROVE Control
<1>1. KindOK BY KindsAssumption DEF Init, KindOK, KindType
<1> DEFINE none == [status |-> Absent, quantity |-> 0, due |-> FALSE]
<1>2. /\ proposal = [p \in Proposals |-> none] /\ execution = [p \in Proposals |-> "none"]
      /\ order = [o \in OrderRows |-> NoRow] /\ broker = emptyBroker
      /\ flow = [f \in Flows |-> IdleFlow] /\ pass = [r \in Passes |-> IdlePass]
  BY DEF Init
<1>3. none.status = Absent /\ none \in [status: ProposalStatus \cup {Absent}, quantity: Nat, due: BOOLEAN]
  OBVIOUS
<1> HIDE DEF none
<1>4. ASSUME NEW p \in Proposals PROVE RowOK(p, proposal[p], execution[p], order)
  <2>1. proposal[p] = none /\ execution[p] = "none" /\ \A o \in OrderRows : order[o] = NoRow BY <1>2
  <2> QED BY <1>3, <2>1 DEF RowOK, OrderStatus
<1>5. RowsOK(proposal, execution, order) BY <1>2, <1>3, <1>4 DEF RowsOK
<1>6. FlowOK(IdleFlow, proposal, execution, order) BY IdleFlowOK
<1>7. IdleFlow \in FlowType /\ IdleFlow.pc \notin Alone
  BY <1>6 DEF FlowOK, IdleFlow, Alone, Creating, Approving, Executing
<1>8. FlowsOK(flow, proposal, execution, order) BY <1>2, <1>6, <1>7 DEF FlowsOK, Exclusive
<1>9. PassOK(IdlePass, execution) BY DEF PassOK, IdlePass, PassType, PassPc
<1>10. PassesOK(pass, execution) BY <1>2, <1>9 DEF PassesOK, PassOK
<1>11. RestOK
  <2>1. MaxFaults \in Nat BY FaultsAssumption
  <2>2. 0 \in 0 .. MaxFaults BY <2>1
  <2>3. /\ approval = [p \in Proposals |-> {}] /\ position = [s \in Symbols |-> 0] /\ enabled = TRUE
        /\ overdue = [p \in Proposals |-> FALSE] /\ closing = FALSE /\ faults = 0
    BY DEF Init
  <2>4. approval \in [Proposals -> SUBSET (Flows \X {"APPROVE", "REJECT"})] BY <2>3
  <2>5. position \in [Symbols -> Int] BY <2>3
  <2>6. overdue \in [Proposals -> BOOLEAN] BY <2>3
  <2>7. enabled \in BOOLEAN /\ closing \in BOOLEAN BY <2>3
  <2> QED BY <2>2, <2>3, <2>4, <2>5, <2>6, <2>7 DEF RestOK
<1> QED BY <1>1, <1>2, <1>5, <1>8, <1>10, <1>11, EmptyBrokerOK DEF Control

\* Every step keeps the control.
LEMMA ControlStep ==
  ASSUME Control, [Next]_vars PROVE Control'
<1>1. CASE UNCHANGED vars
  <2>1. /\ kind' = kind /\ proposal' = proposal /\ execution' = execution /\ order' = order
        /\ broker' = broker /\ flow' = flow /\ pass' = pass
        /\ UNCHANGED <<approval, position, enabled, closing, overdue, faults>>
    BY <1>1 DEF vars, rows, clock
  <2>2. RestOK' BY <2>1 DEF Control, RestOK
  <2> QED BY <2>1, <2>2, ControlNext DEF Control
<1>2. ASSUME NEW f \in Flows, Request(f) PROVE Control'
  BY <1>2, CreateRiskOK, CreateCommitOK, ApproveRiskOK, ApproveCommitOK, ExecuteStartOK, SubmitEntryOK,
     RecordFailureOK, RecordExecutionOK, FlowEnds DEF Request
<1>3. ASSUME NEW f \in Flows, NEW p \in Proposals,
             CreateStart(f, p) \/ ApproveStart(f, p) \/ RejectProposal(f, p) \/ ExecuteRequest(f, p)
      PROVE  Control'
  BY <1>3, CreateStartOK, ApproveStartOK, RejectProposalOK, ExecuteRequestOK
<1>4. ASSUME NEW r \in Passes, Dashboard(r) PROVE Control'
  BY <1>4, PassStartOK, GetLegsOK, RecordBracketExitOK, ScanOK, TimeExitStartOK, CancelLegsOK,
     SubmitTimeExitOK, RecordTimeExitOK, PassFailsOK, ExpireOK DEF Dashboard
<1>5. ASSUME NEW p \in Proposals, CancelProposal(p) \/ ExpiryPasses(p) \/ HoldingTimePasses(p)
      PROVE  Control'
  BY <1>5, CancelProposalOK, ExpiryPassesOK, EnvironmentOK
<1>6. CASE ListProposals \/ SessionTurns \/ SetKillSwitch \/ Crash \/ BrokerRestart
  BY <1>6, ExpireOK, EnvironmentOK, CrashOK
<1> QED BY <1>1, <1>2, <1>3, <1>4, <1>5, <1>6 DEF Next

\* The control is kept for good: a request that holds a proposal finds it as
\* it left it, and no two requests hold one.
THEOREM Controlled == Spec => []Control
<1>1. Init => Control BY InitControl
<1>2. Control /\ [Next]_vars => Control' BY ControlStep
<1> QED BY <1>1, <1>2, PTL DEF Spec
=============================================================================
