----------------------------- MODULE FiniteWalks -----------------------------
(***************************************************************************)
(* Induction over the places of a finite walk, for the proofs about the    *)
(* recursive functions of the other modules.  An induction theorem with an *)
(* operator for its parameter cannot be instantiated here; LeastNumber     *)
(* needs none: a set of numbers with no least would be an infinite descent *)
(* among the finite sets.  The last part is about sums over finite sets,   *)
(* which the community modules define by such a recursion over subsets.    *)
(***************************************************************************)
EXTENDS Integers, Functions, FiniteSetTheorems, TLAPS

\* A set of numbers has a least.
LEMMA LeastNumber ==
  ASSUME NEW T \in SUBSET Nat, T # {}
  PROVE  \E m \in T : \A k \in T : m <= k
<1> DEFINE S == {0..k : k \in T}
<1>1. S \subseteq FiniteSubsetsOf(Nat) /\ S # {}
  <2>1. ASSUME NEW k \in T PROVE 0..k \in FiniteSubsetsOf(Nat)
    <3>1. IsFiniteSet(0..k)
      BY FS_Interval
    <3> QED
      BY <3>1 DEF FiniteSubsetsOf
  <2> QED
    BY <2>1
<1>2. PICK x \in S : \A y \in S : ~(<<y, x>> \in StrictSubsetOrdering(Nat))
  BY <1>1, FS_StrictSubsetOrderingWellFounded, WFMin
<1>3. PICK m \in T : x = 0..m
  BY <1>2
<1>4. ASSUME NEW k \in T PROVE m <= k
  <2>1. ASSUME k < m PROVE FALSE
    <3>1. 0..k \subseteq 0..m /\ 0..k # 0..m /\ 0..k \in SUBSET Nat /\ 0..m \in SUBSET Nat
      <4>1. m \in 0..m /\ m \notin 0..k /\ k \in Nat /\ m \in Nat
        BY <2>1
      <4> QED
        BY <4>1, <2>1
    <3>2. <<0..k, 0..m>> \in StrictSubsetOrdering(Nat)
      BY <3>1 DEF StrictSubsetOrdering
    <3> QED
      BY <1>2, <1>3, <3>2
  <2> QED
    BY <2>1
<1> QED
  BY <1>4

\* Induction over an interval, for the numbers of a set.
LEMMA UpTo ==
  ASSUME NEW n \in Nat, NEW T, 0 \in T, \A i \in 1..n : i - 1 \in T => i \in T
  PROVE  0..n \subseteq T
<1> DEFINE Left == {i \in 0..n : i \notin T}
<1>1. ASSUME Left # {} PROVE FALSE
  <2>1. PICK m \in Left : \A k \in Left : m <= k
    <3>1. Left \in SUBSET Nat
      OBVIOUS
    <3> HIDE DEF Left
    <3> QED
      BY <1>1, <3>1, LeastNumber
  <2>2. m \in 1..n /\ m - 1 \in 0..n /\ m - 1 \notin Left
    BY <2>1
  <2> QED
    BY <2>1, <2>2
<1> QED
  BY <1>1

LEMMA SameInterval == ASSUME NEW a \in Nat, NEW b \in Nat, 1..a = 1..b PROVE a = b
<1>1. ASSUME a < b PROVE FALSE
  <2>1. b \in 1..b /\ b \notin 1..a
    BY <1>1
  <2> QED
    BY <2>1
<1>2. ASSUME b < a PROVE FALSE
  <2>1. a \in 1..a /\ a \notin 1..b
    BY <1>2
  <2> QED
    BY <2>1
<1> QED
  BY <1>1, <1>2

\* A walk over n places from a start, each value made from the one before.
IsWalk(g, n, V, start, move) ==
  g \in [0..n -> V] /\ \A i \in 0..n : g[i] = IF i = 0 THEN start ELSE move[i][g[i - 1]]

LEMMA WalkExists ==
  ASSUME NEW n \in Nat, NEW V, NEW start \in V, NEW move \in [1..n -> [V -> V]]
  PROVE  \E g : IsWalk(g, n, V, start, move)
<1> DEFINE T == {k \in 0..n : \E g \in [0..k -> V] :
                   g[0] = start /\ \A i \in 1..k : g[i] = move[i][g[i - 1]]}
<1>1. 0 \in T
  <2> DEFINE g == [i \in 0..0 |-> start]
  <2>1. g \in [0..0 -> V] /\ g[0] = start /\ \A i \in 1..0 : g[i] = move[i][g[i - 1]]
    OBVIOUS
  <2> HIDE DEF g
  <2> QED
    BY <2>1
<1>2. ASSUME NEW k \in 1..n, k - 1 \in T PROVE k \in T
  <2>1. PICK g \in [0..(k - 1) -> V] :
           g[0] = start /\ \A i \in 1..(k - 1) : g[i] = move[i][g[i - 1]]
    BY <1>2
  <2> DEFINE h == [i \in 0..k |-> IF i = k THEN move[k][g[k - 1]] ELSE g[i]]
  <2>2. g[k - 1] \in V /\ move[k] \in [V -> V]
    BY <2>1
  <2>3. move[k][g[k - 1]] \in V
    BY <2>2
  <2>4. h \in [0..k -> V]
    BY <2>1, <2>3
  <2>5. h[0] = start /\ \A i \in 1..k : h[i] = move[i][h[i - 1]]
    BY <2>1
  <2> HIDE DEF h
  <2>6. k \in 0..n
    OBVIOUS
  <2> QED
    BY <2>4, <2>5, <2>6
<1>3. n \in T
  BY <1>1, <1>2, UpTo, n \in 0..n
<1>4. PICK g \in [0..n -> V] : g[0] = start /\ \A i \in 1..n : g[i] = move[i][g[i - 1]]
  BY <1>3
<1>5. IsWalk(g, n, V, start, move)
  <2>1. \A i \in 0..n : i = 0 \/ i \in 1..n
    OBVIOUS
  <2> QED
    BY <1>4, <2>1 DEF IsWalk
<1> QED
  BY <1>5

-----------------------------------------------------------------------------
(* Sums over finite sets.  SumFunctionOnSet adds in the order a CHOOSE     *)
(* takes the elements; its value does not depend on that order.            *)

\* Subsets of a finite set that hold with all of their elements' removals.
LEMMA SubsetsUpTo ==
  ASSUME NEW S, IsFiniteSet(S), NEW T \in SUBSET SUBSET S,
         \A s \in SUBSET S : (\A x \in s : s \ {x} \in T) => s \in T
  PROVE  SUBSET S \subseteq T
<1> DEFINE M == (SUBSET S) \ T
<1>1. M \subseteq FiniteSubsetsOf(S)
  BY FS_Subset DEF FiniteSubsetsOf
<1>2. ASSUME M # {} PROVE FALSE
  <2>1. PICK s \in M : \A t \in M : ~(<<t, s>> \in StrictSubsetOrdering(S))
    BY <1>1, <1>2, FS_StrictSubsetOrderingWellFounded, WFMin
  <2>2. ASSUME NEW x \in s PROVE s \ {x} \in T
    <3>1. <<s \ {x}, s>> \in StrictSubsetOrdering(S)
      BY DEF StrictSubsetOrdering
    <3> QED
      BY <2>1, <3>1
  <2> QED
    BY <2>1, <2>2
<1> QED
  BY <1>2

First(s) == CHOOSE x \in s : TRUE

\* The sums of the subsets of S.
SumsTo(g, f, S, T) ==
  \A s \in T : g[s] = IF s = {} THEN 0 ELSE f[First(s)] + g[s \ {First(s)}]
IsSum(g, f, S) == g \in [SUBSET S -> Nat] /\ SumsTo(g, f, S, SUBSET S)

LEMMA FirstOf == ASSUME NEW s, s # {} PROVE First(s) \in s
BY DEF First

LEMMA SumExists ==
  ASSUME NEW S, IsFiniteSet(S), NEW f, \A x \in S : f[x] \in Nat
  PROVE  \E g : IsSum(g, f, S)
<1> DEFINE N == Cardinality(S)
           Small(n) == {s \in SUBSET S : Cardinality(s) <= n}
           T == {n \in 0..N : \E g \in [SUBSET S -> Nat] : SumsTo(g, f, S, Small(n))}
<1>1. N \in Nat
  BY FS_CardinalityType
<1>2. ASSUME NEW s \in SUBSET S PROVE IsFiniteSet(s) /\ Cardinality(s) \in Nat /\ Cardinality(s) <= N
  BY FS_Subset, FS_CardinalityType
<1>3. 0 \in T
  <2> DEFINE g == [s \in SUBSET S |-> 0]
  <2>1. g \in [SUBSET S -> Nat]
    OBVIOUS
  <2>2. ASSUME NEW s \in Small(0) PROVE s = {} /\ g[s] = 0
    BY <1>2, FS_EmptySet
  <2>3. SumsTo(g, f, S, Small(0))
    BY <2>2 DEF SumsTo
  <2> HIDE DEF g, Small
  <2> QED
    BY <1>1, <2>1, <2>3
<1>4. ASSUME NEW n \in 1..N, n - 1 \in T PROVE n \in T
  <2>1. PICK g \in [SUBSET S -> Nat] : SumsTo(g, f, S, Small(n - 1))
    BY <1>4
  <2> DEFINE h == [s \in SUBSET S |-> IF s = {} THEN 0 ELSE f[First(s)] + g[s \ {First(s)}]]
  <2>2. ASSUME NEW s \in SUBSET S, s # {}
        PROVE  First(s) \in s /\ s \ {First(s)} \in SUBSET S /\ f[First(s)] + g[s \ {First(s)}] \in Nat
    <3>1. First(s) \in s
      BY <2>2, FirstOf
    <3>2. s \ {First(s)} \in SUBSET S /\ First(s) \in S
      BY <3>1
    <3>3. f[First(s)] \in Nat /\ g[s \ {First(s)}] \in Nat
      BY <3>2
    <3> QED
      BY <3>1, <3>2, <3>3
  <2>3. h \in [SUBSET S -> Nat]
    BY <2>2
  <2>4. ASSUME NEW s \in Small(n), s # {} PROVE h[s] = f[First(s)] + h[s \ {First(s)}]
    <3> DEFINE u == s \ {First(s)}
    <3>1. s \in SUBSET S /\ Cardinality(s) <= n
      OBVIOUS
    <3>2. u \in SUBSET S /\ First(s) \in s
      BY <2>2, <2>4, <3>1
    <3>3. Cardinality(u) = Cardinality(s) - 1
      BY <1>2, <3>1, <3>2, FS_RemoveElement
    <3>4. u \in Small(n - 1)
      BY <1>2, <3>1, <3>2, <3>3
    <3>5. g[u] = IF u = {} THEN 0 ELSE f[First(u)] + g[u \ {First(u)}]
      BY <2>1, <3>4 DEF SumsTo
    <3>6. h[u] = g[u]
      BY <3>2, <3>5
    <3>7. h[s] = f[First(s)] + g[u]
      BY <2>4, <3>1
    <3> QED
      BY <3>6, <3>7
  <2>5. SumsTo(h, f, S, Small(n))
    <3>1. \A s \in Small(n) : s = {} => h[s] = 0
      OBVIOUS
    <3> HIDE DEF h, Small
    <3> QED
      BY <2>4, <3>1 DEF SumsTo
  <2> HIDE DEF h, Small
  <2>6. n \in 0..N
    BY <1>1
  <2> QED
    BY <2>3, <2>5, <2>6
<1>5. N \in T
  <2> HIDE DEF T
  <2> QED
    BY <1>1, <1>3, <1>4, UpTo, N \in 0..N
<1>6. PICK g \in [SUBSET S -> Nat] : SumsTo(g, f, S, Small(N))
  BY <1>5
<1>7. Small(N) = SUBSET S
  BY <1>2
<1>8. IsSum(g, f, S)
  BY <1>6, <1>7 DEF IsSum
<1> QED
  BY <1>8

\* Any element may be added last.
LEMMA SumAny ==
  ASSUME NEW S, IsFiniteSet(S), NEW f, \A x \in S : f[x] \in Nat, NEW g, IsSum(g, f, S),
         NEW s \in SUBSET S, NEW y \in s
  PROVE  g[s] = f[y] + g[s \ {y}]
<1> DEFINE T == {t \in SUBSET S : \A z \in t : g[t] = f[z] + g[t \ {z}]}
<1>1. ASSUME NEW t \in SUBSET S, \A x \in t : t \ {x} \in T, NEW z \in t
      PROVE  g[t] = f[z] + g[t \ {z}]
  <2> DEFINE x == First(t)
  <2>1. x \in t /\ g[t] = f[x] + g[t \ {x}]
    BY FirstOf DEF IsSum, SumsTo
  <2>2. CASE x = z
    BY <2>1, <2>2
  <2>3. CASE x # z
    <3>1. z \in t \ {x} /\ x \in t \ {z} /\ t \ {x} \in T /\ t \ {z} \in T
      BY <1>1, <2>1, <2>3
    <3>2. g[t \ {x}] = f[z] + g[(t \ {x}) \ {z}] /\ g[t \ {z}] = f[x] + g[(t \ {z}) \ {x}]
      BY <3>1
    <3>3. (t \ {x}) \ {z} = (t \ {z}) \ {x} /\ (t \ {x}) \ {z} \in SUBSET S
      OBVIOUS
    <3>4. f[x] \in Nat /\ f[z] \in Nat /\ g[(t \ {x}) \ {z}] \in Nat
      BY <2>1, <3>3 DEF IsSum
    <3> HIDE DEF x
    <3> QED
      BY <2>1, <3>2, <3>3, <3>4
  <2> QED
    BY <2>2, <2>3
<1>2. SUBSET S \subseteq T
  <2>1. ASSUME NEW t \in SUBSET S, \A x \in t : t \ {x} \in T PROVE t \in T
    BY <1>1, <2>1
  <2> HIDE DEF T
  <2>2. T \in SUBSET SUBSET S
    BY DEF T
  <2> QED
    BY <2>1, <2>2, SubsetsUpTo
<1> QED
  BY <1>2

\* The sums of a set are those of any other that holds it, of the same values.
LEMMA SumShared ==
  ASSUME NEW S, NEW R, NEW f, NEW e, NEW g, NEW h, IsSum(g, f, S), IsSum(h, e, R),
         NEW V, IsFiniteSet(V), V \subseteq S, V \subseteq R, \A x \in V : f[x] = e[x]
  PROVE  g[V] = h[V]
<1> DEFINE T == {t \in SUBSET V : g[t] = h[t]}
<1>1. ASSUME NEW t \in SUBSET V, \A x \in t : t \ {x} \in T PROVE g[t] = h[t]
  <2>1. t \in SUBSET S /\ t \in SUBSET R
    OBVIOUS
  <2>2. /\ g[t] = IF t = {} THEN 0 ELSE f[First(t)] + g[t \ {First(t)}]
        /\ h[t] = IF t = {} THEN 0 ELSE e[First(t)] + h[t \ {First(t)}]
    BY <2>1 DEF IsSum, SumsTo
  <2>3. ASSUME t # {} PROVE f[First(t)] = e[First(t)] /\ g[t \ {First(t)}] = h[t \ {First(t)}]
    BY <1>1, <2>3, FirstOf
  <2> QED
    BY <2>2, <2>3
<1>2. SUBSET V \subseteq T
  <2>1. ASSUME NEW t \in SUBSET V, \A x \in t : t \ {x} \in T PROVE t \in T
    BY <1>1, <2>1
  <2> HIDE DEF T
  <2>2. T \in SUBSET SUBSET V
    BY DEF T
  <2> QED
    BY <2>1, <2>2, SubsetsUpTo
<1> QED
  BY <1>2

LEMMA SumIs ==
  ASSUME NEW S, IsFiniteSet(S), NEW f, \A x \in S : f[x] \in Nat
  PROVE  \E g : IsSum(g, f, S) /\ SumFunctionOnSet(f, S) = g[S]
<1> DEFINE Rule(g) == g = [s \in SUBSET S |-> IF s = {} THEN 0
                             ELSE f[CHOOSE x \in s : TRUE] + g[s \ {CHOOSE x \in s : TRUE}]]
<1>1. SumFunctionOnSet(f, S) = (CHOOSE g : Rule(g))[S]
  BY DEF SumFunctionOnSet, FoldFunctionOnSet, MapThenFoldSet
<1>2. PICK k : IsSum(k, f, S)
  BY SumExists
<1>3. Rule(k)
  <2>1. k = [s \in SUBSET S |-> k[s]]
    BY <1>2 DEF IsSum
  <2>2. \A s \in SUBSET S : k[s] = IF s = {} THEN 0
                             ELSE f[CHOOSE x \in s : TRUE] + k[s \ {CHOOSE x \in s : TRUE}]
    BY <1>2 DEF IsSum, SumsTo, First
  <2> QED
    BY <2>1, <2>2
<1>4. Rule(CHOOSE g : Rule(g))
  <2> HIDE DEF Rule
  <2> QED
    BY <1>3
<1> DEFINE j == CHOOSE g : Rule(g)
<1>5. DOMAIN j = SUBSET S /\ SumsTo(j, f, S, SUBSET S)
  <2> HIDE DEF j
  <2>1. j = [s \in SUBSET S |-> IF s = {} THEN 0 ELSE f[First(s)] + j[s \ {First(s)}]]
    BY <1>4 DEF First, j
  <2>2. DOMAIN j = SUBSET S
    BY <2>1
  <2>3. ASSUME NEW s \in SUBSET S
        PROVE  j[s] = IF s = {} THEN 0 ELSE f[First(s)] + j[s \ {First(s)}]
    BY <2>1
  <2> QED
    BY <2>2, <2>3 DEF SumsTo
<1> HIDE DEF j
<1> DEFINE T == {s \in SUBSET S : j[s] = k[s]}
<1>6. SUBSET S \subseteq T
  <2>1. ASSUME NEW t \in SUBSET S, \A x \in t : t \ {x} \in T PROVE t \in T
    <3>1. ASSUME t # {} PROVE j[t \ {First(t)}] = k[t \ {First(t)}]
      BY <2>1, <3>1, FirstOf
    <3>2. j[t] = k[t]
      BY <1>2, <1>5, <3>1 DEF IsSum, SumsTo
    <3> QED
      BY <3>2
  <2> HIDE DEF T
  <2>2. T \in SUBSET SUBSET S
    BY DEF T
  <2> QED
    BY <2>1, <2>2, SubsetsUpTo
<1>7. j[S] = k[S]
  BY <1>6
<1> QED
  BY <1>1, <1>2, <1>7 DEF j

LEMMA SumSame ==
  ASSUME NEW S, IsFiniteSet(S), NEW f, NEW e, \A x \in S : f[x] \in Nat /\ e[x] = f[x]
  PROVE  SumFunctionOnSet(f, S) = SumFunctionOnSet(e, S)
<1>1. PICK g : IsSum(g, f, S) /\ SumFunctionOnSet(f, S) = g[S]
  BY SumIs
<1>2. PICK h : IsSum(h, e, S) /\ SumFunctionOnSet(e, S) = h[S]
  BY SumIs
<1> QED
  BY <1>1, <1>2, SumShared

LEMMA SumTyped ==
  ASSUME NEW S, IsFiniteSet(S), NEW f, \A x \in S : f[x] \in Nat
  PROVE  SumFunctionOnSet(f, S) \in Nat /\ (S = {} => SumFunctionOnSet(f, S) = 0)
<1>1. PICK g : IsSum(g, f, S) /\ SumFunctionOnSet(f, S) = g[S]
  BY SumIs
<1> QED
  BY <1>1 DEF IsSum, SumsTo

\* With one more element, its value more.
LEMMA SumAdd ==
  ASSUME NEW S, IsFiniteSet(S), NEW y, y \notin S, NEW f, \A x \in S \cup {y} : f[x] \in Nat
  PROVE  SumFunctionOnSet(f, S \cup {y}) = SumFunctionOnSet(f, S) + f[y]
<1> DEFINE R == S \cup {y}
<1>1. IsFiniteSet(R)
  BY FS_AddElement
<1>2. PICK g : IsSum(g, f, S) /\ SumFunctionOnSet(f, S) = g[S]
  BY SumIs
<1>3. PICK h : IsSum(h, f, R) /\ SumFunctionOnSet(f, R) = h[R]
  BY <1>1, SumIs
<1>4. h[R] = f[y] + h[R \ {y}]
  <2>1. R \in SUBSET R /\ y \in R /\ \A x \in R : f[x] \in Nat
    OBVIOUS
  <2> HIDE DEF R
  <2> QED
    BY <1>1, <1>3, <2>1, SumAny
<1>5. R \ {y} = S
  OBVIOUS
<1>6. g[S] = h[S]
  <2>1. S \subseteq S /\ S \subseteq R /\ \A x \in S : f[x] = f[x]
    OBVIOUS
  <2> HIDE DEF R
  <2> QED
    BY <1>2, <1>3, <2>1, SumShared
<1>7. g[S] \in Nat /\ f[y] \in Nat
  BY <1>2 DEF IsSum
<1> HIDE DEF R
<1>8. SumFunctionOnSet(f, R) = SumFunctionOnSet(f, S) + f[y]
  <2>1. h[R] = f[y] + g[S]
    BY <1>4, <1>5, <1>6
  <2>2. f[y] + g[S] = g[S] + f[y]
    BY <1>7
  <2>3. SumFunctionOnSet(f, R) = h[R] /\ SumFunctionOnSet(f, S) = g[S]
    BY <1>2, <1>3
  <2> QED
    BY <2>1, <2>2, <2>3
<1> QED
  BY <1>8 DEF R

\* Of a list, by its last.
LEMMA SumOfList ==
  ASSUME NEW n \in Nat, NEW w, DOMAIN w = 1..n, \A k \in 1..n : w[k] \in Nat
  PROVE  /\ SumFunction(w) \in Nat
         /\ n = 0 => SumFunction(w) = 0
         /\ n > 0 => SumFunction(w) = SumFunction([k \in 1..(n - 1) |-> w[k]]) + w[n]
<1>1. SumFunction(w) = SumFunctionOnSet(w, 1..n)
  BY DEF SumFunction
<1>2. IsFiniteSet(1..n)
  BY FS_Interval
<1>3. SumFunction(w) \in Nat /\ (n = 0 => SumFunction(w) = 0)
  BY <1>1, <1>2, SumTyped
<1>4. ASSUME n > 0 PROVE SumFunction(w) = SumFunction([k \in 1..(n - 1) |-> w[k]]) + w[n]
  <2> DEFINE I == 1..(n - 1)
             v == [k \in I |-> w[k]]
  <2>1. IsFiniteSet(I) /\ n \notin I /\ 1..n = I \cup {n} /\ I \subseteq 1..n
    <3>1. IsFiniteSet(I)
      BY FS_Interval
    <3>2. n \notin I /\ I \subseteq 1..n /\ n \in 1..n
      BY <1>4
    <3>3. \A k \in 1..n : k \in I \/ k = n
      OBVIOUS
    <3> HIDE DEF I
    <3> QED
      BY <3>1, <3>2, <3>3
  <2>2. SumFunction(v) = SumFunctionOnSet(v, I)
    BY DEF SumFunction
  <2>3. \A k \in I : w[k] \in Nat /\ v[k] = w[k]
    OBVIOUS
  <2>4. \A k \in I \cup {n} : w[k] \in Nat
    BY <2>1
  <2> HIDE DEF I, v
  <2>5. SumFunctionOnSet(w, I) = SumFunctionOnSet(v, I)
    BY <2>1, <2>3, SumSame
  <2>6. SumFunctionOnSet(w, I \cup {n}) = SumFunctionOnSet(w, I) + w[n]
    BY <2>1, <2>4, SumAdd
  <2>7. SumFunction(w) = SumFunction(v) + w[n]
    BY <1>1, <2>1, <2>2, <2>5, <2>6
  <2> QED
    BY <2>7 DEF v, I
<1> QED
  BY <1>3, <1>4

==============================================================================
