---------------------------- MODULE ScheduleProofs ----------------------------
(***************************************************************************)
(* The walks of Schedule gather what they should, on every schedule: one   *)
(* pass in schedule order finds the least set closed under the steps that  *)
(* a skip reaches, and under those that a failure cuts off.                *)
(* A pass is a recursive function, so the proofs go by induction on how    *)
(* far it has come (FiniteWalks).                                          *)
(***************************************************************************)
EXTENDS Schedule, FiniteWalks, FiniteSetTheorems, SequenceTheorems, TLAPS

-----------------------------------------------------------------------------
(* One pass over an ordered list: whoever is reached by those gathered so  *)
(* far joins them.                                                         *)

\* s joins those of X if it is a candidate and they reach it.
Joins(X, s, among, reach) == {t \in {s} \cap among : X \in reach[t]}

\* f[i] is what has been gathered when the first i of order have been looked at:
\* start, and of the candidates `among' those that reach says it reaches.
Gathers(f, n, order, among, start, reach) ==
  f = [i \in 0..n |->
         IF i = 0 THEN start
         ELSE f[i - 1] \cup Joins(f[i - 1], order[i], among, reach)]

\* The same, place by place.
GathersEach(f, n, S, order, among, start, reach) ==
  /\ n \in Nat /\ order \in [1..n -> S]
  /\ f \in [0..n -> SUBSET S] /\ f[0] = start
  /\ \A i \in 1..n : f[i] = f[i - 1] \cup Joins(f[i - 1], order[i], among, reach)

\* Every one of S has one place.
Lists(n, order, S) ==
  /\ n \in Nat /\ order \in [1..n -> S]
  /\ \A s \in S : \E i \in 1..n : order[i] = s
  /\ \A i, j \in 1..n : order[i] = order[j] => i = j

\* More reach as much, and only those before it count for one.
LooksBack(n, order, S, reach) ==
  /\ reach \in [S -> SUBSET SUBSET S]
  /\ \A s \in S : \A X \in reach[s] : \A Y \in SUBSET S : X \subseteq Y => Y \in reach[s]
  /\ \A i \in 1..n : \A X \in reach[order[i]] :
        X \cap {order[j] : j \in 1..(i - 1)} \in reach[order[i]]

LEMMA PassExists ==
  ASSUME NEW S, NEW n, NEW order, Lists(n, order, S), NEW among \in SUBSET S,
         NEW start \in SUBSET S, NEW reach
  PROVE  \E f : Gathers(f, n, order, among, start, reach)
<1> DEFINE move == [i \in 1..n |-> [X \in SUBSET S |-> X \cup Joins(X, order[i], among, reach)]]
<1>1. n \in Nat
  BY DEF Lists
<1>2. \A X \in SUBSET S, i \in 1..n : X \cup Joins(X, order[i], among, reach) \in SUBSET S
  BY DEF Joins
<1>3. move \in [1..n -> [SUBSET S -> SUBSET S]]
  BY <1>2
<1>4. PICK f : IsWalk(f, n, SUBSET S, start, move)
  <2> HIDE DEF move
  <2> QED
    BY <1>1, <1>3, WalkExists
<1> DEFINE B(i) == IF i = 0 THEN start ELSE f[i - 1] \cup Joins(f[i - 1], order[i], among, reach)
<1>5. ASSUME NEW i \in 0..n PROVE f[i] = B(i)
  <2>1. CASE i = 0
    BY <1>4, <2>1 DEF IsWalk
  <2>2. CASE i # 0
    <3>1. i \in 1..n /\ f[i - 1] \in SUBSET S
      BY <1>1, <1>4, <2>2 DEF IsWalk
    <3>2. f[i] = move[i][f[i - 1]]
      <4> HIDE DEF move
      <4> QED
        BY <1>4, <2>2 DEF IsWalk
    <3> QED
      BY <2>2, <3>1, <3>2
  <2> QED
    BY <2>1, <2>2
<1>6. f = [i \in 0..n |-> B(i)]
  <2> HIDE DEF B, move
  <2> QED
    BY <1>4, <1>5 DEF IsWalk
<1>7. Gathers(f, n, order, among, start, reach)
  BY <1>6 DEF Gathers
<1> QED
  BY <1>7

LEMMA PassTyped ==
  ASSUME NEW S, NEW n, NEW order, Lists(n, order, S), NEW among \in SUBSET S,
         NEW start \in SUBSET S, NEW reach, NEW f, Gathers(f, n, order, among, start, reach)
  PROVE  GathersEach(f, n, S, order, among, start, reach)
<1>0. n \in Nat /\ order \in [1..n -> S]
  BY DEF Lists
<1>1. f[0] = start
  BY <1>0 DEF Gathers
<1>2. \A i \in 1..n :
         f[i] = f[i - 1] \cup Joins(f[i - 1], order[i], among, reach)
  <2> DEFINE B(i) == IF i = 0 THEN start
                     ELSE f[i - 1] \cup Joins(f[i - 1], order[i], among, reach)
  <2>1. f = [i \in 0..n |-> B(i)]
    BY Zenon DEF Gathers
  <2>2. \A i \in 0..n : f[i] = B(i)
    <3> HIDE DEF B
    <3> QED
      BY <2>1
  <2>3. ASSUME NEW i \in 1..n PROVE f[i] = B(i) /\ i # 0
    <3> HIDE DEF B
    <3> QED
      BY <1>0, <2>2
  <2> QED
    BY <2>3, Zenon
<1> DEFINE T == {i \in 0..n : f[i] \in SUBSET S}
<1>3. 0 \in T
  BY <1>0, <1>1
<1>4. ASSUME NEW i \in 1..n, i - 1 \in T PROVE i \in T
  BY <1>0, <1>2, <1>4 DEF Joins
<1>5. \A i \in 0..n : f[i] \in SUBSET S
  <2>1. 0..n \subseteq T
    <3> HIDE DEF T
    <3> QED
      BY <1>0, <1>3, <1>4, UpTo
  <2> QED
    BY <2>1
<1> QED
  <2>1. f \in [0..n -> SUBSET S]
    BY <1>5 DEF Gathers
  <2> QED
    BY <1>0, <1>1, <1>2, <2>1 DEF GathersEach

LEMMA PassIs ==
  ASSUME NEW S, NEW n, NEW order, Lists(n, order, S), NEW among \in SUBSET S,
         NEW start \in SUBSET S, NEW reach, NEW f,
         f = [i \in 0..n |-> f[i]], f[0] = start,
         \A i \in 1..n : f[i - 1] \in SUBSET S =>
            f[i] = f[i - 1] \cup Joins(f[i - 1], order[i], among, reach)
  PROVE  Gathers(f, n, order, among, start, reach)
<1>0. n \in Nat
  BY DEF Lists
<1> DEFINE T == {i \in 0..n : f[i] \in SUBSET S}
<1>1. 0 \in T
  BY <1>0
<1>2. ASSUME NEW i \in 1..n, i - 1 \in T PROVE i \in T
  BY <1>0, <1>2 DEF Joins
<1>3. 0..n \subseteq T
  <2> HIDE DEF T
  <2> QED
    BY <1>0, <1>1, <1>2, UpTo
<1> DEFINE B(i) == IF i = 0 THEN start ELSE f[i - 1] \cup Joins(f[i - 1], order[i], among, reach)
<1>4. ASSUME NEW i \in 0..n PROVE f[i] = B(i)
  <2>1. CASE i = 0
    BY <2>1
  <2>2. CASE i # 0
    <3>1. i \in 1..n /\ i - 1 \in 0..n
      BY <1>0, <2>2
    <3> QED
      BY <1>3, <2>2, <3>1
  <2> QED
    BY <2>1, <2>2
<1>5. f = [i \in 0..n |-> B(i)]
  <2> HIDE DEF B
  <2> QED
    BY <1>4
<1>6. Gathers(f, n, order, among, start, reach)
  BY <1>5 DEF Gathers
<1> QED
  BY <1>6

\* Once gathered, always; and each joins at its own place or was there at first.
LEMMA PassGrows ==
  ASSUME NEW S, NEW n, NEW order, Lists(n, order, S), NEW among \in SUBSET S,
         NEW start \in SUBSET S, NEW reach, NEW f, Gathers(f, n, order, among, start, reach),
         NEW i \in 0..n
  PROVE  /\ \A k \in i..n : f[i] \subseteq f[k]
         /\ i # 0 => \A k \in i..n : order[i] \in f[k] => order[i] \in f[i]
<1>0. /\ n \in Nat /\ f \in [0..n -> SUBSET S]
      /\ \A k \in 1..n :
           f[k] = f[k - 1] \cup Joins(f[k - 1], order[k], among, reach)
  <2>1. GathersEach(f, n, S, order, among, start, reach)
    BY PassTyped
  <2> QED
    BY <2>1 DEF GathersEach
<1>1. \A k \in i..n : f[i] \subseteq f[k]
  <2> DEFINE T == {k \in 0..n : k < i \/ f[i] \subseteq f[k]}
  <2>1. 0 \in T
    BY <1>0
  <2>2. ASSUME NEW k \in 1..n, k - 1 \in T PROVE k \in T
    <3>1. CASE k = i
      BY <3>1
    <3>2. CASE k < i
      BY <3>2
    <3>3. CASE k > i
      BY <1>0, <2>2, <3>3
    <3> QED
      BY <1>0, <3>1, <3>2, <3>3
  <2>3. 0..n \subseteq T
    <3> HIDE DEF T
    <3> QED
      BY <1>0, <2>1, <2>2, UpTo
  <2> QED
    BY <1>0, <2>3
<1>2. ASSUME i # 0, NEW k \in i..n, order[i] \in f[k] PROVE order[i] \in f[i]
  <2> DEFINE T == {m \in 0..n : m < i \/ (order[i] \in f[m] => order[i] \in f[i])}
  <2>1. 0 \in T
    BY <1>0, <1>2
  <2>2. ASSUME NEW m \in 1..n, m - 1 \in T PROVE m \in T
    <3>1. CASE m <= i
      BY <1>0, <3>1
    <3>2. CASE m > i
      <4>1. order[m] # order[i] /\ ~(m - 1 < i)
        BY <1>0, <1>2, <3>2 DEF Lists
      <4> QED
        BY <1>0, <2>2, <4>1 DEF Joins
    <3> QED
      BY <1>0, <3>1, <3>2
  <2>3. 0..n \subseteq T
    <3> HIDE DEF T
    <3> QED
      BY <1>0, <2>1, <2>2, UpTo
  <2> QED
    BY <1>0, <1>2, <2>3
<1> QED
  BY <1>1, <1>2

\* Closed under reach among the candidates, from start on.
Grown(set, among, start, reach) ==
  start \subseteq set /\ \A s \in among : set \in reach[s] => s \in set

\* The least such set; each of its members is there for a reason.
LeastGrown(set, S, among, start, reach) ==
  /\ set \in SUBSET S /\ set \subseteq start \cup among /\ Grown(set, among, start, reach)
  /\ \A s \in set : s \in start \/ set \in reach[s]
  /\ \A X \in SUBSET S : Grown(X, among, start, reach) => set \subseteq X

LEMMA PassIsLeast ==
  ASSUME NEW S, NEW n, NEW order, Lists(n, order, S), NEW among \in SUBSET S,
         NEW start \in SUBSET S, NEW reach, NEW f, Gathers(f, n, order, among, start, reach),
         LooksBack(n, order, S, reach)
  PROVE  LeastGrown(f[n], S, among, start, reach)
<1>0. /\ n \in Nat /\ f \in [0..n -> SUBSET S] /\ f[0] = start
      /\ \A k \in 1..n :
           f[k] = f[k - 1] \cup Joins(f[k - 1], order[k], among, reach)
      /\ order \in [1..n -> S]
  <2>1. GathersEach(f, n, S, order, among, start, reach)
    BY PassTyped
  <2> QED
    BY <2>1 DEF GathersEach
<1>1. \A i \in 0..n : f[i] \subseteq f[n]
  BY <1>0, PassGrows
<1>2. f[n] \in SUBSET S /\ start \subseteq f[n]
  BY <1>0, <1>1
<1>3. ASSUME NEW s \in among, f[n] \in reach[s] PROVE s \in f[n]
  <2>1. PICK i \in 1..n : order[i] = s
    BY DEF Lists
  <2> DEFINE before == f[n] \cap {order[j] : j \in 1..(i - 1)}
  <2>2. before \in reach[s]
    BY <1>3, <2>1 DEF LooksBack
  <2>3. ASSUME NEW j \in 1..(i - 1), order[j] \in f[n] PROVE order[j] \in f[i - 1]
    <3>1. j \in 0..n /\ j # 0 /\ n \in j..n /\ i - 1 \in j..n
      BY <1>0
    <3>2. order[j] \in f[j] /\ f[j] \subseteq f[i - 1]
      BY <2>3, <3>1, PassGrows
    <3> QED
      BY <3>2
  <2>4. before \subseteq f[i - 1] /\ i - 1 \in 0..n /\ f[i - 1] \in SUBSET S
    <3>1. i - 1 \in 0..n
      BY <1>0
    <3> QED
      BY <1>0, <2>3, <3>1
  <2>5. f[i - 1] \in reach[s]
    BY <2>2, <2>4 DEF LooksBack
  <2> QED
    BY <1>0, <1>1, <2>1, <2>5 DEF Joins
<1>4. \A s \in f[n] : s \in start \/ (s \in among /\ f[n] \in reach[s])
  <2> DEFINE T == {k \in 0..n : \A s \in f[k] : s \in start \/ (s \in among /\ f[n] \in reach[s])}
  <2>1. 0 \in T
    BY <1>0
  <2>2. ASSUME NEW k \in 1..n, k - 1 \in T PROVE k \in T
    <3>1. ASSUME NEW s \in {order[k]} \cap among, f[k - 1] \in reach[s] PROVE f[n] \in reach[s]
      <4>1. k - 1 \in 0..n
        BY <1>0
      <4>2. f[k - 1] \subseteq f[n]
        BY <1>1, <4>1
      <4> QED
        BY <1>2, <3>1, <4>2 DEF LooksBack
    <3> QED
      BY <1>0, <2>2, <3>1 DEF Joins
  <2>3. 0..n \subseteq T
    <3> HIDE DEF T
    <3> QED
      BY <1>0, <2>1, <2>2, UpTo
  <2> QED
    BY <1>0, <2>3
<1>5. ASSUME NEW X \in SUBSET S, start \subseteq X, \A s \in among : X \in reach[s] => s \in X
      PROVE  f[n] \subseteq X
  <2> DEFINE T == {k \in 0..n : f[k] \subseteq X}
  <2>1. 0 \in T
    BY <1>0, <1>5
  <2>2. ASSUME NEW k \in 1..n, k - 1 \in T PROVE k \in T
    <3>1. ASSUME NEW s \in {order[k]} \cap among, f[k - 1] \in reach[s] PROVE s \in X
      <4>1. X \in reach[s]
        BY <2>2, <3>1 DEF LooksBack
      <4> QED
        BY <1>5, <4>1
    <3> QED
      BY <1>0, <2>2, <3>1 DEF Joins
  <2>3. 0..n \subseteq T
    <3> HIDE DEF T
    <3> QED
      BY <1>0, <2>1, <2>2, UpTo
  <2> QED
    BY <1>0, <2>3
<1>6. f[n] \subseteq start \cup among
  BY <1>4
<1> QED
  BY <1>2, <1>3, <1>4, <1>5, <1>6 DEF LeastGrown, Grown

-----------------------------------------------------------------------------
(* The passes of Schedule.                                                 *)

\* The sets whose skips reach s.
Skipping == [s \in Steps |-> {X \in SUBSET Steps : SkippedVia(s, X) # {}}]

\* The sets that block s with what has failed.
Blocking(failed) == [s \in Steps |-> {X \in SUBSET Steps : Deps[s] \cap (failed \cup X) # {}}]

LEMMA OrderLists == Lists(Length, Order, Steps)
<1>1. Order \in Seq(Steps) /\ Length \in Nat /\ DOMAIN Order = 1..Length
  BY OrderAssumption, LenProperties DEF Length
<1>2. Order \in [1..Length -> Steps]
  BY <1>1, LenProperties DEF Length
<1> QED
  BY <1>1, <1>2, OrderAssumption DEF Lists

LEMMA DepsBefore ==
  ASSUME NEW i \in 1..Length, NEW d \in Deps[Order[i]]
  PROVE  \E j \in 1..(i - 1) : Order[j] = d
<1>1. /\ Length \in Nat /\ DOMAIN Order = 1..Length /\ Order[i] \in Steps
      /\ Order \in [1..Length -> Steps]
  BY OrderAssumption, LenProperties DEF Length
<1>2. d \in Steps
  BY <1>1, DepsAssumption
<1>3. PICK j \in 1..Length : Order[j] = d
  BY <1>1, <1>2, OrderAssumption
<1>4. j < i
  BY <1>1, <1>3, DepsAssumption
<1> QED
  BY <1>1, <1>3, <1>4

LEMMA SkippingLooksBack == LooksBack(Length, Order, Steps, Skipping)
<1>1. Skipping \in [Steps -> SUBSET SUBSET Steps]
  BY DEF Skipping
<1>2. ASSUME NEW s \in Steps, NEW X \in Skipping[s], NEW Y \in SUBSET Steps, X \subseteq Y
      PROVE  Y \in Skipping[s]
  BY <1>2, DepsAssumption DEF Skipping, SkippedVia
<1>3. ASSUME NEW i \in 1..Length, NEW X \in Skipping[Order[i]]
      PROVE  X \cap {Order[j] : j \in 1..(i - 1)} \in Skipping[Order[i]]
  <2> DEFINE s == Order[i]
             Y == X \cap {Order[j] : j \in 1..(i - 1)}
  <2>1. s \in Steps
    BY OrderLists DEF Lists
  <2>2. \A d \in Deps[s] : d \in X => d \in Y
    BY DepsBefore
  <2>3. Y \in SUBSET Steps /\ SkippedVia(s, X) # {} /\ SelectedChildren[s] \subseteq Deps[s]
    BY <1>3, <2>1, DepsAssumption DEF Skipping
  <2> HIDE DEF Y
  <2>4. SkippedVia(s, Y) # {}
    BY <2>2, <2>3 DEF SkippedVia
  <2>5. Y \in Skipping[s]
    BY <2>1, <2>3, <2>4 DEF Skipping
  <2> QED
    BY <2>5 DEF Y
<1> QED
  BY <1>1, <1>2, <1>3 DEF LooksBack

LEMMA BlockingLooksBack ==
  ASSUME NEW failed
  PROVE  LooksBack(Length, Order, Steps, Blocking(failed))
<1>1. Blocking(failed) \in [Steps -> SUBSET SUBSET Steps]
  BY DEF Blocking
<1>2. ASSUME NEW s \in Steps, NEW X \in Blocking(failed)[s], NEW Y \in SUBSET Steps, X \subseteq Y
      PROVE  Y \in Blocking(failed)[s]
  BY <1>2 DEF Blocking
<1>3. ASSUME NEW i \in 1..Length, NEW X \in Blocking(failed)[Order[i]]
      PROVE  X \cap {Order[j] : j \in 1..(i - 1)} \in Blocking(failed)[Order[i]]
  <2> DEFINE s == Order[i]
             Y == X \cap {Order[j] : j \in 1..(i - 1)}
  <2>1. s \in Steps
    BY OrderLists DEF Lists
  <2>2. \A d \in Deps[s] : d \in X => d \in Y
    BY DepsBefore
  <2>3. Y \in SUBSET Steps /\ Deps[s] \cap (failed \cup X) # {}
    BY <1>3, <2>1 DEF Blocking
  <2> HIDE DEF Y
  <2>4. Deps[s] \cap (failed \cup Y) # {}
    BY <2>2, <2>3
  <2>5. Y \in Blocking(failed)[s]
    BY <2>1, <2>3, <2>4 DEF Blocking
  <2> QED
    BY <2>5 DEF Y
<1> QED
  BY <1>1, <1>2, <1>3 DEF LooksBack

\* The pass of Skips as it is written.
SkipMove(X, i, among) == X \cup {s \in {Order[i]} \cap among : SkippedVia(s, X) # {}}
SkipPass(f, among, start) ==
  f = [i \in 0..Length |-> IF i = 0 THEN start ELSE SkipMove(f[i - 1], i, among)]

LEMMA SkipsIsLeast ==
  ASSUME NEW among \in SUBSET Steps, NEW start \in SUBSET Steps
  PROVE  LeastGrown(Skips(among, start), Steps, among, start, Skipping)
<1> DEFINE f == CHOOSE f : SkipPass(f, among, start)
<1>0. Length \in Nat /\ Lists(Length, Order, Steps)
  BY OrderLists DEF Lists
<1>1. ASSUME NEW X \in SUBSET Steps, NEW i \in 1..Length
      PROVE  SkipMove(X, i, among) = X \cup Joins(X, Order[i], among, Skipping)
  BY DepsAssumption, <1>0 DEF SkipMove, Joins, Skipping, Lists
<1>2. PICK g : Gathers(g, Length, Order, among, start, Skipping)
  BY <1>0, PassExists
<1>3. SkipPass(g, among, start)
  <2> DEFINE B(i) == IF i = 0 THEN start ELSE SkipMove(g[i - 1], i, among)
  <2>1. GathersEach(g, Length, Steps, Order, among, start, Skipping)
    BY <1>0, <1>2, PassTyped
  <2>2. ASSUME NEW i \in 0..Length PROVE g[i] = B(i)
    <3>1. CASE i = 0
      BY <2>1, <3>1 DEF GathersEach
    <3>2. CASE i # 0
      <4>1. i \in 1..Length /\ i - 1 \in 0..Length
        BY <1>0, <3>2
      <4>2. g[i] = g[i - 1] \cup Joins(g[i - 1], Order[i], among, Skipping)
        BY <2>1, <4>1 DEF GathersEach
      <4>3. g[i - 1] \in SUBSET Steps
        BY <2>1, <4>1 DEF GathersEach
      <4>4. SkipMove(g[i - 1], i, among) = g[i]
        BY <1>1, <4>1, <4>2, <4>3
      <4> QED
        BY <3>2, <4>4
    <3> QED
      BY <3>1, <3>2
  <2>3. g = [i \in 0..Length |-> B(i)]
    <3> HIDE DEF B
    <3> QED
      BY <2>1, <2>2 DEF GathersEach
  <2> QED
    BY <2>3 DEF SkipPass
<1>4. SkipPass(f, among, start)
  BY <1>3
<1>5. Skips(among, start) = f[Length]
  BY DEF Skips, SkipPass, SkipMove
<1> HIDE DEF f
<1>6. f = [i \in 0..Length |-> f[i]] /\ f[0] = start
  BY <1>0, <1>4 DEF SkipPass
<1>7. \A i \in 1..Length : f[i] = SkipMove(f[i - 1], i, among)
  <2> DEFINE B(i) == IF i = 0 THEN start ELSE SkipMove(f[i - 1], i, among)
  <2>1. f = [i \in 0..Length |-> B(i)]
    BY <1>4 DEF SkipPass
  <2>2. ASSUME NEW i \in 1..Length PROVE f[i] = B(i) /\ i # 0
    <3> HIDE DEF B
    <3> QED
      BY <1>0, <2>1
  <2> QED
    BY <2>2
<1>8. \A i \in 1..Length : f[i - 1] \in SUBSET Steps =>
         f[i] = f[i - 1] \cup Joins(f[i - 1], Order[i], among, Skipping)
  BY <1>1, <1>7
<1>9. Gathers(f, Length, Order, among, start, Skipping)
  BY <1>0, <1>6, <1>8, PassIs
<1> QED
  BY <1>0, <1>5, <1>9, SkippingLooksBack, PassIsLeast

\* The pass of AllBlocked as it is written.
BlockMove(X, i, among, failed) ==
  X \cup {s \in {Order[i]} \cap among : Deps[s] \cap (failed \cup X) # {}}
BlockPass(f, among, failed) ==
  f = [i \in 0..Length |-> IF i = 0 THEN {} ELSE BlockMove(f[i - 1], i, among, failed)]

LEMMA AllBlockedIsLeast ==
  ASSUME NEW reached, NEW skipped
  PROVE  LET unreached == With("none", reached) \ skipped
             failed == With("failed", reached)
         IN LeastGrown(AllBlocked(reached, skipped), Steps, unreached, {}, Blocking(failed))
<1> DEFINE among == With("none", reached) \ skipped
           failed == With("failed", reached)
           start == {}
           f == CHOOSE f : BlockPass(f, among, failed)
<1>5. AllBlocked(reached, skipped) = f[Length]
  BY DEF AllBlocked, BlockPass, BlockMove
<1>10. among \in SUBSET Steps /\ failed \in SUBSET Steps /\ start \in SUBSET Steps /\ start = {}
  BY DEF With
<1>0. Length \in Nat /\ Lists(Length, Order, Steps)
  BY OrderLists DEF Lists
<1> HIDE DEF among, failed, start
<1>1. ASSUME NEW X \in SUBSET Steps, NEW i \in 1..Length
      PROVE  BlockMove(X, i, among, failed) = X \cup Joins(X, Order[i], among, Blocking(failed))
  <2>1. ASSUME NEW s \in Steps
        PROVE  X \in Blocking(failed)[s] <=> Deps[s] \cap (failed \cup X) # {}
    BY DEF Blocking
  <2> QED
    BY <1>10, <2>1 DEF BlockMove, Joins
<1>2. PICK g : Gathers(g, Length, Order, among, start, Blocking(failed))
  BY <1>0, <1>10, PassExists
<1>3. BlockPass(g, among, failed)
  <2> DEFINE B(i) == IF i = 0 THEN start ELSE BlockMove(g[i - 1], i, among, failed)
  <2>1. GathersEach(g, Length, Steps, Order, among, start, Blocking(failed))
    BY <1>0, <1>2, <1>10, PassTyped
  <2>2. ASSUME NEW i \in 0..Length PROVE g[i] = B(i)
    <3>1. CASE i = 0
      BY <2>1, <3>1 DEF GathersEach
    <3>2. CASE i # 0
      <4>1. i \in 1..Length /\ i - 1 \in 0..Length
        BY <1>0, <3>2
      <4>2. g[i] = g[i - 1] \cup Joins(g[i - 1], Order[i], among, Blocking(failed))
        BY <2>1, <4>1 DEF GathersEach
      <4>3. g[i - 1] \in SUBSET Steps
        BY <2>1, <4>1 DEF GathersEach
      <4>4. BlockMove(g[i - 1], i, among, failed) = g[i]
        BY <1>1, <4>1, <4>2, <4>3
      <4> QED
        BY <3>2, <4>4
    <3> QED
      BY <3>1, <3>2
  <2>3. g = [i \in 0..Length |-> B(i)]
    <3> HIDE DEF B
    <3> QED
      BY <2>1, <2>2 DEF GathersEach
  <2> QED
    BY <1>10, <2>3 DEF BlockPass
<1>4. BlockPass(f, among, failed)
  BY <1>3
<1> HIDE DEF f
<1>6. f = [i \in 0..Length |-> f[i]] /\ f[0] = start
  BY <1>0, <1>4, <1>10 DEF BlockPass
<1>7. \A i \in 1..Length : f[i] = BlockMove(f[i - 1], i, among, failed)
  <2> DEFINE B(i) == IF i = 0 THEN start ELSE BlockMove(f[i - 1], i, among, failed)
  <2>1. f = [i \in 0..Length |-> B(i)]
    BY <1>4, <1>10 DEF BlockPass
  <2>2. ASSUME NEW i \in 1..Length PROVE f[i] = B(i) /\ i # 0
    <3> HIDE DEF B
    <3> QED
      BY <1>0, <2>1
  <2> QED
    BY <2>2
<1>8. \A i \in 1..Length : f[i - 1] \in SUBSET Steps =>
         f[i] = f[i - 1] \cup Joins(f[i - 1], Order[i], among, Blocking(failed))
  BY <1>1, <1>7
<1>9. Gathers(f, Length, Order, among, start, Blocking(failed))
  BY <1>0, <1>6, <1>8, <1>10, PassIs
<1>11. LeastGrown(f[Length], Steps, among, start, Blocking(failed))
  BY <1>0, <1>9, <1>10, BlockingLooksBack, PassIsLeast
<1> QED
  BY <1>5, <1>10, <1>11 DEF among, failed

-----------------------------------------------------------------------------
(* One fold after another.                                                 *)

LEMMA SkipsMore ==
  ASSUME NEW s \in Steps, NEW X \in SUBSET Steps, X \in Skipping[s], NEW Y \in SUBSET Steps,
         X \subseteq Y
  PROVE  Y \in Skipping[s]
BY SkippingLooksBack DEF LooksBack

\* Folding on from what was folded is folding all at once.
LEMMA FoldMore ==
  ASSUME NEW start \in SUBSET Steps, NEW X, LeastGrown(X, Steps, Steps, start, Skipping),
         NEW named \in SUBSET Steps
  PROVE  /\ LeastGrown(FoldSkips(named, X), Steps, Steps, start \cup named, Skipping)
         /\ X \subseteq FoldSkips(named, X)
<1> DEFINE Y == FoldSkips(named, X)
           both == X \cup named
<1>1. /\ X \in SUBSET Steps /\ start \subseteq X
      /\ \A s \in Steps : X \in Skipping[s] => s \in X
      /\ \A s \in X : s \in start \/ X \in Skipping[s]
      /\ \A Z \in SUBSET Steps : Grown(Z, Steps, start, Skipping) => X \subseteq Z
  BY DEF LeastGrown, Grown
<1>2. LeastGrown(Y, Steps, Steps, both, Skipping)
  <2>1. both \in SUBSET Steps /\ Steps \in SUBSET Steps
    BY <1>1
  <2> HIDE DEF both
  <2>2. LeastGrown(Skips(Steps, both), Steps, Steps, both, Skipping)
    BY <2>1, SkipsIsLeast
  <2> QED
    BY <2>2 DEF FoldSkips, both
<1> HIDE DEF Y
<1>3. /\ Y \in SUBSET Steps /\ X \subseteq Y /\ named \subseteq Y
      /\ \A s \in Steps : Y \in Skipping[s] => s \in Y
      /\ \A s \in Y : s \in X \/ s \in named \/ Y \in Skipping[s]
      /\ \A Z \in SUBSET Steps : Grown(Z, Steps, both, Skipping) => Y \subseteq Z
  BY <1>2 DEF LeastGrown, Grown
<1>4. \A s \in Y : s \in start \cup named \/ Y \in Skipping[s]
  BY <1>1, <1>3, SkipsMore
<1>5. ASSUME NEW Z \in SUBSET Steps, Grown(Z, Steps, start \cup named, Skipping) PROVE Y \subseteq Z
  <2>1. Grown(Z, Steps, start, Skipping) /\ named \subseteq Z
    BY <1>5 DEF Grown
  <2>2. X \subseteq Z
    BY <1>1, <2>1
  <2>3. Grown(Z, Steps, both, Skipping)
    BY <2>1, <2>2 DEF Grown
  <2> QED
    BY <1>3, <2>3
<1>6. LeastGrown(Y, Steps, Steps, start \cup named, Skipping)
  BY <1>1, <1>3, <1>4, <1>5 DEF LeastGrown, Grown
<1> QED
  BY <1>3, <1>6 DEF Y

\* A fold leaves the steps before those it names as they were.
LEMMA FoldAhead ==
  ASSUME NEW start \in SUBSET Steps, NEW X, LeastGrown(X, Steps, Steps, start, Skipping),
         NEW named \in SUBSET Steps, NEW i \in 0..Length,
         \A k \in 1..Length : Order[k] \in named => k > i,
         NEW k \in 1..Length, k <= i, Order[k] \in FoldSkips(named, X)
  PROVE  Order[k] \in X
<1> DEFINE Y == FoldSkips(named, X)
           both == X \cup named
           Z == X \cup {Order[j] : j \in (i + 1)..Length}
<1>0. Length \in Nat /\ Lists(Length, Order, Steps)
  BY OrderLists DEF Lists
<1>1. X \in SUBSET Steps /\ \A s \in Steps : X \in Skipping[s] => s \in X
  BY DEF LeastGrown, Grown
<1>2. LeastGrown(Y, Steps, Steps, both, Skipping)
  <2>1. both \in SUBSET Steps /\ Steps \in SUBSET Steps
    BY <1>1
  <2> HIDE DEF both
  <2>2. LeastGrown(Skips(Steps, both), Steps, Steps, both, Skipping)
    BY <2>1, SkipsIsLeast
  <2> QED
    BY <2>2 DEF FoldSkips, both
<1> HIDE DEF Y
<1>3. Z \in SUBSET Steps /\ both \subseteq Z
  <2>1. Z \in SUBSET Steps
    BY <1>0, <1>1 DEF Lists
  <2>2. ASSUME NEW s \in named PROVE s \in Z
    <3>1. PICK j \in 1..Length : Order[j] = s
      BY <1>0 DEF Lists
    <3>2. j \in (i + 1)..Length
      BY <1>0, <3>1
    <3> QED
      BY <3>1, <3>2
  <2> QED
    BY <2>1, <2>2
<1>4. ASSUME NEW s \in Steps, Z \in Skipping[s] PROVE s \in Z
  <2>1. PICK j \in 1..Length : Order[j] = s
    BY <1>0 DEF Lists
  <2>2. CASE j > i
    <3>1. j \in (i + 1)..Length
      BY <1>0, <2>2
    <3> QED
      BY <2>1, <3>1
  <2>3. CASE j <= i
    <3> DEFINE before == Z \cap {Order[m] : m \in 1..(j - 1)}
    <3>1. before \in Skipping[s]
      BY <1>4, <2>1, SkippingLooksBack DEF LooksBack
    <3>2. ASSUME NEW m \in 1..(j - 1), Order[m] \in Z PROVE Order[m] \in X
      <4>1. m \in 1..Length /\ m <= i
        BY <1>0, <2>3
      <4>2. ASSUME NEW l \in (i + 1)..Length PROVE Order[l] # Order[m]
        <5>1. l \in 1..Length /\ l # m
          BY <1>0, <4>1
        <5> QED
          BY <1>0, <4>1, <5>1 DEF Lists
      <4> QED
        BY <3>2, <4>2
    <3>3. before \subseteq X /\ before \in SUBSET Steps
      BY <1>1, <3>2
    <3> HIDE DEF before
    <3>4. X \in Skipping[s]
      BY <1>1, <3>1, <3>3, SkipsMore
    <3> QED
      BY <1>1, <3>4
  <2> QED
    BY <1>0, <2>2, <2>3
<1>5. Y \subseteq Z
  <2> HIDE DEF Z, both
  <2>1. Grown(Z, Steps, both, Skipping)
    BY <1>3, <1>4 DEF Grown
  <2> QED
    BY <1>2, <1>3, <2>1 DEF LeastGrown
<1>6. ASSUME NEW j \in (i + 1)..Length PROVE Order[j] # Order[k]
  <2>1. j \in 1..Length /\ j # k
    BY <1>0
  <2> QED
    BY <1>0, <2>1 DEF Lists
<1> QED
  BY <1>5, <1>6 DEF Y

=============================================================================
