---------------------------- MODULE Basics_proofs ----------------------------
(***************************************************************************)
(* Facts that the proofs of several components need.  About finite sets: a *)
(* smallest member of a set of finite sets, the largest of a finite set of *)
(* numbers, and what FoldFunction(+, 0, f) says of a function f to the     *)
(* natural numbers; each one is an induction over a finite set, carried    *)
(* out as the search for a smallest counterexample (WFMin).  About the     *)
(* recursion inside FoldLeft: that there is a function that satisfies it,  *)
(* and only one.  About sequences: what a cut and a splice leave.          *)
(***************************************************************************)
EXTENDS Integers, Functions, FiniteSetsExt, FiniteSetTheorems, Sequences,
        SequenceTheorems, TLAPS

\* The recursion inside FoldFunction: the element taken out of a set, one
\* step of the sum, and a function that is that recursion on the subsets of T.
Pick(s) == CHOOSE x \in s : TRUE
Rec(f, g, s) == IF s = {} THEN 0 ELSE f[Pick(s)] + g[s \ {Pick(s)}]
Sums(f, T, h) == h = [s \in SUBSET T |-> Rec(f, h, s)]

\* A nonempty set of finite sets has a member that includes no other one.
LEMMA SmallestSet ==
  ASSUME NEW S, IsFiniteSet(S), NEW C, C \subseteq SUBSET S, C # {}
  PROVE  \E m \in C : \A t \in C : t \subseteq m => t = m
<1>1. IsWellFoundedOn(StrictSubsetOrdering(S), FiniteSubsetsOf(S))
  BY FS_StrictSubsetOrderingWellFounded
<1>2. C \subseteq FiniteSubsetsOf(S)
  BY FS_FiniteSubsetsOfFinite
<1>3. PICK m \in C : \A t \in C : ~ (<< t, m >> \in StrictSubsetOrdering(S))
  BY <1>1, <1>2, WFMin
<1>4. QED
  BY Zenon, <1>3 DEF StrictSubsetOrdering

\* A nonempty finite set of integers has a largest member.
LEMMA LargestExists ==
  ASSUME NEW S, IsFiniteSet(S), S \subseteq Int, S # {}
  PROVE  \E x \in S : \A y \in S : x >= y
<1> DEFINE Has(s) == \E x \in s : \A y \in s : x >= y
           C == {s \in SUBSET S : s # {} /\ ~ Has(s)}
<1>1. SUFFICES ASSUME C # {} PROVE FALSE
  OBVIOUS
<1>2. PICK m \in C : \A t \in C : t \subseteq m => t = m
  <2>1. C \subseteq SUBSET S
    OBVIOUS
  <2> HIDE DEF C, Has
  <2>2. QED
    BY ONLY <2>1, <1>1, SmallestSet, IsFiniteSet(S)
<1>3. PICK a \in m : TRUE
  BY Zenon
<1> DEFINE r == m \ {a}
<1>4. r \notin C
  BY Zenon, <1>2, <1>3
<1>5. CASE r = {}
  <2>1. Has(m)
    BY <1>3, <1>5
  <2>2. QED
    BY <2>1
<1>6. CASE Has(r)
  <2>1. PICK x \in r : \A y \in r : x >= y
    BY <1>6
  <2>2. x \in Int /\ a \in Int /\ m \subseteq Int
    BY <1>3
  <2>3. CASE x >= a
    BY <2>1, <2>2, <2>3
  <2>4. CASE a > x
    <3>1. \A y \in m : a >= y
      BY <2>1, <2>2, <2>4
    <3>2. QED
      BY <3>1, <1>3
  <2>5. QED
    BY <2>2, <2>3, <2>4
<1>7. QED
  BY <1>4, <1>5, <1>6

\* What Max of FiniteSetsExt is.
LEMMA MaxIsLargest ==
  ASSUME NEW S, IsFiniteSet(S), S \subseteq Int, S # {}
  PROVE  Max(S) \in S /\ \A y \in S : Max(S) >= y
  BY Zenon, LargestExists DEF Max

\* The smallest of a finite set of numbers, as Min chooses it.
LEMMA MinIsSmallest ==
  ASSUME NEW S, IsFiniteSet(S), S \subseteq Int, S # {}
  PROVE  Min(S) \in S /\ \A y \in S : Min(S) <= y
<1> DEFINE N == {-x : x \in S}
<1>1. IsFiniteSet(N)
  <2> DEFINE f == [x \in S |-> -x]
  <2>1. f \in Surjection(S, N)
    BY DEF Surjection
  <2> HIDE DEF f, N
  <2>2. QED
    BY <2>1, FS_Surjection
<1>2. N \subseteq Int /\ N # {}
  OBVIOUS
<1>3. Max(N) \in N /\ \A y \in N : Max(N) >= y
  <2> HIDE DEF N
  <2>1. QED
    BY Zenon, <1>1, <1>2, MaxIsLargest
<1>4. PICK x \in S : Max(N) = -x
  BY Zenon, <1>3
<1>5. \A y \in S : -x >= -y
  BY Zenon, <1>3, <1>4
<1>6. x \in S /\ \A y \in S : x <= y
  BY <1>5
<1>7. QED
  BY Zenon, <1>6 DEF Min

\* Two elements are a finite set.
LEMMA PairFinite == ASSUME NEW a, NEW b PROVE IsFiniteSet({a, b})
<1>1. {a, b} = {a} \cup {b}
  OBVIOUS
<1>2. IsFiniteSet({a})
  BY FS_Singleton
<1>3. QED
  BY <1>1, <1>2, FS_AddElement

\* The element taken out of a set is one of it.
LEMMA PickIn == ASSUME NEW s, s # {} PROVE Pick(s) \in s
  BY DEF Pick

\* FoldFunction is the value of the recursion at the whole domain.
LEMMA SumUnfolds ==
  ASSUME NEW S, NEW f \in [S -> Nat]
  PROVE  FoldFunction(+, 0, f) = (CHOOSE g : Sums(f, S, g))[S]
  BY DEF FoldFunction, FoldFunctionOnSet, MapThenFoldSet, Sums, Rec, Pick

\* Two functions that are the recursion agree wherever both are defined.
LEMMA SumsAgree ==
  ASSUME NEW f, NEW T, IsFiniteSet(T), NEW U, NEW h, NEW k,
         Sums(f, T, h), Sums(f, U, k), NEW s, s \subseteq T, s \subseteq U
  PROVE  h[s] = k[s]
<1> DEFINE C == {t \in SUBSET T : t \subseteq U /\ h[t] # k[t]}
<1>1. SUFFICES ASSUME C # {} PROVE FALSE
  OBVIOUS
<1>2. PICK m \in C : \A t \in C : t \subseteq m => t = m
  <2>1. C \subseteq SUBSET T
    OBVIOUS
  <2> HIDE DEF C
  <2>2. QED
    BY <2>1, <1>1, SmallestSet
<1>3. h[m] = Rec(f, h, m) /\ k[m] = Rec(f, k, m)
  BY DEF Sums
<1>4. CASE m = {}
  BY <1>2, <1>3, <1>4 DEF Rec
<1>5. CASE m # {}
  <2>1. Pick(m) \in m
    BY <1>5, PickIn
  <2>2. h[m \ {Pick(m)}] = k[m \ {Pick(m)}]
    BY <1>2, <2>1
  <2>3. QED
    BY <1>2, <1>3, <1>5, <2>2 DEF Rec
<1>6. QED
  BY <1>4, <1>5

\* A function that is the recursion on the subsets of T.
LEMMA SumsExist ==
  ASSUME NEW S, IsFiniteSet(S), NEW f \in [S -> Nat]
  PROVE  \E h : Sums(f, S, h)
<1> DEFINE C == {t \in SUBSET S : ~ \E h : Sums(f, t, h)}
<1>1. SUFFICES ASSUME C # {} PROVE FALSE
  OBVIOUS
<1>2. PICK m \in C : \A t \in C : t \subseteq m => t = m
  <2>1. C \subseteq SUBSET S
    OBVIOUS
  <2> HIDE DEF C
  <2>2. QED
    BY <2>1, <1>1, SmallestSet
<1> DEFINE H(t) == CHOOSE h : Sums(f, t, h)
           V(t) == IF t = {} THEN 0 ELSE f[Pick(t)] + H(t \ {Pick(t)})[t \ {Pick(t)}]
           g == [t \in SUBSET m |-> V(t)]
<1>3. \A t \in SUBSET m : t # m => Sums(f, t, H(t))
  BY <1>2
<1>4. ASSUME NEW t \in SUBSET m, t # m
      PROVE  V(t) = H(t)[t]
  <2>1. Sums(f, t, H(t))
    BY <1>3, <1>4
  <2>2. H(t)[t] = Rec(f, H(t), t)
    BY Zenon, <2>1 DEF Sums
  <2>3. CASE t = {}
    BY <2>2, <2>3 DEF Rec
  <2>4. CASE t # {}
    <3> DEFINE u == t \ {Pick(t)}
    <3>1. u \subseteq t /\ u \subseteq u /\ u # m /\ IsFiniteSet(u)
      BY <2>4, <1>4, PickIn, FS_Subset
    <3>2. Sums(f, u, H(u))
      BY Zenon, <1>3, <3>1
    <3>3. H(u)[u] = H(t)[u]
      BY <2>1, <3>1, <3>2, SumsAgree
    <3>4. QED
      BY <2>2, <2>4, <3>3 DEF Rec
  <2>5. QED
    BY <2>3, <2>4
<1>5. ASSUME NEW t \in SUBSET m
      PROVE  g[t] = Rec(f, g, t)
  <2>1. CASE t = {}
    BY <2>1 DEF Rec
  <2>2. CASE t # {}
    <3> DEFINE u == t \ {Pick(t)}
    <3>1. u \in SUBSET m /\ u # m
      BY <2>2, PickIn
    <3>2. g[u] = H(u)[u]
      BY Zenon, <3>1, <1>4
    <3>3. g[t] = f[Pick(t)] + H(u)[u]
      BY <2>2
    <3>4. QED
      BY <2>2, <3>2, <3>3 DEF Rec
  <2>3. QED
    BY <2>1, <2>2
<1>6. Sums(f, m, g)
  <2>1. g = [t \in SUBSET m |-> Rec(f, g, t)]
    BY Zenon, <1>5
  <2>2. QED
    BY Zenon, <2>1 DEF Sums
<1>7. QED
  BY <1>2, <1>6

\* The recursion that FoldFunction evaluates exists, and the sum is its value.
LEMMA SumIsRecursion ==
  ASSUME NEW S, IsFiniteSet(S), NEW f \in [S -> Nat]
  PROVE  \E h : Sums(f, S, h) /\ FoldFunction(+, 0, f) = h[S]
  BY Zenon, SumsExist, SumUnfolds

\* The sum of natural numbers is one, and no number is larger than the sum it
\* is part of.
LEMMA SumBounds ==
  ASSUME NEW S, IsFiniteSet(S), NEW f \in [S -> Nat]
  PROVE  /\ FoldFunction(+, 0, f) \in Nat
         /\ \A x \in S : f[x] <= FoldFunction(+, 0, f)
<1>1. PICK h : Sums(f, S, h) /\ FoldFunction(+, 0, f) = h[S]
  BY Zenon, SumIsRecursion
<1> DEFINE Good(t) == h[t] \in Nat /\ \A x \in t : f[x] <= h[t]
           C == {t \in SUBSET S : ~ Good(t)}
<1>2. SUFFICES ASSUME C # {} PROVE FALSE
  BY Zenon, <1>1
<1>3. PICK m \in C : \A t \in C : t \subseteq m => t = m
  <2>1. C \subseteq SUBSET S
    OBVIOUS
  <2> HIDE DEF C
  <2>2. QED
    BY <2>1, <1>2, SmallestSet
<1>4. h[m] = Rec(f, h, m)
  BY Zenon, <1>1 DEF Sums
<1>5. CASE m = {}
  BY <1>3, <1>4, <1>5 DEF Rec
<1>6. CASE m # {}
  <2> DEFINE p == Pick(m)
             u == m \ {p}
  <2>1. p \in m
    BY <1>6, PickIn
  <2>2. Good(u)
    BY <1>3, <2>1
  <2>3. h[m] = f[p] + h[u]
    BY <1>4, <1>6 DEF Rec
  <2>4. f[p] \in Nat /\ \A x \in m : f[x] \in Nat
    BY <2>1
  <2> HIDE DEF p, u
  <2>5. h[m] \in Nat /\ h[u] <= h[m] /\ f[p] <= h[m]
    BY <2>2, <2>3, <2>4
  <2>6. \A x \in m : f[x] <= h[m]
    <3> TAKE x \in m
    <3>1. CASE x = p
      BY <3>1, <2>5
    <3>2. CASE x # p
      <4>1. f[x] <= h[u]
        BY <3>2, <2>2 DEF u
      <4>2. QED
        BY <4>1, <2>5, <2>4, <2>2
    <3>3. QED
      BY <3>1, <3>2
  <2>7. QED
    BY <1>3, <2>5, <2>6
<1>7. QED
  BY <1>5, <1>6

\* When one number of a sum changes, the sum changes by the difference.
LEMMA SumUpdate ==
  ASSUME NEW S, IsFiniteSet(S), NEW f \in [S -> Nat], NEW x \in S, NEW v \in Nat
  PROVE  FoldFunction(+, 0, [f EXCEPT ![x] = v]) = FoldFunction(+, 0, f) - f[x] + v
<1> DEFINE e == [f EXCEPT ![x] = v]
<1>1. e \in [S -> Nat] /\ e[x] = v /\ \A y \in S : y # x => e[y] = f[y]
  OBVIOUS
<1> HIDE DEF e
<1>2. PICK h : Sums(f, S, h) /\ FoldFunction(+, 0, f) = h[S]
  BY Zenon, SumIsRecursion
<1>3. PICK k : Sums(e, S, k) /\ FoldFunction(+, 0, e) = k[S]
  BY Zenon, <1>1, SumIsRecursion
<1> DEFINE Good(t) == /\ h[t] \in Int /\ k[t] \in Int
                      /\ x \in t => k[t] = h[t] - f[x] + v
                      /\ x \notin t => k[t] = h[t]
           C == {t \in SUBSET S : ~ Good(t)}
<1>4. SUFFICES ASSUME C # {} PROVE FALSE
  BY Zenon, <1>2, <1>3 DEF e
<1>5. PICK m \in C : \A t \in C : t \subseteq m => t = m
  <2>1. C \subseteq SUBSET S
    OBVIOUS
  <2> HIDE DEF C
  <2>2. QED
    BY <2>1, <1>4, SmallestSet
<1>6. h[m] = Rec(f, h, m) /\ k[m] = Rec(e, k, m)
  BY Zenon, <1>2, <1>3 DEF Sums
<1>7. CASE m = {}
  BY <1>5, <1>6, <1>7 DEF Rec
<1>8. CASE m # {}
  <2> DEFINE p == Pick(m)
             u == m \ {p}
  <2>1. p \in m
    BY <1>8, PickIn
  <2>2. Good(u)
    BY <1>5, <2>1
  <2>3. h[m] = f[p] + h[u] /\ k[m] = e[p] + k[u]
    BY <1>6, <1>8 DEF Rec
  <2>4. f[p] \in Nat /\ e[p] \in Nat /\ f[x] \in Nat /\ (p # x => e[p] = f[p])
    BY <2>1, <1>1
  <2>5. (p = x => x \notin u) /\ (p # x => (x \in u <=> x \in m))
    OBVIOUS
  <2> HIDE DEF p, u
  <2>6. h[u] \in Int /\ k[u] \in Int /\ (x \in u => k[u] = h[u] - f[x] + v)
                                     /\ (x \notin u => k[u] = h[u])
    BY <2>2
  <2>7. h[m] \in Int /\ k[m] \in Int
    BY <2>3, <2>4, <2>6
  <2>8. CASE p = x
    <3>1. x \in m /\ k[m] = h[m] - f[x] + v
      BY <2>1, <2>3, <2>4, <2>5, <2>6, <2>8, <1>1
    <3>2. QED
      BY <1>5, <2>7, <3>1
  <2>9. CASE p # x /\ x \in m
    <3>1. k[m] = h[m] - f[x] + v
      BY <2>3, <2>4, <2>5, <2>6, <2>9
    <3>2. QED
      BY <1>5, <2>7, <2>9, <3>1
  <2>10. CASE x \notin m
    <3>1. k[m] = h[m]
      BY <2>1, <2>3, <2>4, <2>5, <2>6, <2>10
    <3>2. QED
      BY <1>5, <2>7, <2>10, <3>1
  <2>11. QED
    BY <2>1, <2>8, <2>9, <2>10
<1>9. QED
  BY <1>7, <1>8

\* The sum of zeros is zero.
LEMMA SumOfZeros ==
  ASSUME NEW S, IsFiniteSet(S), NEW f \in [S -> Nat], \A x \in S : f[x] = 0
  PROVE  FoldFunction(+, 0, f) = 0
<1>1. PICK h : Sums(f, S, h) /\ FoldFunction(+, 0, f) = h[S]
  BY Zenon, SumIsRecursion
<1> DEFINE C == {t \in SUBSET S : h[t] # 0}
<1>2. SUFFICES ASSUME C # {} PROVE FALSE
  BY Zenon, <1>1
<1>3. PICK m \in C : \A t \in C : t \subseteq m => t = m
  <2>1. C \subseteq SUBSET S
    OBVIOUS
  <2> HIDE DEF C
  <2>2. QED
    BY <2>1, <1>2, SmallestSet
<1>4. h[m] = Rec(f, h, m) /\ h[m] # 0
  BY Zenon, <1>1, <1>3 DEF Sums
<1>5. m # {}
  BY <1>4 DEF Rec
<1>6. Pick(m) \in m
  BY <1>5, PickIn
<1>7. h[m \ {Pick(m)}] = 0
  BY <1>3, <1>6
<1>8. f[Pick(m)] = 0
  BY <1>3, <1>6
<1>9. QED
  BY <1>4, <1>5, <1>7, <1>8 DEF Rec

\* A nonempty set of natural numbers has a least member.
LEMMA LeastExists ==
  ASSUME NEW S, S \subseteq Nat, S # {}
  PROVE  \E n \in S : \A m \in S : n <= m
<1>1. PICK n \in S : \A m \in S : ~ (<< m, n >> \in OpToRel(<, Nat))
  BY Zenon, NatLessThanWellFounded, WFMin
<1>2. \A m \in S : ~ (m < n)
  BY Zenon, <1>1 DEF OpToRel
<1> QED BY <1>2

\* Induction: a set that has 0 and with each number the next one has them all.
LEMMA ByCounting ==
  ASSUME NEW S, 0 \in S, \A n \in Nat : n \in S => n + 1 \in S
  PROVE  \A n \in Nat : n \in S
<1> DEFINE T == {n \in Nat : n \notin S}
<1>1. SUFFICES ASSUME T # {} PROVE FALSE
  OBVIOUS
<1>2. PICK n \in T : \A m \in T : n <= m
  <2> HIDE DEF T
  <2>1. T \subseteq Nat
    BY DEF T
  <2> QED BY Zenon, <1>1, <2>1, LeastExists
<1>3. n # 0 /\ n \in Nat /\ n \notin S
  OBVIOUS
<1>4. n - 1 \in Nat /\ n - 1 \in S
  BY <1>2, <1>3
<1> QED BY <1>3, <1>4

\* The recursion inside FoldLeft: G takes the index and the value so far.
Fold(base, G, D, h) ==
  h = [s \in SUBSET D |-> IF s = {} THEN base ELSE G[<< Max(s), h[s \ {Max(s)}] >>]]

\* Two functions that are the recursion agree.
LEMMA FoldsAgree ==
  ASSUME NEW base, NEW G, NEW T, IsFiniteSet(T), T \subseteq Int, NEW U, NEW h, NEW k,
         Fold(base, G, T, h), Fold(base, G, U, k), NEW s, s \subseteq T, s \subseteq U
  PROVE  h[s] = k[s]
<1> DEFINE C == {t \in SUBSET T : t \subseteq U /\ h[t] # k[t]}
<1>1. SUFFICES ASSUME C # {} PROVE FALSE
  BY Zenon
<1>2. PICK m \in C : \A t \in C : t \subseteq m => t = m
  <2>1. C \subseteq SUBSET T
    OBVIOUS
  <2> HIDE DEF C
  <2>2. QED
    BY ONLY <2>1, <1>1, SmallestSet, IsFiniteSet(T)
<1>3. /\ h[m] = IF m = {} THEN base ELSE G[<< Max(m), h[m \ {Max(m)}] >>]
      /\ k[m] = IF m = {} THEN base ELSE G[<< Max(m), k[m \ {Max(m)}] >>]
  BY Zenon DEF Fold
<1>4. CASE m = {}
  BY <1>2, <1>3, <1>4
<1>5. CASE m # {}
  <2>1. Max(m) \in m
    BY Zenon, <1>5, MaxIsLargest, FS_Subset
  <2>2. h[m \ {Max(m)}] = k[m \ {Max(m)}]
    BY <1>2, <2>1
  <2>3. QED
    BY <1>2, <1>3, <1>5, <2>2
<1>6. QED
  BY <1>4, <1>5

\* A function that is the recursion on the sets of indices, with values in V.
LEMMA FoldExists ==
  ASSUME NEW D, IsFiniteSet(D), D \subseteq Int, NEW V, NEW base \in V,
         NEW G \in [D \X V -> V]
  PROVE  \E h \in [SUBSET D -> V] : Fold(base, G, D, h)
<1> DEFINE C == {t \in SUBSET D : ~ \E h \in [SUBSET t -> V] : Fold(base, G, t, h)}
<1>1. SUFFICES ASSUME C # {} PROVE FALSE
  BY Zenon
<1>2. PICK m \in C : \A t \in C : t \subseteq m => t = m
  <2>1. C \subseteq SUBSET D
    OBVIOUS
  <2> HIDE DEF C
  <2>2. QED
    BY ONLY <2>1, <1>1, SmallestSet, IsFiniteSet(D)
<1> DEFINE H(t) == CHOOSE h \in [SUBSET t -> V] : Fold(base, G, t, h)
           W(t) == t \ {Max(t)}
           A(t) == IF t = {} THEN base ELSE G[<< Max(t), H(W(t))[W(t)] >>]
           g == [t \in SUBSET m |-> A(t)]
<1>3. \A t \in SUBSET m : t # m => H(t) \in [SUBSET t -> V] /\ Fold(base, G, t, H(t))
  BY Zenon, <1>2
<1>4. \A t \in SUBSET m : t # {} => /\ Max(t) \in t /\ Max(t) \in D
                                    /\ W(t) \in SUBSET m /\ W(t) # m /\ W(t) \subseteq t
  <2> TAKE t \in SUBSET m
  <2> HAVE t # {}
  <2>1. IsFiniteSet(t) /\ t \subseteq Int /\ t \subseteq D
    BY Zenon, FS_Subset
  <2>2. Max(t) \in t
    BY Zenon, <2>1, MaxIsLargest
  <2> QED BY Zenon, <2>1, <2>2
<1>5. ASSUME NEW t \in SUBSET m
      PROVE  A(t) \in V
  <2>1. CASE t = {}
    BY <2>1
  <2>2. CASE t # {}
    <3>1. H(W(t))[W(t)] \in V
      <4>1. H(W(t)) \in [SUBSET W(t) -> V]
        BY Zenon, <2>2, <1>3, <1>4
      <4> HIDE DEF H, W
      <4> QED BY <4>1
    <3>2. << Max(t), H(W(t))[W(t)] >> \in D \X V
      BY <3>1, <2>2, <1>4
    <3> HIDE DEF H, W
    <3> QED BY <2>2, <3>2
  <2> QED BY <2>1, <2>2
<1>6. ASSUME NEW t \in SUBSET m, t # m
      PROVE  A(t) = H(t)[t]
  <2>1. Fold(base, G, t, H(t))
    BY Zenon, <1>3, <1>6
  <2>2. H(t)[t] = IF t = {} THEN base ELSE G[<< Max(t), H(t)[W(t)] >>]
    <3> HIDE DEF H
    <3> QED BY Zenon, <2>1 DEF Fold
  <2>3. CASE t # {}
    <3>1. W(t) \in SUBSET m /\ W(t) # m /\ W(t) \subseteq t
      BY <1>4, <2>3
    <3>2. Fold(base, G, W(t), H(W(t)))
      BY Zenon, <1>3, <3>1
    <3>3. IsFiniteSet(W(t)) /\ W(t) \subseteq Int
      <4>1. W(t) \subseteq D
        BY Zenon, <3>1
      <4> QED BY Zenon, <4>1, FS_Subset
    <3>4. H(W(t))[W(t)] = H(t)[W(t)]
      <4> HIDE DEF H, W
      <4> QED BY <2>1, <3>1, <3>2, <3>3, FoldsAgree
    <3> HIDE DEF H, W
    <3> QED BY <2>2, <2>3, <3>4
  <2> QED BY <2>2, <2>3
<1>7. g \in [SUBSET m -> V] /\ Fold(base, G, m, g)
  <2>1. ASSUME NEW t \in SUBSET m
        PROVE  g[t] = IF t = {} THEN base ELSE G[<< Max(t), g[W(t)] >>]
    <3>1. CASE t # {}
      <4>1. W(t) \in SUBSET m /\ W(t) # m
        BY <1>4, <3>1
      <4>2. g[W(t)] = H(W(t))[W(t)]
        <5>1. A(W(t)) = H(W(t))[W(t)]
          BY Zenon, <1>6, <4>1
        <5> HIDE DEF A, H, W
        <5> QED BY <5>1, <4>1
      <4> HIDE DEF H, W
      <4> QED BY Zenon, <3>1, <4>2
    <3> QED BY <3>1
  <2>2. g \in [SUBSET m -> V]
    <3> HIDE DEF A
    <3> QED BY <1>5
  <2>3. g = [t \in SUBSET m |-> IF t = {} THEN base ELSE G[<< Max(t), g[W(t)] >>]]
    <3> HIDE DEF A, W
    <3> QED BY Zenon, <2>1
  <2> HIDE DEF g
  <2> QED BY Zenon, <2>2, <2>3 DEF Fold
<1>8. m \notin C
  <2> HIDE DEF g
  <2> QED BY <1>7
<1> QED BY Zenon, <1>2, <1>8

\* r has the values of the recursion after 0, 1, ..., n steps.
FoldRun(n, V, base, G, h, r) ==
  /\ h \in [SUBSET (1 .. n) -> V] /\ r \in [0 .. n -> V]
  /\ Fold(base, G, 1 .. n, h) /\ r[0] = base
  /\ \A i \in 1 .. n : r[i] = G[<< i, r[i - 1] >>]
  /\ \A i \in 0 .. n : r[i] = h[1 .. i]

\* The last index of a sequence, as FoldLeft takes it.
LEMMA LastIndex ==
  ASSUME NEW i \in Nat \ {0}
  PROVE  Max(1 .. i) = i
<1>1. IsFiniteSet(1 .. i)
  BY FS_Interval
<1>2. 1 .. i \subseteq Int /\ i \in 1 .. i
  OBVIOUS
<1>3. Max(1 .. i) \in 1 .. i /\ Max(1 .. i) >= i
  <2>1. 1 .. i # {}
    BY <1>2
  <2> QED BY ONLY Zenon, <1>1, <1>2, <2>1, MaxIsLargest
<1> QED BY <1>3

\* The first indices, and the last of them.
LEMMA FirstIndices ==
  ASSUME NEW n \in Nat, NEW i \in Nat, i + 1 <= n
  PROVE  /\ Max(1 .. i + 1) = i + 1 /\ (1 .. i + 1) \ {i + 1} = 1 .. i
         /\ 1 .. i + 1 \in SUBSET (1 .. n) /\ 1 .. i + 1 # {} /\ i + 1 \in 1 .. n
<1>1. Max(1 .. i + 1) = i + 1
  BY LastIndex
<1>2. (1 .. i + 1) \ {i + 1} = 1 .. i
  OBVIOUS
<1>3. 1 .. i + 1 \in SUBSET (1 .. n) /\ i + 1 \in 1 .. n /\ i + 1 \in 1 .. i + 1
  OBVIOUS
<1> QED BY <1>1, <1>2, <1>3

\* The largest of some indices is one of them.
LEMMA IndexIn ==
  ASSUME NEW n \in Nat, NEW s \in SUBSET (1 .. n), s # {}
  PROVE  Max(s) \in s /\ Max(s) \in 1 .. n
<1>1. IsFiniteSet(s)
  <2>1. IsFiniteSet(1 .. n)
    BY FS_Interval
  <2> QED BY Zenon, <2>1, FS_Subset
<1>2. s \subseteq Int
  OBVIOUS
<1> QED BY Zenon, <1>1, <1>2, MaxIsLargest

\* The recursion can be carried out step by step.
LEMMA FoldSteps ==
  ASSUME NEW n \in Nat, NEW V, NEW base \in V, NEW G \in [(1 .. n) \X V -> V]
  PROVE  \E h, r : FoldRun(n, V, base, G, h, r)
<1>1. PICK h \in [SUBSET (1 .. n) -> V] : Fold(base, G, 1 .. n, h)
  <2>1. IsFiniteSet(1 .. n) /\ 1 .. n \subseteq Int
    BY FS_Interval
  <2> QED BY Zenon, <2>1, FoldExists
<1> DEFINE r == [i \in 0 .. n |-> h[1 .. i]]
<1>2. \A i \in 0 .. n : 1 .. i \in SUBSET (1 .. n)
  OBVIOUS
<1>3. r \in [0 .. n -> V] /\ \A i \in 0 .. n : r[i] = h[1 .. i]
  BY <1>2
<1>4. h[{}] = base
  BY <1>1 DEF Fold
<1>5. r[0] = base
  <2>1. 1 .. 0 = {} /\ 0 \in 0 .. n
    OBVIOUS
  <2>2. r[0] = h[1 .. 0]
    BY <2>1
  <2> QED BY <2>1, <2>2, <1>4
<1>6. ASSUME NEW i \in 1 .. n
      PROVE  r[i] = G[<< i, r[i - 1] >>]
  <2>1. Max(1 .. i) = i
    BY LastIndex
  <2>2. (1 .. i) \ {i} = 1 .. i - 1 /\ 1 .. i # {} /\ 1 .. i \in SUBSET (1 .. n)
        /\ i \in 0 .. n /\ i - 1 \in 0 .. n
    OBVIOUS
  <2>3. h[1 .. i] = G[<< Max(1 .. i), h[(1 .. i) \ {Max(1 .. i)}] >>]
    BY Zenon, <1>1, <2>2 DEF Fold
  <2> QED BY Zenon, <2>1, <2>2, <2>3
<1> HIDE DEF r
<1> QED BY Zenon, <1>1, <1>3, <1>5, <1>6 DEF FoldRun

\* A function that takes one step of the recursion after the other.
Stepwise(n, V, base, G, k) ==
  /\ k[{}] = base
  /\ \A i \in 1 .. n : k[1 .. i - 1] \in V => k[1 .. i] = G[<< i, k[1 .. i - 1] >>]

\* It has the values of the recursion.
LEMMA RunIs ==
  ASSUME NEW n \in Nat, NEW V, NEW base, NEW G, NEW h, NEW r, FoldRun(n, V, base, G, h, r),
         NEW k, Stepwise(n, V, base, G, k)
  PROVE  \A i \in 0 .. n : k[1 .. i] = r[i] /\ k[1 .. i] \in V
<1>1. /\ r \in [0 .. n -> V] /\ r[0] = base
      /\ \A i \in 1 .. n : r[i] = G[<< i, r[i - 1] >>]
  BY DEF FoldRun
<1>5. /\ k[{}] = base
      /\ \A i \in 1 .. n : k[1 .. i - 1] \in V => k[1 .. i] = G[<< i, k[1 .. i - 1] >>]
  BY DEF Stepwise
<1> DEFINE S == {i \in Nat : i <= n => k[1 .. i] = r[i]}
<1>2. 0 \in S
  <2>1. 1 .. 0 = {}
    OBVIOUS
  <2> QED BY <1>1, <1>5, <2>1
<1>3. ASSUME NEW i \in Nat, i \in S PROVE i + 1 \in S
  <2> SUFFICES ASSUME i + 1 <= n PROVE k[1 .. i + 1] = r[i + 1]
    OBVIOUS
  <2>1. i + 1 \in 1 .. n /\ (i + 1) - 1 = i /\ i \in 0 .. n
    OBVIOUS
  <2>2. k[1 .. i] = r[i] /\ r[i] \in V
    BY <1>1, <1>3, <2>1
  <2>3. k[1 .. i + 1] = G[<< i + 1, k[1 .. i] >>]
    BY <1>5, <2>1, <2>2
  <2>4. r[i + 1] = G[<< i + 1, r[i] >>]
    BY <1>1, <2>1
  <2> QED BY <2>2, <2>3, <2>4
<1>4. \A i \in Nat : i \in S
  <2> HIDE DEF S
  <2> QED BY <1>2, <1>3, ByCounting
<1> QED BY <1>1, <1>4

\* Of finitely many indices, the first with the largest value.
LEMMA FirstBest ==
  ASSUME NEW n \in Nat, NEW S, S \subseteq 1 .. n, S # {}, NEW v \in [S -> Int]
  PROVE  \E i \in S : \A j \in S : v[j] <= v[i] /\ (j < i => v[j] < v[i])
<1> DEFINE V == {v[i] : i \in S}
           T == {i \in S : v[i] = Max(V)}
<1>1. IsFiniteSet(S)
  <2>1. IsFiniteSet(1 .. n)
    BY FS_Interval
  <2>2. QED
    BY Zenon, <2>1, FS_Subset
<1>2. IsFiniteSet(V)
  <2>1. v \in Surjection(S, V)
    BY DEF Surjection
  <2> HIDE DEF V
  <2>2. QED BY <1>1, <2>1, FS_Surjection
<1>3. Max(V) \in V /\ \A y \in V : Max(V) >= y
  <2>1. V \subseteq Int /\ V # {}
    BY Zenon
  <2> HIDE DEF V
  <2> QED BY Zenon, <1>2, <2>1, MaxIsLargest
<1>4. T \subseteq S /\ T # {} /\ S \subseteq Int
  <2>1. PICK i \in S : Max(V) = v[i]
    BY Zenon, <1>3
  <2>2. T \subseteq S /\ i \in T
    BY <2>1
  <2>3. S \subseteq Int
    OBVIOUS
  <2>4. QED
    BY <2>2, <2>3
<1>5. Min(T) \in T /\ \A y \in T : Min(T) <= y
  <2>1. IsFiniteSet(T)
    BY Zenon, <1>1, <1>4, FS_Subset
  <2> HIDE DEF T
  <2> QED BY Zenon, <1>4, <2>1, MinIsSmallest
<1>6. \A j \in S : v[j] \in V /\ v[j] \in Int
  OBVIOUS
<1>7. ASSUME NEW i \in T, \A y \in T : i <= y, NEW j \in S
      PROVE  v[j] <= v[i] /\ (j < i => v[j] < v[i])
  <2>1. v[i] = Max(V) /\ v[j] <= v[i] /\ v[i] \in Int /\ v[j] \in Int
    BY <1>3, <1>6
  <2>2. ASSUME v[j] = v[i] PROVE ~(j < i)
    <3>1. j \in T
      BY Zenon, <2>1, <2>2
    <3>2. i <= j /\ i \in Int /\ j \in Int
      BY Zenon, <1>4, <1>7, <3>1
    <3> QED BY ONLY <3>2
  <2> QED BY <2>1, <2>2
<1> QED BY Zenon, <1>4, <1>5, <1>7

\* A product grows with its first factor.
LEMMA ProductGrows ==
  ASSUME NEW i \in Nat, NEW j \in Nat, i <= j, NEW b \in Nat
  PROVE  i * b <= j * b
<1>1. PICK d \in Nat : j = i + d
  <2>1. j - i \in Nat /\ j = i + (j - i)
    OBVIOUS
  <2> QED BY <2>1
<1>2. j * b = i * b + d * b /\ d * b \in Nat /\ i * b \in Nat
  BY <1>1
<1> QED BY <1>2

\* Division leaves less than the divisor.
LEMMA Division ==
  ASSUME NEW n \in Nat, NEW b \in Nat \ {0}
  PROVE  /\ n \div b \in Nat /\ (n \div b) * b \in Nat
         /\ (n \div b) * b <= n /\ n - (n \div b) * b < b
<1> DEFINE q == n \div b
<1>1. q \in Nat /\ (n % b) \in 0 .. b - 1 /\ n = b * q + (n % b)
  OBVIOUS
<1> HIDE DEF q
<1>2. b * q = q * b /\ q * b \in Nat
  BY <1>1
<1> QED BY <1>1, <1>2 DEF q

\* A number rounded up to a multiple of another.
LEMMA RoundUp ==
  ASSUME NEW t \in Nat, NEW u \in Nat \ {0}
  PROVE  ((t + u - 1) \div u) * u >= t /\ (((t + u - 1) \div u) * u) % u = 0
<1> DEFINE q == (t + u - 1) \div u
<1>1. q \in Nat /\ u * q + ((t + u - 1) % u) = t + u - 1
      /\ (t + u - 1) % u \in 0 .. u - 1
  OBVIOUS
<1> HIDE DEF q
<1>2. q * u >= t
  BY <1>1
<1>3. (q * u) % u = 0
  <2> DEFINE a == q * u
             d == a \div u
             r == a % u
             e == q - d
  <2>0. a \in Nat
    BY <1>1
  <2>1. d \in Int /\ r \in 0 .. u - 1 /\ u * d + r = a
    <3> HIDE DEF a
    <3> QED BY <2>0
  <2>2. e \in Int /\ u * e = r
    <3> HIDE DEF d, r
    <3>1. u * q - u * d = r
      BY <1>1, <2>1
    <3>2. u * (q - d) = u * q - u * d
      BY <1>1, <2>1
    <3> QED BY <1>1, <2>1, <3>1, <3>2
  <2> HIDE DEF e, r
  <2>3. CASE e <= 0
    <3>1. u * e <= 0
      BY <2>2, <2>3
    <3>2. r = 0
      BY <2>1, <2>2, <3>1
    <3> QED BY <3>2 DEF r
  <2>4. CASE e >= 1
    <3>1. u * e >= u
      BY <2>2, <2>4
    <3> QED BY <2>1, <2>2, <3>1
  <2> QED BY <2>2, <2>3, <2>4
<1> QED BY <1>2, <1>3 DEF q

-----------------------------------------------------------------------------
\* The rows a cut takes out of a sequence.
LEMMA CutRows ==
  ASSUME NEW S, NEW s \in Seq(S), NEW f \in Nat, NEW l \in Nat, f <= l, l <= Len(s)
  PROVE  /\ SubSeq(s, f + 1, l) \in Seq(S) /\ Len(SubSeq(s, f + 1, l)) = l - f
         /\ \A i \in 1 .. l - f : SubSeq(s, f + 1, l)[i] = s[f + i]
<1>1. /\ SubSeq(s, f + 1, l) \in Seq(S)
      /\ Len(SubSeq(s, f + 1, l)) = IF f + 1 <= l THEN l - (f + 1) + 1 ELSE 0
  BY SubSeqProperties
<1>2. Len(SubSeq(s, f + 1, l)) = l - f
  BY <1>1
<1>3. \A i \in 1 .. l - f : SubSeq(s, f + 1, l)[i] = s[f + i]
  BY <1>2
<1>4. QED
  BY <1>1, <1>2, <1>3

\* Two sequences of the same rows are the same.
LEMMA SameRows ==
  ASSUME NEW S, NEW s \in Seq(S), NEW t \in Seq(S), Len(s) = Len(t),
         \A i \in 1 .. Len(s) : s[i] = t[i]
  PROVE  s = t
  OBVIOUS

\* Rows put between two sequences are found where the first one ends.
LEMMA MiddleRows ==
  ASSUME NEW S, NEW a \in Seq(S), NEW new \in Seq(S), NEW z \in Seq(S)
  PROVE  /\ a \o new \o z \in Seq(S)
         /\ Len(a \o new \o z) = Len(a) + Len(new) + Len(z)
         /\ SubSeq(a \o new \o z, Len(a) + 1, Len(a) + Len(new)) = new
<1> DEFINE u == a \o new
           t == u \o z
           f == Len(a)
<1>1. a \in Seq(S) /\ Len(a) = f /\ f \in Nat /\ Len(new) \in Nat /\ Len(z) \in Nat
  BY LenProperties
<1> HIDE DEF f
<1>2. z \in Seq(S)
  OBVIOUS
<1>3. a \o new \in Seq(S) /\ Len(a \o new) = f + Len(new)
      /\ \A i \in 1 .. f + Len(new) : (a \o new)[i] = (IF i <= f THEN a[i] ELSE new[i - f])
  BY Zenon, <1>1, ConcatProperties
<1>4. t = u \o z
  OBVIOUS
<1> HIDE DEF u, t
<1>5. u \in Seq(S) /\ Len(u) = f + Len(new)
      /\ \A i \in 1 .. Len(new) : u[f + i] = new[i]
  <2>1. u \in Seq(S) /\ Len(u) = f + Len(new)
    BY <1>3 DEF u
  <2>2. ASSUME NEW i \in 1 .. Len(new) PROVE u[f + i] = new[i]
    <3>1. f + i \in 1 .. f + Len(new) /\ ~ (f + i <= f) /\ (f + i) - f = i /\ Len(new) \in Nat
      BY <1>1, LenProperties
    <3>2. QED
      BY <3>1, <1>3 DEF u
  <2>3. QED
    BY <2>1, <2>2
<1>6. t \in Seq(S) /\ Len(t) = Len(u) + Len(z) /\ \A i \in 1 .. Len(u) : t[i] = u[i]
  <2>1. /\ u \o z \in Seq(S) /\ Len(u \o z) = Len(u) + Len(z)
        /\ \A i \in 1 .. Len(u) + Len(z) :
             (u \o z)[i] = (IF i <= Len(u) THEN u[i] ELSE z[i - Len(u)])
    <3>1. u \in Seq(S)
      BY <1>5
    <3>2. z \in Seq(S)
      BY <1>2
    <3>3. QED
      BY ONLY <3>1, <3>2, ConcatProperties
  <2>2. Len(u) \in Nat /\ Len(z) \in Nat
    BY <1>2, <1>5, LenProperties
  <2>3. \A i \in 1 .. Len(u) : i \in 1 .. Len(u) + Len(z) /\ i <= Len(u)
    BY <2>2
  <2>4. QED
    BY <1>4, <2>1, <2>3
<1>7. Len(t) = f + Len(new) + Len(z)
  BY <1>5, <1>6
<1>9. SubSeq(t, f + 1, f + Len(new)) \in Seq(S)
      /\ Len(SubSeq(t, f + 1, f + Len(new))) = Len(new)
      /\ \A i \in 1 .. Len(new) : SubSeq(t, f + 1, f + Len(new))[i] = t[f + i]
  <2>1. f + Len(new) \in Nat /\ f <= f + Len(new) /\ f + Len(new) <= Len(t)
        /\ (f + Len(new)) - f = Len(new)
    BY ONLY <1>1, <1>7
  <2> DEFINE e == f + Len(new)
  <2>2. e \in Nat /\ f <= e /\ e <= Len(t) /\ e - f = Len(new)
    BY <2>1
  <2> HIDE DEF e
  <2>3. /\ SubSeq(t, f + 1, e) \in Seq(S) /\ Len(SubSeq(t, f + 1, e)) = e - f
        /\ \A i \in 1 .. e - f : SubSeq(t, f + 1, e)[i] = t[f + i]
    <3>1. t \in Seq(S)
      BY <1>6
    <3>2. QED
      BY ONLY <1>1, <2>2, <3>1, CutRows
  <2>4. QED
    BY <2>2, <2>3 DEF e
<1>10. \A i \in 1 .. Len(new) : t[f + i] = new[i]
  <2>1. \A i \in 1 .. Len(new) : f + i \in 1 .. Len(u)
    BY <1>1, <1>5
  <2>2. QED
    BY Zenon, <2>1, <1>5, <1>6
<1>11. SubSeq(t, f + 1, f + Len(new)) = new
  BY Zenon, <1>9, <1>10, SameRows
<1>12. QED
  BY <1>1, <1>6, <1>7, <1>11 DEF t, u
=============================================================================
