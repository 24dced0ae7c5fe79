-------------------------- MODULE ScenariosProofs --------------------------
(***************************************************************************)
(* The home modes, the exit status and the cleanup of the suite, for every *)
(* selection of scenarios and every number of runs, failures and kills.    *)
(*                                                                         *)
(* The plan is a sort, so the planner is proved first: what a plan of      *)
(* phases concatenates, and where its transitions stand.  The scripts come *)
(* next: which of them keep their attempts under cleanup.  The invariant   *)
(* of the steps then has one part per question: where the run is in its    *)
(* plan, what the pool is and what the record says of it, what has been    *)
(* recorded, which archive is in use, what has been injected, and what     *)
(* the scenario at hand may have left behind.                              *)
(***************************************************************************)
EXTENDS Scenarios, FiniteSetTheorems, SequenceTheorems, TLAPS

-----------------------------------------------------------------------------
(* The plan.                                                               *)


\* No two entries of the catalog have the same place in it.
LEMMA OrdersDiffer ==
    ASSUME NEW a \in Catalog, NEW b \in Catalog, a.order = b.order
    PROVE  a = b
  BY DEF Catalog, Entry

\* What the sort key is made of.
LEMMA CatalogTyped ==
    ASSUME NEW a \in Catalog
    PROVE  /\ a.phase \in {Before, SharedHome, After, Kubectl}
           /\ a.order \in 10..170
           /\ a.substrates \subseteq Substrates
  BY DEF Catalog, Entry, Substrates

AllItems == {[scenario |-> sc, substrate |-> s] : sc \in Catalog, s \in Substrates}

\* The work items of a selection are entries of the catalog on a substrate.
LEMMA WorkTyped ==
    ASSUME NEW substrate, NEW requested
    PROVE  WorkItems(substrate, requested) \subseteq AllItems
  BY CatalogTyped DEF WorkItems, AllItems, Selected

MaxKey == 400000

\* The sort key tells any two work items apart.
LEMMA KeysDiffer ==
    /\ MaxKey \in Nat
    /\ \A x \in AllItems : SortKey(x) \in 0..MaxKey
    /\ \A x, y \in AllItems : SortKey(x) = SortKey(y) => x = y
<1>1. \A x \in AllItems : SubstrateRank(x.substrate) \in 0..2
  BY DEF AllItems, Substrates, SubstrateRank
<1>2. \A x \in AllItems :
         /\ x.scenario \in Catalog /\ x.substrate \in Substrates
         /\ x = [scenario |-> x.scenario, substrate |-> x.substrate]
  BY DEF AllItems
<1>3. \A x \in AllItems :
         x.scenario.phase \in {10, 20, 25, 30} /\ x.scenario.order \in 10..170
  BY <1>2, CatalogTyped DEF Before, SharedHome, After, Kubectl
<1> DEFINE Key(p, o, r) == 10000 * p + 10 * o + r
<1>4. ASSUME NEW p \in {10, 20, 25, 30}, NEW o \in 10..170, NEW r \in 0..2
      PROVE  Key(p, o, r) \in Nat /\ Key(p, o, r) <= MaxKey
  BY SMT DEF MaxKey
<1>6. \A x \in AllItems :
         SortKey(x) = Key(x.scenario.phase, x.scenario.order, SubstrateRank(x.substrate))
  BY SMT DEF SortKey
<1> HIDE DEF Key
<1>7. \A x \in AllItems : SortKey(x) \in Nat /\ SortKey(x) <= MaxKey
  BY <1>1, <1>3, <1>4, <1>6
<1>8. ASSUME NEW x \in AllItems, NEW y \in AllItems, SortKey(x) = SortKey(y)
      PROVE  x = y
  <2>1. /\ x.scenario.order = y.scenario.order
        /\ SubstrateRank(x.substrate) = SubstrateRank(y.substrate)
    <3> DEFINE p == x.scenario.phase   q == y.scenario.phase
               o == x.scenario.order   u == y.scenario.order
               r == SubstrateRank(x.substrate)
               s == SubstrateRank(y.substrate)
    <3>1. Key(p, o, r) = Key(q, u, s)
      BY <1>6, <1>8
    <3>2. /\ p \in {10, 20, 25, 30} /\ o \in 10..170 /\ r \in 0..2
          /\ q \in {10, 20, 25, 30} /\ u \in 10..170 /\ s \in 0..2
      BY <1>1, <1>3
    <3> HIDE DEF p, o, r, q, u, s
    <3>3. o = u /\ r = s
      BY <3>1, <3>2, SMT DEF Key
    <3> QED BY <3>3 DEF o, u, r, s
  <2>2. x.scenario = y.scenario
    BY <1>2, <2>1, OrdersDiffer
  <2>3. x.substrate = y.substrate
    BY <1>2, <2>1 DEF SubstrateRank, Substrates
  <2> QED BY <1>2, <2>2, <2>3
<1>9. MaxKey \in Nat
  BY SMT DEF MaxKey
<1> QED BY <1>7, <1>8, <1>9

\* Sorting a set of work items counts each of them once.
LEMMA InOrderCounts ==
    ASSUME NEW T, T \subseteq AllItems
    PROVE  /\ IsFiniteSet(T) /\ Cardinality(T) \in Nat
           /\ InOrder(T) \in Bijection(1..Cardinality(T), T)
<1> DEFINE n == Cardinality(T)
           Lower(x) == {y \in T : SortKey(y) < SortKey(x)}
           key == [x \in T |-> SortKey(x)]
           rank == [x \in T |-> Cardinality(Lower(x))]
<1>1. /\ \A x \in T : SortKey(x) \in 0..MaxKey
      /\ \A x, y \in T : SortKey(x) = SortKey(y) => x = y
  BY KeysDiffer
<1>2. key \in Injection(T, 0..MaxKey)
  BY <1>1 DEF Injection, IsInjective
<1>3. IsFiniteSet(T) /\ n \in Nat
  <2>1. IsFiniteSet(0..MaxKey)
    BY KeysDiffer, FS_Interval
  <2>2. IsFiniteSet(T)
    BY <1>2, <2>1, FS_Injection
  <2> QED BY <2>2, FS_CardinalityType
<1>4. ASSUME NEW x \in T
      PROVE  Cardinality(Lower(x)) \in 0..(n - 1)
  <2>1. IsFiniteSet(Lower(x)) /\ Cardinality(Lower(x)) <= n
    BY <1>3, FS_Subset
  <2>2. Lower(x) # T
    BY <1>1
  <2>3. Cardinality(Lower(x)) # n
    BY <1>3, <2>2, FS_Subset
  <2> QED BY <1>3, <2>1, <2>3, FS_CardinalityType
<1>5. ASSUME NEW x \in T, NEW y \in T, SortKey(x) < SortKey(y)
      PROVE  Cardinality(Lower(x)) # Cardinality(Lower(y))
  <2>1. Lower(x) \in SUBSET Lower(y) /\ x \in Lower(y) /\ x \notin Lower(x)
    BY <1>1, <1>5
  <2>2. IsFiniteSet(Lower(y))
    BY <1>3, FS_Subset
  <2> QED BY <2>1, <2>2, FS_Subset
<1>6. \A x, y \in T : Cardinality(Lower(x)) = Cardinality(Lower(y)) => x = y
  <2> SUFFICES ASSUME NEW x \in T, NEW y \in T, x # y
               PROVE  Cardinality(Lower(x)) # Cardinality(Lower(y))
    OBVIOUS
  <2>1. SortKey(x) < SortKey(y) \/ SortKey(y) < SortKey(x)
    BY <1>1
  <2> QED BY <1>5, <2>1
<1>7. rank \in Injection(T, 0..(n - 1))
  BY <1>4, <1>6 DEF Injection, IsInjective
<1>8. rank \in Surjection(T, 0..(n - 1))
  <2>1. IsFiniteSet(0..(n - 1)) /\ Cardinality(0..(n - 1)) = n
    BY <1>3, FS_Interval
  <2> QED BY <1>7, <2>1, FS_Injection
<1>9. \A i \in 1..n : \E x \in T : Cardinality(Lower(x)) = i - 1
  <2> SUFFICES ASSUME NEW i \in 1..n
               PROVE  \E x \in T : Cardinality(Lower(x)) = i - 1
    OBVIOUS
  <2>1. i - 1 \in 0..(n - 1)
    BY <1>3
  <2>2. PICK x \in T : rank[x] = i - 1
    BY <1>8, <2>1 DEF Surjection
  <2> QED BY <2>2
<1>10. InOrder(T) = [i \in 1..n |-> CHOOSE x \in T : Cardinality(Lower(x)) = i - 1]
  BY DEF InOrder
<1>11. \A i \in 1..n :
          InOrder(T)[i] \in T /\ Cardinality(Lower(InOrder(T)[i])) = i - 1
  BY <1>9, <1>10
<1>12. InOrder(T) \in [1..n -> T]
  BY <1>10, <1>11
<1>13. InOrder(T) \in Injection(1..n, T)
  <2>1. ASSUME NEW i \in 1..n, NEW j \in 1..n, InOrder(T)[i] = InOrder(T)[j]
        PROVE  i = j
    <3>1. i - 1 = j - 1
      BY <1>11, <2>1
    <3> QED BY <1>3, <3>1
  <2> QED BY <1>12, <2>1 DEF Injection, IsInjective
<1>14. InOrder(T) \in Surjection(1..n, T)
  <2>1. ASSUME NEW x \in T
        PROVE  \E i \in 1..n : InOrder(T)[i] = x
    <3> DEFINE i == Cardinality(Lower(x)) + 1
    <3>1. i \in 1..n /\ i - 1 = Cardinality(Lower(x))
      BY <1>3, <1>4
    <3> HIDE DEF i, Lower
    <3> QED BY <1>6, <1>11, <3>1
  <2> QED BY <1>12, <2>1 DEF Surjection
<1> QED BY <1>3, <1>13, <1>14 DEF Bijection

\* An item is no transition, and names its parts.
LEMMA ItemsDiffer ==
    /\ \A x \in AllItems : ~IsTransition(x)
    /\ \A mode : IsTransition(Transition(mode)) /\ Transition(mode).transition = mode
<1>1. \A x \in AllItems : DOMAIN x = {"scenario", "substrate"}
  BY DEF AllItems
<1>2. \A mode : DOMAIN Transition(mode) = {"transition"}
  BY DEF Transition
<1> QED BY <1>1, <1>2 DEF IsTransition, Transition

\* The items of a phase, in order.
LEMMA SortedIsSeq ==
    ASSUME NEW T, T \subseteq AllItems
    PROVE  /\ InOrder(T) \in Seq(T)
           /\ Len(InOrder(T)) = Cardinality(T)
           /\ Cardinality(T) \in Nat
           /\ \A x \in T : \E i \in 1..Cardinality(T) : InOrder(T)[i] = x
           /\ \A i, j \in 1..Cardinality(T) : InOrder(T)[i] = InOrder(T)[j] => i = j
           /\ \A i \in 1..Cardinality(T) : InOrder(T)[i] \in T
<1>1. /\ InOrder(T) \in Bijection(1..Cardinality(T), T) /\ Cardinality(T) \in Nat
  BY InOrderCounts
<1>2. InOrder(T) \in [1..Cardinality(T) -> T]
  BY <1>1 DEF Bijection, Injection
<1> DEFINE f == InOrder(T)  n == Cardinality(T)
<1> HIDE DEF f, n
<1>3. \A x \in T : \E i \in 1..n : f[i] = x
  BY <1>1 DEF Bijection, Surjection, f, n
<1>4. \A i, j \in 1..n : f[i] = f[j] => i = j
  <2>1. f \in [1..n -> T] /\ IsInjective(f)
    BY <1>1 DEF Bijection, Injection, f, n
  <2> QED BY <2>1 DEF IsInjective
<1>5. f \in Seq(T) /\ Len(f) = n /\ n \in Nat
  BY <1>1, <1>2 DEF f, n
<1>6. \A i \in 1..n : f[i] \in T
  BY <1>2 DEF f, n
<1> QED BY <1>3, <1>4, <1>5, <1>6 DEF f, n

Part(substrate, requested, p) ==
    {x \in WorkItems(substrate, requested) : SchedulePhase(x) = p}

\* How the parts of a plan lie in it: the items before, the shared block
\* between its transitions, the Kubernetes items, the items after.
Composed(P, B, S, K, A) ==
    LET b == Len(B)  s == Len(S)  k == Len(K)  a == Len(A)
        m == IF s = 0 THEN 0 ELSE s + 2
    IN  /\ b \in Nat /\ s \in Nat /\ k \in Nat /\ a \in Nat
        /\ Len(P) = b + m + k + a
        /\ DOMAIN P = 1..Len(P)
        /\ \A i \in 1..b : P[i] = B[i]
        /\ s > 0 => /\ P[b + 1] = Transition("shared")
                    /\ P[b + s + 2] = Transition("separate")
                    /\ \A i \in 1..s : P[b + 1 + i] = S[i]
        /\ \A i \in 1..k : P[b + m + i] = K[i]
        /\ \A i \in 1..a : P[b + m + k + i] = A[i]

\* The parts of a plan.
LEMMA PlanParts ==
    ASSUME NEW substrate, NEW requested
    PROVE  Composed(PlanScenarios(substrate, requested),
                    InOrder(Part(substrate, requested, Before)),
                    InOrder(Part(substrate, requested, SharedHome)),
                    InOrder(Part(substrate, requested, Kubectl)),
                    InOrder(Part(substrate, requested, After)))
<1> DEFINE W == WorkItems(substrate, requested)
           P == PlanScenarios(substrate, requested)
           B == InOrder(Part(substrate, requested, Before))
           S == InOrder(Part(substrate, requested, SharedHome))
           K == InOrder(Part(substrate, requested, Kubectl))
           A == InOrder(Part(substrate, requested, After))
           b == Len(B)  s == Len(S)  k == Len(K)  a == Len(A)
           X == UNION {AllItems, {Transition("shared"), Transition("separate")}}
           M == IF S = <<>> THEN <<>>
                ELSE <<Transition("shared")>> \o S \o <<Transition("separate")>>
           m == IF s = 0 THEN 0 ELSE s + 2
<1>1. P = ((B \o M) \o K) \o A
  BY DEF PlanScenarios, Part
<1>2. \A p : Part(substrate, requested, p) \subseteq AllItems
  BY WorkTyped DEF Part
<1>3. B \in Seq(X) /\ S \in Seq(X) /\ K \in Seq(X) /\ A \in Seq(X)
  <2>1. \A p : InOrder(Part(substrate, requested, p)) \in Seq(Part(substrate, requested, p))
    BY <1>2, SortedIsSeq
  <2>2. \A p : Part(substrate, requested, p) \subseteq X
    BY <1>2
  <2> QED BY <2>1, <2>2
<1>4. Transition("shared") \in X /\ Transition("separate") \in X
  OBVIOUS
<1> HIDE DEF P, B, S, K, A, X
<1>5. b \in Nat /\ s \in Nat /\ k \in Nat /\ a \in Nat
  BY <1>3
<1>6. /\ M \in Seq(X) /\ Len(M) = m
      /\ s > 0 => /\ M[1] = Transition("shared") /\ M[s + 2] = Transition("separate")
                  /\ \A i \in 1..s : M[1 + i] = S[i]
  <2>1. CASE S = <<>>
    BY <2>1
  <2>2. CASE S # <<>>
    <3>1. s > 0
      BY <1>3, <2>2, EmptySeq
    <3>2. /\ <<Transition("shared")>> \in Seq(X) /\ Len(<<Transition("shared")>>) = 1
          /\ <<Transition("separate")>> \in Seq(X) /\ Len(<<Transition("separate")>>) = 1
      BY <1>4
    <3> DEFINE L == <<Transition("shared")>> \o S
    <3>3. /\ L \in Seq(X) /\ Len(L) = s + 1 /\ L[1] = Transition("shared")
          /\ \A i \in 1..s : L[1 + i] = S[i]
      BY <1>3, <1>5, <3>2, ConcatProperties
    <3>4. M = L \o <<Transition("separate")>>
      BY <2>2
    <3> HIDE DEF L, M
    <3>5. /\ M \in Seq(X) /\ Len(M) = s + 2 /\ M[s + 2] = Transition("separate")
          /\ \A i \in 1..(s + 1) : M[i] = L[i]
      BY <1>5, <3>2, <3>3, <3>4, ConcatProperties
    <3> QED BY <1>5, <3>1, <3>3, <3>5
  <2> QED BY <2>1, <2>2
<1> HIDE DEF M
<1>7. /\ B \o M \in Seq(X) /\ Len(B \o M) = b + m
      /\ \A i \in 1..b : (B \o M)[i] = B[i]
      /\ \A i \in 1..m : (B \o M)[b + i] = M[i]
  <2>1. /\ B \o M \in Seq(X) /\ Len(B \o M) = Len(B) + Len(M)
        /\ \A i \in 1..Len(B) : (B \o M)[i] = B[i]
        /\ \A i \in 1..Len(M) : (B \o M)[Len(B) + i] = M[i]
    <3>1. B \in Seq(X) /\ M \in Seq(X)
      BY <1>3, <1>6
    <3> QED BY <3>1
  <2> QED BY <1>6, <2>1
<1> DEFINE BM == B \o M
<1> HIDE DEF BM
<1>8. /\ BM \o K \in Seq(X) /\ Len(BM \o K) = Len(BM) + k /\ Len(BM) = b + m
      /\ \A i \in 1..Len(BM) : (BM \o K)[i] = BM[i]
      /\ \A i \in 1..k : (BM \o K)[Len(BM) + i] = K[i]
  <2>1. BM \in Seq(X) /\ Len(BM) = b + m
    BY <1>7 DEF BM
  <2>2. K \in Seq(X)
    BY <1>3
  <2>3. /\ BM \o K \in Seq(X) /\ Len(BM \o K) = Len(BM) + Len(K)
        /\ \A i \in 1..Len(BM) : (BM \o K)[i] = BM[i]
        /\ \A i \in 1..Len(K) : (BM \o K)[Len(BM) + i] = K[i]
    BY <2>1, <2>2
  <2> QED BY <2>1, <2>3
<1> DEFINE BMK == BM \o K
<1> HIDE DEF BMK
<1>9. /\ P \in Seq(X) /\ Len(P) = Len(BMK) + a /\ Len(BMK) = Len(BM) + k
      /\ \A i \in 1..Len(BMK) : P[i] = BMK[i]
      /\ \A i \in 1..a : P[Len(BMK) + i] = A[i]
  <2>1. P = BMK \o A /\ BMK \in Seq(X) /\ Len(BMK) = Len(BM) + k
    BY <1>1, <1>8 DEF BM, BMK
  <2>2. A \in Seq(X)
    BY <1>3
  <2>3. /\ BMK \o A \in Seq(X) /\ Len(BMK \o A) = Len(BMK) + Len(A)
        /\ \A i \in 1..Len(BMK) : (BMK \o A)[i] = BMK[i]
        /\ \A i \in 1..Len(A) : (BMK \o A)[Len(BMK) + i] = A[i]
    BY <2>1, <2>2
  <2> QED BY <2>1, <2>3
<1> DEFINE bm == b + m  bmk == bm + k
<1>15. m \in Nat /\ Len(BM) = bm /\ Len(BMK) = bmk /\ bm \in Nat /\ bmk \in Nat
  BY <1>5, <1>8, <1>9
<1> HIDE DEF m
<1>10. \A i \in 1..b : P[i] = B[i]
  <2> SUFFICES ASSUME NEW i \in 1..b
               PROVE  P[i] = B[i]
    OBVIOUS
  <2>1. i \in 1..bm /\ i \in 1..bmk
    BY <1>5, <1>15
  <2>2. BM[i] = B[i]
    BY <1>7 DEF BM
  <2>3. BMK[i] = BM[i]
    BY <1>8, <1>15, <2>1 DEF BMK
  <2> QED BY <1>9, <1>15, <2>1, <2>2, <2>3
<1>11. \A i \in 1..m : P[b + i] = M[i]
  <2> SUFFICES ASSUME NEW i \in 1..m
               PROVE  P[b + i] = M[i]
    OBVIOUS
  <2>1. b + i \in 1..bm /\ b + i \in 1..bmk
    BY <1>5, <1>15
  <2>2. BM[b + i] = M[i]
    BY <1>7 DEF BM
  <2>3. BMK[b + i] = BM[b + i]
    BY <1>8, <1>15, <2>1 DEF BMK
  <2> QED BY <1>9, <1>15, <2>1, <2>2, <2>3
<1>12. \A i \in 1..k : P[bm + i] = K[i]
  <2> SUFFICES ASSUME NEW i \in 1..k
               PROVE  P[bm + i] = K[i]
    OBVIOUS
  <2>1. bm + i \in 1..bmk
    BY <1>5, <1>15
  <2>2. BMK[bm + i] = K[i]
    BY <1>8, <1>15 DEF BMK
  <2> QED BY <1>9, <1>15, <2>1, <2>2
<1>13. s > 0 => /\ P[b + 1] = Transition("shared")
                /\ P[b + s + 2] = Transition("separate")
                /\ \A i \in 1..s : P[b + 1 + i] = S[i]
  BY <1>5, <1>6, <1>11 DEF m
<1>14. DOMAIN P = 1..Len(P)
  BY <1>9
<1>16. \A i \in 1..a : P[bmk + i] = A[i]
  BY <1>9, <1>15
<1>17. Len(P) = bmk + a
  BY <1>9, <1>15
<1> HIDE DEF bm, bmk
<1>18. Composed(P, B, S, K, A)
  BY <1>5, <1>10, <1>12, <1>13, <1>14, <1>16, <1>17 DEF Composed, m, bm, bmk
<1> QED BY <1>18 DEF P, B, S, K, A

\* The last transition of the plan decides.
LEMMA HomeIs ==
    ASSUME NEW i \in Nat, NEW j \in 1..i, IsTransition(plan[j]),
           \A k \in j + 1..i : ~IsTransition(plan[k])
    PROVE  HomeAt(i) = plan[j].transition
<1> DEFINE Last(x) == IsTransition(plan[x]) /\ \A k \in x + 1..i : ~IsTransition(plan[k])
<1>1. ASSUME NEW x \in 1..i, Last(x)
      PROVE  x = j
  <2>1. ~(x < j)
    BY <1>1
  <2>2. ~(j < x)
    BY <1>1
  <2> QED BY <2>1, <2>2
<1>2. (CHOOSE x \in 1..i : Last(x)) = j
  BY <1>1
<1> QED BY <1>2 DEF HomeAt

\* Without a transition the pool stays separate.
LEMMA HomeIsSeparate ==
    ASSUME NEW i, \A j \in 1..i : ~IsTransition(plan[j])
    PROVE  HomeAt(i) = "separate"
  BY DEF HomeAt

\* One step of the plan at a time.
LEMMA HomeMoves ==
    ASSUME NEW i \in Nat
    PROVE  HomeAt(i + 1) = IF IsTransition(plan[i + 1])
                           THEN plan[i + 1].transition ELSE HomeAt(i)
<1>1. CASE IsTransition(plan[i + 1])
  BY <1>1, HomeIs
<1>2. CASE ~IsTransition(plan[i + 1]) /\ \E j \in 1..i : IsTransition(plan[j])
  <2> DEFINE T == {j \in 1..i : IsTransition(plan[j])}
  <2>1. \E j \in T : \A k \in T : k <= j
    <3> DEFINE R == {i - k : k \in T}
    <3>1. R \subseteq Nat /\ R # {}
      BY <1>2
    <3>2. PICK m \in R : \A y \in R : ~ (<<y, m>> \in OpToRel(<, Nat))
      <4> HIDE DEF R
      <4> QED BY <3>1, WFMin, NatLessThanWellFounded
    <3>3. \A y \in R : m <= y
      <4> HIDE DEF R
      <4>1. \A y \in R : ~ (y < m)
        BY <3>1, <3>2 DEF OpToRel
      <4> QED BY <3>1, <4>1
    <3>4. PICK j \in T : m = i - j
      BY <3>2
    <3>5. \A k \in T : i - j <= i - k
      BY <3>3, <3>4
    <3> QED BY <3>5
  <2>2. PICK j \in 1..i : IsTransition(plan[j]) /\ \A k \in j + 1..i : ~IsTransition(plan[k])
    BY <2>1
  <2>3. HomeAt(i) = plan[j].transition
    BY <2>2, HomeIs
  <2>4. \A k \in j + 1..i + 1 : ~IsTransition(plan[k])
    BY <1>2, <2>2
  <2>5. HomeAt(i + 1) = plan[j].transition
    BY <2>2, <2>4, HomeIs
  <2> QED BY <1>2, <2>3, <2>5
<1>3. CASE \A j \in 1..(i + 1) : ~IsTransition(plan[j])
  BY <1>3, HomeIsSeparate
<1> QED BY <1>1, <1>2, <1>3

\* Facts about the plan that a run follows.
PlanFacts ==
    /\ Len(plan) \in Nat /\ DOMAIN plan = 1..Len(plan)
    /\ \A i \in DOMAIN plan \ Work : plan[i].transition \in Modes
    /\ \A i \in Work : plan[i].substrate = "ssh" => HomeAt(i) = plan[i].scenario.home
    /\ \A i \in Work : plan[i].substrate = "kubectl" => HomeAt(i) = "separate"
    /\ HomeAt(Len(plan)) = "separate"

\* The plan is that of a selection.
Follows ==
    \E s \in Selections :
       /\ {plan[i] : i \in Work} = WorkItems(s[1], s[2])
       /\ Cardinality(Work) = Cardinality(WorkItems(s[1], s[2]))

\* An item is in the part of its phase, and its phase fixes its home.
LEMMA ItemsOfPhase ==
    ASSUME NEW substrate, NEW requested, Selectable(substrate, requested),
           NEW x \in WorkItems(substrate, requested)
    PROVE  /\ SchedulePhase(x) \in {Before, SharedHome, Kubectl, After}
           /\ x.substrate = "kubectl" => SchedulePhase(x) = Kubectl
           /\ x.substrate = "ssh" =>
                 \/ SchedulePhase(x) = Before /\ x.scenario.home = "separate"
                 \/ SchedulePhase(x) = SharedHome /\ x.scenario.home = "shared"
           /\ SchedulePhase(x) = SharedHome => x.substrate = "ssh"
<1>1. PICK sc \in Catalog, s \in Substrates :
         s \in sc.substrates /\ x = [scenario |-> sc, substrate |-> s]
  BY CatalogTyped DEF WorkItems, Selected
<1>2. ValidEntry(sc)
  BY DEF Selectable
<1>3. sc.phase \in {Before, SharedHome, Kubectl, After}
  BY CatalogTyped
<1>4. x.substrate = s /\ x.scenario = sc
  BY <1>1
<1>5. Before # SharedHome /\ Before # Kubectl /\ SharedHome # Kubectl
  BY DEF Before, SharedHome, Kubectl
<1>6. /\ s = "ssh" => sc.home # "none"
      /\ sc.home = "shared" => sc.substrates = {"ssh"} /\ sc.phase = SharedHome
      /\ sc.home = "separate" => sc.phase = Before
      /\ sc.home \notin {"shared", "separate"} => sc.phase # SharedHome
  BY <1>1, <1>2 DEF ValidEntry
<1>7. sc.home \in {"none", "separate", "shared"}
  BY DEF Catalog, Entry
<1>8. SchedulePhase(x) = IF s = "kubectl" THEN Kubectl ELSE sc.phase
  BY <1>4 DEF SchedulePhase
<1> QED BY <1>1, <1>3, <1>4, <1>5, <1>6, <1>7, <1>8

\* What plan_scenarios returns is a sound plan.
LEMMA PlanHolds ==
    ASSUME NEW sel \in Selections, plan = PlanScenarios(sel[1], sel[2])
    PROVE  PlanFacts /\ Follows
<1> DEFINE W == WorkItems(sel[1], sel[2])
           PB == Part(sel[1], sel[2], Before)
           PS == Part(sel[1], sel[2], SharedHome)
           PK == Part(sel[1], sel[2], Kubectl)
           PA == Part(sel[1], sel[2], After)
           B == InOrder(PB)  S == InOrder(PS)  K == InOrder(PK)  A == InOrder(PA)
           b == Len(B)  s == Len(S)  k == Len(K)  a == Len(A)
           m == IF s = 0 THEN 0 ELSE s + 2
           e == b + m  f == e + k
<1>1. /\ b \in Nat /\ s \in Nat /\ k \in Nat /\ a \in Nat
      /\ Len(plan) = b + m + k + a
      /\ DOMAIN plan = 1..Len(plan)
      /\ \A i \in 1..b : plan[i] = B[i]
      /\ s > 0 => /\ plan[b + 1] = Transition("shared")
                  /\ plan[b + s + 2] = Transition("separate")
                  /\ \A i \in 1..s : plan[b + 1 + i] = S[i]
      /\ \A i \in 1..k : plan[b + m + i] = K[i]
      /\ \A i \in 1..a : plan[b + m + k + i] = A[i]
  <2>1. Composed(plan, B, S, K, A)
    BY PlanParts
  <2> HIDE DEF B, S, K, A
  <2> QED BY <2>1 DEF Composed
<1>2. W \subseteq AllItems
  BY WorkTyped
<1>3. /\ PB \subseteq W /\ PS \subseteq W /\ PK \subseteq W /\ PA \subseteq W
      /\ \A x \in PB : SchedulePhase(x) = Before
      /\ \A x \in PS : SchedulePhase(x) = SharedHome
      /\ \A x \in PK : SchedulePhase(x) = Kubectl
      /\ \A x \in PA : SchedulePhase(x) = After
      /\ \A x \in W : \/ x \in PB /\ SchedulePhase(x) = Before
                      \/ x \in PS /\ SchedulePhase(x) = SharedHome
                      \/ x \in PK /\ SchedulePhase(x) = Kubectl
                      \/ x \in PA /\ SchedulePhase(x) = After
  <2>1. \A x \in W : SchedulePhase(x) \in {Before, SharedHome, Kubectl, After}
    BY ScenariosAssumption, ItemsOfPhase
  <2> QED BY <2>1 DEF Part
<1>4. /\ \A i \in 1..b : B[i] \in PB
      /\ \A i, j \in 1..b : B[i] = B[j] => i = j
      /\ \A x \in PB : \E i \in 1..b : B[i] = x
  BY <1>2, <1>3, SortedIsSeq
<1>5. /\ \A i \in 1..s : S[i] \in PS
      /\ \A i, j \in 1..s : S[i] = S[j] => i = j
      /\ \A x \in PS : \E i \in 1..s : S[i] = x
  BY <1>2, <1>3, SortedIsSeq
<1>6. /\ \A i \in 1..k : K[i] \in PK
      /\ \A i, j \in 1..k : K[i] = K[j] => i = j
      /\ \A x \in PK : \E i \in 1..k : K[i] = x
  BY <1>2, <1>3, SortedIsSeq
<1>7. /\ \A i \in 1..a : A[i] \in PA
      /\ \A i, j \in 1..a : A[i] = A[j] => i = j
      /\ \A x \in PA : \E i \in 1..a : A[i] = x
  BY <1>2, <1>3, SortedIsSeq
<1>8. /\ Before # SharedHome /\ Before # Kubectl /\ Before # After
      /\ SharedHome # Kubectl /\ SharedHome # After /\ Kubectl # After
  BY DEF Before, SharedHome, Kubectl, After
<1>9. /\ \A x \in W : ~IsTransition(x)
      /\ \A mode : IsTransition(Transition(mode)) /\ Transition(mode).transition = mode
  BY <1>2, ItemsDiffer
<1> HIDE DEF B, S, K, A, PB, PS, PK, PA, b, s, k, a
<1>0. /\ m \in Nat /\ (s = 0 => m = 0) /\ (s # 0 => m = s + 2)
      /\ e = b + m /\ f = e + k /\ Len(plan) = f + a
      /\ b \in Nat /\ s \in Nat /\ k \in Nat /\ a \in Nat /\ e \in Nat /\ f \in Nat
      /\ \A i \in 1..k : plan[e + i] = K[i]
      /\ \A i \in 1..a : plan[f + i] = A[i]
  <2>1. b \in Nat /\ s \in Nat /\ k \in Nat /\ a \in Nat
    BY <1>1
  <2>2. m \in Nat /\ (s = 0 => m = 0) /\ (s # 0 => m = s + 2)
    BY <2>1
  <2>3. /\ Len(plan) = b + m + k + a
        /\ \A i \in 1..k : plan[b + m + i] = K[i]
        /\ \A i \in 1..a : plan[b + m + k + i] = A[i]
    BY <1>1
  <2>4. e = b + m /\ f = e + k
    OBVIOUS
  <2> HIDE DEF m, e, f
  <2>5. e \in Nat /\ f \in Nat
    BY <2>1, <2>2, <2>4
  <2>6. f = b + m + k
    BY <2>4
  <2> QED BY <2>1, <2>2, <2>3, <2>4, <2>5, <2>6
<1> HIDE DEF m, e, f
<1>22. b \in Nat /\ s \in Nat /\ k \in Nat /\ a \in Nat /\ e \in Nat /\ f \in Nat
  BY <1>0
<1> DEFINE InB == 1..b
           InS == {i \in (b + 2)..(b + s + 1) : s > 0}
           Moves == {i \in {b + 1, b + s + 2} : s > 0}
           InK == (e + 1)..(e + k)
           InA == (f + 1)..(f + a)
<1>10. 1..Len(plan) = InB \cup InS \cup Moves \cup InK \cup InA
  <2>1. CASE s = 0
    BY <1>0, <1>1, <2>1
  <2>2. CASE s # 0
    BY <1>0, <1>1, <2>2
  <2> QED BY <2>1, <2>2
<1>11. /\ \A i \in InB : plan[i] \in PB /\ plan[i] = B[i]
       /\ \A i \in InS : plan[i] \in PS /\ plan[i] = S[i - b - 1] /\ i - b - 1 \in 1..s
       /\ \A i \in InK : plan[i] \in PK /\ plan[i] = K[i - e] /\ i - e \in 1..k
       /\ \A i \in InA : plan[i] \in PA /\ plan[i] = A[i - f] /\ i - f \in 1..a
  <2>1. ASSUME NEW i \in InB PROVE plan[i] \in PB /\ plan[i] = B[i]
    BY <1>0, <1>1, <1>4
  <2>2. ASSUME NEW i \in InS
        PROVE  plan[i] \in PS /\ plan[i] = S[i - b - 1] /\ i - b - 1 \in 1..s
    <3>1. s > 0 /\ i - b - 1 \in 1..s /\ b + 1 + (i - b - 1) = i
      BY <1>22
    <3> QED BY <1>0, <1>1, <1>5, <3>1
  <2>3. ASSUME NEW i \in InK
        PROVE  plan[i] \in PK /\ plan[i] = K[i - e] /\ i - e \in 1..k
    <3>1. i - e \in 1..k /\ e + (i - e) = i
      BY <1>22
    <3>2. plan[e + (i - e)] = K[i - e]
      BY <1>0, <3>1
    <3> QED BY <1>6, <3>1, <3>2
  <2>4. ASSUME NEW i \in InA
        PROVE  plan[i] \in PA /\ plan[i] = A[i - f] /\ i - f \in 1..a
    <3>1. i - f \in 1..a /\ f + (i - f) = i
      BY <1>22
    <3>2. plan[f + (i - f)] = A[i - f]
      BY <1>0, <3>1
    <3> QED BY <1>7, <3>1, <3>2
  <2> QED BY <2>1, <2>2, <2>3, <2>4
<1>12. \A i \in Moves : /\ s > 0 /\ IsTransition(plan[i]) /\ plan[i].transition \in Modes
                        /\ i = b + 1 => plan[i].transition = "shared"
                        /\ i = b + s + 2 => plan[i].transition = "separate"
  <2>1. s > 0 => /\ plan[b + 1] = Transition("shared")
                 /\ plan[b + s + 2] = Transition("separate")
    BY <1>1
  <2>2. b + 1 # b + s + 2
    BY <1>22
  <2> QED BY <1>9, <2>1, <2>2 DEF Modes
<1>13. Work = InB \cup InS \cup InK \cup InA
  <2>1. \A i \in InB \cup InS \cup InK \cup InA : plan[i] \in W
    BY <1>3, <1>11
  <2> HIDE DEF InB, InS, InK, InA, Moves
  <2> QED BY <1>0, <1>1, <1>9, <1>10, <1>12, <2>1 DEF Work
<1>14. \A x \in W : \E i \in Work : plan[i] = x
  <2> SUFFICES ASSUME NEW x \in W
               PROVE  \E i \in Work : plan[i] = x
    OBVIOUS
  <2>1. CASE x \in PB
    <3>1. PICK i \in 1..b : B[i] = x
      BY <1>4, <2>1
    <3> QED BY <1>11, <1>13, <3>1
  <2>2. CASE x \in PS
    <3>1. PICK i \in 1..s : S[i] = x
      BY <1>5, <2>2
    <3>2. b + 1 + i \in InS /\ (b + 1 + i) - b - 1 = i
      BY <1>22
    <3> QED BY <1>0, <1>1, <1>13, <3>1, <3>2
  <2>3. CASE x \in PK
    <3>1. PICK i \in 1..k : K[i] = x
      BY <1>6, <2>3
    <3>2. e + i \in InK
      BY <1>22
    <3> QED BY <1>0, <1>1, <1>13, <3>1, <3>2
  <2>4. CASE x \in PA
    <3>1. PICK i \in 1..a : A[i] = x
      BY <1>7, <2>4
    <3>2. f + i \in InA
      BY <1>22
    <3> QED BY <1>0, <1>1, <1>13, <3>1, <3>2
  <2> QED BY <1>3, <2>1, <2>2, <2>3, <2>4
<1>15. \A i, j \in Work : plan[i] = plan[j] => i = j
  <2> SUFFICES ASSUME NEW i \in Work, NEW j \in Work, plan[i] = plan[j]
               PROVE  i = j
    OBVIOUS
  <2>1. CASE i \in InB /\ j \in InB
    BY <1>4, <1>11, <2>1
  <2>2. CASE i \in InS /\ j \in InS
    <3>1. i - b - 1 = j - b - 1
      BY <1>5, <1>11, <2>2
    <3> QED BY <1>22, <2>2, <3>1
  <2>3. CASE i \in InK /\ j \in InK
    <3>1. i - e = j - e
      BY <1>6, <1>11, <2>3
    <3> QED BY <1>22, <2>3, <3>1
  <2>4. CASE i \in InA /\ j \in InA
    <3>1. i - f = j - f
      BY <1>7, <1>11, <2>4
    <3> QED BY <1>22, <2>4, <3>1
  <2>5. /\ \A x \in InB : SchedulePhase(plan[x]) = Before
        /\ \A x \in InS : SchedulePhase(plan[x]) = SharedHome
        /\ \A x \in InK : SchedulePhase(plan[x]) = Kubectl
        /\ \A x \in InA : SchedulePhase(plan[x]) = After
    BY <1>3, <1>11
  <2> HIDE DEF InB, InS, InK, InA
  <2> QED BY <1>8, <1>13, <2>1, <2>2, <2>3, <2>4, <2>5
<1>16. \A i \in Work : plan[i] \in W
  <2> HIDE DEF InB, InS, InK, InA
  <2> QED BY <1>3, <1>11, <1>13
<1>17. Follows
  <2> DEFINE g == [i \in Work |-> plan[i]]
  <2>1. g \in Bijection(Work, W)
    <3>1. g \in Injection(Work, W)
      BY <1>15, <1>16 DEF Injection, IsInjective
    <3>2. g \in Surjection(Work, W)
      BY <1>14, <1>16 DEF Surjection
    <3> QED BY <3>1, <3>2 DEF Bijection
  <2>2. IsFiniteSet(Work)
    <3>1. Work \in SUBSET (1..Len(plan)) /\ Len(plan) \in Nat
      BY <1>0, <1>1 DEF Work
    <3>2. IsFiniteSet(1..Len(plan))
      BY <3>1, FS_Interval
    <3> QED BY <3>1, <3>2, FS_Subset
  <2>3. Cardinality(Work) = Cardinality(W)
    BY <2>1, <2>2, FS_Bijection DEF ExistsBijection
  <2>4. {plan[i] : i \in Work} = W
    BY <1>14, <1>16
  <2> QED BY <2>3, <2>4 DEF Follows
<1>18. /\ \A i \in InB : HomeAt(i) = "separate"
       /\ \A i \in InS : HomeAt(i) = "shared"
       /\ \A i \in (e + 1)..Len(plan) : HomeAt(i) = "separate"
       /\ HomeAt(Len(plan)) = "separate"
  <2>0. \A i \in (InB \cup InS \cup InK \cup InA) : ~IsTransition(plan[i])
    BY <1>9, <1>13, <1>16
  <2>1. ASSUME NEW i \in InB
        PROVE  HomeAt(i) = "separate"
    <3>1. \A j \in 1..i : j \in InB
      BY <1>22
    <3> QED BY <2>0, <3>1, HomeIsSeparate
  <2>2. ASSUME NEW i \in InS
        PROVE  HomeAt(i) = "shared"
    <3>1. \A j \in (b + 1) + 1..i : j \in InS
      BY <1>22
    <3>2. \A j \in (b + 1) + 1..i : ~IsTransition(plan[j])
      BY <2>0, <3>1
    <3>3. i \in Nat /\ b + 1 \in 1..i /\ b + 1 \in Moves
      BY <1>22
    <3> QED BY <1>12, <3>2, <3>3, HomeIs
  <2>3. ASSUME NEW i \in e..Len(plan)
        PROVE  HomeAt(i) = "separate"
    <3>1. CASE s = 0
      <4>1. \A j \in 1..i : j \in InB \cup InK \cup InA
        BY <1>0, <1>1, <3>1
      <4> QED BY <2>0, <4>1, HomeIsSeparate
    <3>2. CASE s # 0
      <4>1. \A j \in (b + s + 2) + 1..i : j \in InK \cup InA
        BY <1>0, <1>1, <3>2
      <4>2. \A j \in (b + s + 2) + 1..i : ~IsTransition(plan[j])
        BY <2>0, <4>1
      <4>3. i \in Nat /\ b + s + 2 \in 1..i /\ b + s + 2 \in Moves
        BY <1>0, <1>1, <3>2
      <4> QED BY <1>12, <4>2, <4>3, HomeIs
    <3> QED BY <3>1, <3>2
  <2>4. Len(plan) \in e..Len(plan) /\ \A i \in (e + 1)..Len(plan) : i \in e..Len(plan)
    BY <1>0
  <2> QED BY <2>1, <2>2, <2>3, <2>4
<1>19. /\ \A i \in InK \cup InA : i \in (e + 1)..Len(plan)
       /\ Len(plan) \in Nat
  <2>1. /\ e \in Nat /\ k \in Nat /\ a \in Nat
        /\ f = e + k /\ Len(plan) = f + a
    BY <1>0
  <2>2. ASSUME NEW i \in InK PROVE i \in (e + 1)..Len(plan)
    BY <2>1
  <2>3. ASSUME NEW i \in InA PROVE i \in (e + 1)..Len(plan)
    BY <2>1
  <2>4. Len(plan) \in Nat
    BY <2>1
  <2> QED BY <2>2, <2>3, <2>4
<1>20. /\ \A x \in PB : ~(x.substrate = "kubectl")
                        /\ (x.substrate = "ssh" => x.scenario.home = "separate")
       /\ \A x \in PS : ~(x.substrate = "kubectl")
                        /\ (x.substrate = "ssh" => x.scenario.home = "shared")
       /\ \A x \in PK : x.substrate # "ssh"
       /\ \A x \in PA : x.substrate # "ssh"
  BY <1>3, <1>8, ScenariosAssumption, ItemsOfPhase
<1>21. PlanFacts
  <2>1. \A i \in DOMAIN plan \ Work : plan[i].transition \in Modes
    BY <1>0, <1>1, <1>10, <1>12, <1>13
  <2>2. \A i \in Work : plan[i].substrate = "ssh" => HomeAt(i) = plan[i].scenario.home
    <3> HIDE DEF InB, InS, InK, InA
    <3> QED BY <1>11, <1>13, <1>18, <1>20
  <2>3. \A i \in Work : plan[i].substrate = "kubectl" => HomeAt(i) = "separate"
    <3> HIDE DEF InB, InS, InK, InA
    <3> QED BY <1>11, <1>13, <1>18, <1>19, <1>20
  <2> QED BY <1>0, <1>1, <1>18, <1>19, <2>1, <2>2, <2>3 DEF PlanFacts
<1> QED BY <1>17, <1>21

-----------------------------------------------------------------------------
(* The scripts.                                                            *)

Creators == {"submit", "start", "resume"}

InjectOps == {"stage", "injected", "again", "unstage"}

\* What every script keeps to: the directories it names, and that only one
\* script injects.
Sane(s) ==
    /\ Len(s) \in Nat
    /\ \A i \in 1..Len(s) : /\ s[i].dir \in 0..2
                            /\ s[i].do \in Creators => s[i].dir # 0
                            /\ s[i].do \in InjectOps => s = InjectedScript

Creates(s) == \E i \in 1..Len(s) : s[i].do \in Creators

\* The discipline of a script that keeps its attempts under the cleanup: it
\* submits once and first, starts what it has armed, resumes what it has
\* submitted and armed again, uses one directory, and declares that there is
\* nothing to clean up only when it has created nothing.
Tidy(s) ==
    \A i \in 1..Len(s) :
       /\ s[i].do = "submit" => i = 1
       /\ s[i].do = "start" => i > 1 /\ s[i - 1].do = "arm"
       /\ s[i].do = "resume" => i > 1 /\ s[i - 1].do = "rearm" /\ s[1].do = "submit"
       /\ s[i].do \in Creators \cup {"arm", "collect"} => s[i].dir = 1
       /\ s[i].do = "disarm" => ~Creates(s)
       /\ s[i].do \in {"arm", "rearm"} => i < Len(s)

\* The scripts that do not: kubectl-retained-read submits a second time with
\* the first attempt marked collected, mixed-batch starts what it has not armed.
Armed(item) ==
    item.substrate = "kubectl" =>
        item.scenario.name \notin {"mixed-batch", "kubectl-retained-read"}

\* The scripts, one by one.  The failure that is resumed is armed again before.
LEMMA FailureResumeTidy == Sane(FailureResumeScript) /\ Tidy(FailureResumeScript)
<1> DEFINE s == FailureResumeScript
<1>1. Len(s) = 10
  BY DEF FailureResumeScript, Op, Do
<1>2. /\ s[1] = Op("submit", 1, {}) /\ s[2] = Op("wait", 1, Terminal)
      /\ s[3] = Op("collect", 1, Terminal) /\ s[4] = Op("expect", 1, {"FAILED", "CANCELLED"})
      /\ s[5] = Do("check") /\ s[6] = Do("rearm") /\ s[7] = Op("resume", 1, {})
      /\ s[8] = Op("wait", 1, {"SUCCESS"}) /\ s[9] = Op("collect", 1, {"SUCCESS"})
      /\ s[10] = Do("check")
  BY DEF FailureResumeScript
<1> HIDE DEF s
<1>3. Sane(s)
  BY <1>1, <1>2 DEF Sane, InjectOps, Creators, Op, Do
<1>4. Tidy(s)
  BY <1>1, <1>2 DEF Tidy, Creates, Creators, Op, Do
<1> QED BY <1>3, <1>4 DEF s

\* The cancellation submits once and collects what it submitted.
LEMMA CancelTidy == Sane(CancelScript) /\ Tidy(CancelScript)
<1> DEFINE s == CancelScript
<1>1. Len(s) = 6
  BY DEF CancelScript
<1>2. /\ s[1] = Op("submit", 1, {}) /\ s[2] = Op("running", 1, {})
      /\ s[3] = Op("cancel", 1, {}) /\ s[4] = Op("cancel", 1, {})
      /\ s[5] = Op("collect", 1, {"CANCELLED"}) /\ s[6] = Do("check")
  BY DEF CancelScript
<1> HIDE DEF s
<1>3. Sane(s) /\ Tidy(s)
  BY <1>1, <1>2 DEF Sane, InjectOps, Tidy, Creates, Creators, Op, Do
<1> QED BY <1>3 DEF s

\* The mixed batch names only its own directory.
LEMMA MixedBatchSane == Sane(MixedBatchScript)
<1> DEFINE s == MixedBatchScript
<1>1. Len(s) = 10
  BY DEF MixedBatchScript
<1>2. /\ s[1] = Do("check") /\ s[2] = Op("start", 1, {}) /\ s[3] = Op("wait", 1, {"FAILED"})
      /\ s[4] = Op("collect", 1, {"FAILED"}) /\ s[5] = Do("check") /\ s[6] = Do("rearm")
      /\ s[7] = Op("resume", 1, {}) /\ s[8] = Op("wait", 1, {"SUCCESS"})
      /\ s[9] = Op("collect", 1, {"SUCCESS"}) /\ s[10] = Do("check")
  BY DEF MixedBatchScript
<1> HIDE DEF s
<1>3. Sane(s)
  BY <1>1, <1>2 DEF Sane, InjectOps, Creators, Op, Do
<1> QED BY <1>3 DEF s

\* The multi-target start is armed before.
LEMMA MultiTargetTidy == Sane(MultiTargetScript) /\ Tidy(MultiTargetScript)
<1> DEFINE s == MultiTargetScript
<1>1. Len(s) = 6
  BY DEF MultiTargetScript
<1>2. /\ s[1] = Do("check") /\ s[2] = Op("arm", 1, {}) /\ s[3] = Op("start", 1, {})
      /\ s[4] = Op("wait", 1, {"SUCCESS"}) /\ s[5] = Op("collect", 1, {"SUCCESS"})
      /\ s[6] = Do("check")
  BY DEF MultiTargetScript
<1> HIDE DEF s
<1>3. Sane(s) /\ Tidy(s)
  BY <1>1, <1>2 DEF Sane, InjectOps, Tidy, Creates, Creators, Op, Do
<1> QED BY <1>3 DEF s

\* The unbound start creates nothing.
LEMMA UnboundTidy == Sane(UnboundScript) /\ Tidy(UnboundScript)
<1> DEFINE s == UnboundScript
<1>1. Len(s) = 7
  BY DEF UnboundScript
<1>2. /\ s[1] = Do("claim") /\ s[2] = Do("check") /\ s[3] = Op("arm", 1, {})
      /\ s[4] = Op("refused", 1, {}) /\ s[5] = Do("check") /\ s[6] = Do("disarm")
      /\ s[7] = Do("unclaim")
  BY DEF UnboundScript
<1> HIDE DEF s
<1>3. Sane(s) /\ Tidy(s)
  BY <1>1, <1>2 DEF Sane, InjectOps, Tidy, Creates, Creators, Op, Do
<1> QED BY <1>3 DEF s

AnyOp == [do : {"submit", "wait", "collect", "expect", "check", "rearm", "resume",
                "running", "mutate", "stop"}, dir : 0..2, want : SUBSET Terminal]

\* Two parts of a script after each other.
LEMMA Joined ==
    ASSUME NEW s \in Seq(AnyOp), NEW t \in Seq(AnyOp)
    PROVE  /\ Len(s \o t) = Len(s) + Len(t)
           /\ \A i \in 1..Len(s) : (s \o t)[i] = s[i]
           /\ \A i \in 1..Len(t) : (s \o t)[Len(s) + i] = t[i]
  OBVIOUS

\* What one step of a regular Kubernetes scenario is made of.
LEMMA StepIs ==
    ASSUME NEW d \in 1..2
    PROVE  /\ KubectlStep(d) \in Seq(AnyOp) /\ Len(KubectlStep(d)) = 4
           /\ KubectlStep(d)[1] = Op("submit", d, {})
           /\ KubectlStep(d)[2] = Op("wait", d, {"SUCCESS"})
           /\ KubectlStep(d)[3] = Op("collect", d, {"SUCCESS"})
           /\ KubectlStep(d)[4] = Do("check")
<1>1. /\ Op("submit", d, {}) \in AnyOp /\ Op("wait", d, {"SUCCESS"}) \in AnyOp
      /\ Op("collect", d, {"SUCCESS"}) \in AnyOp /\ Do("check") \in AnyOp
  BY DEF AnyOp, Op, Do, Terminal
<1> QED BY <1>1 DEF KubectlStep

\* One such step is tidy; two of them, on two directories, are only sane.
LEMMA SuccessTidy ==
    /\ Sane(SuccessScript(1)) /\ Tidy(SuccessScript(1))
    /\ Sane(SuccessScript(2))
<1> DEFINE s == KubectlStep(1)  t == KubectlStep(2)
<1>1. /\ s \in Seq(AnyOp) /\ Len(s) = 4
      /\ s[1] = Op("submit", 1, {}) /\ s[2] = Op("wait", 1, {"SUCCESS"})
      /\ s[3] = Op("collect", 1, {"SUCCESS"}) /\ s[4] = Do("check")
  BY StepIs
<1>2. /\ t \in Seq(AnyOp) /\ Len(t) = 4
      /\ t[1] = Op("submit", 2, {}) /\ t[2] = Op("wait", 2, {"SUCCESS"})
      /\ t[3] = Op("collect", 2, {"SUCCESS"}) /\ t[4] = Do("check")
  BY StepIs
<1>3. SuccessScript(1) = s \o <<>> /\ SuccessScript(2) = s \o t
  BY DEF SuccessScript
<1> HIDE DEF s, t
<1>4. s \o <<>> = s
  BY <1>1
<1>5. Sane(s) /\ Tidy(s)
  BY <1>1 DEF Sane, InjectOps, Tidy, Creates, Creators, Op, Do
<1>6. /\ Len(s \o t) = 8
      /\ (s \o t)[1] = s[1] /\ (s \o t)[2] = s[2] /\ (s \o t)[3] = s[3]
      /\ (s \o t)[4] = s[4] /\ (s \o t)[5] = t[1] /\ (s \o t)[6] = t[2]
      /\ (s \o t)[7] = t[3] /\ (s \o t)[8] = t[4]
  <2>1. /\ Len(s \o t) = 8
        /\ \A i \in 1..4 : (s \o t)[i] = s[i]
        /\ \A i \in 1..4 : (s \o t)[4 + i] = t[i]
    <3>1. s \in Seq(AnyOp) /\ t \in Seq(AnyOp) /\ Len(s) = 4 /\ Len(t) = 4
      BY <1>1, <1>2
    <3>2. /\ Len(s \o t) = Len(s) + Len(t)
          /\ \A i \in 1..Len(s) : (s \o t)[i] = s[i]
          /\ \A i \in 1..Len(t) : (s \o t)[Len(s) + i] = t[i]
      BY ONLY <3>1, Joined
    <3> QED BY <3>1, <3>2
  <2>2. 4 + 1 = 5 /\ 4 + 2 = 6 /\ 4 + 3 = 7 /\ 4 + 4 = 8
    OBVIOUS
  <2> DEFINE v == s \o t
  <2>3. /\ Len(v) = 8 /\ \A i \in 1..4 : v[i] = s[i]
        /\ \A i \in 1..4 : v[4 + i] = t[i]
    BY <2>1
  <2> HIDE DEF v
  <2>4. v[4 + 1] = t[1] /\ v[4 + 2] = t[2] /\ v[4 + 3] = t[3] /\ v[4 + 4] = t[4]
    BY <2>3
  <2>5. v[1] = s[1] /\ v[2] = s[2] /\ v[3] = s[3] /\ v[4] = s[4]
    BY <2>3
  <2> QED BY <2>2, <2>3, <2>4, <2>5 DEF v
<1> DEFINE w == s \o t
<1> HIDE DEF w
<1>7. Sane(w)
  BY <1>1, <1>2, <1>6 DEF Sane, InjectOps, Creators, Op, Do, w
<1> QED BY <1>3, <1>4, <1>5, <1>7 DEF w

\* The attempt that is disturbed is armed again before it is resumed.
LEMMA MutatedTidy ==
    /\ Sane(MutatedScript(FALSE)) /\ Tidy(MutatedScript(FALSE))
    /\ Sane(MutatedScript(TRUE)) /\ Tidy(MutatedScript(TRUE))
<1> DEFINE s == <<Op("submit", 1, {}), Op("running", 1, {}), Do("mutate"),
                  Op("wait", 1, Terminal), Op("collect", 1, Terminal), Do("check")>>
           t == <<Op("stop", 1, {"SUCCESS"}), Do("rearm"), Op("resume", 1, {}),
                  Op("wait", 1, {"SUCCESS"}), Op("collect", 1, {"SUCCESS"}),
                  Do("check")>>
<1>1. MutatedScript(FALSE) = s \o <<>> /\ MutatedScript(TRUE) = s \o t
  BY DEF MutatedScript
<1>2. /\ Op("submit", 1, {}) \in AnyOp /\ Op("running", 1, {}) \in AnyOp
      /\ Do("mutate") \in AnyOp /\ Op("wait", 1, Terminal) \in AnyOp
      /\ Op("collect", 1, Terminal) \in AnyOp /\ Do("check") \in AnyOp
      /\ Op("stop", 1, {"SUCCESS"}) \in AnyOp /\ Do("rearm") \in AnyOp
      /\ Op("resume", 1, {}) \in AnyOp /\ Op("wait", 1, {"SUCCESS"}) \in AnyOp
      /\ Op("collect", 1, {"SUCCESS"}) \in AnyOp
  BY DEF AnyOp, Op, Do, Terminal
<1>3. /\ s \in Seq(AnyOp) /\ Len(s) = 6
      /\ s[1] = Op("submit", 1, {}) /\ s[2] = Op("running", 1, {})
      /\ s[3] = Do("mutate") /\ s[4] = Op("wait", 1, Terminal)
      /\ s[5] = Op("collect", 1, Terminal) /\ s[6] = Do("check")
  BY <1>2
<1>4. /\ t \in Seq(AnyOp) /\ Len(t) = 6
      /\ t[1] = Op("stop", 1, {"SUCCESS"}) /\ t[2] = Do("rearm")
      /\ t[3] = Op("resume", 1, {}) /\ t[4] = Op("wait", 1, {"SUCCESS"})
      /\ t[5] = Op("collect", 1, {"SUCCESS"}) /\ t[6] = Do("check")
  BY <1>2
<1> HIDE DEF s, t
<1>5. s \o <<>> = s
  BY <1>3
<1>6. Sane(s) /\ Tidy(s)
  BY <1>3 DEF Sane, InjectOps, Tidy, Creates, Creators, Op, Do
<1>7. /\ Len(s \o t) = 12
      /\ (s \o t)[1] = s[1] /\ (s \o t)[2] = s[2] /\ (s \o t)[3] = s[3]
      /\ (s \o t)[4] = s[4] /\ (s \o t)[5] = s[5] /\ (s \o t)[6] = s[6]
      /\ (s \o t)[7] = t[1] /\ (s \o t)[8] = t[2] /\ (s \o t)[9] = t[3]
      /\ (s \o t)[10] = t[4] /\ (s \o t)[11] = t[5] /\ (s \o t)[12] = t[6]
  <2>1. /\ Len(s \o t) = 12
        /\ \A i \in 1..6 : (s \o t)[i] = s[i]
        /\ \A i \in 1..6 : (s \o t)[6 + i] = t[i]
    <3>1. s \in Seq(AnyOp) /\ t \in Seq(AnyOp) /\ Len(s) = 6 /\ Len(t) = 6
      BY <1>3, <1>4
    <3>2. /\ Len(s \o t) = Len(s) + Len(t)
          /\ \A i \in 1..Len(s) : (s \o t)[i] = s[i]
          /\ \A i \in 1..Len(t) : (s \o t)[Len(s) + i] = t[i]
      BY ONLY <3>1, Joined
    <3> QED BY <3>1, <3>2
  <2>2. /\ 6 + 1 = 7 /\ 6 + 2 = 8 /\ 6 + 3 = 9 /\ 6 + 4 = 10 /\ 6 + 5 = 11
        /\ 6 + 6 = 12
    OBVIOUS
  <2> DEFINE v == s \o t
  <2>3. /\ Len(v) = 12 /\ \A i \in 1..6 : v[i] = s[i]
        /\ \A i \in 1..6 : v[6 + i] = t[i]
    BY <2>1
  <2> HIDE DEF v
  <2>4. v[6 + 1] = t[1] /\ v[6 + 2] = t[2] /\ v[6 + 3] = t[3]
    BY <2>3
  <2>5. v[6 + 4] = t[4] /\ v[6 + 5] = t[5] /\ v[6 + 6] = t[6]
    BY <2>3
  <2>6. v[1] = s[1] /\ v[2] = s[2] /\ v[3] = s[3] /\ v[4] = s[4] /\ v[5] = s[5] /\ v[6] = s[6]
    BY <2>3
  <2> QED BY <2>2, <2>3, <2>4, <2>5, <2>6 DEF v
<1> DEFINE w == s \o t
<1>8. /\ Len(w) = 12
      /\ w[1] = Op("submit", 1, {}) /\ w[2] = Op("running", 1, {})
      /\ w[3] = Do("mutate") /\ w[4] = Op("wait", 1, Terminal)
      /\ w[5] = Op("collect", 1, Terminal) /\ w[6] = Do("check")
      /\ w[7] = Op("stop", 1, {"SUCCESS"}) /\ w[8] = Do("rearm")
      /\ w[9] = Op("resume", 1, {}) /\ w[10] = Op("wait", 1, {"SUCCESS"})
      /\ w[11] = Op("collect", 1, {"SUCCESS"}) /\ w[12] = Do("check")
  BY <1>3, <1>4, <1>7
<1> HIDE DEF w
<1>9. Sane(w)
  BY <1>8 DEF Sane, InjectOps, Creators, Op, Do
<1>10. Tidy(w)
  BY <1>8 DEF Tidy, Creates, Creators, Op, Do
<1> QED BY <1>1, <1>5, <1>6, <1>9, <1>10 DEF w

\* The operations of the injecting script, in their order.
LEMMA InjectedOps ==
    /\ Len(InjectedScript) = 6
    /\ InjectedScript[1] = Do("stage") /\ InjectedScript[2] = Do("injected")
    /\ InjectedScript[3] = Do("check") /\ InjectedScript[4] = Do("again")
    /\ InjectedScript[5] = Do("check") /\ InjectedScript[6] = Do("unstage")
  BY DEF InjectedScript

\* The injected script creates no attempt.
LEMMA InjectedSane == Sane(InjectedScript) /\ Tidy(InjectedScript) /\ ~Creates(InjectedScript)
<1> DEFINE s == InjectedScript
<1>1. /\ Len(s) = 6
      /\ s[1] = Do("stage") /\ s[2] = Do("injected") /\ s[3] = Do("check")
      /\ s[4] = Do("again") /\ s[5] = Do("check") /\ s[6] = Do("unstage")
  BY InjectedOps
<1>2. s = InjectedScript
  OBVIOUS
<1> HIDE DEF s
<1>3. Sane(s) /\ Tidy(s) /\ ~Creates(s)
  BY <1>1, <1>2 DEF Sane, Tidy, Creates, Creators, Op, Do
<1> QED BY <1>3 DEF s

\* Neither do the scripts of SSH and Slurm.
LEMMA RegularSane ==
    ASSUME NEW n \in {1, 3, 4}
    PROVE  Sane(RegularScript(n)) /\ Tidy(RegularScript(n)) /\ ~Creates(RegularScript(n))
<1> DEFINE s == RegularScript(n)
<1>1. s = [i \in 1..(2 * n) |-> IF i % 2 = 1 THEN Do("dispatch") ELSE Do("check")]
  BY DEF RegularScript
<1>2. \A i \in 1..(2 * n) : s[i] = Do("dispatch") \/ s[i] = Do("check")
  BY <1>1
<1>3. Len(s) = 2 * n /\ Len(s) \in Nat
  <2>1. 2 * n \in Nat
    OBVIOUS
  <2> DEFINE m == 2 * n
  <2> HIDE DEF m
  <2>2. Len([i \in 1..m |-> IF i % 2 = 1 THEN Do("dispatch") ELSE Do("check")]) = m
    BY <2>1 DEF m
  <2> QED BY <1>1, <2>1, <2>2 DEF m
<1> HIDE DEF s
<1>4. \A i \in 1..Len(s) : s[i].dir = 0 /\ s[i].do \in {"dispatch", "check"}
  BY <1>2, <1>3 DEF Do, Op
<1>5. Sane(s) /\ Tidy(s) /\ ~Creates(s)
  BY <1>3, <1>4 DEF Sane, InjectOps, Tidy, Creates, Creators
<1> QED BY <1>5 DEF s

\* Every item has a sane script; every item but those of the two named
\* scenarios a tidy one; only Kubernetes items create attempts.
LEMMA ScriptShape ==
    ASSUME NEW item \in AllItems
    PROVE  /\ Sane(ScriptOf(item))
           /\ Armed(item) => Tidy(ScriptOf(item))
           /\ item.substrate # "kubectl" => ~Creates(ScriptOf(item))
           /\ Injects(item) => ScriptOf(item) = InjectedScript
<1> DEFINE name == item.scenario.name
<1>1. CASE item.substrate = "kubectl" /\ name = "mixed-batch"
  <2>1. ScriptOf(item) = MixedBatchScript
    BY <1>1 DEF ScriptOf, Injects
  <2> QED BY <1>1, <2>1, MixedBatchSane DEF Armed, Injects
<1>2. CASE item.substrate = "kubectl" /\ name # "mixed-batch"
  <2>1. ScriptOf(item) = KubectlScript(name)
    BY <1>2 DEF ScriptOf, Injects
  <2> DEFINE s == KubectlScript(name)
  <2>2. Sane(s) /\ (name # "kubectl-retained-read" => Tidy(s))
    BY MultiTargetTidy, UnboundTidy, FailureResumeTidy, CancelTidy, MutatedTidy,
       SuccessTidy DEF KubectlScript, SameNamespaceScript
  <2> QED BY <1>2, <2>1, <2>2 DEF Armed, Injects
<1>3. CASE item.substrate # "kubectl" /\ Injects(item)
  <2>1. ScriptOf(item) = InjectedScript
    BY <1>3 DEF ScriptOf
  <2> QED BY <1>3, <2>1, InjectedSane
<1>4. CASE item.substrate # "kubectl" /\ ~Injects(item)
  <2>1. ScriptOf(item) = RegularScript(RegularSteps(name))
    BY <1>4 DEF ScriptOf
  <2>2. RegularSteps(name) \in {1, 3, 4}
    BY DEF RegularSteps
  <2> QED BY <1>4, <2>1, <2>2, RegularSane
<1> QED BY <1>1, <1>2, <1>3, <1>4

-----------------------------------------------------------------------------
(* The steps of a run.                                                     *)

\* An operation of a script goes on in the script or fails, and changes
\* nothing of the suite, of the pool, of the archive and of the plan.
LEMMA OperateShape ==
    ASSUME Operate
    PROVE  /\ pc = "script" /\ ip <= Len(script)
           /\ UNCHANGED <<opFrame, script>>
           /\ \/ pc' = "script" /\ ip' \in {ip + 1, Len(script) + 1}
              \/ pc' = "failed" /\ ip' = ip
<1> USE DEF At, Advance, Raise, Goto, scenVars
<1>1. CASE Submit BY <1>1 DEF Submit
<1>2. CASE Resume BY <1>2 DEF Resume
<1>3. CASE Wait BY <1>3 DEF Wait
<1>4. CASE WaitRunning BY <1>4 DEF WaitRunning
<1>5. CASE Cancel BY <1>5 DEF Cancel
<1>6. CASE Collect BY <1>6 DEF Collect
<1>7. CASE Check BY <1>7 DEF Check
<1>8. CASE Judge BY <1>8 DEF Judge
<1>9. CASE Arm BY <1>9 DEF Arm
<1>10. CASE CreateClaim BY <1>10 DEF CreateClaim
<1>11. CASE StartRefused BY <1>11 DEF StartRefused
<1>12. CASE DeleteClaim BY <1>12 DEF DeleteClaim
<1>13. CASE Dispatch BY <1>13 DEF Dispatch
<1>14. CASE Stage BY <1>14 DEF Stage
<1>15. CASE Unstage BY <1>15 DEF Unstage
<1>16. CASE RunInjected BY <1>16 DEF RunInjected
<1>17. CASE RunAgain BY <1>17 DEF RunAgain
<1> QED
  BY <1>1, <1>2, <1>3, <1>4, <1>5, <1>6, <1>7, <1>8, <1>9, <1>10, <1>11,
     <1>12, <1>13, <1>14, <1>15, <1>16, <1>17 DEF Operate

\* An operation of these names is that action and no other, and only a
\* judgement that stops the scenario skips operations.
LEMMA OperateAgain ==
    ASSUME Operate
    PROVE  /\ At("again") => RunAgain
           /\ At("unstage") => Unstage
           /\ At("submit") => Submit
           /\ At("arm") \/ At("rearm") => Arm
           /\ ~At("stop") /\ pc' = "script" => ip' = ip + 1
<1> USE DEF At, Advance, Raise, Goto
<1>1. CASE Submit BY <1>1 DEF Submit
<1>2. CASE Resume BY <1>2 DEF Resume
<1>3. CASE Wait BY <1>3 DEF Wait
<1>4. CASE WaitRunning BY <1>4 DEF WaitRunning
<1>5. CASE Cancel BY <1>5 DEF Cancel
<1>6. CASE Collect BY <1>6 DEF Collect
<1>7. CASE Check BY <1>7 DEF Check
<1>8. CASE Judge BY <1>8 DEF Judge
<1>9. CASE Arm BY <1>9 DEF Arm
<1>10. CASE CreateClaim BY <1>10 DEF CreateClaim
<1>11. CASE StartRefused BY <1>11 DEF StartRefused
<1>12. CASE DeleteClaim BY <1>12 DEF DeleteClaim
<1>13. CASE Dispatch BY <1>13 DEF Dispatch
<1>14. CASE Stage BY <1>14 DEF Stage
<1>15. CASE Unstage BY <1>15 DEF Unstage
<1>16. CASE RunInjected BY <1>16 DEF RunInjected
<1>17. CASE RunAgain BY <1>17 DEF RunAgain
<1> QED
  BY <1>1, <1>2, <1>3, <1>4, <1>5, <1>6, <1>7, <1>8, <1>9, <1>10, <1>11,
     <1>12, <1>13, <1>14, <1>15, <1>16, <1>17 DEF Operate

\* Only a start that creates, a resume, a cancellation and a collection change
\* the attempts, only these and the arming the record of the cleanup.
LEMMA OperateAttempts ==
    ASSUME Operate, ~Submit, ~Resume, ~Cancel, ~Collect
    PROVE  UNCHANGED atts /\ (~Arm => UNCHANGED rt)
<1> USE DEF scenVars
<1>3. CASE Wait BY <1>3 DEF Wait
<1>4. CASE WaitRunning BY <1>4 DEF WaitRunning
<1>7. CASE Check BY <1>7 DEF Check
<1>8. CASE Judge BY <1>8 DEF Judge
<1>9. CASE Arm BY <1>9 DEF Arm
<1>10. CASE CreateClaim BY <1>10 DEF CreateClaim
<1>11. CASE StartRefused BY <1>11 DEF StartRefused
<1>12. CASE DeleteClaim BY <1>12 DEF DeleteClaim
<1>13. CASE Dispatch BY <1>13 DEF Dispatch
<1>14. CASE Stage BY <1>14 DEF Stage
<1>15. CASE Unstage BY <1>15 DEF Unstage
<1>16. CASE RunInjected BY <1>16 DEF RunInjected
<1>17. CASE RunAgain BY <1>17 DEF RunAgain
<1> QED
  BY <1>3, <1>4, <1>7, <1>8, <1>9, <1>10, <1>11,
     <1>12, <1>13, <1>14, <1>15, <1>16, <1>17 DEF Operate

\* Only the dispatches and the staging change what the scenario has created
\* and the wrapper's marker.
LEMMA OperateOwn ==
    ASSUME Operate, ~Dispatch, ~Stage, ~Unstage, ~RunInjected, ~RunAgain
    PROVE  UNCHANGED <<own, marker, injected>>
<1> USE DEF scenVars
<1>1. CASE Submit BY <1>1 DEF Submit
<1>2. CASE Resume BY <1>2 DEF Resume
<1>3. CASE Wait BY <1>3 DEF Wait
<1>4. CASE WaitRunning BY <1>4 DEF WaitRunning
<1>5. CASE Cancel BY <1>5 DEF Cancel
<1>6. CASE Collect BY <1>6 DEF Collect
<1>7. CASE Check BY <1>7 DEF Check
<1>8. CASE Judge BY <1>8 DEF Judge
<1>9. CASE Arm BY <1>9 DEF Arm
<1>10. CASE CreateClaim BY <1>10 DEF CreateClaim
<1>11. CASE StartRefused BY <1>11 DEF StartRefused
<1>12. CASE DeleteClaim BY <1>12 DEF DeleteClaim
<1> QED
  BY <1>1, <1>2, <1>3, <1>4, <1>5, <1>6, <1>7, <1>8, <1>9, <1>10, <1>11, <1>12
     DEF Operate

\* The three steps of a cleanup follow each other.
Sweep == CleanAttempt \/ CleanStorage \/ CleanLocal

\* A step of the cleanup leaves the suite alone and forgets no error.
LEMMA SweepShape ==
    ASSUME Sweep
    PROVE  /\ pc \in {"attempt", "storage", "local"}
           /\ pc' = IF pc = "attempt" THEN "storage"
                    ELSE IF pc = "storage" THEN "local" ELSE "cleaned"
           /\ UNCHANGED <<suiteVars, ip, script, rt, seen, marker, injected, claim,
                          cacheVars, homeVars>>
           /\ cerr' = TRUE \/ cerr' = cerr
<1> USE DEF CleanupStep, Goto
<1>1. CASE CleanAttempt
  <2>1. CASE Item.substrate = "ssh" BY <1>1, <2>1 DEF CleanAttempt
  <2>2. CASE Item.substrate = "kubectl" BY <1>1, <2>2 DEF CleanAttempt
  <2>3. CASE Item.substrate \notin {"ssh", "kubectl"} BY <1>1, <2>3 DEF CleanAttempt
  <2> QED BY <2>1, <2>2, <2>3
<1>2. CASE CleanStorage BY <1>2 DEF CleanStorage
<1>3. CASE CleanLocal BY <1>3 DEF CleanLocal
<1> QED BY <1>1, <1>2, <1>3 DEF Sweep

\* A step of a transition of the pool goes on, ends, or fails.
LEMMA TransitionShape ==
    ASSUME TransitionStep \/ TransitionError
    PROVE  /\ pc \in {"preflight", "moving", "restoring"} /\ tpc # "idle"
           /\ UNCHANGED <<run, plan, pos, passed, failed, ip, cerr, scenVars,
                          worldVars, cacheVars, deaths>>
           /\ \/ TransitionGoesOn /\ tpc' # "idle"
              \/ (TransitionDone \/ TransitionRaised) /\ tpc' = "idle"
<1> USE DEF NoFault, Fault, budget
<1>1. CASE TransitionStep
  <2> USE <1>1 DEF TransitionStep
  <2>1. CASE Preflight(TransitionDone, TransitionGoesOn) BY <2>1 DEF Preflight
  <2>2. CASE CommitOk(TransitionDone, TransitionGoesOn) BY <2>2 DEF CommitOk
  <2>3. CASE /\ SaveRestoring \/ MarkShared \/ ScaleDown \/ ApplyManifest \/ ScaleUp
             /\ TransitionGoesOn
    BY <2>3 DEF SaveRestoring, MarkShared, ScaleDown, ApplyManifest, ScaleUp
  <2> QED BY <2>1, <2>2, <2>3
<1>2. CASE TransitionError
  BY <1>2 DEF TransitionError, TransitionFails
<1> QED BY <1>1, <1>2

\* Where an error of a transition leads, and which error is kept.
LEMMA RaisedShape ==
    ASSUME TransitionRaised, pc \in {"preflight", "moving", "restoring"}
    PROVE  /\ UNCHANGED home
           /\ \/ /\ pc = "preflight" /\ primary' = "transition" /\ pc' = "off"
                 /\ exit' = "failed"
              \/ /\ pc = "moving" /\ pc' = "unwind" /\ UNCHANGED exit
                 /\ primary' = IF primary = "none" THEN "transition" ELSE primary
              \/ /\ pc = "restoring" /\ pc' = "off" /\ exit' = "failed"
                 /\ primary' \in {"restore", "unrestored", primary}
                 /\ primary \in {"scenario", "interrupt", "unrestored"}
                      => primary' \in {"scenario", "interrupt", "unrestored"}
<1>1. CASE pc = "preflight" BY <1>1 DEF TransitionRaised, Goto
<1>2. CASE pc = "moving" BY <1>2 DEF TransitionRaised, Goto, Abort
<1>3. CASE pc = "restoring" BY <1>3 DEF TransitionRaised, Goto
<1> QED BY <1>1, <1>2, <1>3

\* A transition goes on, ends by one of its steps, or by an error.
LEMMA TransitionEnds ==
    ASSUME TransitionStep \/ TransitionError
    PROVE  \/ TransitionGoesOn /\ tpc' # "idle"
           \/ TransitionStep /\ TransitionDone /\ tpc' = "idle"
           \/ TransitionError /\ TransitionRaised /\ tpc' = "idle"
<1>1. CASE TransitionStep
  <2> USE <1>1 DEF TransitionStep
  <2>1. CASE Preflight(TransitionDone, TransitionGoesOn) BY <2>1 DEF Preflight
  <2>2. CASE CommitOk(TransitionDone, TransitionGoesOn) BY <2>2 DEF CommitOk
  <2>3. CASE /\ SaveRestoring \/ MarkShared \/ ScaleDown \/ ApplyManifest \/ ScaleUp
             /\ TransitionGoesOn
    BY <2>3 DEF SaveRestoring, MarkShared, ScaleDown, ApplyManifest, ScaleUp
  <2> QED BY <2>1, <2>2, <2>3
<1>2. CASE TransitionError
  BY <1>2 DEF TransitionError, TransitionFails
<1> QED BY <1>1, <1>2

\* A step that no part of the suite takes.
Quiet == AttemptEnds \/ LosePod \/ Edit \/ UNCHANGED vars

\* Such a step changes attempts, a pod, the sources or nothing.
LEMMA QuietShape ==
    ASSUME Quiet
    PROVE  /\ UNCHANGED <<suiteVars, pc, ip, cerr, scenVars, claim, orphans, snap,
                          record, tpc, tgoal, tmode>>
           /\ pool' \in {pool, [pool EXCEPT !.ready = FALSE]}
<1>1. CASE AttemptEnds BY <1>1 DEF AttemptEnds, cacheVars, homeVars
<1>2. CASE LosePod BY <1>2 DEF LosePod, PodLost, worldVars, cacheVars
<1>3. CASE Edit BY <1>3 DEF Edit, worldVars, homeVars
<1>4. CASE UNCHANGED vars BY <1>4 DEF vars, homeVars, cacheVars, worldVars
<1> QED BY <1>1, <1>2, <1>3, <1>4 DEF Quiet

\* An interrupt that ends the loop of the suite, from a cleanup or between two
\* scenarios.
Cut == InterruptCleanup \/ InterruptLoop

\* It leaves all but the suite's own state, and the record of the pool, alone.
LEMMA CutShape ==
    ASSUME Cut
    PROVE  /\ pc' = "unwind" /\ primary' = "interrupt"
           /\ UNCHANGED <<run, plan, pos, home, passed, failed, exit, ip, scenVars,
                          worldVars, cacheVars, pool, record, tmode>>
           /\ \/ /\ pc \in {"attempt", "storage", "local", "cleaned"}
                 /\ cerr' = TRUE /\ UNCHANGED homeVars
              \/ /\ pc \in {"next", "moving", "moved"} /\ UNCHANGED cerr
                 /\ tpc' = "idle" /\ tgoal' = "none"
<1>1. CASE InterruptCleanup BY <1>1 DEF InterruptCleanup, Goto, homeVars
<1>2. CASE InterruptLoop BY <1>2 DEF InterruptLoop, Goto
<1> QED BY <1>1, <1>2 DEF Cut

\* Every step is one of these.
LEMMA NextCases ==
    ASSUME [Next]_vars
    PROVE  \/ TransitionStep \/ TransitionError \/ RequireFixture
           \/ BuildArchive \/ PublishArchive \/ NextStep \/ Prepare \/ ScriptDone
           \/ Operate \/ Fail \/ Sweep \/ Cleaned \/ Unwind
           \/ Start \/ Interrupt \/ Cut \/ Die \/ Quiet
  BY DEF Next, Harness, Sweep, Quiet, Cut

\* A run begins with a plan of a selection, at rest.
LEMMA StartShape ==
    ASSUME Start
    PROVE  /\ pc = "off" /\ run < MaxRuns /\ run' = run + 1
           /\ \E s \in Selections : plan' = PlanScenarios(s[1], s[2])
           /\ pos' = 0 /\ ip' = 0 /\ script' = <<>> /\ home' = "separate"
           /\ rt' = NoRuntime /\ seen' = "none" /\ own' = {} /\ injected' = 0
           /\ marker' = FALSE /\ primary' = "none" /\ cerr' = FALSE
           /\ passed' = {} /\ failed' = {} /\ exit' = "none"
           /\ orphans' = orphans \cup own
           /\ UNCHANGED <<atts, claim, cacheVars, budget, pool, record>>
           /\ \/ /\ pc' = "preflight" /\ tpc' = "load" /\ tgoal' = "preflight"
                 /\ tmode' = "separate"
              \/ pc' = "fixture" /\ ~UsesSsh' /\ UNCHANGED homeVars
  BY DEF Start, Begin, Goto, homeVars

\* Only the start of a run makes a plan and leaves the rest.
LEMMA PlanKept ==
    ASSUME [Next]_vars, ~Start
    PROVE  plan' = plan /\ run' = run /\ (pc = "off" => pc' = "off")
<1> USE DEF suiteVars
<1>1. CASE TransitionStep BY <1>1 DEF TransitionStep
<1>2. CASE TransitionError BY <1>2 DEF TransitionError
<1>3. CASE RequireFixture BY <1>3 DEF RequireFixture
<1>4. CASE BuildArchive BY <1>4 DEF BuildArchive
<1>5. CASE PublishArchive BY <1>5 DEF PublishArchive
<1>6. CASE NextStep BY <1>6 DEF NextStep
<1>7. CASE Prepare BY <1>7 DEF Prepare
<1>8. CASE ScriptDone BY <1>8 DEF ScriptDone
<1>9. CASE Operate BY <1>9, OperateShape DEF opFrame
<1>10. CASE Fail BY <1>10 DEF Fail
<1>11. CASE Sweep BY <1>11, SweepShape
<1>12. CASE Cleaned BY <1>12 DEF Cleaned
<1>13. CASE Unwind BY <1>13 DEF Unwind
<1>14. CASE Interrupt BY <1>14 DEF Interrupt
<1>15. CASE Die BY <1>15 DEF Die
<1>16. CASE Quiet BY <1>16, QuietShape
<1>17. CASE Cut BY <1>17, CutShape
<1> QED
  BY <1>1, <1>2, <1>3, <1>4, <1>5, <1>6, <1>7, <1>8, <1>9, <1>10, <1>11,
     <1>12, <1>13, <1>14, <1>15, <1>16, <1>17, NextCases

\* The plan of the run, once there is one.
PlanInv == PlanFacts /\ (pc # "off" => Follows)

\* What is said of the plan alone stays true with the plan.
LEMMA SamePlan ==
    ASSUME plan' = plan
    PROVE  /\ Work' = Work /\ (UsesSsh' <=> UsesSsh)
           /\ \A i : HomeAt(i)' = HomeAt(i)
           /\ (PlanFacts' <=> PlanFacts) /\ (Follows' <=> Follows)
<1>1. Work' = Work
  BY DEF Work
<1>2. UsesSsh' <=> UsesSsh
  BY <1>1 DEF UsesSsh
<1>3. \A i : HomeAt(i)' = HomeAt(i)
  BY DEF HomeAt
<1>4. Follows' <=> Follows
  BY <1>1 DEF Follows
<1>5. HomeAt(Len(plan))' = HomeAt(Len(plan))
  BY DEF HomeAt
<1>6. PlanFacts' <=> PlanFacts
  BY <1>1, <1>3, <1>5 DEF PlanFacts
<1> QED BY <1>1, <1>2, <1>3, <1>4, <1>6

\* The planner makes such plans, for every selection.
LEMMA PlanMade ==
    (\E s \in Selections : plan = PlanScenarios(s[1], s[2])) => PlanFacts /\ Follows
  BY PlanHolds

\* Before the first run there is no plan to follow.
LEMMA PlanInvInit == Init => PlanInv
<1> SUFFICES ASSUME Init PROVE PlanInv
  OBVIOUS
<1>1. plan = <<>> /\ pc = "off"
  BY DEF Init
<1>2. Len(plan) = 0 /\ DOMAIN plan = 1..0 /\ Work = {}
  BY <1>1 DEF Work
<1>3. HomeAt(Len(plan)) = "separate"
  BY <1>2, HomeIsSeparate
<1> QED BY <1>1, <1>2, <1>3 DEF PlanInv, PlanFacts

\* Every step keeps the plan, or makes a new one.
LEMMA PlanInvNext == PlanInv /\ [Next]_vars => PlanInv'
<1> SUFFICES ASSUME PlanInv, [Next]_vars PROVE PlanInv'
  OBVIOUS
<1>1. CASE Start
  <2>1. (\E s \in Selections : plan = PlanScenarios(s[1], s[2]))'
    BY <1>1, StartShape
  <2>2. (PlanFacts /\ Follows)'
    BY <2>1, PlanMade, PTL
  <2> QED BY <2>2 DEF PlanInv
<1>2. CASE ~Start
  <2>1. plan' = plan
    BY <1>2, PlanKept
  <2>2. pc = "off" => pc' = "off"
    BY <1>2, PlanKept
  <2> QED BY <2>1, <2>2, SamePlan DEF PlanInv
<1> QED BY <1>1, <1>2

-----------------------------------------------------------------------------
(* Where a run is in its plan.                                             *)

Prelude == {"preflight", "fixture", "archive", "quarantine", "publish"}
Cleaning == {"attempt", "storage", "local", "cleaned"}
InScenario == {"prepare", "script", "failed"} \cup Cleaning

WhereInv ==
    /\ pc \in {"off", "next", "moving", "moved", "unwind", "restoring"}
               \cup Prelude \cup InScenario
    /\ run \in 0..MaxRuns /\ (pc # "off" => run # 0)
    /\ pos \in 0..(Len(plan) + 1) /\ ip \in Nat
    /\ pc \in Prelude => pos = 0
    /\ pc = "next" => pos # Len(plan) + 1
    /\ pc \in {"moving", "moved"} => pos \in DOMAIN plan \ Work
    /\ pc \in InScenario => pos \in Work /\ script = ScriptOf(Item)
    /\ pc = "prepare" => ip = 1
    /\ pc = "script" => ip \in 1..(Len(script) + 1)

\* The item at hand is one of the catalog, with a sane script.
LEMMA ItemIs ==
    ASSUME PlanInv, WhereInv, pc \in InScenario
    PROVE  /\ Item \in AllItems /\ pos \in Work /\ pos \in 1..Len(plan) /\ Len(plan) \in Nat
           /\ Sane(script) /\ Len(script) \in Nat
           /\ Armed(Item) => Tidy(script)
           /\ Item.substrate # "kubectl" => ~Creates(script)
           /\ Injects(Item) => script = InjectedScript
<1>1. pos \in Work /\ script = ScriptOf(Item) /\ pc # "off"
  BY DEF WhereInv, InScenario, Cleaning
<1>2. PICK s \in Selections : {plan[i] : i \in Work} = WorkItems(s[1], s[2])
  BY <1>1 DEF PlanInv, Follows
<1>3. Item \in AllItems
  BY <1>1, <1>2, WorkTyped DEF Item
<1>4. pos \in 1..Len(plan) /\ Len(plan) \in Nat
  BY <1>1 DEF Work, PlanInv, PlanFacts
<1> QED BY <1>1, <1>3, <1>4, ScriptShape DEF Sane

\* At the beginning no scenario is at hand.
LEMMA WhereInit == Init => WhereInv
  BY ScenariosAssumption DEF Init, WhereInv, Prelude, InScenario, Cleaning

\* Every step keeps the place in the plan and in the script.
LEMMA WhereNext == PlanInv /\ WhereInv /\ [Next]_vars => WhereInv'
<1> SUFFICES ASSUME PlanInv, WhereInv, [Next]_vars PROVE WhereInv'
  OBVIOUS
<1>0. Len(plan) \in Nat /\ DOMAIN plan = 1..Len(plan)
  BY DEF PlanInv, PlanFacts
<1> USE DEF Prelude, InScenario, Cleaning
<1>1. CASE Start
  <2>1. /\ pos' = 0 /\ ip' = 0 /\ run' = run + 1 /\ run < MaxRuns
        /\ pc' \in {"preflight", "fixture"}
    BY <1>1, StartShape
  <2>2. Len(plan)' \in Nat
    BY PlanInvNext DEF PlanInv, PlanFacts
  <2> QED BY <2>1, <2>2, ScenariosAssumption DEF WhereInv
<1>2. CASE ~Start
  <2>0. plan' = plan /\ run' = run /\ Work' = Work
    BY <1>2, PlanKept, SamePlan
  <2> USE <2>0
  <2> USE DEF suiteVars, scenVars
  <2>1. ASSUME TransitionStep \/ TransitionError PROVE WhereInv'
    BY <1>0, <2>1, TransitionShape
       DEF WhereInv, TransitionGoesOn, TransitionDone, TransitionRaised, Abort, Goto
  <2>2. CASE RequireFixture
    BY <1>0, <2>2 DEF RequireFixture, WhereInv, Abort, Goto
  <2>3. CASE BuildArchive
    BY <1>0, <2>3 DEF BuildArchive, WhereInv, Goto
  <2>4. CASE PublishArchive
    BY <1>0, <2>4 DEF PublishArchive, WhereInv, Goto
  <2>5. CASE NextStep
    <3>1. pos' = pos + 1 /\ pos \in 0..Len(plan) /\ ip' = 1 /\ pc = "next"
      <4>1. pos' = pos + 1 /\ ip' = 1 /\ pc = "next"
        BY <2>5 DEF NextStep
      <4>2. pos \in 0..(Len(plan) + 1) /\ pos # Len(plan) + 1
        BY <4>1 DEF WhereInv
      <4>3. pos \in 0..Len(plan)
        BY <1>0, <4>2
      <4> QED BY <4>1, <4>3
    <3>5. pos + 1 \in 0..(Len(plan) + 1) /\ run # 0 /\ run \in 0..MaxRuns
      BY <1>0, <3>1 DEF WhereInv
    <3>6. (\/ pc' = "unwind"
           \/ pc' = "moving" /\ pos + 1 \in DOMAIN plan \ Work
           \/ pc' = "prepare" /\ pos + 1 \in Work /\ script' = ScriptOf(Item)')
          => WhereInv'
      BY <1>0, <3>1, <3>5 DEF WhereInv
    <3>7. pos # Len(plan) => pos + 1 \in 1..Len(plan)
      <4>1. Len(plan) \in Nat /\ pos \in 0..Len(plan)
        BY <1>0, <3>1
      <4>2. \A k \in Nat : \A p \in 0..k : p # k => p + 1 \in 1..k
        OBVIOUS
      <4> QED BY <4>1, <4>2
    <3>2. CASE pos = Len(plan)
      BY <2>5, <3>2, <3>6 DEF NextStep, Goto
    <3>3. CASE pos # Len(plan) /\ IsTransition(plan[pos + 1])
      <4>1. pos + 1 \in DOMAIN plan \ Work /\ pc' = "moving"
        <5>1. pos + 1 \in 1..Len(plan)
          BY <3>3, <3>7
        <5>2. pos + 1 \in DOMAIN plan
          BY <1>0, <5>1
        <5> QED BY <2>5, <3>3, <5>2 DEF NextStep, Work, Goto
      <4> QED BY <3>6, <4>1
    <3>4. CASE pos # Len(plan) /\ ~IsTransition(plan[pos + 1])
      <4>3. pos + 1 \in DOMAIN plan
        <5>1. pos + 1 \in 1..Len(plan)
          BY <3>4, <3>7
        <5> QED BY <1>0, <5>1
      <4>1. pos + 1 \in Work /\ pc' = "prepare" /\ script' = ScriptOf(plan[pos + 1])
        BY <2>5, <3>4, <4>3 DEF NextStep, Work, Goto
      <4>2. script' = ScriptOf(Item)'
        BY <3>1, <4>1 DEF Item, ScriptOf, Injects
      <4> QED BY <3>6, <4>1, <4>2
    <3> QED BY <3>2, <3>3, <3>4
  <2> DEFINE Same == pos' = pos /\ script' = script /\ ScriptOf(Item)' = ScriptOf(Item)
  <2>a. ASSUME pos' = pos, script' = script PROVE Same
    BY <2>a DEF Item, ScriptOf, Injects
  <2>6. CASE Prepare
    <3>1. /\ pc = "prepare" /\ ip' = ip /\ pos' = pos /\ script' = script
          /\ pc' \in {"script", "failed"}
      BY <2>6 DEF Prepare, Goto
    <3>2. Len(script) \in Nat
      BY <3>1, ItemIs
    <3> QED BY <1>0, <2>a, <3>1, <3>2 DEF WhereInv
  <2>7. CASE ScriptDone
    <3>1. pc = "script" /\ UNCHANGED <<ip, pos, script>> /\ pc' = "attempt"
      BY <2>7 DEF ScriptDone, Goto
    <3> QED BY <1>0, <2>a, <3>1 DEF WhereInv
  <2>8. CASE Operate
    <3>1. /\ pc = "script" /\ ip <= Len(script) /\ UNCHANGED <<pos, script>>
          /\ \/ pc' = "script" /\ ip' \in {ip + 1, Len(script) + 1}
             \/ pc' = "failed" /\ ip' = ip
      BY <2>8, OperateShape DEF opFrame
    <3>2. Len(script) \in Nat
      BY <3>1, ItemIs
    <3>3. pc' = "script" => ip' \in 1..(Len(script) + 1)
      BY <3>1, <3>2 DEF WhereInv
    <3> QED BY <1>0, <2>a, <3>1, <3>2, <3>3 DEF WhereInv
  <2>9. CASE Fail
    <3>1. pc = "failed" /\ UNCHANGED <<ip, pos, script>> /\ pc' = "attempt"
      BY <2>9 DEF Fail, Goto
    <3> QED BY <1>0, <2>a, <3>1 DEF WhereInv
  <2>10. CASE Sweep
    <3>1. pc \in Cleaning /\ UNCHANGED <<ip, pos, script>> /\ pc' \in Cleaning
      BY <2>10, SweepShape
    <3> QED BY <1>0, <2>a, <3>1 DEF WhereInv
  <2>11. CASE Cleaned
    <3>1. pc = "cleaned" /\ UNCHANGED <<ip, pos, script>> /\ pc' \in {"next", "unwind"}
      BY <2>11 DEF Cleaned, Goto
    <3>2. pos \in Work
      BY <3>1 DEF WhereInv
    <3>3. pos # Len(plan) + 1
      BY <1>0, <3>2 DEF Work
    <3> QED BY <1>0, <2>a, <3>1, <3>3 DEF WhereInv
  <2>12. CASE Unwind
    BY <1>0, <2>12 DEF Unwind, WhereInv, Goto
  <2>13. CASE Interrupt
    <3>1. /\ pc \in {"prepare", "script", "failed"} /\ UNCHANGED <<ip, pos, script>>
          /\ pc' = "attempt"
      BY <2>13 DEF Interrupt, Goto
    <3> QED BY <1>0, <2>a, <3>1 DEF WhereInv
  <2>14. CASE Die
    BY <1>0, <2>14 DEF Die, WhereInv, Goto
  <2>15. CASE Quiet
    <3>1. UNCHANGED <<pc, ip, pos, script>>
      BY <2>15, QuietShape
    <3> QED BY <1>0, <2>a, <3>1 DEF WhereInv
  <2>16. CASE Cut
    <3>1. UNCHANGED <<ip, pos, script>> /\ pc' = "unwind" /\ pc # "off"
      BY <2>16, CutShape
    <3> QED BY <1>0, <2>a, <3>1 DEF WhereInv
  <2> QED
    BY <1>2, <2>1, <2>2, <2>3, <2>4, <2>5, <2>6, <2>7, <2>8, <2>9, <2>10,
       <2>11, <2>12, <2>13, <2>14, <2>15, <2>16, NextCases
<1> QED BY <1>1, <1>2

-----------------------------------------------------------------------------
(* The homes of the worker pool.                                           *)

Fixtures == {"fixture", "archive", "quarantine", "publish"}
Loop == {"next", "moved"} \cup InScenario
Moving == {"preflight", "moving", "restoring"}
Changing == {"scale", "apply", "up", "commit"}

\* The pool and the record are as the suite believes.
Settled == UsesSsh => pool.mode = home /\ (record = "none" <=> home = "separate")

GoalInv ==
    /\ tpc # "idle" <=> pc \in Moving
    /\ pc = "preflight" => tgoal = "preflight"
    /\ pc = "moving" => tgoal = IF plan[pos].transition = "shared"
                                THEN "enter" ELSE "restore"
    /\ pc = "restoring" => tgoal = "restore" /\ primary # "none"
    /\ tpc = "load" => tgoal # "restore"
    /\ tpc = "mark" => tgoal = "enter"
    /\ tpc \in Changing => record # "none" /\ (tmode = "shared" => tgoal = "enter")

BeliefInv ==
    /\ HomeJournaled
    /\ pc \in Prelude => home = "separate"
    /\ pc \in Loop => home = HomeAt(pos)
    /\ pc \in Fixtures \cup Loop => Settled
    /\ pc = "unwind" /\ primary = "none" => home = "separate" /\ Settled

HomeInv == HomeTypeOK /\ home \in Modes /\ GoalInv /\ BeliefInv

\* Most steps leave the pool and what the suite believes of it alone.
LEMMA HomeKept ==
    ASSUME RequireFixture \/ BuildArchive \/ PublishArchive \/ Prepare \/ ScriptDone
           \/ Operate \/ Fail \/ Sweep \/ Cleaned \/ Interrupt,
           failed # {} => primary # "none"
    PROVE  /\ UNCHANGED <<homeVars, home, plan, pos>>
           /\ pc \in Fixtures \cup Loop
           /\ \/ pc' = "off"
              \/ pc' = "unwind" /\ primary' # "none"
              \/ pc \in Fixtures /\ pc' \in Fixtures
              \/ pc \in Fixtures /\ pc' = "next"
              \/ pc \in Loop /\ pc' \in Loop
<1> USE DEF suiteVars, Fixtures, Loop, InScenario, Cleaning, Goto
<1>1. CASE RequireFixture BY <1>1 DEF RequireFixture, Abort
<1>2. CASE BuildArchive BY <1>2 DEF BuildArchive
<1>3. CASE PublishArchive BY <1>3 DEF PublishArchive
<1>4. CASE Prepare BY <1>4 DEF Prepare
<1>5. CASE ScriptDone BY <1>5 DEF ScriptDone
<1>6. CASE Operate BY <1>6, OperateShape DEF opFrame
<1>7. CASE Fail BY <1>7 DEF Fail
<1>8. CASE Sweep BY <1>8, SweepShape
<1>9. CASE Cleaned BY <1>9 DEF Cleaned
<1>10. CASE Interrupt BY <1>10 DEF Interrupt
<1> QED BY <1>1, <1>2, <1>3, <1>4, <1>5, <1>6, <1>7, <1>8, <1>9, <1>10

\* The pool begins separate and ready.
LEMMA HomeInvInit == Init => HomeInv
<1> SUFFICES ASSUME Init PROVE HomeInv
  OBVIOUS
<1>1. HomeTypeOK
  BY DEF Init, HomeInit, HomeTypeOK, Modes
<1> QED
  BY <1>1 DEF Init, HomeInit, HomeInv, GoalInv, BeliefInv, HomeJournaled, Modes,
     Moving, Changing, Prelude, Fixtures, Loop, InScenario, Cleaning

\* Every step keeps what the suite and the record say of the pool.
LEMMA HomeInvNext ==
    PlanInv /\ WhereInv /\ HomeInv /\ (failed # {} => primary # "none") /\ [Next]_vars
    => HomeInv'
<1> SUFFICES ASSUME PlanInv, WhereInv, HomeInv, failed # {} => primary # "none",
                    [Next]_vars
             PROVE  HomeInv'
  OBVIOUS
<1> USE DEF Prelude, Fixtures, Loop, InScenario, Cleaning, Moving, Changing
<1>1. CASE RequireFixture \/ BuildArchive \/ PublishArchive \/ Prepare \/ ScriptDone
           \/ Operate \/ Fail \/ Sweep \/ Cleaned \/ Interrupt
  <2>1. /\ UNCHANGED <<homeVars, home, plan, pos>>
        /\ pc \in Fixtures \cup Loop
        /\ \/ pc' = "off"
           \/ pc' = "unwind" /\ primary' # "none"
           \/ pc \in Fixtures /\ pc' \in Fixtures
           \/ pc \in Fixtures /\ pc' = "next"
           \/ pc \in Loop /\ pc' \in Loop
    BY <1>1, HomeKept
  <2>2. /\ HomeAt(pos)' = HomeAt(pos) /\ (UsesSsh' <=> UsesSsh)
    BY <2>1, SamePlan DEF HomeAt
  <2>3. pc \in Fixtures => HomeAt(pos) = "separate" /\ home = "separate"
    BY HomeIsSeparate DEF WhereInv, HomeInv, BeliefInv
  <2>4. HomeTypeOK' /\ GoalInv'
    BY <2>1 DEF HomeInv, HomeTypeOK, GoalInv, homeVars
  <2>5. BeliefInv'
    BY <2>1, <2>2, <2>3 DEF HomeInv, BeliefInv, HomeJournaled, Settled, homeVars
  <2> QED BY <2>1, <2>4, <2>5 DEF HomeInv
<1>2. CASE Start
  <2>1. /\ home' = "separate" /\ UNCHANGED <<pool, record>> /\ pc = "off"
        /\ \/ /\ pc' = "preflight" /\ tpc' = "load" /\ tgoal' = "preflight"
              /\ tmode' = "separate"
           \/ pc' = "fixture" /\ ~UsesSsh' /\ UNCHANGED homeVars
    BY <1>2, StartShape
  <2>2. HomeTypeOK'
    BY <2>1 DEF HomeInv, HomeTypeOK, homeVars, Goals, Modes
  <2>3. GoalInv'
    BY <2>1 DEF HomeInv, GoalInv, homeVars
  <2>4. BeliefInv'
    BY <2>1 DEF HomeInv, BeliefInv, HomeJournaled, Settled
  <2> QED BY <2>1, <2>2, <2>3, <2>4 DEF HomeInv, Modes
<1>3. CASE Die \/ Cut \/ Quiet
  <2>1. CASE Die
    <3>1. /\ UNCHANGED <<home, pool, record, tmode>> /\ pc' = "off"
          /\ tpc' = "idle" /\ tgoal' = "none"
      BY <2>1 DEF Die, Goto
    <3>2. HomeTypeOK' BY <3>1 DEF HomeInv, HomeTypeOK
    <3>3. GoalInv' BY <3>1 DEF HomeInv, GoalInv
    <3>4. BeliefInv' BY <3>1 DEF HomeInv, BeliefInv, HomeJournaled
    <3> QED BY <3>1, <3>2, <3>3, <3>4 DEF HomeInv
  <2>2. CASE Quiet
    <3>1. /\ UNCHANGED <<home, plan, pos, pc, primary, record, tpc, tgoal, tmode>>
          /\ pool' \in {pool, [pool EXCEPT !.ready = FALSE]}
      BY <2>2, QuietShape DEF suiteVars
    <3>2. HomeTypeOK' /\ pool'.mode = pool.mode
      BY <3>1 DEF HomeInv, HomeTypeOK
    <3>3. /\ HomeAt(pos)' = HomeAt(pos) /\ (UsesSsh' <=> UsesSsh)
      BY <3>1, SamePlan DEF HomeAt
    <3>4. GoalInv' BY <3>1 DEF HomeInv, GoalInv
    <3>5. BeliefInv' BY <3>1, <3>2, <3>3 DEF HomeInv, BeliefInv, HomeJournaled, Settled
    <3> QED BY <3>1, <3>2, <3>4, <3>5 DEF HomeInv
  <2>3. CASE Cut
    <3>1. /\ UNCHANGED <<home, pool, record, tmode>> /\ pc' = "unwind"
          /\ primary' = "interrupt"
          /\ \/ UNCHANGED homeVars /\ pc \in Cleaning
             \/ tpc' = "idle" /\ tgoal' = "none"
      BY <2>3, CutShape
    <3>2. tpc' = "idle"
      BY <3>1 DEF HomeInv, GoalInv, homeVars
    <3>3. HomeTypeOK' BY <3>1 DEF HomeInv, HomeTypeOK, homeVars
    <3>4. GoalInv' BY <3>1, <3>2 DEF HomeInv, GoalInv
    <3>5. BeliefInv' BY <3>1 DEF HomeInv, BeliefInv, HomeJournaled
    <3> QED BY <3>1, <3>3, <3>4, <3>5 DEF HomeInv
  <2> QED BY <1>3, <2>1, <2>2, <2>3
<1>4. CASE NextStep
  <2>1. /\ pc = "next" /\ pos' = pos + 1 /\ UNCHANGED <<plan, home, primary, pool, record>>
        /\ pos \in Nat /\ tpc = "idle" /\ Settled /\ home = HomeAt(pos)
    BY <1>4 DEF NextStep, Begin, homeVars, HomeInv, GoalInv, BeliefInv, WhereInv
  <2>2. (UsesSsh' <=> UsesSsh) /\ HomeAt(pos)' = HomeAt(pos + 1)
    BY <2>1, SamePlan DEF HomeAt
  <2>3. HomeTypeOK' /\ HomeJournaled' /\ Settled'
    <3>1. HomeTypeOK'
      BY <1>4 DEF NextStep, Begin, HomeInv, HomeTypeOK, homeVars, Goals, Modes
    <3> QED BY <2>1, <2>2, <3>1 DEF HomeJournaled, Settled, HomeInv, BeliefInv
  <2>4. CASE pos = Len(plan)
    <3>1. pc' = "unwind" /\ UNCHANGED homeVars
      BY <1>4, <2>4 DEF NextStep, Goto
    <3>2. home = "separate"
      BY <2>1, <2>4 DEF PlanInv, PlanFacts
    <3>3. GoalInv'
      BY <2>1, <3>1 DEF GoalInv, homeVars
    <3>4. BeliefInv'
      BY <2>1, <2>3, <3>1, <3>2 DEF BeliefInv
    <3> QED BY <2>1, <2>3, <3>3, <3>4 DEF HomeInv
  <2>5. CASE pos # Len(plan) /\ IsTransition(plan[pos + 1])
    <3>1. /\ pc' = "moving" /\ UNCHANGED <<pool, record>> /\ tmode' = "separate"
          /\ tgoal' = IF plan[pos + 1].transition = "shared" THEN "enter" ELSE "restore"
          /\ tpc' = IF tgoal' = "restore" THEN "save" ELSE "load"
      BY <1>4, <2>5 DEF NextStep, Begin, Goto
    <3>3. GoalInv'
      BY <2>1, <3>1 DEF GoalInv
    <3>4. BeliefInv'
      BY <2>1, <2>3, <3>1 DEF BeliefInv
    <3> QED BY <2>1, <2>3, <3>3, <3>4 DEF HomeInv
  <2>6. CASE pos # Len(plan) /\ ~IsTransition(plan[pos + 1])
    <3>1. pc' = "prepare" /\ UNCHANGED homeVars
      BY <1>4, <2>6 DEF NextStep, Goto
    <3>2. HomeAt(pos + 1) = HomeAt(pos)
      BY <2>1, <2>6, HomeMoves
    <3>3. GoalInv'
      BY <2>1, <3>1 DEF GoalInv, homeVars
    <3>4. BeliefInv'
      BY <2>1, <2>2, <2>3, <3>1, <3>2 DEF BeliefInv
    <3> QED BY <2>1, <2>3, <3>3, <3>4 DEF HomeInv
  <2> QED BY <2>4, <2>5, <2>6
<1>5. CASE Unwind
  <2>1. pc = "unwind" /\ UNCHANGED <<plan, home, primary, pool, record>>
    BY <1>5 DEF Unwind, Begin, homeVars
  <2>2. HomeTypeOK' /\ HomeJournaled'
    <3>1. HomeTypeOK'
      BY <1>5 DEF Unwind, Begin, HomeInv, HomeTypeOK, homeVars, Goals, Modes
    <3> QED BY <2>1, <3>1 DEF HomeJournaled, HomeInv, BeliefInv
  <2>3. CASE home = "shared"
    <3>1. /\ pc' = "restoring" /\ tgoal' = "restore" /\ tpc' = "save" /\ tmode' = "separate"
      BY <1>5, <2>3 DEF Unwind, Begin, Goto
    <3>2. primary # "none"
      BY <2>1, <2>3 DEF HomeInv, BeliefInv
    <3> QED BY <2>1, <2>2, <3>1, <3>2 DEF HomeInv, GoalInv, BeliefInv
  <2>4. CASE home # "shared"
    <3>1. pc' = "off" /\ UNCHANGED homeVars
      BY <1>5, <2>4 DEF Unwind, Goto
    <3> QED BY <2>1, <2>2, <3>1 DEF HomeInv, GoalInv, BeliefInv, homeVars
  <2> QED BY <2>3, <2>4
<1>6. CASE (TransitionStep \/ TransitionError) /\ TransitionGoesOn /\ tpc' # "idle"
  <2>1. /\ pc \in Moving /\ UNCHANGED <<pc, home, primary, plan, pos>>
        /\ tpc # "idle"
    BY <1>6, TransitionShape DEF TransitionGoesOn
  <2>2. \/ SaveRestoring \/ MarkShared \/ ScaleDown \/ ApplyManifest \/ ScaleUp
        \/ /\ tpc = "load" /\ UNCHANGED <<pool, record, tmode, tgoal>>
           /\ tpc' = "mark" => tgoal # "preflight"
           /\ tpc' \in {"mark", "save"}
        \/ /\ tpc = "commit" /\ Matches(tmode) /\ tgoal = "enter" /\ tmode = "separate"
           /\ record' = "none" /\ tpc' = "mark" /\ UNCHANGED <<pool, tgoal, tmode>>
    BY <1>6 DEF TransitionStep, TransitionError, TransitionFails, Preflight, CommitOk
  <2>3. HomeTypeOK /\ GoalInv /\ HomeJournaled
    BY DEF HomeInv, BeliefInv
  <2>4. HomeTypeOK' /\ GoalInv' /\ HomeJournaled'
    <3> USE <2>1, <2>3 DEF HomeTypeOK, GoalInv, HomeJournaled, Modes, Phases, Goals
    <3>1. CASE SaveRestoring BY <3>1 DEF SaveRestoring
    <3>2. CASE MarkShared BY <3>2 DEF MarkShared
    <3>3. CASE ScaleDown BY <3>3 DEF ScaleDown
    <3>4. CASE ApplyManifest BY <3>4 DEF ApplyManifest
    <3>5. CASE ScaleUp BY <3>5 DEF ScaleUp
    <3>6. CASE /\ tpc = "load" /\ UNCHANGED <<pool, record, tmode, tgoal>>
               /\ tpc' = "mark" => tgoal # "preflight"
               /\ tpc' \in {"mark", "save"}
      BY <3>6
    <3>7. CASE /\ tpc = "commit" /\ Matches(tmode) /\ tgoal = "enter" /\ tmode = "separate"
               /\ record' = "none" /\ tpc' = "mark" /\ UNCHANGED <<pool, tgoal, tmode>>
      BY <3>7 DEF Matches
    <3> QED BY <2>2, <3>1, <3>2, <3>3, <3>4, <3>5, <3>6, <3>7
  <2>5. BeliefInv'
    BY <2>1, <2>4 DEF BeliefInv, HomeInv
  <2> QED BY <2>1, <2>4, <2>5 DEF HomeInv
<1>7. CASE TransitionStep /\ TransitionDone /\ tpc' = "idle"
  <2>1. /\ pc \in Moving /\ UNCHANGED <<primary, plan, pos>>
        /\ home' = IF pc = "moving" THEN plan[pos].transition ELSE home
        /\ pc' = IF pc = "preflight" THEN "fixture"
                  ELSE IF pc = "moving" THEN "moved" ELSE "off"
    BY <1>7, TransitionShape DEF TransitionDone, Goto
  <2>2. /\ UNCHANGED <<pool, tgoal, tmode>>
        /\ \/ /\ record = "none" /\ pool.mode = "separate" /\ tgoal = "preflight"
              /\ UNCHANGED record
           \/ /\ tpc = "commit" /\ pool.mode = tmode /\ ~(tgoal = "enter" /\ tmode = "separate")
              /\ record' = IF tmode = "separate" THEN "none" ELSE "shared-ready"
    <3> USE DEF Matches
    <3>1. CASE Preflight(TransitionDone, TransitionGoesOn)
      BY <1>7, <3>1 DEF Preflight
    <3>2. CASE CommitOk(TransitionDone, TransitionGoesOn)
      BY <1>7, <3>2 DEF CommitOk
    <3> QED
      BY <1>7, <3>1, <3>2
         DEF TransitionStep, SaveRestoring, MarkShared, ScaleDown, ApplyManifest, ScaleUp
  <2>3. HomeTypeOK /\ GoalInv /\ HomeJournaled
    BY DEF HomeInv, BeliefInv
  <2>4. HomeTypeOK' /\ GoalInv' /\ HomeJournaled'
    BY <1>7, <2>1, <2>2, <2>3 DEF HomeTypeOK, GoalInv, HomeJournaled, Modes, Phases
  <2>5. pc = "moving" => /\ pos \in DOMAIN plan \ Work /\ plan[pos].transition \in Modes
                         /\ HomeAt(pos) = plan[pos].transition
    <3>1. pc = "moving" => pos \in DOMAIN plan \ Work /\ pos \in 1..Len(plan) /\ Len(plan) \in Nat
      BY DEF WhereInv, PlanInv, PlanFacts
    <3>2. pc = "moving" => pos \in Nat /\ pos \in 1..pos /\ IsTransition(plan[pos])
                           /\ \A k \in pos + 1..pos : ~IsTransition(plan[k])
      BY <3>1 DEF Work
    <3> QED BY <3>1, <3>2, HomeIs DEF PlanInv, PlanFacts
  <2>6. home' \in Modes
    BY <2>1, <2>5 DEF HomeInv
  <2>7. /\ HomeAt(pos)' = HomeAt(pos) /\ (UsesSsh' <=> UsesSsh)
    BY <2>1, SamePlan DEF HomeAt
  <2>8. tmode \in {"separate", "shared"}
    BY <2>3 DEF HomeTypeOK, Modes
  <2>9. pc # "restoring" => pool'.mode = home' /\ (record' = "none" <=> home' = "separate")
    <3>1. CASE pc = "preflight"
      BY <2>1, <2>2, <2>3, <2>8, <3>1 DEF GoalInv, HomeInv, BeliefInv
    <3>2. CASE pc = "moving"
      BY <2>1, <2>2, <2>3, <2>5, <2>8, <3>2 DEF GoalInv, Modes
    <3> QED BY <2>1, <3>1, <3>2
  <2>10. BeliefInv'
    BY <2>1, <2>4, <2>5, <2>7, <2>9 DEF BeliefInv, HomeInv, Settled
  <2> QED BY <2>4, <2>6, <2>10 DEF HomeInv
<1>8. CASE TransitionError /\ TransitionRaised /\ tpc' = "idle"
  <2>1. /\ UNCHANGED <<pool, tgoal, tmode, home, plan, pos>> /\ record' = "unhealthy"
        /\ pc' = "off" \/ (pc' = "unwind" /\ primary' # "none")
    <3>1. UNCHANGED <<plan, pos>> /\ pc \in Moving
      BY <1>8, TransitionShape
    <3>2. UNCHANGED <<pool, tgoal, tmode, home>> /\ record' = "unhealthy"
      BY <1>8 DEF TransitionError, TransitionFails, TransitionRaised
    <3> QED BY <1>8, <3>1, <3>2, RaisedShape
  <2>2. HomeTypeOK' /\ GoalInv'
    BY <1>8, <2>1 DEF HomeInv, HomeTypeOK, GoalInv, Phases
  <2>3. BeliefInv'
    BY <2>1 DEF HomeInv, BeliefInv, HomeJournaled
  <2> QED BY <2>1, <2>2, <2>3 DEF HomeInv
<1> QED BY <1>1, <1>2, <1>3, <1>4, <1>5, <1>6, <1>7, <1>8, NextCases, TransitionEnds

\* PlanSound, HomeAsDeclared and PreflightRecovers of HomesSound.
LEMMA HomesHold == PlanInv /\ WhereInv /\ HomeInv => HomesSound
<1> SUFFICES ASSUME PlanInv, WhereInv, HomeInv PROVE HomesSound
  OBVIOUS
<1> USE DEF Fixtures, Loop, Prelude, InScenario, Cleaning
<1>1. PlanSound
  <2>1. pc = "next" => Follows
    BY DEF PlanInv
  <2> QED BY <2>1 DEF PlanSound, PlanInv, PlanFacts, Follows
<1>2. HomeJournaled
  BY DEF HomeInv, BeliefInv
<1>3. HomeAsDeclared
  <2> SUFFICES ASSUME pc = "script", Item.substrate = "ssh"
               PROVE  pool.mode = Item.scenario.home
    BY DEF HomeAsDeclared
  <2>1. pos \in Work /\ UsesSsh
    BY DEF WhereInv, UsesSsh, Item
  <2>2. pool.mode = HomeAt(pos)
    BY <2>1 DEF HomeInv, BeliefInv, Settled
  <2> QED BY <2>1, <2>2 DEF PlanInv, PlanFacts, Item
<1>4. PreflightRecovers
  BY DEF PreflightRecovers, HomeInv, BeliefInv, Settled
<1> QED BY <1>1, <1>2, <1>3, <1>4 DEF HomesSound

-----------------------------------------------------------------------------
(* The verdict of a run.                                                   *)

\* What ends a suite in which a scenario has failed.
Blamed == {"scenario", "interrupt", "unrestored"}
Unblamed == Prelude \cup {"next", "moving", "moved", "prepare", "script", "failed"}
Behind(n) == {i \in Work : i < n}

VerdictInv ==
    /\ failed # {} => primary \in Blamed
    /\ pc \in Cleaning => failed \subseteq {pos}
    /\ passed \subseteq Work /\ failed \subseteq Work
    /\ pc \in Unblamed => primary = "none"
    /\ pc \in Prelude => passed = {}
    /\ pc \in {"next", "moving", "moved"} => passed = Behind(pos + 1)
    /\ pc \in InScenario => passed = Behind(pos)
    /\ pc = "unwind" /\ primary = "none" => passed = Work
    /\ pc # "off" => exit = "none"
    /\ ExitZeroMeansAll

\* The items behind the run grow by the one it leaves.
LEMMA BehindFacts ==
    ASSUME PlanInv
    PROVE  /\ Behind(1) = {} /\ Behind(Len(plan) + 1) = Work
           /\ \A n \in Nat : n \notin Work => Behind(n + 1) = Behind(n)
           /\ \A n \in Nat : n \in Work => Behind(n + 1) = Behind(n) \cup {n}
           /\ Work \subseteq 1..Len(plan) /\ Len(plan) \in Nat
<1>1. Work \subseteq 1..Len(plan) /\ Len(plan) \in Nat
  BY DEF PlanInv, PlanFacts, Work
<1>2. Behind(1) = {} /\ Behind(Len(plan) + 1) = Work
  <2> DEFINE k == Len(plan)
  <2>0. k \in Nat /\ Work \subseteq 1..k
    BY <1>1
  <2> HIDE DEF k
  <2>1. \A i \in Work : ~(i < 1) /\ i < k + 1
    BY <2>0
  <2> QED BY <2>1 DEF Behind, k
<1>3. ASSUME NEW n \in Nat
      PROVE  Behind(n + 1) = {i \in Work : i <= n}
  <2>1. \A i \in Work : i \in Nat
    BY <1>1
  <2>2. \A i \in Nat : i < n + 1 <=> i <= n
    OBVIOUS
  <2> QED BY <2>1, <2>2 DEF Behind
<1>4. \A n \in Nat : n \notin Work => Behind(n + 1) = Behind(n)
  <2> SUFFICES ASSUME NEW n \in Nat, n \notin Work PROVE Behind(n + 1) = Behind(n)
    OBVIOUS
  <2>1. \A i \in Work : i <= n <=> i < n
    BY <1>1
  <2> QED BY <1>3, <2>1 DEF Behind
<1>5. \A n \in Nat : n \in Work => Behind(n + 1) = Behind(n) \cup {n}
  <2> SUFFICES ASSUME NEW n \in Nat, n \in Work PROVE Behind(n + 1) = Behind(n) \cup {n}
    OBVIOUS
  <2>1. \A i \in Work : i <= n <=> i < n \/ i = n
    BY <1>1
  <2>2. n <= n
    OBVIOUS
  <2> QED BY <1>3, <2>1, <2>2 DEF Behind
<1> QED BY <1>1, <1>2, <1>4, <1>5

\* Nothing is recorded before the first run.
LEMMA VerdictInit == Init => VerdictInv
<1> SUFFICES ASSUME Init PROVE VerdictInv
  OBVIOUS
<1>1. Work = {}
  BY DEF Init, Work
<1> QED
  BY <1>1 DEF Init, VerdictInv, Unblamed, Prelude, InScenario, Cleaning, ExitZeroMeansAll

\* Every step keeps the verdict.
LEMMA VerdictNext ==
    PlanInv /\ WhereInv /\ HomeInv /\ VerdictInv /\ [Next]_vars => VerdictInv'
<1> SUFFICES ASSUME PlanInv, WhereInv, HomeInv, VerdictInv, [Next]_vars PROVE VerdictInv'
  OBVIOUS
<1> USE DEF Prelude, Unblamed, Blamed, InScenario, Cleaning
<1>1. CASE Start
  <2>1. /\ pc' \in {"preflight", "fixture"} /\ primary' = "none" /\ passed' = {}
        /\ failed' = {} /\ exit' = "none"
    BY <1>1, StartShape
  <2> QED BY <2>1 DEF VerdictInv, ExitZeroMeansAll
<1>2. CASE ~Start
  <2>0. plan' = plan /\ Work' = Work /\ (UsesSsh' <=> UsesSsh)
        /\ \A n : Behind(n)' = Behind(n)
    BY <1>2, PlanKept, SamePlan DEF Behind
  <2>00. /\ pos' = pos => Behind(pos)' = Behind(pos) /\ Behind(pos + 1)' = Behind(pos + 1)
         /\ pos' = pos + 1 => Behind(pos)' = Behind(pos + 1)
                              /\ Behind(pos + 1)' = Behind(pos + 1 + 1)
    BY <2>0 DEF Behind
  <2> USE DEF suiteVars
  <2>1. CASE TransitionStep \/ TransitionError
    <3>1. /\ pc \in {"preflight", "moving", "restoring"} /\ exit = "none"
          /\ UNCHANGED <<pos, passed, failed>>
      BY <2>1, TransitionShape DEF VerdictInv
    <3>2. CASE TransitionGoesOn
      BY <2>0, <2>00, <3>1, <3>2 DEF TransitionGoesOn, VerdictInv, ExitZeroMeansAll
    <3>3. CASE TransitionDone
      <4>1. /\ UNCHANGED primary
            /\ pc' = IF pc = "preflight" THEN "fixture"
                     ELSE IF pc = "moving" THEN "moved" ELSE "off"
            /\ exit' = IF pc = "restoring"
                       THEN IF primary = "none" THEN "passed" ELSE "failed" ELSE exit
        BY <3>1, <3>3 DEF TransitionDone, Goto
      <4>2. exit' # "passed"
        BY <3>1, <4>1 DEF HomeInv, GoalInv
      <4>3. pc' # "off" => exit' = "none"
        BY <3>1, <4>1
      <4> QED BY <2>0, <2>00, <3>1, <4>1, <4>2, <4>3 DEF VerdictInv, ExitZeroMeansAll
    <3>4. CASE TransitionRaised
      <4>1. \/ /\ pc = "preflight" /\ primary' = "transition" /\ pc' = "off"
               /\ exit' = "failed"
            \/ /\ pc = "moving" /\ pc' = "unwind" /\ UNCHANGED exit
               /\ primary' = IF primary = "none" THEN "transition" ELSE primary
            \/ /\ pc = "restoring" /\ pc' = "off" /\ exit' = "failed"
               /\ primary \in Blamed => primary' \in Blamed
        BY <3>1, <3>4, RaisedShape DEF Blamed
      <4>2. failed' # {} => primary' \in Blamed
        BY <3>1, <4>1 DEF VerdictInv, Blamed
      <4> QED BY <2>0, <3>1, <4>1, <4>2 DEF VerdictInv, ExitZeroMeansAll
    <3> QED BY <2>1, <3>2, <3>3, <3>4, TransitionShape
  <2>2. CASE RequireFixture
    <3>1. /\ pc \in {"fixture", "moved"} /\ UNCHANGED <<pos, passed, failed>>
          /\ \/ /\ pc' = IF pc = "fixture" THEN "archive" ELSE "next"
                /\ UNCHANGED <<primary, exit>>
             \/ pc = "fixture" /\ pc' = "off" /\ primary' = "fixture" /\ exit' = "failed"
             \/ pc = "moved" /\ pc' = "unwind" /\ UNCHANGED exit
                /\ primary' = IF primary = "none" THEN "fixture" ELSE primary
      BY <2>2 DEF RequireFixture, Abort, Goto
    <3>2. failed = {} /\ primary = "none"
      BY <3>1 DEF VerdictInv
    <3> QED BY <2>0, <2>00, <3>1, <3>2 DEF VerdictInv, ExitZeroMeansAll
  <2>3. CASE BuildArchive
    <3>1. /\ pc = "archive" /\ UNCHANGED <<pos, passed, failed>>
          /\ \/ pc' \in {"next", "quarantine"} /\ UNCHANGED <<primary, exit>>
             \/ pc' = "off" /\ primary' = "fixture" /\ exit' = "failed"
      BY <2>3 DEF BuildArchive, Goto
    <3>2. failed = {} /\ primary = "none" /\ pos = 0
      BY <3>1 DEF VerdictInv, WhereInv
    <3>3. Behind(pos + 1)' = {}
      BY <2>00, <3>1, <3>2, BehindFacts
    <3> QED BY <2>0, <3>1, <3>2, <3>3 DEF VerdictInv, ExitZeroMeansAll
  <2>4. CASE PublishArchive
    <3>1. /\ pc \in {"quarantine", "publish"} /\ UNCHANGED <<pos, passed, failed, primary, exit>>
          /\ pc' \in {"publish", "next"}
      BY <2>4 DEF PublishArchive, Goto
    <3>2. pos = 0
      BY <3>1 DEF WhereInv
    <3>3. Behind(pos + 1)' = {}
      BY <2>00, <3>1, <3>2, BehindFacts
    <3> QED BY <2>0, <3>1, <3>2, <3>3 DEF VerdictInv, ExitZeroMeansAll
  <2>5. CASE NextStep
    <3>1. /\ pc = "next" /\ pos' = pos + 1 /\ UNCHANGED <<passed, failed, primary, exit>>
          /\ pc' \in {"unwind", "moving", "prepare"}
          /\ pc' = "unwind" => pos = Len(plan)
      BY <2>5 DEF NextStep, Goto
    <3>2. /\ WhereInv' /\ pos + 1 \in Nat
      BY <3>1, WhereNext DEF WhereInv
    <3>3. pc' = "moving" => Behind(pos + 1)' = Behind(pos + 1)
      <4>1. pc' = "moving" => pos + 1 \notin Work
        BY <2>0, <3>1, <3>2 DEF WhereInv
      <4> QED BY <2>00, <3>1, <3>2, <4>1, BehindFacts
    <3>4. pc' = "unwind" => passed = Work
      BY <3>1, BehindFacts DEF VerdictInv
    <3> QED BY <2>0, <2>00, <3>1, <3>3, <3>4 DEF VerdictInv, ExitZeroMeansAll
  <2>6. CASE Prepare
    <3>1. /\ pc = "prepare" /\ UNCHANGED <<pos, passed, failed, primary, exit>>
          /\ pc' \in {"script", "failed"}
      BY <2>6 DEF Prepare, Goto
    <3> QED BY <2>0, <2>00, <3>1 DEF VerdictInv, ExitZeroMeansAll
  <2>7. CASE ScriptDone
    <3>1. /\ pc = "script" /\ UNCHANGED <<pos, passed, failed, primary, exit>>
          /\ pc' = "attempt"
      BY <2>7 DEF ScriptDone, Goto
    <3> QED BY <2>0, <2>00, <3>1 DEF VerdictInv, ExitZeroMeansAll
  <2>8. CASE Operate
    <3>1. /\ pc = "script" /\ UNCHANGED <<pos, passed, failed, primary, exit>>
          /\ pc' \in {"script", "failed"}
      BY <2>8, OperateShape DEF opFrame
    <3> QED BY <2>0, <2>00, <3>1 DEF VerdictInv, ExitZeroMeansAll
  <2>9. CASE Fail
    <3>1. /\ pc = "failed" /\ UNCHANGED <<pos, passed, exit>>
          /\ failed' = failed \cup {pos} /\ primary' = "scenario"
          /\ pc' = "attempt"
      BY <2>9 DEF Fail, Goto
    <3>2. pos \in Work /\ failed = {}
      BY <3>1 DEF WhereInv, VerdictInv
    <3> QED BY <2>0, <2>00, <3>1, <3>2 DEF VerdictInv, ExitZeroMeansAll
  <2>10. CASE Sweep
    <3>1. /\ pc \in Cleaning /\ UNCHANGED <<pos, passed, failed, primary, exit>>
          /\ pc' \in Cleaning
      BY <2>10, SweepShape
    <3> QED BY <2>0, <2>00, <3>1 DEF VerdictInv, ExitZeroMeansAll
  <2>11. CASE Cleaned
    <3>1. pc = "cleaned" /\ UNCHANGED <<pos, failed, exit>>
      BY <2>11 DEF Cleaned
    <3>2. pos \in Work /\ pos \in Nat
      BY <3>1 DEF WhereInv
    <3>3. CASE cerr \/ primary # "none"
      <4>1. /\ pc' = "unwind" /\ UNCHANGED passed
            /\ primary' = IF cerr /\ pos \notin failed THEN "cleanup" ELSE primary
        BY <2>11, <3>3 DEF Cleaned, Goto
      <4>2. failed # {} => pos \in failed
        BY <3>1 DEF VerdictInv
      <4>3. primary' # "none" /\ (failed' # {} => primary' \in Blamed)
        BY <3>1, <3>3, <4>1, <4>2 DEF VerdictInv
      <4> QED BY <2>0, <3>1, <4>1, <4>3 DEF VerdictInv, ExitZeroMeansAll
    <3>4. CASE ~cerr /\ primary = "none"
      <4>1. pc' = "next" /\ passed' = passed \cup {pos} /\ UNCHANGED primary
        BY <2>11, <3>4 DEF Cleaned, Goto
      <4>2. passed' = Behind(pos + 1)
        BY <3>1, <3>2, <4>1, BehindFacts DEF VerdictInv
      <4> QED BY <2>0, <2>00, <3>1, <3>2, <3>4, <4>1, <4>2 DEF VerdictInv, ExitZeroMeansAll
    <3> QED BY <3>3, <3>4
  <2>12. CASE Unwind
    <3>1. /\ pc = "unwind" /\ UNCHANGED <<pos, home, passed, failed, primary>>
      BY <2>12 DEF Unwind
    <3>2. CASE home = "shared"
      BY <2>0, <2>12, <3>1, <3>2 DEF Unwind, Goto, VerdictInv, ExitZeroMeansAll
    <3>3. CASE home # "shared"
      <4>1. /\ pc' = "off" /\ UNCHANGED homeVars
            /\ exit' = IF primary = "none" THEN "passed" ELSE "failed"
        BY <2>12, <3>3 DEF Unwind, Goto
      <4>2. exit' = "passed" => passed = Work /\ failed = {}
        BY <3>1, <4>1 DEF VerdictInv
      <4>3. exit' = "passed" /\ UsesSsh => record' = "none" /\ pool'.mode = "separate"
        BY <3>1, <4>1 DEF HomeInv, BeliefInv, Settled, homeVars
      <4> QED BY <2>0, <3>1, <4>1, <4>2, <4>3 DEF VerdictInv, ExitZeroMeansAll
    <3> QED BY <3>2, <3>3
  <2>13. CASE Interrupt
    <3>1. /\ pc \in {"prepare", "script", "failed"} /\ UNCHANGED <<pos, passed, exit>>
          /\ failed' \in {failed, failed \cup {pos}}
          /\ primary' = "interrupt" /\ pc' = "attempt"
      BY <2>13 DEF Interrupt, Goto
    <3>2. failed = {} /\ pos \in Work
      BY <3>1 DEF VerdictInv, WhereInv
    <3> QED BY <2>0, <2>00, <3>1, <3>2 DEF VerdictInv, ExitZeroMeansAll
  <2>14. CASE Die
    <3>1. UNCHANGED <<primary, passed, failed>> /\ pc' = "off" /\ exit' = "died"
      BY <2>14 DEF Die, Goto
    <3> QED BY <2>0, <3>1 DEF VerdictInv, ExitZeroMeansAll
  <2>15. CASE Quiet
    <3>1. /\ UNCHANGED <<pc, pos, primary, passed, failed, exit, record>>
          /\ pool' \in {pool, [pool EXCEPT !.ready = FALSE]}
      BY <2>15, QuietShape
    <3>2. pool'.mode = pool.mode
      BY <3>1 DEF HomeInv, HomeTypeOK
    <3> QED BY <2>0, <2>00, <3>1, <3>2 DEF VerdictInv, ExitZeroMeansAll
  <2>16. CASE Cut
    <3>1. /\ UNCHANGED <<pos, passed, failed, exit>>
          /\ primary' = "interrupt" /\ pc' = "unwind" /\ pc # "off"
      BY <2>16, CutShape
    <3> QED BY <2>0, <3>1 DEF VerdictInv, ExitZeroMeansAll
  <2> QED
    BY <1>2, <2>1, <2>2, <2>3, <2>4, <2>5, <2>6, <2>7, <2>8, <2>9, <2>10,
       <2>11, <2>12, <2>13, <2>14, <2>15, <2>16, NextCases
<1> QED BY <1>1, <1>2

-----------------------------------------------------------------------------
(* The archive, the injection and what the scenario leaves.                *)

ArchiveInv ==
    /\ source \in Sources /\ snap \in Sources
    /\ cache \in [Sources -> {"none", "good", "bad"}]
    /\ pc \in {"next", "moving", "moved"} \cup InScenario => cache[snap] = "good"

\* No archive is in use before the first run.
LEMMA ArchiveInit == Init => ArchiveInv
  BY DEF Init, ArchiveInv, InScenario, Cleaning

\* Every step keeps the archive in use valid.
LEMMA ArchiveNext == WhereInv /\ ArchiveInv /\ [Next]_vars => ArchiveInv'
<1> SUFFICES ASSUME WhereInv, ArchiveInv, [Next]_vars PROVE ArchiveInv'
  OBVIOUS
<1> USE DEF InScenario, Cleaning
<1>1. CASE BuildArchive
  BY <1>1 DEF BuildArchive, CacheHit, Goto, ArchiveInv
<1>2. CASE PublishArchive
  BY <1>2 DEF PublishArchive, Goto, ArchiveInv
<1>3. CASE Quiet
  <2>1. CASE Edit
    BY <2>1 DEF Edit, ArchiveInv
  <2>2. CASE ~Edit
    <3>1. UNCHANGED <<cacheVars, pc>>
      BY <1>3, <2>2 DEF Quiet, AttemptEnds, LosePod, vars
    <3> QED BY <3>1 DEF ArchiveInv, cacheVars
  <2> QED BY <2>1, <2>2
<1>4. CASE ~BuildArchive /\ ~PublishArchive /\ ~Quiet
  <2>1. UNCHANGED cacheVars
    <3>1. CASE TransitionStep \/ TransitionError BY <3>1, TransitionShape
    <3>2. CASE Operate BY <3>2, OperateShape DEF opFrame
    <3>3. CASE Sweep BY <3>3, SweepShape
    <3>4. CASE Cut BY <3>4, CutShape
    <3> QED
      BY <1>4, <3>1, <3>2, <3>3, <3>4, NextCases
         DEF RequireFixture, NextStep, Prepare, ScriptDone, Fail, Cleaned, Unwind,
             Start, Interrupt, Die
  <2>2. pc' \in {"next", "moving", "moved"} \cup InScenario
        => pc \in {"next", "moving", "moved"} \cup InScenario
    <3>1. CASE TransitionStep \/ TransitionError
      BY <3>1, TransitionShape, RaisedShape DEF TransitionGoesOn, TransitionDone, Goto
    <3>2. CASE Operate BY <3>2, OperateShape
    <3>3. CASE Sweep BY <3>3, SweepShape
    <3>4. CASE Start BY <3>4, StartShape
    <3>5. CASE Cut BY <3>5, CutShape
    <3> QED
      BY <1>4, <3>1, <3>2, <3>3, <3>4, <3>5, NextCases
         DEF RequireFixture, NextStep, Prepare, ScriptDone, Fail, Cleaned, Unwind,
             Interrupt, Die, Goto, Abort
  <2> QED BY <2>1, <2>2 DEF ArchiveInv, cacheVars
<1> QED BY <1>1, <1>2, <1>3, <1>4

\* The marker and the failures injected go together, and a scenario that has
\* run its target cell again has had its failure.
MarkerInv ==
    /\ marker \in BOOLEAN /\ injected = IF marker THEN 1 ELSE 0
    /\ pc = "script" /\ Injects(Item) /\ ip > 4 => marker
    /\ pc \in Cleaning /\ primary = "none" /\ Injects(Item) => marker
    /\ pc = "next" /\ pos \in Work /\ Injects(Item) => marker

\* There is no marker before the first run.
LEMMA MarkerInit == Init => MarkerInv
  BY DEF Init, MarkerInv, Cleaning

\* The item at hand changes only with the plan and the place.
LEMMA SameItem ==
    ASSUME plan' = plan, pos' = pos
    PROVE  Item' = Item /\ (Injects(Item)' <=> Injects(Item))
  BY DEF Item, Injects

\* Every step keeps the marker and the count together.
LEMMA MarkerNext ==
    PlanInv /\ WhereInv /\ VerdictInv /\ MarkerInv /\ [Next]_vars => MarkerInv'
<1> SUFFICES ASSUME PlanInv, WhereInv, VerdictInv, MarkerInv, [Next]_vars PROVE MarkerInv'
  OBVIOUS
<1> USE DEF Cleaning
<1>1. CASE Start
  <2>1. pc' \in {"preflight", "fixture"} /\ marker' = FALSE /\ injected' = 0
    BY <1>1, StartShape
  <2> QED BY <2>1 DEF MarkerInv
<1>2. CASE ~Start
  <2>0. plan' = plan /\ Work' = Work
    BY <1>2, PlanKept, SamePlan
  <2>i. pos' = pos => Item' = Item /\ (Injects(Item)' <=> Injects(Item))
    BY <2>0, SameItem
  <2> USE DEF suiteVars, scenVars
  <2>1. CASE TransitionStep \/ TransitionError
    <3>1. UNCHANGED <<marker, injected>> /\ pc' \in {pc, "fixture", "moved", "off", "unwind"}
          /\ pc \in {"preflight", "moving", "restoring"}
      BY <2>1, TransitionShape, RaisedShape DEF TransitionGoesOn, TransitionDone, Goto
    <3> QED BY <3>1 DEF MarkerInv
  <2>2. CASE RequireFixture
    <3>1. /\ pc \in {"fixture", "moved"} /\ UNCHANGED <<marker, injected, pos>>
          /\ pc' \in {"archive", "next", "off", "unwind"}
          /\ pc' = "next" => pc = "moved"
      BY <2>2 DEF RequireFixture, Abort, Goto
    <3>2. pc' = "next" => pos \notin Work
      BY <3>1 DEF WhereInv
    <3> QED BY <2>0, <3>1, <3>2 DEF MarkerInv
  <2>3. CASE BuildArchive \/ PublishArchive
    <3>1. /\ pc \in Prelude /\ UNCHANGED <<marker, injected, pos>>
          /\ pc' \in {"next", "quarantine", "publish", "off"}
      BY <2>3 DEF BuildArchive, PublishArchive, Goto, Prelude
    <3>2. pos \notin Work
      BY <3>1, BehindFacts DEF WhereInv
    <3> QED BY <2>0, <3>1, <3>2 DEF MarkerInv
  <2>4. CASE NextStep
    <3>1. marker' = FALSE /\ injected' = 0 /\ pc' \in {"unwind", "moving", "prepare"}
      BY <2>4 DEF NextStep, Goto
    <3> QED BY <3>1 DEF MarkerInv
  <2>5. CASE Prepare
    <3>1. /\ pc = "prepare" /\ ip' = ip /\ UNCHANGED <<marker, injected, pos>>
          /\ pc' \in {"script", "failed"}
      BY <2>5 DEF Prepare, Goto
    <3>2. ip = 1
      BY <3>1 DEF WhereInv
    <3> QED BY <3>1, <3>2 DEF MarkerInv
  <2>6. CASE ScriptDone
    <3>1. /\ pc = "script" /\ ip > Len(script) /\ UNCHANGED <<marker, injected, pos, primary>>
          /\ pc' = "attempt"
      BY <2>6 DEF ScriptDone, Goto
    <3>2. Injects(Item) => script = InjectedScript
      BY <3>1, ItemIs DEF InScenario
    <3>3. Injects(Item) => ip > 4
      <4>1. Injects(Item) => ip > 6
        BY <3>1, <3>2, InjectedOps
      <4>2. ip \in Nat
        BY DEF WhereInv
      <4> QED BY <4>1, <4>2
    <3> QED BY <2>i, <3>1, <3>3 DEF MarkerInv
  <2>7. CASE Operate
    <3>1. /\ pc = "script" /\ ip \in Nat /\ ip <= Len(script) /\ UNCHANGED <<pos, script>>
          /\ \/ pc' = "script" /\ ip' \in {ip + 1, Len(script) + 1}
             \/ pc' = "failed" /\ ip' = ip
          /\ Injects(Item) => script = InjectedScript
          /\ ip \in 1..(Len(script) + 1) /\ Len(script) \in Nat
      BY <2>7, OperateShape, ItemIs DEF opFrame, WhereInv, InScenario
    <3>2. ip \in 1..Len(script)
      BY <3>1
    <3>3. Injects(Item) => /\ Len(script) = 6
                           /\ ip = 4 => At("again")
                           /\ At("again") => ip = 4
                           /\ ip \in 1..6 /\ ~At("stop") /\ ~At("expect")
                           /\ At("injected") => ip = 2
      <4>1. SUFFICES ASSUME Injects(Item), ip \in 1..6, script = InjectedScript
                     PROVE  /\ ip = 4 => At("again")
                            /\ At("again") => ip = 4
                            /\ ~At("stop") /\ ~At("expect")
                            /\ At("injected") => ip = 2
        BY <3>1, <3>2, InjectedOps
      <4> QED BY <3>1, <4>1, InjectedOps DEF At, Do, Op
    <3>4. CASE RunAgain
      <4>1. CASE marker
        <5>1. UNCHANGED <<marker, injected>>
          BY <3>4, <4>1 DEF RunAgain
        <5> QED BY <2>i, <3>1, <4>1, <5>1 DEF MarkerInv
      <4>2. CASE ~marker
        <5>1. marker' = TRUE /\ injected' = injected + 1 /\ pc' = "failed"
          BY <3>4, <4>2 DEF RunAgain, Wrapper, Raise, Goto
        <5> QED BY <3>1, <4>2, <5>1 DEF MarkerInv
      <4> QED BY <4>1, <4>2
    <3>5. CASE RunInjected
      <4>1. /\ ~marker /\ pc' = "script" /\ ip' = ip + 1 /\ At("injected")
            /\ \/ marker' = TRUE /\ injected' = injected + 1
               \/ marker' = FALSE /\ injected' = injected
        BY <3>1, <3>5 DEF RunInjected, Wrapper, Advance
      <4>2. Injects(Item) => ip' = 3
        BY <3>3, <4>1
      <4>3. marker' \in BOOLEAN /\ injected' = IF marker' THEN 1 ELSE 0
        <5>1. injected = 0
          BY <4>1 DEF MarkerInv
        <5>2. CASE marker' = TRUE /\ injected' = injected + 1
          BY <5>1, <5>2
        <5>3. CASE marker' = FALSE /\ injected' = injected
          BY <5>1, <5>3
        <5> QED BY <4>1, <5>2, <5>3
      <4>4. Injects(Item)' => ~(ip' > 4)
        BY <2>i, <3>1, <4>2
      <4> QED BY <4>1, <4>3, <4>4 DEF MarkerInv
    <3>6. CASE ~RunAgain /\ ~RunInjected
      <4>1. UNCHANGED <<marker, injected>>
        <5>1. CASE Dispatch \/ Stage \/ Unstage
          BY <5>1 DEF Dispatch, Stage, Unstage
        <5> QED BY <2>7, <3>6, <5>1, OperateOwn
      <4>2. Injects(Item) /\ pc' = "script" => ip # 4 /\ ip' = ip + 1
        <5>1. ~At("again")
          BY <2>7, <3>6, OperateAgain
        <5>2. Injects(Item) /\ pc' = "script" => ip' = ip + 1
          BY <2>7, <3>3, OperateAgain
        <5> QED BY <3>3, <5>1, <5>2
      <4>3. Injects(Item) /\ pc' = "script" /\ ip' > 4 => ip > 4
        BY <3>3, <4>2
      <4> QED BY <2>i, <3>1, <4>1, <4>3 DEF MarkerInv
    <3> QED BY <3>4, <3>5, <3>6
  <2>8. CASE Fail
    <3>1. /\ UNCHANGED <<marker, injected>> /\ primary' = "scenario" /\ pc' = "attempt"
      BY <2>8 DEF Fail, Goto
    <3> QED BY <3>1 DEF MarkerInv
  <2>9. CASE Sweep
    <3>1. /\ pc \in Cleaning /\ UNCHANGED <<pos, primary, marker, injected>>
          /\ pc' \in Cleaning
      BY <2>9, SweepShape
    <3> QED BY <2>i, <3>1 DEF MarkerInv
  <2>10. CASE Cleaned
    <3>1. /\ pc = "cleaned" /\ UNCHANGED <<pos, marker, injected>>
          /\ pc' = "unwind" \/ (pc' = "next" /\ primary = "none")
      BY <2>10 DEF Cleaned, Goto
    <3> QED BY <2>i, <3>1 DEF MarkerInv
  <2>11. CASE Unwind \/ Die
    <3>1. UNCHANGED <<marker, injected>> /\ pc' \in {"off", "restoring"}
      BY <2>11 DEF Unwind, Die, Goto
    <3> QED BY <3>1 DEF MarkerInv
  <2>12. CASE Interrupt
    <3>1. UNCHANGED <<marker, injected>> /\ primary' = "interrupt" /\ pc' = "attempt"
      BY <2>12 DEF Interrupt, Goto
    <3> QED BY <3>1 DEF MarkerInv
  <2>13. CASE Quiet
    <3>1. UNCHANGED <<pc, ip, pos, primary, marker, injected>>
      BY <2>13, QuietShape
    <3> QED BY <2>0, <2>i, <3>1 DEF MarkerInv
  <2>14. CASE Cut
    <3>1. UNCHANGED <<marker, injected>> /\ pc' = "unwind"
      BY <2>14, CutShape
    <3> QED BY <3>1 DEF MarkerInv
  <2> QED
    BY <1>2, <2>1, <2>2, <2>3, <2>4, <2>5, <2>6, <2>7, <2>8, <2>9, <2>10,
       <2>11, <2>12, <2>13, <2>14, NextCases
<1> QED BY <1>1, <1>2

\* What the scenario at hand has created and not yet removed.
OwnInv ==
    /\ own \subseteq Resources /\ orphans \subseteq Resources
    /\ pc \in Prelude \cup {"next", "moving", "moved", "prepare"} => own = {}
    /\ pc \in InScenario /\ "results" \in own => Item.substrate = "ssh"
    /\ pc = "script" /\ "inject" \in own => script = InjectedScript /\ ip \in 2..6
    /\ pc \in Cleaning /\ "inject" \in own => primary # "none"
    /\ pc \in {"storage", "local", "cleaned"} /\ ~cerr => "results" \notin own
    /\ pc \in {"local", "cleaned"} /\ ~cerr => "data" \notin own
    /\ pc = "local" /\ ~cerr /\ Item.substrate = "slurm" => "workspace" \notin own
    /\ pc = "cleaned" /\ ~cerr => "workspace" \notin own

\* Nothing has been created before the first run.
LEMMA OwnInit == Init => OwnInv
  BY DEF Init, OwnInv, Prelude, InScenario, Cleaning

\* Every step keeps what may be left where.
LEMMA OwnNext ==
    PlanInv /\ WhereInv /\ VerdictInv /\ OwnInv /\ [Next]_vars => OwnInv'
<1> SUFFICES ASSUME PlanInv, WhereInv, VerdictInv, OwnInv, [Next]_vars PROVE OwnInv'
  OBVIOUS
<1> USE DEF Prelude, InScenario, Cleaning
<1>1. CASE Start
  <2>1. pc' \in {"preflight", "fixture"} /\ own' = {} /\ orphans' = orphans \cup own
    BY <1>1, StartShape
  <2> QED BY <2>1 DEF OwnInv
<1>2. CASE ~Start
  <2>0. plan' = plan
    BY <1>2, PlanKept
  <2>i. pos' = pos => Item' = Item
    BY <2>0, SameItem
  <2> USE DEF suiteVars, scenVars, worldVars
  <2>1. CASE TransitionStep \/ TransitionError
    <3>1. UNCHANGED <<own, orphans>> /\ pc' \in {pc, "fixture", "moved", "off", "unwind"}
          /\ pc \in {"preflight", "moving", "restoring"}
      BY <2>1, TransitionShape, RaisedShape DEF TransitionGoesOn, TransitionDone, Goto
    <3>2. pc' \in {"fixture", "moved"} => pc # "restoring"
      BY <2>1, <3>1, TransitionShape, RaisedShape DEF TransitionGoesOn, TransitionDone, Goto
    <3> QED BY <3>1, <3>2 DEF OwnInv
  <2>2. CASE RequireFixture \/ BuildArchive \/ PublishArchive
    <3>1. /\ pc \in Prelude \cup {"moved"} /\ UNCHANGED <<own, orphans>>
          /\ pc' \in {"archive", "next", "off", "unwind", "quarantine", "publish"}
      BY <2>2 DEF RequireFixture, BuildArchive, PublishArchive, Abort, Goto
    <3> QED BY <3>1 DEF OwnInv
  <2>3. CASE NextStep
    <3>1. /\ pc = "next" /\ UNCHANGED <<own, orphans>> /\ pc' \in {"unwind", "moving", "prepare"}
      BY <2>3 DEF NextStep, Goto
    <3> QED BY <3>1 DEF OwnInv
  <2>4. CASE Prepare
    <3>1. /\ pc = "prepare" /\ UNCHANGED <<pos, orphans>>
          /\ pc' \in {"script", "failed"} /\ own' \subseteq own \cup {"workspace", "data"}
      BY <2>4 DEF Prepare, Goto
    <3> QED BY <3>1 DEF OwnInv, Resources
  <2>5. CASE ScriptDone
    <3>1. /\ pc = "script" /\ ip > Len(script) /\ UNCHANGED <<own, orphans, pos>>
          /\ pc' = "attempt"
      BY <2>5 DEF ScriptDone, Goto
    <3>2. "inject" \notin own
      <4> SUFFICES ASSUME "inject" \in own PROVE FALSE
        OBVIOUS
      <4>1. script = InjectedScript /\ ip \in 2..6
        BY <3>1 DEF OwnInv
      <4> QED BY <3>1, <4>1, InjectedOps
    <3> QED BY <2>i, <3>1, <3>2 DEF OwnInv
  <2>6. CASE Operate
    <3>1. /\ pc = "script" /\ ip \in 1..Len(script) /\ UNCHANGED <<pos, script, orphans>>
          /\ pc' \in {"script", "failed"} /\ Sane(script)
      <4>1. /\ pc = "script" /\ ip <= Len(script) /\ UNCHANGED <<pos, script, orphans>>
            /\ pc' \in {"script", "failed"}
        BY <2>6, OperateShape DEF opFrame
      <4>2. ip \in 1..(Len(script) + 1) /\ Len(script) \in Nat /\ Sane(script)
        BY <4>1, ItemIs DEF WhereInv
      <4> QED BY <4>1, <4>2
    <3>2. script = InjectedScript =>
             /\ ip \in 1..6 /\ ~At("stop")
             /\ ip = 6 => At("unstage")
             /\ At("stage") => ip = 1
      <4>1. SUFFICES ASSUME ip \in 1..6, script = InjectedScript
                     PROVE  /\ ~At("stop")
                            /\ ip = 6 => At("unstage")
                            /\ At("stage") => ip = 1
        BY <3>1, InjectedOps
      <4> QED BY <3>1, <4>1, InjectedOps DEF At, Do, Op
    <3>3. CASE Stage
      <4>1. own' = own \cup {"inject"} /\ At("stage")
        BY <3>3 DEF Stage
      <4>2. script = InjectedScript
        BY <3>1, <4>1 DEF Sane, InjectOps, At
      <4>3. pc' = "script" => ip' = 2
        BY <2>6, <3>2, <4>1, <4>2, OperateAgain
      <4> QED BY <2>i, <3>1, <4>1, <4>2, <4>3 DEF OwnInv, Resources
    <3>4. CASE Unstage
      <4>1. \/ own' = own \ {"inject"}
            \/ own' = own /\ pc' = "failed"
        BY <3>4 DEF Unstage, Raise, Goto
      <4> QED BY <2>i, <3>1, <4>1 DEF OwnInv
    <3>5. CASE ~Stage /\ ~Unstage
      <4>1. own' \subseteq own \cup {"results"}
            /\ ("results" \in own' => "results" \in own \/ Item.substrate = "ssh")
        <5>1. CASE Dispatch BY <5>1 DEF Dispatch
        <5>2. CASE RunInjected BY <5>2 DEF RunInjected
        <5>3. CASE RunAgain BY <5>3 DEF RunAgain
        <5> QED BY <2>6, <3>5, <5>1, <5>2, <5>3, OperateOwn
      <4>2. pc' = "script" /\ "inject" \in own' => script = InjectedScript /\ ip' \in 2..6
        <5> SUFFICES ASSUME pc' = "script", "inject" \in own'
                     PROVE  script = InjectedScript /\ ip' \in 2..6
          OBVIOUS
        <5>1. script = InjectedScript /\ ip \in 2..6
          BY <3>1, <4>1 DEF OwnInv
        <5>2. ip # 6 /\ ip' = ip + 1
          BY <2>6, <3>2, <3>5, <5>1, OperateAgain
        <5> QED BY <5>1, <5>2
      <4> QED BY <2>i, <3>1, <4>1, <4>2 DEF OwnInv, Resources
    <3> QED BY <3>3, <3>4, <3>5
  <2>7. CASE Fail
    <3>1. /\ pc = "failed" /\ UNCHANGED <<pos, orphans>> /\ primary' = "scenario"
          /\ pc' = "attempt" /\ own' \subseteq own
      BY <2>7 DEF Fail, Goto
    <3> QED BY <2>i, <3>1 DEF OwnInv
  <2>8. CASE Interrupt
    <3>1. /\ pc \in {"prepare", "script", "failed"} /\ UNCHANGED <<pos, orphans>>
          /\ primary' = "interrupt" /\ pc' = "attempt" /\ own' \subseteq own
      BY <2>8 DEF Interrupt, Goto
    <3> QED BY <2>i, <3>1 DEF OwnInv
  <2>9. CASE Sweep
    <3>1. /\ UNCHANGED <<pos, primary>> /\ (cerr' = TRUE \/ cerr' = cerr)
          /\ pc \in {"attempt", "storage", "local"}
          /\ pc' = IF pc = "attempt" THEN "storage"
                   ELSE IF pc = "storage" THEN "local" ELSE "cleaned"
      BY <2>9, SweepShape
    <3>2. own' \subseteq own /\ orphans' \subseteq orphans
      BY <2>9 DEF Sweep, CleanAttempt, CleanStorage, CleanLocal, CleanupStep
    <3>3. CASE CleanAttempt
      <4>1. pc = "attempt" /\ pc' = "storage"
        BY <3>3 DEF CleanAttempt, CleanupStep, Goto
      <4>2. ~cerr' => "results" \notin own'
        <5>1. CASE Item.substrate = "ssh"
          BY <3>3, <5>1 DEF CleanAttempt, CleanupStep
        <5>2. CASE Item.substrate # "ssh"
          BY <3>2, <4>1, <5>2 DEF OwnInv
        <5> QED BY <5>1, <5>2
      <4> QED BY <2>i, <3>1, <3>2, <4>1, <4>2 DEF OwnInv
    <3>4. CASE CleanStorage
      <4>1. pc = "storage" /\ pc' = "local"
        BY <3>4 DEF CleanStorage, CleanupStep, Goto
      <4>2. ~cerr' => /\ ~cerr /\ "data" \notin own'
                      /\ Item.substrate = "slurm" => "workspace" \notin own'
        BY <3>4 DEF CleanStorage, CleanupStep
      <4> QED BY <2>i, <3>1, <3>2, <4>1, <4>2 DEF OwnInv
    <3>5. CASE CleanLocal
      <4>1. pc = "local" /\ pc' = "cleaned"
        BY <3>5 DEF CleanLocal, CleanupStep, Goto
      <4>2. ~cerr' => ~cerr /\ (Item.substrate # "slurm" => "workspace" \notin own')
        BY <3>5 DEF CleanLocal, CleanupStep
      <4> QED BY <2>i, <3>1, <3>2, <4>1, <4>2 DEF OwnInv
    <3> QED BY <2>9, <3>3, <3>4, <3>5 DEF Sweep
  <2>10. CASE Cleaned
    <3>1. /\ pc = "cleaned" /\ UNCHANGED <<pos, own, orphans>>
          /\ pc' = "unwind" \/ (pc' = "next" /\ primary = "none" /\ ~cerr)
      BY <2>10 DEF Cleaned, Goto
    <3>2. pc' = "next" => own = {}
      BY <3>1 DEF OwnInv, Resources
    <3> QED BY <3>1, <3>2 DEF OwnInv
  <2>11. CASE Unwind \/ Die
    <3>1. UNCHANGED <<own, orphans>> /\ pc' \in {"off", "restoring"}
      BY <2>11 DEF Unwind, Die, Goto
    <3> QED BY <3>1 DEF OwnInv
  <2>12. CASE Quiet
    <3>1. UNCHANGED <<pc, ip, pos, primary, own, orphans, script, cerr>>
      BY <2>12, QuietShape
    <3> QED BY <2>i, <3>1 DEF OwnInv
  <2>13. CASE Cut
    <3>1. UNCHANGED <<own, orphans>> /\ pc' = "unwind"
      BY <2>13, CutShape
    <3> QED BY <3>1 DEF OwnInv
  <2> QED
    BY <1>2, <2>1, <2>2, <2>3, <2>4, <2>5, <2>6, <2>7, <2>8, <2>9, <2>10,
       <2>11, <2>12, <2>13, NextCases
<1> QED BY <1>1, <1>2

-----------------------------------------------------------------------------
(* The types of what is left, and the attempts.                            *)

Attempt == [run : 1..MaxRuns, pos : Nat, dir : 1..2, state : Terminal \cup {"running"}]

\* The errors a run ends with, the record of its cleanup and the attempts.
TypesInv ==
    /\ rt \in [root : 0..2, collected : BOOLEAN]
    /\ seen \in Terminal \cup {"none"}
    /\ primary \in {"none", "scenario", "cleanup", "transition", "restore",
                    "fixture", "interrupt", "unrestored"}
    /\ cerr \in BOOLEAN /\ claim \in BOOLEAN
    /\ exit \in {"none", "passed", "failed", "died"}
    /\ atts \subseteq Attempt
    /\ \A a \in atts : a.run <= run

\* What is left of the faults and the deaths.
BudgetInv == faults \in 0..MaxFaults /\ deaths \in 0..MaxDeaths

\* The budgets begin within their bounds.
LEMMA BudgetInit == Init => BudgetInv
  BY DEF Init, BudgetInv

\* Every step spends at most one fault and one death, and only what there is.
LEMMA BudgetStep ==
    ASSUME [Next]_vars
    PROVE  /\ faults' = faults \/ (faults > 0 /\ faults' = faults - 1)
           /\ deaths' = deaths \/ (deaths > 0 /\ deaths' = deaths - 1)
<1> USE DEF NoFault, Fault, budget
<1>1. CASE TransitionStep BY <1>1 DEF TransitionStep
<1>2. CASE TransitionError BY <1>2 DEF TransitionError
<1>3. CASE RequireFixture BY <1>3 DEF RequireFixture
<1>4. CASE BuildArchive BY <1>4 DEF BuildArchive
<1>5. CASE PublishArchive BY <1>5 DEF PublishArchive
<1>6. CASE NextStep BY <1>6 DEF NextStep
<1>7. CASE Prepare BY <1>7 DEF Prepare
<1>8. CASE ScriptDone BY <1>8 DEF ScriptDone
<1>9. CASE Operate
  <2>1. CASE Submit BY <2>1 DEF Submit
  <2>2. CASE Resume BY <2>2 DEF Resume
  <2>3. CASE Wait BY <2>3 DEF Wait
  <2>4. CASE WaitRunning BY <2>4 DEF WaitRunning
  <2>5. CASE Cancel BY <2>5 DEF Cancel
  <2>6. CASE Collect BY <2>6 DEF Collect
  <2>7. CASE Check BY <2>7 DEF Check
  <2>8. CASE Judge BY <2>8 DEF Judge
  <2>9. CASE Arm BY <2>9 DEF Arm
  <2>10. CASE CreateClaim BY <2>10 DEF CreateClaim
  <2>11. CASE StartRefused BY <2>11 DEF StartRefused
  <2>12. CASE DeleteClaim BY <2>12 DEF DeleteClaim
  <2>13. CASE Dispatch BY <2>13 DEF Dispatch
  <2>14. CASE Stage BY <2>14 DEF Stage
  <2>15. CASE Unstage BY <2>15 DEF Unstage
  <2>16. CASE RunInjected BY <2>16 DEF RunInjected
  <2>17. CASE RunAgain BY <2>17 DEF RunAgain
  <2> QED
    BY <1>9, <2>1, <2>2, <2>3, <2>4, <2>5, <2>6, <2>7, <2>8, <2>9, <2>10, <2>11,
       <2>12, <2>13, <2>14, <2>15, <2>16, <2>17 DEF Operate
<1>10. CASE Fail BY <1>10 DEF Fail
<1>11. CASE Sweep BY <1>11 DEF Sweep, CleanAttempt, CleanStorage, CleanLocal, CleanupStep
<1>12. CASE Cleaned BY <1>12 DEF Cleaned
<1>13. CASE Unwind BY <1>13 DEF Unwind
<1>14. CASE Start BY <1>14, StartShape
<1>15. CASE Interrupt BY <1>15 DEF Interrupt
<1>16. CASE Die BY <1>16 DEF Die
<1>17. CASE Quiet BY <1>17 DEF Quiet, AttemptEnds, LosePod, Edit, vars
<1>18. CASE Cut BY <1>18 DEF Cut, InterruptCleanup, InterruptLoop
<1> QED
  BY <1>1, <1>2, <1>3, <1>4, <1>5, <1>6, <1>7, <1>8, <1>9, <1>10, <1>11,
     <1>12, <1>13, <1>14, <1>15, <1>16, <1>17, <1>18, NextCases

\* So the budgets stay within their bounds.
LEMMA BudgetNext == BudgetInv /\ [Next]_vars => BudgetInv'
<1> SUFFICES ASSUME BudgetInv, [Next]_vars PROVE BudgetInv'
  OBVIOUS
<1>1. /\ faults' = faults \/ (faults > 0 /\ faults' = faults - 1)
      /\ deaths' = deaths \/ (deaths > 0 /\ deaths' = deaths - 1)
  BY BudgetStep
<1> QED BY <1>1, ScenariosAssumption DEF BudgetInv

\* The empty record of the cleanup is one.
LEMMA NoRuntimeTyped == NoRuntime \in [root : 0..2, collected : BOOLEAN]
<1>1. 0 \in 0..2 /\ FALSE \in BOOLEAN
  OBVIOUS
<1> QED BY <1>1 DEF NoRuntime

\* The types hold at the beginning.
LEMMA TypesInit == Init => TypesInv
  BY NoRuntimeTyped DEF Init, TypesInv

\* What the operations do to the attempts: a new one of this run at this place,
\* fewer of them, or other states of the same.
SameBut(a, b) == a \in Attempt /\ a.run = b.run /\ a.pos = b.pos /\ a.dir = b.dir

Fewer == atts' \subseteq atts
Restated == \A a \in atts' : \E b \in atts : SameBut(a, b)
Fresh == \A a \in atts' : /\ a \in Attempt /\ a.run = run /\ a.pos = pos /\ a.dir = Dir

\* An operation drops attempts, ends them, or makes the one of this place.
LEMMA OperateAtts ==
    ASSUME WhereInv, TypesInv, Operate, Sane(script), pos \in Nat
    PROVE  Fewer \/ Restated \/ Fresh
<1>0. pc = "script" /\ ip \in 1..Len(script)
  BY OperateShape DEF WhereInv, Sane
<1>1. CASE Submit \/ Resume
  <2>1. Dir \in 1..2 /\ run \in 1..MaxRuns
    <3>1. script[ip].do \in Creators
      BY <1>1 DEF Submit, Resume, At, Creators
    <3> QED BY <1>0, <3>1 DEF Sane, Dir, WhereInv
  <2> DEFINE new == [run |-> run, pos |-> pos, dir |-> Dir, state |-> "running"]
  <2>2. new \in Attempt
    BY <2>1 DEF Attempt
  <2>3. atts' = atts \/ atts' = {new}
    BY <1>1 DEF Submit, Resume
  <2>4. new.run = run /\ new.pos = pos /\ new.dir = Dir
    OBVIOUS
  <2> HIDE DEF new
  <2> QED BY <2>2, <2>3, <2>4 DEF Fewer, Fresh
<1>2. CASE Cancel
  <2>1. CASE atts' = atts
    BY <2>1 DEF Fewer
  <2>2. CASE atts' = {IF a \in Mine /\ a.state = "running"
                      THEN [a EXCEPT !.state = "CANCELLED"] ELSE a : a \in atts}
    <3>1. \A b \in atts : SameBut(b, b) /\ SameBut([b EXCEPT !.state = "CANCELLED"], b)
      BY DEF TypesInv, SameBut, Attempt, Terminal
    <3> QED BY <2>2, <3>1 DEF Restated
  <2> QED BY <1>2, <2>1, <2>2 DEF Cancel
<1>3. CASE Collect
  BY <1>3 DEF Collect, Fewer
<1>4. CASE ~Submit /\ ~Resume /\ ~Cancel /\ ~Collect
  BY <1>4, OperateAttempts DEF Fewer
<1> QED BY <1>1, <1>2, <1>3, <1>4

\* An attempt that ends stays the same attempt.
LEMMA EndsAtts ==
    ASSUME TypesInv, AttemptEnds
    PROVE  Restated
<1>1. PICK b \in atts, s \in {"SUCCESS", "FAILED"} :
         atts' = (atts \ {b}) \cup {[b EXCEPT !.state = s]}
  BY DEF AttemptEnds
<1>2. SameBut([b EXCEPT !.state = s], b) /\ \A a \in atts : SameBut(a, a)
  BY DEF TypesInv, SameBut, Attempt, Terminal
<1> QED BY <1>1, <1>2 DEF Restated

\* An interrupted submission may have made its attempt.
LEMMA InterruptAtts ==
    ASSUME WhereInv, TypesInv, Interrupt, Sane(script)
    PROVE  Fewer \/ Fresh
<1> DEFINE new == [run |-> run, pos |-> pos, dir |-> Dir, state |-> "running"]
<1>1. \/ atts' = atts
      \/ (At("submit") \/ At("start")) /\ atts' = {new}
  BY DEF Interrupt
<1>2. CASE atts' = atts BY <1>2 DEF Fewer
<1>3. CASE (At("submit") \/ At("start")) /\ atts' = {new}
  <2>1. pc = "script" /\ ip \in 1..Len(script) /\ script[ip].do \in Creators
    BY <1>3 DEF At, Creators, WhereInv, Sane
  <2>2. Dir \in 1..2 /\ run \in 1..MaxRuns /\ pos \in Nat
    BY <2>1 DEF Sane, Dir, WhereInv, InScenario, Work
  <2>3. new \in Attempt
    BY <2>2 DEF Attempt
  <2>4. new.run = run /\ new.pos = pos /\ new.dir = Dir
    OBVIOUS
  <2> HIDE DEF new
  <2> QED BY <1>3, <2>3, <2>4 DEF Fresh
<1> QED BY <1>1, <1>2, <1>3

\* No other step adds or changes an attempt.
LEMMA AttsStep ==
    ASSUME PlanInv, WhereInv, TypesInv, [Next]_vars
    PROVE  Fewer \/ Restated \/ Fresh
<1> USE DEF worldVars, Fewer
<1>1. CASE TransitionStep \/ TransitionError BY <1>1, TransitionShape
<1>2. CASE Operate
  <2>1. pc = "script"
    BY <1>2, OperateShape
  <2>2. Sane(script) /\ pos \in Nat
    BY <2>1, ItemIs DEF InScenario
  <2> QED BY <1>2, <2>2, OperateAtts
<1>3. CASE Sweep
  BY <1>3 DEF Sweep, CleanAttempt, CleanStorage, CleanLocal, CleanupStep, UnderCleanup
<1>4. CASE Start BY <1>4, StartShape
<1>5. CASE Quiet
  BY <1>5, EndsAtts DEF Quiet, LosePod, Edit, vars
<1>6. CASE Cut BY <1>6, CutShape
<1>7. CASE Interrupt
  <2>1. pc \in InScenario
    BY <1>7 DEF Interrupt, InScenario
  <2>2. Sane(script)
    BY <2>1, ItemIs
  <2> QED BY <1>7, <2>2, InterruptAtts
<1> QED
  BY <1>1, <1>2, <1>3, <1>4, <1>5, <1>6, <1>7, NextCases
     DEF RequireFixture, BuildArchive, PublishArchive, NextStep, Prepare, ScriptDone,
         Fail, Cleaned, Unwind, Die

\* Only the operations change the record of the cleanup within a scenario, and
\* only as far as a script's directories go.
LEMMA RuntimeStep ==
    ASSUME PlanInv, WhereInv, TypesInv, [Next]_vars
    PROVE  rt' \in [root : 0..2, collected : BOOLEAN] /\ seen' \in Terminal \cup {"none"}
<1> USE DEF scenVars
<1>0. rt \in [root : 0..2, collected : BOOLEAN] /\ seen \in Terminal \cup {"none"}
  BY DEF TypesInv
<1>1. CASE TransitionStep \/ TransitionError BY <1>0, <1>1, TransitionShape
<1>2. CASE Operate
  <2>1. pc = "script" /\ ip \in 1..Len(script) /\ Sane(script)
    <3>1. pc = "script" /\ ip <= Len(script)
      BY <1>2, OperateShape
    <3>2. Sane(script) /\ ip \in 1..(Len(script) + 1) /\ Len(script) \in Nat
      BY <3>1, ItemIs DEF InScenario, WhereInv
    <3> QED BY <3>1, <3>2
  <2>2. Dir \in 0..2
    BY <2>1 DEF Sane, Dir
  <2> USE <1>0, <2>2
  <2>3. CASE Submit BY <2>3 DEF Submit
  <2>4. CASE Resume BY <2>4 DEF Resume
  <2>5. CASE Wait BY <2>5 DEF Wait
  <2>6. CASE WaitRunning BY <2>6 DEF WaitRunning
  <2>7. CASE Cancel BY <2>7 DEF Cancel
  <2>8. CASE Collect BY <2>8 DEF Collect
  <2>9. CASE Check BY <2>9 DEF Check
  <2>10. CASE Judge BY <2>10 DEF Judge
  <2>11. CASE Arm
    <3>1. /\ rt' = [root |-> IF At("arm") THEN Dir ELSE rt.root, collected |-> At("disarm")]
          /\ seen' = seen
      BY <2>11 DEF Arm
    <3>2. At("disarm") \in BOOLEAN
      BY DEF At
    <3>3. rt.root \in 0..2
      OBVIOUS
    <3> QED BY <3>1, <3>2, <3>3
  <2>12. CASE CreateClaim BY <2>12 DEF CreateClaim
  <2>13. CASE StartRefused BY <2>13 DEF StartRefused
  <2>14. CASE DeleteClaim BY <2>14 DEF DeleteClaim
  <2>15. CASE Dispatch BY <2>15 DEF Dispatch
  <2>16. CASE Stage BY <2>16 DEF Stage
  <2>17. CASE Unstage BY <2>17 DEF Unstage
  <2>18. CASE RunInjected BY <2>18 DEF RunInjected
  <2>19. CASE RunAgain BY <2>19 DEF RunAgain
  <2> QED
    BY <1>2, <2>3, <2>4, <2>5, <2>6, <2>7, <2>8, <2>9, <2>10, <2>11, <2>12, <2>13,
       <2>14, <2>15, <2>16, <2>17, <2>18, <2>19 DEF Operate
<1>3. CASE Sweep BY <1>0, <1>3, SweepShape
<1>4. CASE Start BY <1>4, StartShape, NoRuntimeTyped
<1>5. CASE Quiet BY <1>0, <1>5, QuietShape
<1>6. CASE NextStep BY <1>0, <1>6, NoRuntimeTyped DEF NextStep
<1>7. CASE Cut BY <1>0, <1>7, CutShape
<1> QED
  BY <1>0, <1>1, <1>2, <1>3, <1>4, <1>5, <1>6, <1>7, NextCases
     DEF RequireFixture, BuildArchive, PublishArchive, Prepare, ScriptDone,
         Fail, Cleaned, Unwind, Interrupt, Die

\* Every step keeps the types.
LEMMA TypesNext ==
    PlanInv /\ WhereInv /\ VerdictInv /\ TypesInv /\ [Next]_vars => TypesInv'
<1> SUFFICES ASSUME PlanInv, WhereInv, VerdictInv, TypesInv, [Next]_vars PROVE TypesInv'
  OBVIOUS
<1>1. rt' \in [root : 0..2, collected : BOOLEAN] /\ seen' \in Terminal \cup {"none"}
  BY RuntimeStep
<1>2. /\ primary' \in {"none", "scenario", "cleanup", "transition", "restore",
                       "fixture", "interrupt", "unrestored"}
      /\ exit' \in {"none", "passed", "failed", "died"}
  <2>0. /\ primary \in {"none", "scenario", "cleanup", "transition", "restore",
                        "fixture", "interrupt", "unrestored"}
        /\ exit \in {"none", "passed", "failed", "died"}
    BY DEF TypesInv
  <2> USE DEF suiteVars
  <2>1. CASE TransitionStep \/ TransitionError
    <3>1. pc \in {"preflight", "moving", "restoring"}
      BY <2>1, TransitionShape
    <3>2. CASE TransitionGoesOn BY <2>0, <3>2 DEF TransitionGoesOn
    <3>3. CASE TransitionDone BY <2>0, <3>3 DEF TransitionDone
    <3>4. CASE TransitionRaised BY <2>0, <3>1, <3>4, RaisedShape
    <3> QED BY <2>1, <3>2, <3>3, <3>4, TransitionShape
  <2>2. CASE Operate BY <2>0, <2>2, OperateShape DEF opFrame
  <2>3. CASE Sweep BY <2>0, <2>3, SweepShape
  <2>4. CASE Start BY <2>4, StartShape
  <2>5. CASE Quiet BY <2>0, <2>5, QuietShape
  <2>6. CASE RequireFixture BY <2>0, <2>6 DEF RequireFixture, Abort
  <2>7. CASE BuildArchive BY <2>0, <2>7 DEF BuildArchive
  <2>8. CASE Unwind BY <2>0, <2>8 DEF Unwind
  <2>9. CASE Cut BY <2>0, <2>9, CutShape
  <2> QED
    BY <2>0, <2>1, <2>2, <2>3, <2>4, <2>5, <2>6, <2>7, <2>8, <2>9, NextCases
       DEF PublishArchive, NextStep, Prepare, ScriptDone, Fail, Cleaned, Interrupt, Die
<1>3. cerr' \in BOOLEAN
  <2>0. cerr \in BOOLEAN
    BY DEF TypesInv
  <2>1. CASE TransitionStep \/ TransitionError BY <2>0, <2>1, TransitionShape
  <2>2. CASE Operate BY <2>0, <2>2, OperateShape DEF opFrame
  <2>3. CASE Sweep BY <2>0, <2>3, SweepShape
  <2>4. CASE Start BY <2>4, StartShape
  <2>5. CASE Quiet BY <2>0, <2>5, QuietShape
  <2>6. CASE Cut BY <2>0, <2>6, CutShape
  <2> QED
    BY <2>0, <2>1, <2>2, <2>3, <2>4, <2>5, <2>6, NextCases
       DEF RequireFixture, BuildArchive, PublishArchive, NextStep, Prepare, ScriptDone,
           Fail, Cleaned, Unwind, Interrupt, Die
<1>4. claim' \in BOOLEAN
  <2>0. claim \in BOOLEAN
    BY DEF TypesInv
  <2> USE DEF worldVars, scenVars
  <2>1. CASE TransitionStep \/ TransitionError BY <2>0, <2>1, TransitionShape
  <2>2. CASE Operate
    BY <2>0, <2>2
       DEF Operate, Submit, Resume, Wait, WaitRunning, Cancel, Collect, Check, Judge, Arm,
           CreateClaim, StartRefused, DeleteClaim, Dispatch, Stage, Unstage,
           RunInjected, RunAgain
  <2>3. CASE Sweep BY <2>0, <2>3, SweepShape
  <2>4. CASE Start BY <2>0, <2>4, StartShape
  <2>5. CASE Quiet BY <2>0, <2>5, QuietShape
  <2>6. CASE Fail BY <2>0, <2>6 DEF Fail
  <2>7. CASE Interrupt BY <2>0, <2>7 DEF Interrupt
  <2>8. CASE Cut BY <2>0, <2>8, CutShape
  <2> QED
    BY <2>0, <2>1, <2>2, <2>3, <2>4, <2>5, <2>6, <2>7, <2>8, NextCases
       DEF RequireFixture, BuildArchive, PublishArchive, NextStep, Prepare, ScriptDone,
           Cleaned, Unwind, Die
<1>5. atts' \subseteq Attempt /\ \A a \in atts' : a.run <= run
  <2>1. CASE Fewer BY <2>1 DEF Fewer, TypesInv
  <2>2. CASE Restated BY <2>2 DEF Restated, SameBut, TypesInv
  <2>3. CASE Fresh
    <3>1. run <= run
      BY DEF WhereInv
    <3> QED BY <2>3, <3>1 DEF Fresh
  <2> QED BY <2>1, <2>2, <2>3, AttsStep
<1>6. \A a \in atts' : a.run <= run'
  <2>1. run' = run \/ run' = run + 1
    BY PlanKept, StartShape
  <2>2. \A a \in atts' : a.run \in Nat
    BY <1>5 DEF Attempt
  <2> QED BY <1>5, <2>1, <2>2 DEF WhereInv
<1> QED BY <1>1, <1>2, <1>3, <1>4, <1>5, <1>6 DEF TypesInv

-----------------------------------------------------------------------------
(* Every attempt of the run is under the cleanup of its scenario.          *)

\* The two scenarios that leave an attempt outside the cleanup are not selected.
ArmedOnly ==
    \A s \in Selections : \A x \in WorkItems(s[1], s[2]) : Armed(x)

Released == \A a \in atts : a.run # run
Covered ==
    \A a \in atts : a.run = run =>
        a.pos = pos /\ a.dir = rt.root /\ rt.root # 0 /\ ~rt.collected

\* A submission was interrupted before the root of its attempt was recorded.
Loose == primary = "interrupt" /\ rt.root = 0

CoverInv ==
    /\ pc \in Prelude \cup {"next", "moving", "moved", "prepare"} => Released
    /\ pc = "prepare" => rt = NoRuntime
    /\ pc \in {"script", "failed"} => Covered /\ (~Creates(script) => Released)
    /\ pc = "attempt" => Loose \/ (Covered /\ (~Creates(script) => Released))
    /\ pc = "script" =>
         /\ rt.root \in {0, 1}
         /\ ip = 1 => rt = NoRuntime
         /\ ip > 1 /\ script[1].do = "submit" => rt.root = 1
         /\ ip > 1 /\ script[ip - 1].do \in {"arm", "rearm"} => ~rt.collected
         /\ ip > 1 /\ script[ip - 1].do = "arm" => rt.root = 1
    /\ pc \in {"storage", "local", "cleaned", "unwind", "restoring"} /\ ~cerr
          => Released \/ Loose

\* At the beginning there is no attempt.
LEMMA CoverInit == Init => CoverInv
  BY DEF Init, CoverInv, Prelude

\* Fewer attempts, or the same in other states, are as released and as covered.
LEMMA StayReleased ==
    ASSUME Fewer \/ Restated, run' = run, pos' = pos, rt' = rt
    PROVE  (Released => Released') /\ (Covered => Covered')
<1>1. CASE Fewer BY <1>1 DEF Fewer, Released, Covered
<1>2. CASE Restated BY <1>2 DEF Restated, SameBut, Released, Covered
<1> QED BY <1>1, <1>2

\* The script of a selected scenario puts its attempt under the cleanup.
LEMMA ScriptIsTidy ==
    ASSUME ArmedOnly, PlanInv, WhereInv, pc = "script"
    PROVE  Tidy(script) /\ Len(script) \in Nat
<1>1. PICK s \in Selections : {plan[i] : i \in Work} = WorkItems(s[1], s[2])
  BY DEF PlanInv, Follows
<1>2. Armed(Item)
  BY <1>1 DEF ArmedOnly, WhereInv, InScenario, Item
<1> QED BY <1>2, ItemIs DEF InScenario

\* An operation keeps what it may be running under cleanup.
LEMMA CoverOperate ==
    ASSUME ArmedOnly, PlanInv, WhereInv, TypesInv, CoverInv, Operate
    PROVE  CoverInv'
<1>1. /\ pc = "script" /\ ip \in 1..Len(script) /\ Len(script) \in Nat
      /\ UNCHANGED <<run, plan, pos, script, cerr>>
      /\ \/ pc' = "script" /\ ip' \in {ip + 1, Len(script) + 1}
         \/ pc' = "failed" /\ ip' = ip
      /\ Sane(script)
  <2>1. /\ pc = "script" /\ ip <= Len(script) /\ UNCHANGED <<run, plan, pos, script, cerr>>
        /\ \/ pc' = "script" /\ ip' \in {ip + 1, Len(script) + 1}
           \/ pc' = "failed" /\ ip' = ip
    BY OperateShape DEF opFrame, suiteVars
  <2>2. ip \in 1..(Len(script) + 1) /\ Len(script) \in Nat /\ Sane(script)
    BY <2>1, ItemIs DEF InScenario, WhereInv
  <2> QED BY <2>1, <2>2
<1>2. Tidy(script)
  BY <1>1, ScriptIsTidy
<1>3. /\ script[ip].do = "submit" => ip = 1
      /\ script[ip].do = "start" => ip > 1 /\ script[ip - 1].do = "arm"
      /\ script[ip].do = "resume" =>
            ip > 1 /\ script[ip - 1].do = "rearm" /\ script[1].do = "submit"
      /\ script[ip].do \in Creators \cup {"arm", "collect"} => script[ip].dir = 1
      /\ script[ip].do = "disarm" => ~Creates(script)
      /\ script[Len(script)].do \notin {"arm", "rearm"}
      /\ script[ip].do \in Creators => Creates(script)
  <2>1. Len(script) \in 1..Len(script) /\ ~(Len(script) < Len(script))
    BY <1>1
  <2> QED BY <1>1, <1>2, <2>1 DEF Tidy, Creates
<1>4. /\ Covered /\ (~Creates(script) => Released)
      /\ rt.root \in {0, 1} /\ rt \in [root : 0..2, collected : BOOLEAN]
      /\ ip = 1 => rt = NoRuntime
      /\ ip > 1 /\ script[1].do = "submit" => rt.root = 1
      /\ ip > 1 /\ script[ip - 1].do \in {"arm", "rearm"} => ~rt.collected
      /\ ip > 1 /\ script[ip - 1].do = "arm" => rt.root = 1
  <2>1. /\ Covered /\ (~Creates(script) => Released) /\ rt.root \in {0, 1}
        /\ ip = 1 => rt = NoRuntime
    BY <1>1 DEF CoverInv
  <2>2. rt \in [root : 0..2, collected : BOOLEAN]
    BY DEF TypesInv
  <2>3. /\ ip > 1 /\ script[1].do = "submit" => rt.root = 1
        /\ ip > 1 /\ script[ip - 1].do \in {"arm", "rearm"} => ~rt.collected
        /\ ip > 1 /\ script[ip - 1].do = "arm" => rt.root = 1
    BY <1>1 DEF CoverInv
  <2> QED BY <2>1, <2>2, <2>3
<1>5. Creates(script)' <=> Creates(script)
  BY <1>1 DEF Creates
\* What is left to show of a step: the attempts, and the record after it.
<1> DEFINE Then == /\ Covered' /\ (~Creates(script) => Released')
                   /\ rt'.root \in {0, 1}
                   /\ pc' = "script" /\ script[1].do = "submit" => rt'.root = 1
                   /\ pc' = "script" /\ script[ip].do \in {"arm", "rearm"}
                         => ~rt'.collected /\ (script[ip].do = "arm" => rt'.root = 1)
<1>6. ASSUME Then PROVE CoverInv'
  <2>1. pc' = "failed" => CoverInv'
    BY <1>5, <1>6 DEF CoverInv, Prelude
  <2>2. pc' = "script" => CoverInv'
    <3> SUFFICES ASSUME pc' = "script" PROVE CoverInv'
      OBVIOUS
    <3>1. /\ ip' # 1 /\ ip' > 1
          /\ script'[ip' - 1].do \in {"arm", "rearm"} => ip' - 1 = ip
      <4>1. CASE ip' = ip + 1
        BY <1>1, <4>1
      <4>2. CASE ip' = Len(script) + 1
        <5>1. ip' - 1 = Len(script) /\ ip' # 1 /\ ip' > 1
          BY <1>1, <4>2
        <5> QED BY <1>1, <1>3, <5>1
      <4> QED BY <1>1, <4>1, <4>2
    <3> QED BY <1>1, <1>5, <1>6, <3>1 DEF CoverInv, Prelude
  <2> QED BY <1>1, <2>1, <2>2
<1>7. CASE Submit
  <2> DEFINE new == [run |-> run, pos |-> pos, dir |-> Dir, state |-> "running"]
  <2>1. /\ At("submit") \/ At("start")
        /\ \/ atts' = {new} /\ rt' = [rt EXCEPT !.root = Dir]
           \/ pc' = "failed" /\ UNCHANGED <<atts, rt>>
           \/ /\ pc' = "failed" /\ atts' = {new}
              /\ rt' = IF At("submit") /\ rt.root = 0
                       THEN [rt EXCEPT !.root = Dir] ELSE rt
    BY <1>7 DEF Submit, Raise, Goto
  <2>2. Dir = 1 /\ Creates(script)
    BY <1>3, <2>1 DEF At, Dir, Creators
  <2>3. /\ ~rt.collected /\ (At("submit") => rt.root = 0) /\ (~At("submit") => rt.root = 1)
    BY <1>1, <1>3, <1>4, <2>1 DEF At, NoRuntime
  <2>4. script[ip].do \notin {"arm", "rearm"}
    BY <2>1 DEF At
  <2>5. new.run = run /\ new.pos = pos /\ new.dir = 1
    BY <2>2
  <2> HIDE DEF new
  <2>6. ASSUME pc' = "failed", UNCHANGED <<atts, rt>> PROVE Then
    BY <1>1, <1>4, <2>2, <2>6, StayReleased DEF Fewer
  <2>7. ASSUME atts' = {new}, rt'.root = 1, rt'.collected = rt.collected PROVE Then
    BY <1>1, <2>2, <2>3, <2>4, <2>5, <2>7 DEF Covered
  <2>8. rt' = [rt EXCEPT !.root = Dir] => rt'.root = 1 /\ rt'.collected = rt.collected
    BY <1>4, <2>2
  <2> HIDE DEF Then
  <2>10. Then
    <3>1. CASE pc' = "failed" /\ UNCHANGED <<atts, rt>>
      BY <2>6, <3>1
    <3>2. CASE atts' = {new} /\ rt' = [rt EXCEPT !.root = Dir]
      BY <2>7, <2>8, <3>2
    <3>3. CASE /\ pc' = "failed" /\ atts' = {new}
               /\ rt' = IF At("submit") /\ rt.root = 0
                        THEN [rt EXCEPT !.root = Dir] ELSE rt
      BY <2>3, <2>7, <2>8, <3>3
    <3> QED BY <2>1, <3>1, <3>2, <3>3
  <2> QED BY <1>6, <2>10
<1>8. CASE Resume
  <2> DEFINE new == [run |-> run, pos |-> pos, dir |-> Dir, state |-> "running"]
  <2>1. At("resume") /\ (atts' = {new} \/ atts' = atts) /\ rt' = rt
    BY <1>8 DEF Resume, scenVars
  <2>2. Dir = 1 /\ Creates(script) /\ rt.root = 1 /\ ~rt.collected
    BY <1>3, <1>4, <2>1 DEF At, Dir, Creators
  <2>3. script[ip].do \notin {"arm", "rearm"}
    BY <2>1 DEF At
  <2>5. new.run = run /\ new.pos = pos /\ new.dir = 1
    BY <2>2
  <2> HIDE DEF new
  <2>6. Covered'
    <3>1. CASE atts' = atts BY <1>1, <1>4, <2>1, <3>1, StayReleased DEF Fewer
    <3>2. CASE atts' = {new} BY <1>1, <2>1, <2>2, <2>5, <3>2 DEF Covered
    <3> QED BY <2>1, <3>1, <3>2
  <2> QED BY <1>6, <2>1, <2>2, <2>3, <2>6
<1>9. CASE Arm
  <2>1. /\ At("arm") \/ At("rearm") \/ At("disarm")
        /\ rt' = [root |-> IF At("arm") THEN Dir ELSE rt.root, collected |-> At("disarm")]
        /\ atts' = atts
    BY <1>9 DEF Arm
  <2>2. At("arm") => Dir = 1
    BY <1>3 DEF At, Dir
  <2>3. rt'.root = (IF At("arm") THEN 1 ELSE rt.root) /\ (rt'.collected <=> At("disarm"))
    BY <2>1, <2>2
  <2>4. At("disarm") => Released
    BY <1>3, <1>4 DEF At
  <2>5. Covered' /\ (~Creates(script) => Released')
    BY <1>1, <1>4, <2>1, <2>3, <2>4 DEF Covered, Released
  <2>6. script[1].do = "submit" => rt'.root = 1
    <3>1. script[1].do = "submit" => ip # 1
      BY <2>1 DEF At
    <3> QED BY <1>1, <1>4, <2>3, <3>1
  <2>7. script[ip].do \in {"arm", "rearm"} => ~rt'.collected /\ (script[ip].do = "arm" => rt'.root = 1)
    BY <1>1, <2>3 DEF At
  <2> QED BY <1>4, <1>6, <2>3, <2>5, <2>6, <2>7
<1>10. CASE Collect
  <2>1. /\ At("collect")
        /\ \/ atts' = atts \ Mine /\ rt' = [rt EXCEPT !.collected = TRUE]
           \/ atts' \subseteq atts /\ rt' = rt /\ pc' = "failed"
    BY <1>10 DEF Collect, Raise, Goto
  <2>2. Dir = 1 /\ script[ip].do = "collect"
    BY <1>3, <2>1 DEF At, Dir
  <2>3. CASE atts' \subseteq atts /\ rt' = rt /\ pc' = "failed"
    BY <1>1, <1>4, <1>6, <2>3, StayReleased DEF Fewer
  <2>4. CASE atts' = atts \ Mine /\ rt' = [rt EXCEPT !.collected = TRUE]
    <3>1. Released'
      BY <1>1, <1>4, <2>2, <2>4 DEF Covered, Released, Mine
    <3>2. rt'.root = rt.root
      BY <1>4, <2>4
    <3>3. script[1].do = "submit" => rt.root = 1
      BY <1>1, <1>4, <2>2
    <3>4. Covered'
      BY <3>1 DEF Covered, Released
    <3> QED BY <1>4, <1>6, <2>2, <3>1, <3>2, <3>3, <3>4
  <2> QED BY <2>1, <2>3, <2>4
<1>11. CASE ~Submit /\ ~Resume /\ ~Arm /\ ~Collect
  <2>1. rt' = rt
    <3>1. CASE Cancel BY <3>1 DEF Cancel, scenVars
    <3> QED BY <1>11, <3>1, OperateAttempts
  <2>2. Fewer \/ Restated
    <3>1. CASE Cancel
      <4>1. pos \in Nat BY DEF WhereInv
      <4>2. CASE atts' = atts
        BY <4>2 DEF Fewer
      <4>3. CASE atts' = {IF a \in Mine /\ a.state = "running"
                          THEN [a EXCEPT !.state = "CANCELLED"] ELSE a : a \in atts}
        <5>1. \A b \in atts : SameBut(b, b) /\ SameBut([b EXCEPT !.state = "CANCELLED"], b)
          BY DEF TypesInv, SameBut, Attempt, Terminal
        <5> QED BY <4>3, <5>1 DEF Restated
      <4> QED BY <3>1, <4>2, <4>3 DEF Cancel
    <3> QED BY <1>11, <3>1, OperateAttempts DEF Fewer
  <2>3. ~At("submit") /\ ~At("arm") /\ ~At("rearm")
    BY <1>11, OperateAgain
  <2>4. script[ip].do \notin {"submit", "arm", "rearm"}
    BY <1>1, <2>3 DEF At
  <2>5. script[1].do = "submit" => rt.root = 1
    BY <1>1, <1>4, <2>4
  <2>6. Covered' /\ (~Creates(script) => Released')
    BY <1>1, <1>4, <2>1, <2>2, StayReleased
  <2> QED BY <1>4, <1>6, <2>1, <2>4, <2>5, <2>6
<1> QED BY <1>7, <1>8, <1>9, <1>10, <1>11

\* A step that makes no attempt of this run, and goes where all are released.
LEMMA CoverOff ==
    ASSUME CoverInv, Released',
           \/ pc' \in {"off", "next", "moving", "moved"} \cup Prelude
           \/ pc' \in {"storage", "local", "cleaned", "unwind", "restoring"}
    PROVE  CoverInv'
  BY DEF CoverInv, Prelude

\* Every step keeps the attempts of the run under the cleanup of their scenario.
LEMMA CoverNext ==
    ArmedOnly /\ PlanInv /\ WhereInv /\ TypesInv /\ CoverInv /\ [Next]_vars => CoverInv'
<1> SUFFICES ASSUME ArmedOnly, PlanInv, WhereInv, TypesInv, CoverInv, [Next]_vars
             PROVE  CoverInv'
  OBVIOUS
<1>1. CASE Operate BY <1>1, CoverOperate
<1>2. CASE Start
  <2>1. run' = run + 1 /\ atts' = atts /\ pc' \in {"preflight", "fixture"}
    BY <1>2, StartShape
  <2>2. \A a \in atts : a.run <= run /\ a.run \in Nat
    BY ScenariosAssumption DEF TypesInv, Attempt
  <2>3. run \in Nat
    BY ScenariosAssumption DEF WhereInv
  <2>4. Released'
    BY <2>1, <2>2, <2>3 DEF Released
  <2> QED BY <2>1, <2>4, CoverOff DEF Prelude
<1>3. CASE ~Start /\ ~Operate
  <2>0. run' = run /\ plan' = plan
    BY <1>3, PlanKept
  <2>r. atts' \subseteq atts => (Released => Released')
    BY <2>0 DEF Released
  <2> USE DEF suiteVars, scenVars, worldVars
  <2>1. CASE TransitionStep \/ TransitionError
    <3>1. /\ UNCHANGED <<atts, cerr>> /\ pc \in {"preflight", "moving", "restoring"}
          /\ pc' \in {pc, "fixture", "moved", "off", "unwind"}
      BY <2>1, TransitionShape, RaisedShape DEF TransitionGoesOn, TransitionDone, Goto
    <3>2. /\ pc' \in {"fixture", "moved", "unwind"} => pc # "restoring"
          /\ pc' = pc => UNCHANGED <<primary, rt>>
      BY <2>1, <3>1, TransitionShape, RaisedShape DEF TransitionGoesOn, TransitionDone, Goto
    <3> QED BY <2>r, <3>1, <3>2 DEF CoverInv, Prelude, Loose
  <2>2. CASE RequireFixture \/ BuildArchive \/ PublishArchive
    <3>1. /\ pc \in Prelude \cup {"moved"} /\ UNCHANGED <<atts, cerr>>
          /\ pc' \in {"archive", "next", "off", "unwind", "quarantine", "publish"}
      BY <2>2 DEF RequireFixture, BuildArchive, PublishArchive, Abort, Goto, Prelude
    <3>2. Released'
      BY <2>r, <3>1 DEF CoverInv
    <3> QED BY <3>1, <3>2, CoverOff DEF Prelude
  <2>3. CASE NextStep
    <3>1. /\ pc = "next" /\ UNCHANGED atts /\ rt' = NoRuntime
          /\ pc' \in {"unwind", "moving", "prepare"}
      BY <2>3 DEF NextStep, Goto
    <3>2. Released'
      BY <2>r, <3>1 DEF CoverInv
    <3> QED BY <3>1, <3>2 DEF CoverInv, Prelude
  <2>4. CASE Prepare
    <3>1. /\ pc = "prepare" /\ UNCHANGED <<atts, rt, ip, script, pos>>
          /\ pc' \in {"script", "failed"}
      BY <2>4 DEF Prepare, Goto
    <3>2. ip = 1 /\ rt = NoRuntime /\ Released'
      BY <2>r, <3>1 DEF CoverInv, WhereInv
    <3>3. rt'.root = 0
      BY <3>1, <3>2 DEF NoRuntime
    <3>4. Covered'
      BY <3>2 DEF Covered, Released
    <3> QED BY <3>1, <3>2, <3>3, <3>4 DEF CoverInv, Prelude
  <2>5. CASE /\ ScriptDone \/ Fail \/ Interrupt
             /\ UNCHANGED atts
    <3>1. /\ pc \in {"prepare", "script", "failed"} /\ pc' = "attempt"
          /\ UNCHANGED <<atts, rt, pos, script>>
      BY <2>5 DEF ScriptDone, Fail, Interrupt, Goto
    <3>2. Covered /\ (~Creates(script) => Released)
      <4>1. Released => Covered
        BY DEF Released, Covered
      <4> QED BY <3>1, <4>1 DEF CoverInv
    <3>3. Covered' /\ (~Creates(script)' => Released')
      BY <2>0, <3>1, <3>2 DEF Covered, Released, Creates
    <3> QED BY <3>1, <3>3 DEF CoverInv, Prelude
  <2>6. CASE Sweep
    <3>1. /\ pc \in {"attempt", "storage", "local"}
          /\ pc' \in {"storage", "local", "cleaned"}
          /\ pc = "attempt" => pc' = "storage"
          /\ Loose' <=> Loose
      BY <2>6, SweepShape DEF Loose
    <3>2. CASE CleanAttempt
      <4>1. pc = "attempt"
        BY <3>2 DEF CleanAttempt
      <4>2. /\ Loose \/ (Covered /\ (~Creates(script) => Released))
            /\ Item.substrate # "kubectl" => ~Creates(script)
        BY <4>1, ItemIs DEF CoverInv, InScenario, Cleaning
      <4>3. ~cerr' => Released' \/ Loose'
        <5> SUFFICES ASSUME ~Loose PROVE ~cerr' => Released'
          BY <3>1
        <5>1. CASE Item.substrate = "kubectl"
          <6>1. ~cerr' => atts' = atts \ UnderCleanup
            BY <3>2, <5>1 DEF CleanAttempt, CleanupStep
          <6>2. \A a \in atts : a.run = run => a \in UnderCleanup
            BY <4>2 DEF Covered, UnderCleanup
          <6> QED BY <2>0, <6>1, <6>2 DEF Released
        <5>2. CASE Item.substrate # "kubectl"
          <6>1. atts' = atts
            BY <3>2, <5>2 DEF CleanAttempt, CleanupStep
          <6> QED BY <2>r, <4>2, <5>2, <6>1
        <5> QED BY <5>1, <5>2
      <4> QED BY <3>1, <4>1, <4>3 DEF CoverInv, Prelude
    <3>3. CASE CleanStorage \/ CleanLocal
      <4>1. /\ pc \in {"storage", "local"} /\ atts' = atts /\ (~cerr' => ~cerr)
        BY <3>3 DEF CleanStorage, CleanLocal, CleanupStep
      <4>2. ~cerr' => Released' \/ Loose'
        BY <2>r, <3>1, <4>1 DEF CoverInv
      <4> QED BY <3>1, <4>2 DEF CoverInv, Prelude
    <3> QED BY <2>6, <3>2, <3>3 DEF Sweep
  <2>7. CASE Cleaned
    <3>1. /\ pc = "cleaned" /\ UNCHANGED <<atts, cerr>>
          /\ \/ pc' = "unwind" /\ (~cerr => (Loose' <=> Loose))
             \/ pc' = "next" /\ ~cerr /\ ~Loose
      BY <2>7 DEF Cleaned, Goto, Loose
    <3>2. ~cerr => Released' \/ Loose
      BY <2>r, <3>1 DEF CoverInv
    <3> QED BY <3>1, <3>2 DEF CoverInv, Prelude
  <2>8. CASE Unwind
    <3>1. /\ pc = "unwind" /\ UNCHANGED <<atts, cerr>> /\ pc' \in {"off", "restoring"}
          /\ (Loose' <=> Loose)
      BY <2>8 DEF Unwind, Goto, Loose
    <3>2. ~cerr => Released' \/ Loose
      BY <2>r, <3>1 DEF CoverInv
    <3> QED BY <3>1, <3>2 DEF CoverInv, Prelude
  <2>9. CASE Die
    <3>1. pc' = "off"
      BY <2>9 DEF Die, Goto
    <3> QED BY <3>1 DEF CoverInv, Prelude
  <2>10. CASE Quiet
    <3>1. UNCHANGED <<pc, ip, pos, rt, script, cerr>> /\ (Loose' <=> Loose)
      BY <2>10, QuietShape DEF Loose
    <3>2. Fewer \/ Restated
      <4>1. CASE AttemptEnds BY <4>1, EndsAtts
      <4>2. CASE LosePod BY <4>2 DEF LosePod, Fewer
      <4>3. CASE Edit BY <4>3 DEF Edit, Fewer
      <4>4. CASE UNCHANGED vars BY <4>4 DEF vars, Fewer
      <4> QED BY <2>10, <4>1, <4>2, <4>3, <4>4 DEF Quiet
    <3>3. (Released => Released') /\ (Covered => Covered')
      BY <2>0, <3>1, <3>2, StayReleased
    <3>4. Creates(script)' <=> Creates(script)
      BY <3>1 DEF Creates
    <3> QED BY <3>1, <3>3, <3>4 DEF CoverInv
  <2>11. CASE Interrupt /\ atts' # atts
    <3> DEFINE new == [run |-> run, pos |-> pos, dir |-> Dir, state |-> "running"]
    <3>1. /\ At("submit") \/ At("start")
          /\ pc = "script" /\ pc' = "attempt" /\ primary' = "interrupt"
          /\ atts' = {new} /\ UNCHANGED <<rt, pos, script, ip>>
      BY <2>11 DEF Interrupt, Goto, At
    <3>2. new.run = run /\ new.pos = pos /\ new.dir = Dir
      OBVIOUS
    <3> HIDE DEF new
    <3>3. Tidy(script) /\ ip \in 1..Len(script) /\ Len(script) \in Nat
      BY <3>1, ScriptIsTidy DEF WhereInv, At
    <3>4. CASE At("submit")
      <4>1. ip = 1
        BY <3>3, <3>4 DEF Tidy, At
      <4>2. rt = NoRuntime
        BY <3>1, <4>1 DEF CoverInv
      <4>3. Loose'
        BY <3>1, <4>2 DEF Loose, NoRuntime
      <4> QED BY <3>1, <4>3 DEF CoverInv, Prelude
    <3>5. CASE At("start")
      <4>1. /\ Dir = 1 /\ ip > 1 /\ script[ip - 1].do = "arm" /\ Creates(script)
        BY <3>3, <3>5 DEF Tidy, At, Dir, Creators, Creates
      <4>2. rt.root = 1 /\ ~rt.collected
        BY <3>1, <4>1 DEF CoverInv
      <4>3. Covered' /\ Creates(script)'
        BY <2>0, <3>1, <3>2, <4>1, <4>2 DEF Covered, Creates
      <4> QED BY <3>1, <4>3 DEF CoverInv, Prelude
    <3> QED BY <3>1, <3>4, <3>5
  <2>12. CASE Cut
    <3>1. /\ pc' = "unwind" /\ UNCHANGED atts
          /\ cerr' = TRUE \/ pc \in {"next", "moving", "moved"}
      BY <2>12, CutShape
    <3>2. cerr' = TRUE \/ Released'
      BY <2>r, <3>1 DEF CoverInv
    <3> QED BY <3>1, <3>2 DEF CoverInv, Prelude
  <2> QED
    BY <1>3, <2>1, <2>2, <2>3, <2>4, <2>5, <2>6, <2>7, <2>8, <2>9, <2>10,
       <2>11, <2>12, NextCases DEF Fail, ScriptDone
<1> QED BY <1>1, <1>2, <1>3

-----------------------------------------------------------------------------
(* The theorems.                                                           *)

ScenariosInv ==
    /\ PlanInv /\ WhereInv /\ HomeInv /\ VerdictInv
    /\ ArchiveInv /\ MarkerInv /\ OwnInv /\ TypesInv /\ BudgetInv

\* The whole invariant holds at the beginning ...
LEMMA ScenariosInvInit == Init => ScenariosInv
  BY PlanInvInit, WhereInit, HomeInvInit, VerdictInit, ArchiveInit, MarkerInit,
     OwnInit, TypesInit, BudgetInit DEF ScenariosInv

\* ... every step keeps it ...
LEMMA ScenariosInvNext == ScenariosInv /\ [Next]_vars => ScenariosInv'
<1> SUFFICES ASSUME ScenariosInv, [Next]_vars PROVE ScenariosInv'
  OBVIOUS
<1>1. failed # {} => primary # "none"
  BY DEF ScenariosInv, VerdictInv, Blamed
<1> QED
  BY <1>1, PlanInvNext, WhereNext, HomeInvNext, VerdictNext, ArchiveNext, MarkerNext,
     OwnNext, TypesNext, BudgetNext DEF ScenariosInv

\* ... and so it always holds.
LEMMA ScenariosHolds == Spec => []ScenariosInv
  BY ScenariosInvInit, ScenariosInvNext, PTL DEF Spec

\* The exit status, the injection and the archive are read off the invariant.
LEMMA ExitHolds == ScenariosInv => ExitSound
<1> SUFFICES ASSUME ScenariosInv PROVE ExitSound
  OBVIOUS
<1> USE DEF Prelude, InScenario, Cleaning
<1>1. TypeOK
  <2>1. /\ HomeTypeOK /\ home \in Modes
    BY DEF ScenariosInv, HomeInv
  <2>2. /\ run \in 0..MaxRuns /\ pos \in 0..(Len(plan) + 1) /\ ip \in Nat
        /\ pc \in {"off", "preflight", "fixture", "archive", "quarantine",
                   "publish", "next", "moving", "moved", "prepare", "script",
                   "failed", "attempt", "storage", "local", "cleaned",
                   "unwind", "restoring"}
    BY DEF ScenariosInv, WhereInv
  <2>3. /\ rt \in [root : 0..2, collected : BOOLEAN]
        /\ seen \in Terminal \cup {"none"}
        /\ primary \in {"none", "scenario", "cleanup", "transition", "restore",
                        "fixture", "interrupt", "unrestored"}
        /\ cerr \in BOOLEAN /\ claim \in BOOLEAN
        /\ exit \in {"none", "passed", "failed", "died"}
        /\ atts \subseteq [run : 1..MaxRuns, pos : Nat, dir : 1..2,
                           state : Terminal \cup {"running"}]
    BY DEF ScenariosInv, TypesInv, Attempt
  <2>4. own \subseteq Resources /\ orphans \subseteq Resources
    BY DEF ScenariosInv, OwnInv
  <2>5. injected \in 0..1 /\ marker \in BOOLEAN
    BY DEF ScenariosInv, MarkerInv
  <2>6. passed \subseteq Work /\ failed \subseteq Work
    BY DEF ScenariosInv, VerdictInv
  <2>7. /\ source \in Sources /\ snap \in Sources
        /\ cache \in [Sources -> {"none", "good", "bad"}]
    BY DEF ScenariosInv, ArchiveInv
  <2>8. faults \in 0..MaxFaults /\ deaths \in 0..MaxDeaths
    BY DEF ScenariosInv, BudgetInv
  <2> QED BY <2>1, <2>2, <2>3, <2>4, <2>5, <2>6, <2>7, <2>8 DEF TypeOK
<1>2. ExitZeroMeansAll /\ CleanupNeverMasks
  BY DEF ScenariosInv, VerdictInv, Blamed, CleanupNeverMasks
<1>3. InjectedOnce
  BY DEF ScenariosInv, MarkerInv, InjectedOnce
<1>4. ArchiveVerified
  BY DEF ScenariosInv, ArchiveInv, ArchiveVerified
<1> QED BY <1>1, <1>2, <1>3, <1>4 DEF ExitSound

\* For every selection of scenarios, however many runs follow each other, are
\* killed, interrupted or fail: the plan holds every selected item once with the
\* pool in the home mode each item needs, a pool that is or may become shared is
\* on record, an SSH scenario runs in its declared mode, and a run that is past
\* its preflight has recovered what an earlier one left (plan_scenarios,
\* SshHomeTransitionManager).
THEOREM HomesAreSound == Spec => []HomesSound
<1>1. ScenariosInv => HomesSound
  BY HomesHold DEF ScenariosInv
<1> QED BY <1>1, ScenariosHolds, PTL

\* Exit code 0 means that everything planned passed with separate homes, no
\* cleanup and no restore replaces the error of a failed scenario, an injected
\* item that passed had exactly one failure, and a scenario runs with the
\* verified archive of the run's sources (run_filesystem_tests, the wrapper of
\* failure_injection.py, get_or_build_deployment).
THEOREM ExitIsSound == Spec => []ExitSound
  BY ExitHolds, ScenariosHolds, PTL

\* As long as only scenarios are selected that put each attempt under the
\* cleanup when it is submitted or before, a cleanup that neither failed nor was
\* cut off has released every attempt of the run, but for that of a submission
\* interrupted before its root was recorded, and the next scenario finds nothing
\* of the last one (_cleanup_kubectl_attempt, _cleanup_scenario_resources).
THEOREM CleanupIsComplete == ArmedOnly => (Spec => []CleanupComplete)
<1> SUFFICES ASSUME ArmedOnly PROVE Spec => []CleanupComplete
  OBVIOUS
<1>1. Init => CoverInv
  BY CoverInit
<1>2. ScenariosInv /\ CoverInv /\ [Next]_vars => CoverInv'
  BY CoverNext DEF ScenariosInv
<1>3. ScenariosInv /\ CoverInv => CleanupComplete
  BY DEF ScenariosInv, CoverInv, OwnInv, Prelude, CleanupComplete, AttemptsReleased,
         Isolated, Released, Loose
<1>4. Spec => []CoverInv
  BY <1>1, <1>2, ScenariosHolds, PTL DEF Spec
<1> QED BY <1>3, <1>4, ScenariosHolds, PTL
=============================================================================
