------------------------ MODULE EnterpriseLifecycleProofs ------------------------
(***************************************************************************)
(* What the lifecycle controller guarantees for any number of modules and  *)
(* any dependencies between them, whichever of them fail, hang or come     *)
(* late: its initialization order is the first that respects every         *)
(* dependency, and through start, rollback and shutdown no module is left  *)
(* without what it depends on.                                             *)
(***************************************************************************)
EXTENDS EnterpriseLifecycle, SumTheorems

-----------------------------------------------------------------------------
(* The initialization order.  It is computed by a recursive function, so   *)
(* first that there is one, and then what it holds after n steps.          *)

NextPlaced(s) == IF Unblocked(s) = {} THEN s ELSE Append(s, Min(Unblocked(s)))

\* f is the list after n steps, for every n.
Places(f) == f = [n \in 0..Count |-> IF n = 0 THEN << >> ELSE NextPlaced(f[n - 1])]

PlaceOf == CHOOSE f : Places(f)

LEMMA OrderUnfolds == InitializationOrder = PlaceOf[Count]
  BY DEF InitializationOrder, PlaceOf, Places, NextPlaced

LEMMA PlacesExist == \E f : Places(f)
  <1> DEFINE upTo(f, n) == f = [k \in 0..n |-> IF k = 0 THEN << >> ELSE NextPlaced(f[k - 1])]
  <1> DEFINE T == {n \in Nat : \E f : upTo(f, n)}
  <1>1. 0 \in T
    <2>1. upTo([k \in 0..0 |-> << >>], 0)
      OBVIOUS
    <2>2. QED
      BY <2>1
  <1>2. ASSUME NEW n \in T PROVE n + 1 \in T
    <2>1. PICK f : upTo(f, n)
      BY <1>2
    <2> DEFINE g == [k \in 0..(n + 1) |-> IF k = 0 THEN << >> ELSE NextPlaced(f[k - 1])]
    <2>2. ASSUME NEW k \in 0..n PROVE g[k] = f[k]
      <3>1. f[k] = IF k = 0 THEN << >> ELSE NextPlaced(f[k - 1])
        BY <2>1
      <3>2. g[k] = IF k = 0 THEN << >> ELSE NextPlaced(f[k - 1])
        BY <1>2
      <3>3. QED
        BY <3>1, <3>2
    <2>3. ASSUME NEW k \in 0..(n + 1)
          PROVE  g[k] = IF k = 0 THEN << >> ELSE NextPlaced(g[k - 1])
      <3>1. CASE k = 0
        BY <3>1
      <3>2. CASE k # 0
        <4>1. k - 1 \in 0..n
          BY <1>2, <3>2
        <4>2. g[k] = NextPlaced(f[k - 1])
          BY <3>2
        <4>3. g[k - 1] = f[k - 1]
          BY <2>2, <4>1
        <4> HIDE DEF g
        <4>4. QED
          BY <3>2, <4>2, <4>3
      <3>3. QED
        BY <3>1, <3>2
    <2>4. g = [k \in 0..(n + 1) |-> g[k]]
      OBVIOUS
    <2> HIDE DEF g
    <2>5. upTo(g, n + 1)
      BY <2>3, <2>4
    <2> HIDE DEF upTo
    <2>6. QED
      BY <1>2, <2>5
  <1>3. Count \in T
    <2>1. T = Nat
      <3>1. T \in SUBSET Nat
        OBVIOUS
      <3> HIDE DEF T
      <3>2. QED
        BY <1>1, <1>2, <3>1, NaturalsBySuccessor
    <2>2. QED
      BY <2>1, CountAssumption
  <1>4. QED
    BY <1>3 DEF Places

LEMMA PlacesUnfold ==
    /\ PlaceOf[0] = << >>
    /\ \A n \in 0..(Count - 1) : PlaceOf[n + 1] = NextPlaced(PlaceOf[n])
  <1>1. PlaceOf = [n \in 0..Count |-> IF n = 0 THEN << >> ELSE NextPlaced(PlaceOf[n - 1])]
    <2>1. Places(PlaceOf)
      BY PlacesExist DEF PlaceOf
    <2>2. QED
      BY <2>1 DEF Places
  <1> HIDE DEF PlaceOf
  <1>2. PlaceOf[0] = << >>
    BY <1>1, CountAssumption
  <1>3. ASSUME NEW n \in 0..(Count - 1) PROVE PlaceOf[n + 1] = NextPlaced(PlaceOf[n])
    <2>1. n + 1 \in 0..Count /\ n + 1 # 0 /\ (n + 1) - 1 = n
      BY CountAssumption
    <2>2. QED
      BY <1>1, <2>1
  <1>4. QED
    BY <1>2, <1>3

\* The least of some modules is one of them.
LEMMA LeastModule ==
    ASSUME NEW S \in SUBSET Modules, S # {}
    PROVE  Min(S) \in S /\ \A x \in S : Min(S) <= x
  <1>1. S \in SUBSET Nat
    BY CountAssumption DEF Modules
  <1>2. \E n \in S : \A k \in S : n <= k
    BY <1>1, LeastNatural
  <1>3. QED
    BY <1>2 DEF Min

-----------------------------------------------------------------------------
(* Every list on the way names modules once, after what they depend on.    *)

Once(s) == \A i, j \in DOMAIN s : s[i] = s[j] => i = j

Ordered(s) ==
    /\ s \in Seq(Modules)
    /\ Once(s)
    /\ \A i \in DOMAIN s : DependsOn(s[i]) \subseteq {s[j] : j \in 1..(i - 1)}

LEMMA NextOrdered ==
    ASSUME NEW s, Ordered(s)
    PROVE  Ordered(NextPlaced(s)) /\ Len(NextPlaced(s)) <= Len(s) + 1
  <1>1. s \in Seq(Modules) /\ Len(s) \in Nat /\ DOMAIN s = 1..Len(s)
    BY DEF Ordered
  <1>2. CASE Unblocked(s) = {}
    BY <1>1, <1>2 DEF NextPlaced
  <1>3. CASE Unblocked(s) # {}
    <2> DEFINE x == Min(Unblocked(s))
    <2> DEFINE t == Append(s, x)
    <2>1. /\ x \in Modules /\ x \notin Placed(s) /\ DependsOn(x) \subseteq Placed(s)
      <3>1. Unblocked(s) \in SUBSET Modules
        BY DEF Unblocked
      <3>2. x \in Unblocked(s)
        BY <1>3, <3>1, LeastModule
      <3> HIDE DEF x
      <3>3. QED
        BY <3>2 DEF Unblocked
    <2>2. NextPlaced(s) = t
      BY <1>3 DEF NextPlaced
    <2> HIDE DEF x
    <2>3. /\ t \in Seq(Modules) /\ Len(t) = Len(s) + 1 /\ DOMAIN t = 1..(Len(s) + 1)
          /\ t[Len(s) + 1] = x
          /\ \A i \in 1..Len(s) : t[i] = s[i]
      BY <1>1, <2>1
    <2> HIDE DEF t
    <2>4. Once(t)
      <3>1. \A i \in 1..Len(s) : s[i] # x
        BY <1>1, <2>1 DEF Placed
      <3>2. ASSUME NEW i \in DOMAIN t, NEW j \in DOMAIN t, t[i] = t[j] PROVE i = j
        <4>1. CASE i \in 1..Len(s) /\ j \in 1..Len(s)
          BY <1>1, <2>3, <3>2, <4>1 DEF Ordered, Once
        <4>2. CASE i = Len(s) + 1 \/ j = Len(s) + 1
          BY <1>1, <2>3, <3>1, <3>2, <4>2
        <4>3. QED
          BY <1>1, <2>3, <4>1, <4>2
      <3>3. QED
        BY <3>2 DEF Once
    <2>5. ASSUME NEW i \in DOMAIN t, NEW d \in DependsOn(t[i])
          PROVE  d \in {t[j] : j \in 1..(i - 1)}
      <3>1. CASE i \in 1..Len(s)
        <4>1. d \in {s[j] : j \in 1..(i - 1)}
          BY <1>1, <2>3, <2>5, <3>1 DEF Ordered
        <4>2. PICK j \in 1..(i - 1) : d = s[j]
          BY <4>1
        <4>3. j \in 1..Len(s)
          BY <1>1, <3>1
        <4>4. QED
          BY <2>3, <4>2, <4>3
      <3>2. CASE i = Len(s) + 1
        <4>1. d \in Placed(s)
          BY <2>1, <2>3, <2>5, <3>2
        <4>2. PICK j \in 1..Len(s) : d = s[j]
          BY <1>1, <4>1 DEF Placed
        <4>3. j \in 1..(i - 1)
          BY <1>1, <3>2
        <4>4. QED
          BY <2>3, <4>2, <4>3
      <3>3. QED
        BY <1>1, <2>3, <3>1, <3>2
    <2>6. QED
      BY <1>1, <2>2, <2>3, <2>4, <2>5 DEF Ordered
  <1>4. QED
    BY <1>2, <1>3

LEMMA PlacesOrdered == \A n \in 0..Count : Ordered(PlaceOf[n]) /\ Len(PlaceOf[n]) <= n
  <1> DEFINE T == {n \in Nat : n <= Count => Ordered(PlaceOf[n]) /\ Len(PlaceOf[n]) <= n}
  <1>1. 0 \in T
    <2>1. Ordered(<< >>) /\ Len(<< >>) = 0
      BY DEF Ordered, Once
    <2>2. Ordered(PlaceOf[0]) /\ Len(PlaceOf[0]) <= 0
      BY <2>1, PlacesUnfold
    <2>3. QED
      BY <2>2
  <1>2. ASSUME NEW n \in T PROVE n + 1 \in T
    <2>1. n \in Nat /\ n + 1 \in Nat
      OBVIOUS
    <2>2. ASSUME n + 1 <= Count
          PROVE  Ordered(PlaceOf[n + 1]) /\ Len(PlaceOf[n + 1]) <= n + 1
      <3>1. n <= Count /\ n \in 0..(Count - 1)
        BY <2>1, <2>2, CountAssumption
      <3>2. Ordered(PlaceOf[n]) /\ Len(PlaceOf[n]) <= n
        BY <1>2, <3>1
      <3>3. PlaceOf[n + 1] = NextPlaced(PlaceOf[n])
        BY <3>1, PlacesUnfold
      <3>4. Ordered(PlaceOf[n + 1]) /\ Len(PlaceOf[n + 1]) <= Len(PlaceOf[n]) + 1
        BY <3>2, <3>3, NextOrdered
      <3>5. Len(PlaceOf[n + 1]) \in Nat /\ Len(PlaceOf[n]) \in Nat
        BY <3>2, <3>4 DEF Ordered
      <3>6. QED
        BY <2>1, <3>2, <3>4, <3>5
    <2>3. QED
      BY <2>1, <2>2
  <1>3. T = Nat
    <2>1. T \in SUBSET Nat
      OBVIOUS
    <2> HIDE DEF T
    <2>2. QED
      BY <1>1, <1>2, <2>1, NaturalsBySuccessor
  <1>4. ASSUME NEW n \in 0..Count PROVE Ordered(PlaceOf[n]) /\ Len(PlaceOf[n]) <= n
    <2>1. n \in Nat /\ n <= Count
      BY CountAssumption
    <2>2. n \in T
      BY <1>3, <2>1
    <2>3. QED
      BY <2>1, <2>2
  <1>5. QED
    BY <1>4

-----------------------------------------------------------------------------
(* A list that names every module once is complete, and while some order   *)
(* respects every dependency no shorter one is stuck.                      *)

LEMMA ModulesCounted == IsFiniteSet(Modules) /\ Cardinality(Modules) = Count
  BY FS_Interval, CountAssumption DEF Modules

LEMMA CompleteOrder ==
    ASSUME NEW s, Ordered(s), Len(s) = Count
    PROVE  s \in [1..Count -> Modules] /\ IsTopological(s)
  <1>1. s \in [1..Count -> Modules] /\ DOMAIN s = 1..Count /\ DOMAIN s = Modules
    BY DEF Ordered, Modules
  <1>2. s \in Injection(Modules, Modules)
    BY <1>1 DEF Ordered, Once, Injection, IsInjective
  <1>3. s \in Surjection(Modules, Modules)
    BY <1>2, ModulesCounted, FS_Injection
  <1>4. Placed(s) = Modules
    BY <1>1, <1>3 DEF Placed, Surjection
  <1>5. QED
    BY <1>1, <1>4 DEF IsTopological, Ordered

LEMMA TopologicalOnce ==
    ASSUME NEW s \in [1..Count -> Modules], IsTopological(s)
    PROVE  Once(s)
  <1>1. DOMAIN s = Modules /\ s \in [Modules -> Modules]
    BY DEF Modules
  <1>2. \A m \in Modules : \E i \in Modules : s[i] = m
    BY <1>1 DEF IsTopological, Placed
  <1>3. s \in Surjection(Modules, Modules)
    BY <1>1, <1>2 DEF Surjection
  <1>4. s \in Injection(Modules, Modules)
    BY <1>3, ModulesCounted, FS_SurjSameCardinalityImpliesInj
  <1>5. QED
    BY <1>1, <1>4 DEF Once, Injection, IsInjective

LEMMA NotStuck ==
    ASSUME NEW s \in [1..Count -> Modules], IsTopological(s), NEW t, Ordered(t), Len(t) < Count
    PROVE  Unblocked(t) # {}
  <1>1. t \in Seq(Modules) /\ Len(t) \in Nat /\ DOMAIN t = 1..Len(t) /\ Placed(t) \in SUBSET Modules
    BY DEF Ordered, Placed
  <1>2. Placed(t) # Modules
    <2>1. SUFFICES ASSUME Placed(t) = Modules PROVE FALSE
      OBVIOUS
    <2>2. t \in [1..Len(t) -> Modules] /\ \A m \in Modules : \E i \in 1..Len(t) : t[i] = m
      BY <1>1, <2>1 DEF Placed
    <2>3. t \in Surjection(1..Len(t), Modules)
      BY <2>2 DEF Surjection
    <2>4. IsFiniteSet(1..Len(t)) /\ Cardinality(1..Len(t)) = Len(t)
      <3>1. ASSUME NEW n \in Nat PROVE IsFiniteSet(1..n) /\ Cardinality(1..n) = n
        BY FS_Interval
      <3>2. QED
        BY <1>1, <3>1
    <2>5. Cardinality(Modules) <= Len(t)
      BY <2>3, <2>4, FS_Surjection
    <2>6. QED
      BY <1>1, <2>5, ModulesCounted, CountAssumption
  <1> DEFINE unplaced == {i \in 1..Count : s[i] \notin Placed(t)}
  <1>3. PICK i \in unplaced : \A k \in unplaced : i <= k
    <2>1. unplaced # {}
      <3>1. PICK m \in Modules : m \notin Placed(t)
        BY <1>1, <1>2
      <3>2. PICK i \in DOMAIN s : s[i] = m
        BY <3>1 DEF IsTopological, Placed
      <3>3. QED
        BY <3>1, <3>2
    <2>2. unplaced \in SUBSET Nat
      BY CountAssumption
    <2>3. QED
      BY <2>1, <2>2, LeastNatural
  <1>4. i \in DOMAIN s /\ s[i] \in Modules /\ s[i] \notin Placed(t)
    BY <1>3
  <1>5. DependsOn(s[i]) \subseteq Placed(t)
    <2>1. SUFFICES ASSUME NEW d \in DependsOn(s[i]) PROVE d \in Placed(t)
      OBVIOUS
    <2>2. PICK j \in 1..(i - 1) : d = s[j]
      BY <1>4 DEF IsTopological
    <2>3. j \in 1..Count /\ j < i
      BY <1>3, CountAssumption
    <2>4. j \notin unplaced
      BY <1>3, <2>3, CountAssumption
    <2>5. QED
      BY <2>2, <2>3, <2>4
  <1>6. QED
    BY <1>4, <1>5 DEF Unblocked

\* So every step of the order finds a module to place.
LEMMA NeverStuck ==
    ASSUME NEW s \in [1..Count -> Modules], IsTopological(s)
    PROVE  \A n \in 0..Count : Len(PlaceOf[n]) = n
  <1> DEFINE T == {n \in Nat : n <= Count => Len(PlaceOf[n]) = n}
  <1>1. 0 \in T
    BY PlacesUnfold
  <1>2. ASSUME NEW n \in T PROVE n + 1 \in T
    <2>1. SUFFICES ASSUME n + 1 <= Count PROVE Len(PlaceOf[n + 1]) = n + 1
      OBVIOUS
    <2>2. n \in 0..(Count - 1) /\ n \in 0..Count /\ n <= Count /\ n < Count
      BY <1>2, <2>1, CountAssumption
    <2>3. Len(PlaceOf[n]) = n /\ Ordered(PlaceOf[n])
      BY <1>2, <2>2, PlacesOrdered
    <2>4. Unblocked(PlaceOf[n]) # {}
      BY <2>2, <2>3, NotStuck
    <2>5. PlaceOf[n + 1] = Append(PlaceOf[n], Min(Unblocked(PlaceOf[n])))
      BY <2>2, <2>4, PlacesUnfold DEF NextPlaced
    <2>6. Min(Unblocked(PlaceOf[n])) \in Modules /\ PlaceOf[n] \in Seq(Modules)
      <3>1. Unblocked(PlaceOf[n]) \in SUBSET Modules
        BY DEF Unblocked
      <3>2. QED
        BY <2>3, <2>4, <3>1, LeastModule DEF Ordered
    <2>7. QED
      BY <2>3, <2>5, <2>6
  <1>3. T = Nat
    <2>1. T \in SUBSET Nat
      OBVIOUS
    <2> HIDE DEF T
    <2>2. QED
      BY <1>1, <1>2, <2>1, NaturalsBySuccessor
  <1>4. QED
    <2>1. SUFFICES ASSUME NEW n \in 0..Count PROVE Len(PlaceOf[n]) = n
      OBVIOUS
    <2>2. n \in Nat /\ n <= Count
      BY CountAssumption
    <2>3. n \in T
      BY <1>3, <2>2
    <2>4. QED
      BY <2>2, <2>3

\* Then each list is the beginning of the order, and each entry of the order
\* the first module that could come next.
LEMMA OrderIsGreedy ==
    ASSUME \A n \in 0..Count : Len(PlaceOf[n]) = n
    PROVE  \A i \in 1..Count :
              /\ Placed(PlaceOf[i - 1]) = {InitializationOrder[j] : j \in 1..(i - 1)}
              /\ InitializationOrder[i] = Min(Unblocked(PlaceOf[i - 1]))
  <1>1. ASSUME NEW n \in 0..(Count - 1)
        PROVE  /\ PlaceOf[n + 1][n + 1] = Min(Unblocked(PlaceOf[n]))
               /\ \A i \in 1..n : PlaceOf[n + 1][i] = PlaceOf[n][i]
    <2>1. n \in 0..Count /\ n + 1 \in 0..Count /\ n \in Nat
      BY CountAssumption
    <2>2. Ordered(PlaceOf[n]) /\ Len(PlaceOf[n]) = n /\ Len(PlaceOf[n + 1]) = n + 1
      BY <2>1, PlacesOrdered
    <2>3. PlaceOf[n + 1] # PlaceOf[n]
      BY <2>1, <2>2
    <2>4. PlaceOf[n + 1] = Append(PlaceOf[n], Min(Unblocked(PlaceOf[n])))
      BY <2>3, PlacesUnfold DEF NextPlaced
    <2>5. PlaceOf[n] \in Seq(Modules)
      BY <2>2 DEF Ordered
    <2> DEFINE x == Min(Unblocked(PlaceOf[n]))
    <2>6. Unblocked(PlaceOf[n]) # {}
      BY <2>3, PlacesUnfold DEF NextPlaced
    <2>7. x \in Modules
      <3>1. Unblocked(PlaceOf[n]) \in SUBSET Modules
        BY DEF Unblocked
      <3>2. QED
        BY <2>6, <3>1, LeastModule
    <2> HIDE DEF x
    <2>8. Append(PlaceOf[n], x)[n + 1] = x /\ \A i \in 1..n : Append(PlaceOf[n], x)[i] = PlaceOf[n][i]
      BY <2>1, <2>2, <2>5, <2>7
    <2>9. QED
      BY <2>4, <2>8 DEF x
  <1> DEFINE T == {n \in Nat : n <= Count => \A i \in 1..n : PlaceOf[n][i] = PlaceOf[i][i]}
  <1>2. 0 \in T
    OBVIOUS
  <1>3. ASSUME NEW n \in T PROVE n + 1 \in T
    <2>1. SUFFICES ASSUME n + 1 <= Count, NEW i \in 1..(n + 1) PROVE PlaceOf[n + 1][i] = PlaceOf[i][i]
      OBVIOUS
    <2>2. n \in 0..(Count - 1) /\ n <= Count
      BY <1>3, <2>1, CountAssumption
    <2>3. CASE i = n + 1
      BY <2>3
    <2>4. CASE i # n + 1
      <3>1. i \in 1..n
        BY <1>3, <2>1, <2>4
      <3>2. PlaceOf[n + 1][i] = PlaceOf[n][i]
        BY <1>1, <2>2, <3>1
      <3>3. PlaceOf[n][i] = PlaceOf[i][i]
        BY <1>3, <2>2, <3>1
      <3>4. QED
        BY <3>2, <3>3
    <2>5. QED
      BY <2>3, <2>4
  <1>4. T = Nat
    <2>1. T \in SUBSET Nat
      OBVIOUS
    <2> HIDE DEF T
    <2>2. QED
      BY <1>2, <1>3, <2>1, NaturalsBySuccessor
  <1>5. ASSUME NEW n \in 0..Count PROVE \A i \in 1..n : PlaceOf[n][i] = PlaceOf[i][i]
    <2>1. n \in Nat /\ n <= Count
      BY CountAssumption
    <2>2. n \in T
      BY <1>4, <2>1
    <2>3. QED
      BY <2>1, <2>2
  <1>6. \A i \in 1..Count : InitializationOrder[i] = PlaceOf[i][i]
    BY <1>5, OrderUnfolds, CountAssumption
  <1>7. SUFFICES ASSUME NEW i \in 1..Count
                 PROVE  /\ Placed(PlaceOf[i - 1]) = {InitializationOrder[j] : j \in 1..(i - 1)}
                        /\ InitializationOrder[i] = Min(Unblocked(PlaceOf[i - 1]))
    OBVIOUS
  <1>8. i - 1 \in 0..(Count - 1) /\ i - 1 \in 0..Count /\ (i - 1) + 1 = i /\ i - 1 \in Nat
    BY CountAssumption
  <1>9. InitializationOrder[i] = Min(Unblocked(PlaceOf[i - 1]))
    BY <1>1, <1>6, <1>8
  <1>10. Placed(PlaceOf[i - 1]) = {InitializationOrder[j] : j \in 1..(i - 1)}
    <2>1. DOMAIN PlaceOf[i - 1] = 1..(i - 1)
      <3>1. PlaceOf[i - 1] \in Seq(Modules) /\ Len(PlaceOf[i - 1]) = i - 1
        BY <1>8, PlacesOrdered DEF Ordered
      <3>2. QED
        BY <3>1
    <2>2. \A j \in 1..(i - 1) : j \in 1..Count /\ PlaceOf[i - 1][j] = InitializationOrder[j]
      BY <1>5, <1>6, <1>8, CountAssumption
    <2>3. QED
      BY <2>1, <2>2 DEF Placed
  <1>11. QED
    BY <1>9, <1>10

\* The order is refused when there is none, and is the first when there is one.
LEMMA FirstTopological == OrderIsFirstTopological
  <1> DEFINE orders == {s \in [1..Count -> Modules] : IsTopological(s)}
  <1> DEFINE O == InitializationOrder
  <1>1. Ordered(O) /\ Len(O) \in Nat
    <2>1. Ordered(O)
      BY PlacesOrdered, OrderUnfolds, CountAssumption
    <2> HIDE DEF O
    <2>2. QED
      BY <2>1 DEF Ordered
  <1>2. ASSUME ~Cyclic PROVE O \in orders
    <2>1. Len(O) <= Count
      BY PlacesOrdered, OrderUnfolds, CountAssumption
    <2>2. ~(Len(O) < Count)
      BY <1>2 DEF Cyclic
    <2>3. Len(O) = Count
      BY <1>1, <2>1, <2>2, CountAssumption
    <2> HIDE DEF O
    <2>4. QED
      BY <1>1, <2>3, CompleteOrder
  <1>3. ASSUME NEW s \in orders PROVE O \in orders /\ ~Before(s, O)
    <2>0. s \in [1..Count -> Modules] /\ IsTopological(s) /\ DOMAIN s = 1..Count /\ Once(s)
      BY <1>3, TopologicalOnce
    <2>1. \A n \in 0..Count : Len(PlaceOf[n]) = n
      BY <2>0, NeverStuck
    <2>2. Len(O) = Count
      BY <2>1, OrderUnfolds, CountAssumption
    <2>3. O \in orders
      <3> HIDE DEF O
      <3>1. QED
        BY <1>1, <2>2, CompleteOrder
    <2>4. SUFFICES ASSUME Before(s, O) PROVE FALSE
      BY <2>3
    <2>5. PICK i \in 1..Count : s[i] < O[i] /\ \A j \in 1..(i - 1) : s[j] = O[j]
      BY <2>0, <2>4 DEF Before
    <2> DEFINE t == PlaceOf[i - 1]
    <2>6. Placed(t) = {O[j] : j \in 1..(i - 1)} /\ O[i] = Min(Unblocked(t))
      BY <2>1, OrderIsGreedy
    <2> HIDE DEF O, t
    <2>7. Placed(t) = {s[j] : j \in 1..(i - 1)}
      BY <2>5, <2>6
    <2>8. s[i] \in Unblocked(t)
      <3>1. DependsOn(s[i]) \subseteq Placed(t)
        BY <2>0, <2>5, <2>7 DEF IsTopological
      <3>2. s[i] \notin Placed(t)
        <4>1. SUFFICES ASSUME NEW j \in 1..(i - 1), s[j] = s[i] PROVE FALSE
          BY <2>7
        <4>2. j \in 1..Count /\ j # i
          BY CountAssumption
        <4>3. QED
          BY <2>0, <4>1, <4>2 DEF Once
      <3>3. QED
        BY <2>0, <3>1, <3>2 DEF Unblocked
    <2>9. O[i] <= s[i] /\ O[i] \in Modules
      <3>1. Unblocked(t) \in SUBSET Modules
        BY DEF Unblocked
      <3>2. QED
        BY <2>6, <2>8, <3>1, LeastModule
    <2>10. s[i] \in Nat /\ O[i] \in Nat
      BY <2>0, <2>9, CountAssumption DEF Modules
    <2>11. QED
      BY <2>5, <2>9, <2>10
  <1>4. CASE orders = {}
    BY <1>2, <1>4 DEF OrderIsFirstTopological
  <1>5. CASE orders # {}
    <2> HIDE DEF O
    <2>1. O \in orders /\ \A s \in orders : ~Before(s, O)
      BY <1>3, <1>5
    <2>2. QED
      BY <1>5, <2>1 DEF OrderIsFirstTopological, O
  <1>6. QED
    BY <1>4, <1>5

-----------------------------------------------------------------------------
(* Every state is well typed.                                              *)

LEMMA OrderTyped == InitializationOrder \in Seq(Modules)
  BY PlacesOrdered, OrderUnfolds, CountAssumption DEF Ordered

LEMMA RollbackTyped ==
    ASSUME initialized \in Seq(Modules)
    PROVE  /\ Rollback \in Seq(Modules) /\ Len(Rollback) = Len(initialized)
           /\ \A i \in 1..Len(initialized) : Rollback[i] = initialized[Len(initialized) + 1 - i]
  <1> DEFINE n == Len(initialized)
  <1>1. n \in Nat /\ Rollback = [i \in 1..n |-> initialized[(n - i) + 1]]
    BY DEF Rollback, Reverse
  <1>2. \A i \in 1..n : (n - i) + 1 \in 1..n /\ (n - i) + 1 = n + 1 - i
    BY <1>1
  <1>3. \A i \in 1..n : initialized[(n - i) + 1] \in Modules
    BY <1>1, <1>2
  <1>4. QED
    BY <1>1, <1>2, <1>3

LEMMA FirstPending ==
    ASSUME pending \in Seq(Modules), pending # << >>
    PROVE  /\ Head(pending) = pending[1] /\ pending[1] \in Modules
           /\ Len(pending) \in Nat /\ Len(pending) > 0 /\ DOMAIN pending = 1..Len(pending)
           /\ Tail(pending) \in Seq(Modules) /\ Len(Tail(pending)) = Len(pending) - 1
           /\ DOMAIN Tail(pending) = 1..(Len(pending) - 1)
           /\ \A i \in 1..(Len(pending) - 1) : Tail(pending)[i] = pending[i + 1]
           /\ Tail(pending) = << >> <=> Len(pending) = 1
           /\ Tail(pending) # << >> => Head(Tail(pending)) = pending[2] /\ pending[2] \in Modules
  <1>1. Len(pending) \in Nat /\ Len(pending) > 0 /\ DOMAIN pending = 1..Len(pending)
    OBVIOUS
  <1>2. Head(pending) = pending[1] /\ pending[1] \in Modules
    BY <1>1
  <1>3. /\ Tail(pending) \in Seq(Modules) /\ Len(Tail(pending)) = Len(pending) - 1
        /\ DOMAIN Tail(pending) = 1..(Len(pending) - 1)
        /\ \A i \in 1..(Len(pending) - 1) : Tail(pending)[i] = pending[i + 1]
    BY <1>1
  <1>4. Tail(pending) = << >> <=> Len(pending) = 1
    <2>1. \A s \in Seq(Modules) : s = << >> <=> Len(s) = 0
      OBVIOUS
    <2>2. Tail(pending) = << >> <=> Len(Tail(pending)) = 0
      BY <1>3, <2>1
    <2>3. QED
      BY <1>1, <1>3, <2>2
  <1>5. Tail(pending) # << >> => Head(Tail(pending)) = pending[2] /\ pending[2] \in Modules
    <2>1. SUFFICES ASSUME Tail(pending) # << >>
                   PROVE  Head(Tail(pending)) = pending[2] /\ pending[2] \in Modules
      OBVIOUS
    <2>2. Len(pending) >= 2 /\ 1 \in 1..(Len(pending) - 1) /\ 2 \in DOMAIN pending
      BY <1>1, <1>4, <2>1
    <2>3. Tail(pending)[1] = pending[1 + 1]
      BY <1>3, <2>2
    <2>4. Head(Tail(pending)) = Tail(pending)[1]
      BY <1>3, <2>1
    <2>5. QED
      BY <2>2, <2>3, <2>4
  <1>6. QED
    BY <1>1, <1>2, <1>3, <1>4, <1>5

LEMMA LifecycleTypeInit == LifecycleInit => LifecycleTypeOK
  BY DEF LifecycleInit, LifecycleTypeOK, HostStates, ModuleStates

LEMMA ProceedType ==
    ASSUME LifecycleTypeOK, NEW m \in Modules, Initializing(m), NEW s \in ModuleStates, Proceed(m, s)
    PROVE  pending' \in Seq(Modules) /\ modules' \in [Modules -> ModuleStates] /\ host' \in HostStates
  <1>1. pending \in Seq(Modules) /\ pending # << >> /\ modules \in [Modules -> ModuleStates] /\ host \in HostStates
    BY DEF LifecycleTypeOK, Initializing
  <1>2. pending' = Tail(pending) /\ pending' \in Seq(Modules)
    BY <1>1 DEF Proceed
  <1>3. modules' \in [Modules -> ModuleStates]
    BY <1>1, FirstPending DEF Proceed, ModuleStates
  <1>4. host' \in HostStates
    BY <1>1 DEF Proceed, HostStates
  <1>5. QED
    BY <1>2, <1>3, <1>4

LEMMA OnwardType ==
    ASSUME LifecycleTypeOK, NEW m \in Modules, Stopping(m),
           NEW settled \in [Modules -> ModuleStates], Onward(settled)
    PROVE  /\ pending' \in Seq(Modules) /\ modules' \in [Modules -> ModuleStates] /\ host' \in HostStates
           /\ shutdown' \in {"none", "running", "refused", "done"}
  <1>1. pending \in Seq(Modules) /\ pending # << >> /\ host \in HostStates
        /\ shutdown \in {"none", "running", "refused", "done"}
    BY DEF LifecycleTypeOK, Stopping
  <1>2. pending' = Tail(pending) /\ pending' \in Seq(Modules)
    BY <1>1 DEF Onward
  <1>3. modules' \in [Modules -> ModuleStates]
    BY <1>1, FirstPending DEF Onward, ModuleStates
  <1>4. host' \in HostStates /\ shutdown' \in {"none", "running", "refused", "done"}
    BY <1>1 DEF Onward, HostStates
  <1>5. QED
    BY <1>2, <1>3, <1>4

LEMMA LifecycleTypeStep == LifecycleTypeOK /\ [LifecycleNext]_lifecycleVars => LifecycleTypeOK'
  <1> SUFFICES ASSUME LifecycleTypeOK, [LifecycleNext]_lifecycleVars PROVE LifecycleTypeOK'
    OBVIOUS
  <1>0. /\ descriptors \in Descriptors /\ valid \in BOOLEAN /\ host \in HostStates
        /\ modules \in [Modules -> ModuleStates]
        /\ pending \in Seq(Modules) /\ initialized \in Seq(Modules)
        /\ shutdown \in {"none", "running", "refused", "done"}
        /\ late \subseteq Modules /\ open \subseteq Modules
    BY DEF LifecycleTypeOK
  <1>1. CASE Start
    <2>1. pending' \in Seq(Modules) /\ host' \in HostStates
      BY <1>0, <1>1, OrderTyped DEF Start, HostStates
    <2>2. modules' \in [Modules -> ModuleStates]
      <3>1. Begun(InitializationOrder, "initializing") \in [Modules -> ModuleStates]
        BY <1>0, OrderTyped DEF Begun, ModuleStates
      <3>2. QED
        BY <1>0, <1>1, <3>1 DEF Start
    <2>3. QED
      BY <1>0, <1>1, <2>1, <2>2 DEF Start, LifecycleTypeOK
  <1>2. CASE ShutdownRunning
    <2>1. pending' \in Seq(Modules) /\ host' \in HostStates
      BY <1>0, <1>2, RollbackTyped DEF ShutdownRunning, HostStates
    <2>2. modules' \in [Modules -> ModuleStates]
      <3>1. Begun(Rollback, "stopping") \in [Modules -> ModuleStates]
        BY <1>0, RollbackTyped DEF Begun, ModuleStates
      <3>2. QED
        BY <1>0, <1>2, <3>1 DEF ShutdownRunning
    <2>3. shutdown' \in {"none", "running", "refused", "done"}
      BY <1>2 DEF ShutdownRunning
    <2>4. QED
      BY <1>0, <1>2, <2>1, <2>2, <2>3 DEF ShutdownRunning, LifecycleTypeOK
  <1>3. CASE ShutdownIdle \/ ShutdownWhileStarting
    BY <1>0, <1>3 DEF ShutdownIdle, ShutdownWhileStarting, LifecycleTypeOK, HostStates
  <1>4. ASSUME NEW m \in Modules, Settles(m) PROVE LifecycleTypeOK'
    <2>1. CASE InitializeReturns(m)
      <3>1. pending' \in Seq(Modules) /\ modules' \in [Modules -> ModuleStates] /\ host' \in HostStates
        BY <2>1, ProceedType DEF InitializeReturns, ModuleStates
      <3>2. QED
        BY <1>0, <2>1, <3>1 DEF InitializeReturns, LifecycleTypeOK
    <2>2. CASE OptionalFails(m)
      <3>1. pending' \in Seq(Modules) /\ modules' \in [Modules -> ModuleStates] /\ host' \in HostStates
        BY <2>2, ProceedType DEF OptionalFails, ModuleStates
      <3>2. QED
        BY <1>0, <2>2, <3>1 DEF OptionalFails, Outlives, LifecycleTypeOK
    <2>3. CASE RequiredFails(m)
      <3>1. pending' \in Seq(Modules) /\ host' \in HostStates
        BY <1>0, <2>3, RollbackTyped DEF RequiredFails, HostStates
      <3>2. modules' \in [Modules -> ModuleStates]
        BY <1>0, <2>3, RollbackTyped DEF RequiredFails, ModuleStates
      <3>3. QED
        BY <1>0, <2>3, <3>1, <3>2 DEF RequiredFails, Outlives, LifecycleTypeOK
    <2>4. CASE ShutdownReturns(m)
      <3>1. [modules EXCEPT ![m] = "stopped"] \in [Modules -> ModuleStates]
        BY <1>0 DEF ModuleStates
      <3>2. /\ pending' \in Seq(Modules) /\ modules' \in [Modules -> ModuleStates] /\ host' \in HostStates
            /\ shutdown' \in {"none", "running", "refused", "done"}
        BY <2>4, <3>1, OnwardType DEF ShutdownReturns
      <3>3. QED
        BY <1>0, <2>4, <3>2 DEF ShutdownReturns, LifecycleTypeOK
    <2>5. CASE ShutdownFails(m)
      <3>1. /\ pending' \in Seq(Modules) /\ modules' \in [Modules -> ModuleStates] /\ host' \in HostStates
            /\ shutdown' \in {"none", "running", "refused", "done"}
        BY <1>0, <2>5, OnwardType DEF ShutdownFails
      <3>2. QED
        BY <1>0, <2>5, <3>1 DEF ShutdownFails, LifecycleTypeOK
    <2>6. QED
      BY <1>4, <2>1, <2>2, <2>3, <2>4, <2>5 DEF Settles
  <1>5. ASSUME NEW m \in Modules, LateInitialization(m) \/ LateShutdown(m) PROVE LifecycleTypeOK'
    BY <1>0, <1>5 DEF LateInitialization, LateShutdown, LifecycleTypeOK
  <1>6. CASE UNCHANGED lifecycleVars
    BY <1>0, <1>6 DEF lifecycleVars, LifecycleTypeOK
  <1>7. QED
    BY <1>1, <1>2, <1>3, <1>4, <1>5, <1>6 DEF LifecycleNext

-----------------------------------------------------------------------------
(* The inductive invariant.                                                *)

Serving == {m \in Modules : Up(m)}

\* What is listed as initialized came up once, after what it depends on, unless
\* that is optional and did not come up.
CameUpInOrder ==
    /\ Once(initialized)
    /\ \A i \in DOMAIN initialized : \A d \in DependsOn(initialized[i]) :
          \/ modules[d] = "degraded"
          \/ \E j \in 1..(i - 1) : initialized[j] = d

\* The list, the states and the resources agree on what came up.
RecordsAgree ==
    /\ \A m \in Modules : modules[m] \in {"ready", "stopping", "stopped"} <=> m \in Placed(initialized)
    /\ \A m \in Modules : modules[m] = "degraded" => ~Required(m)
    /\ \A m \in late : modules[m] \in {"degraded", "failed"}
    /\ \A m \in open : modules[m] \in {"ready", "stopping", "degraded", "failed"}

\* The loop of a start: its first module is awaited, the ones behind it wait for
\* it or for what serves already, and all others serve.
ComingUp ==
    /\ pending # << >> /\ Once(pending)
    /\ modules[pending[1]] = "initializing"
    /\ \A i \in 2..Len(pending) : modules[pending[i]] = "registered"
    /\ \A m \in Modules : m \in Placed(pending) \/ Up(m)
    /\ \A i \in DOMAIN pending : DependsOn(pending[i]) \subseteq Serving \cup {pending[j] : j \in 1..(i - 1)}

\* The loop of a rollback or a shutdown: what came up last was told to stop, and
\* what came up before the module awaited now has not been.
GoingDown ==
    /\ pending # << >> /\ Len(pending) <= Len(initialized)
    /\ \A i \in DOMAIN pending : pending[i] = initialized[Len(pending) + 1 - i]
    /\ \A i \in 1..(Len(pending) - 1) : modules[initialized[i]] = "ready"
    /\ modules[pending[1]] = "stopping"
    /\ \A i \in (Len(pending) + 1)..Len(initialized) : modules[initialized[i]] \in {"stopping", "stopped"}
    /\ \A m \in Modules : modules[m] # "initializing"

AtRest ==
    /\ pending = << >> /\ \A m \in Modules : Up(m)
    /\ host = "degraded" <=> \E m \in Modules : modules[m] = "degraded"

Gone == pending = << >> /\ \A m \in Modules : modules[m] \notin {"initializing", "ready"}

InPhase ==
    /\ host \in {"created", "validating"} => pending = << >> /\ \A m \in Modules : modules[m] = "registered"
    /\ host = "starting" => ComingUp \/ GoingDown
    /\ host \in {"ready", "degraded"} => AtRest
    /\ host = "stopping" => GoingDown
    /\ host \in {"failed", "stopped"} => Gone

LifecycleInv == LifecycleTypeOK /\ CameUpInOrder /\ RecordsAgree /\ InPhase

LEMMA LifecycleInvInit == LifecycleInit => LifecycleInv
  <1> SUFFICES ASSUME LifecycleInit PROVE LifecycleInv
    OBVIOUS
  <1>1. LifecycleTypeOK
    BY LifecycleTypeInit
  <1>2. CameUpInOrder /\ RecordsAgree
    BY DEF LifecycleInit, CameUpInOrder, Once, RecordsAgree, Placed
  <1>3. InPhase
    BY DEF LifecycleInit, InPhase
  <1>4. QED
    BY <1>1, <1>2, <1>3 DEF LifecycleInv

\* The invariant says what the run checks.
LEMMA ServingDependencies == LifecycleInv => DependenciesOutlive
  <1> SUFFICES ASSUME LifecycleInv, NEW m \in Modules, modules[m] \in {"initializing", "ready"},
                      NEW d \in DependsOn(m)
               PROVE  Up(d)
    BY DEF DependenciesOutlive
  <1>0. /\ pending \in Seq(Modules) /\ initialized \in Seq(Modules) /\ host \in HostStates
        /\ d \in Modules
    BY DEF LifecycleInv, LifecycleTypeOK, Descriptors, DependsOn
  <1>1. ComingUp \/ GoingDown \/ AtRest
    BY <1>0 DEF LifecycleInv, InPhase, Gone, HostStates
  <1>2. CASE modules[m] = "initializing"
    <2>1. ComingUp
      BY <1>1, <1>2 DEF GoingDown, AtRest, Up
    <2>2. m = pending[1] /\ 1 \in DOMAIN pending
      <3>1. m \in Placed(pending)
        BY <1>2, <2>1 DEF ComingUp, Up
      <3>2. PICK i \in DOMAIN pending : m = pending[i]
        BY <3>1 DEF Placed
      <3>3. i = 1
        BY <1>0, <1>2, <2>1, <3>2 DEF ComingUp
      <3>4. QED
        BY <3>2, <3>3
    <2>3. DependsOn(m) \subseteq Serving \cup {pending[j] : j \in 1..(1 - 1)}
      BY <2>1, <2>2 DEF ComingUp
    <2>4. QED
      BY <2>3 DEF Serving
  <1>3. CASE modules[m] = "ready"
    <2>1. PICK i \in DOMAIN initialized : initialized[i] = m
      BY <1>3 DEF LifecycleInv, RecordsAgree, Placed
    <2>2. CASE modules[d] = "degraded"
      BY <2>2 DEF Up
    <2>3. CASE modules[d] # "degraded"
      <3>1. PICK j \in 1..(i - 1) : initialized[j] = d
        BY <2>1, <2>3 DEF LifecycleInv, CameUpInOrder
      <3>2. i \in 1..Len(initialized) /\ j \in 1..Len(initialized) /\ j < i /\ Len(initialized) \in Nat
        BY <1>0, <2>1, <3>1
      <3>3. modules[d] \in {"ready", "stopping", "stopped"}
        BY <1>0, <3>1, <3>2 DEF LifecycleInv, RecordsAgree, Placed
      <3>4. CASE ComingUp
        <4>1. d \notin Placed(pending)
          BY <1>0, <3>3, <3>4 DEF ComingUp, Placed
        <4>2. QED
          BY <1>0, <3>4, <4>1 DEF ComingUp
      <3>5. CASE GoingDown
        <4>1. Len(pending) \in Nat /\ Len(pending) >= 1
          BY <1>0, <3>5 DEF GoingDown
        <4>2. initialized[Len(pending)] = pending[1]
          <5>1. 1 \in DOMAIN pending
            BY <1>0, <4>1
          <5>2. pending[1] = initialized[Len(pending) + 1 - 1]
            BY <3>5, <5>1 DEF GoingDown
          <5>3. QED
            BY <4>1, <5>2
        <4>3. ~(i > Len(pending))
          BY <1>3, <2>1, <3>2, <3>5, <4>1 DEF GoingDown
        <4>4. i # Len(pending)
          BY <1>3, <2>1, <3>5, <4>2 DEF GoingDown
        <4>5. j \in 1..(Len(pending) - 1)
          BY <3>2, <4>1, <4>3, <4>4
        <4>6. QED
          BY <3>1, <3>5, <4>5 DEF GoingDown, Up
      <3>6. CASE AtRest
        BY <1>0, <3>6 DEF AtRest
      <3>7. QED
        BY <1>1, <3>4, <3>5, <3>6
    <2>4. QED
      BY <2>2, <2>3
  <1>4. QED
    BY <1>2, <1>3

LEMMA HostTellsModules == LifecycleInv => HostReflectsModules
  <1> SUFFICES ASSUME LifecycleInv PROVE HostReflectsModules
    OBVIOUS
  <1>1. ASSUME host \in {"ready", "degraded"}, NEW m \in Modules
        PROVE  /\ Required(m) => modules[m] = "ready"
               /\ host = "ready" => modules[m] = "ready"
    BY <1>1 DEF LifecycleInv, InPhase, AtRest, RecordsAgree, Up
  <1>2. host = "degraded" => \E m \in Modules : modules[m] = "degraded"
    BY DEF LifecycleInv, InPhase, AtRest
  <1>3. host \in {"failed", "stopped"} => \A m \in Modules : modules[m] \notin {"initializing", "ready"}
    BY DEF LifecycleInv, InPhase, Gone
  <1>4. QED
    BY <1>1, <1>2, <1>3 DEF HostReflectsModules

LEMMA OthersAreClosed == LifecycleInv => OnlyLateRemainOpen
  BY DEF LifecycleInv, LifecycleTypeOK, InPhase, Gone, RecordsAgree, OnlyLateRemainOpen

-----------------------------------------------------------------------------
(* Coming up.                                                              *)

LEMMA StartSound == LifecycleInv /\ Start => LifecycleInv'
  <1> SUFFICES ASSUME LifecycleInv, Start PROVE LifecycleInv'
    OBVIOUS
  <1>0. LifecycleTypeOK /\ LifecycleTypeOK'
    BY LifecycleTypeStep DEF LifecycleInv, LifecycleNext
  <1>1. /\ host = "created" /\ pending = << >> /\ \A m \in Modules : modules[m] = "registered"
        /\ UNCHANGED <<descriptors, initialized, late, open>>
        /\ modules \in [Modules -> ModuleStates]
    BY <1>0 DEF Start, LifecycleInv, InPhase, LifecycleTypeOK
  <1>2. initialized = << >> /\ late = {} /\ open = {}
    <2>1. \A m \in Modules : m \notin Placed(initialized)
      BY <1>1 DEF LifecycleInv, RecordsAgree
    <2>2. initialized = << >>
      BY <1>0, <2>1 DEF LifecycleTypeOK, Placed
    <2>3. QED
      BY <1>0, <1>1, <2>2 DEF LifecycleInv, RecordsAgree, LifecycleTypeOK
  <1>3. CASE host' \in {"failed", "validating"} /\ UNCHANGED <<modules, pending>>
    BY <1>0, <1>1, <1>2, <1>3
       DEF LifecycleInv, CameUpInOrder, Once, RecordsAgree, Placed, InPhase, Gone
  <1>4. CASE /\ ~Cyclic /\ host' = "starting" /\ pending' = InitializationOrder
             /\ modules' = Begun(InitializationOrder, "initializing")
    <2> DEFINE O == InitializationOrder
    <2>1. Ordered(O) /\ Len(O) \in Nat /\ Len(O) <= Count
      <3>1. Ordered(O) /\ Len(O) <= Count
        BY PlacesOrdered, OrderUnfolds, CountAssumption
      <3> HIDE DEF O
      <3>2. QED
        BY <3>1 DEF Ordered
    <2>2. Len(O) = Count
      <3>1. ~(Len(O) < Count)
        BY <1>4 DEF Cyclic
      <3> HIDE DEF O
      <3>2. QED
        BY <2>1, <3>1, CountAssumption
    <2>3. Placed(O) = Modules
      BY <2>1, <2>2, CompleteOrder DEF IsTopological
    <2> HIDE DEF O
    <2>4. O \in Seq(Modules) /\ Once(O) /\ O # << >> /\ DOMAIN O = 1..Len(O) /\ 1 \in DOMAIN O
      BY <2>1, <2>2, CountAssumption DEF Ordered
    <2>5. modules' = [modules EXCEPT ![O[1]] = "initializing"]
      BY <1>4, <2>4 DEF Begun, O
    <2>6. modules'[O[1]] = "initializing" /\ \A x \in Modules : x # O[1] => modules'[x] = "registered"
      BY <1>1, <2>4, <2>5
    <2>7. \A i \in 2..Len(O) : i \in DOMAIN O /\ O[i] \in Modules /\ O[i] # O[1]
      BY <2>4 DEF Once
    <2>8. pending' = O
      BY <1>4 DEF O
    <2>9. ComingUp'
      <3>1. \A i \in 2..Len(pending') : modules'[pending'[i]] = "registered"
        BY <2>6, <2>7, <2>8
      <3>2. \A i \in DOMAIN O : descriptors.dependsOn[O[i]] \subseteq {O[j] : j \in 1..(i - 1)}
        BY <2>1 DEF Ordered, DependsOn
      <3>3. \A i \in DOMAIN pending' :
               descriptors'.dependsOn[pending'[i]] \subseteq Serving' \cup {pending'[j] : j \in 1..(i - 1)}
        BY <1>1, <2>8, <3>2
      <3>4. \A x \in Modules : x \in Placed(pending)'
        BY <2>3, <2>8 DEF Placed
      <3>5. pending' # << >> /\ Once(pending') /\ modules'[pending'[1]] = "initializing"
        BY <2>4, <2>6, <2>8
      <3>6. QED
        BY <3>1, <3>3, <3>4, <3>5 DEF ComingUp, DependsOn
    <2>10. CameUpInOrder' /\ RecordsAgree'
      BY <1>1, <1>2, <2>6 DEF CameUpInOrder, Once, RecordsAgree, Placed
    <2>11. InPhase'
      BY <1>4, <2>9 DEF InPhase
    <2>12. QED
      BY <1>0, <2>10, <2>11 DEF LifecycleInv
  <1>5. QED
    BY <1>3, <1>4 DEF Start

LEMMA Awaited ==
    ASSUME LifecycleInv, NEW m \in Modules, Initializing(m)
    PROVE  /\ ComingUp /\ m = pending[1] /\ host = "starting"
           /\ m \notin Placed(initialized) /\ m \notin late /\ m \notin open
  <1>1. host = "starting" /\ modules[m] = "initializing" /\ pending # << >> /\ Head(pending) = m
    BY DEF Initializing
  <1>2. ComingUp
    BY <1>1 DEF LifecycleInv, InPhase, GoingDown
  <1>3. m = pending[1]
    BY <1>1, FirstPending DEF LifecycleInv, LifecycleTypeOK
  <1>4. QED
    BY <1>1, <1>2, <1>3 DEF LifecycleInv, RecordsAgree

\* The module awaited is settled and the next one begins.
LEMMA ProceedSound ==
    ASSUME LifecycleInv, NEW m \in Modules, Initializing(m), NEW s \in {"ready", "degraded"},
           Proceed(m, s), UNCHANGED descriptors
    PROVE  /\ modules'[m] = s
           /\ \A x \in Modules : x # m =>
                 modules'[x] = modules[x] \/ (modules[x] = "registered" /\ modules'[x] = "initializing")
           /\ InPhase'
  <1>0. /\ pending \in Seq(Modules) /\ pending # << >> /\ modules \in [Modules -> ModuleStates]
        /\ ComingUp /\ m = pending[1] /\ host = "starting"
    BY Awaited DEF LifecycleInv, LifecycleTypeOK, Initializing
  <1> DEFINE rest == Tail(pending)
  <1> DEFINE n == Len(pending)
  <1> DEFINE settled == [modules EXCEPT ![m] = s]
  <1>1. /\ n \in Nat /\ n > 0 /\ DOMAIN pending = 1..n
        /\ rest \in Seq(Modules) /\ Len(rest) = n - 1 /\ DOMAIN rest = 1..(n - 1)
        /\ \A i \in 1..(n - 1) : rest[i] = pending[i + 1]
        /\ rest = << >> <=> n = 1
        /\ rest # << >> => Head(rest) = pending[2] /\ pending[2] \in Modules
    BY <1>0, FirstPending
  <1>2. settled[m] = s /\ \A x \in Modules : x # m => settled[x] = modules[x]
    BY <1>0
  <1>3. \A i \in 2..n : pending[i] # m /\ pending[i] \in Modules /\ modules[pending[i]] = "registered"
    BY <1>0, <1>1 DEF ComingUp, Once
  <1>4. CASE rest = << >>
    <2>1. /\ pending' = << >> /\ modules' = settled
          /\ host' = IF SomeDegraded(settled) THEN "degraded" ELSE "ready"
      BY <1>4 DEF Proceed
    <2> HIDE DEF settled
    <2>2. \A x \in Modules : x # m => Up(x)
      BY <1>0, <1>1, <1>4 DEF ComingUp, Placed
    <2>3. \A x \in Modules : Up(x)'
      BY <1>2, <2>1, <2>2 DEF Up
    <2>4. host' = "degraded" <=> \E x \in Modules : modules'[x] = "degraded"
      BY <2>1 DEF SomeDegraded
    <2>5. AtRest'
      BY <2>1, <2>3, <2>4 DEF AtRest
    <2>6. InPhase'
      BY <2>1, <2>5 DEF InPhase
    <2>7. QED
      BY <1>2, <2>1, <2>6
  <1>5. CASE rest # << >>
    <2>1. /\ pending' = rest /\ modules' = [settled EXCEPT ![pending[2]] = "initializing"] /\ host' = host
      BY <1>1, <1>5 DEF Proceed
    <2>2. n >= 2 /\ 2 \in 2..n /\ 1 \in 1..(n - 1)
      BY <1>1, <1>5
    <2>3. /\ pending[2] # m /\ pending[2] \in Modules /\ modules[pending[2]] = "registered"
          /\ rest[1] = pending[2]
      <3>1. rest[1] = pending[1 + 1]
        BY <1>1, <2>2
      <3>2. QED
        BY <1>3, <2>2, <3>1
    <2>4. settled \in [Modules -> ModuleStates \cup {s}]
      BY <1>0
    <2> HIDE DEF rest, settled, n
    <2>5. /\ modules'[pending[2]] = "initializing" /\ modules'[m] = s
          /\ \A x \in Modules : (x # m /\ x # pending[2]) => modules'[x] = modules[x]
      BY <1>2, <2>1, <2>3, <2>4
    <2>6. ComingUp'
      <3>1. ASSUME NEW i \in 1..(n - 1) PROVE i + 1 \in 1..n /\ i + 1 \in 2..n /\ rest[i] = pending[i + 1]
        BY <1>1, <3>1
      <3>2. Once(rest)
        <4>1. SUFFICES ASSUME NEW i \in 1..(n - 1), NEW j \in 1..(n - 1), rest[i] = rest[j] PROVE i = j
          BY <1>1 DEF Once
        <4>2. pending[i + 1] = pending[j + 1] /\ i + 1 \in 1..n /\ j + 1 \in 1..n
          BY <3>1, <4>1
        <4>3. i + 1 = j + 1
          BY <1>0, <1>1, <4>2 DEF ComingUp, Once
        <4>4. QED
          BY <1>1, <4>3
      <3>3. ASSUME NEW i \in 2..(n - 1) PROVE modules'[rest[i]] = "registered"
        <4>1. i \in 1..(n - 1) /\ i + 1 # 2 /\ 2 \in 1..n /\ i + 1 \in 1..n /\ i + 1 \in 2..n
          BY <1>1, <2>2
        <4>2. rest[i] = pending[i + 1] /\ pending[i + 1] # pending[2]
          BY <1>0, <1>1, <3>1, <4>1 DEF ComingUp, Once
        <4>3. QED
          BY <1>3, <2>5, <4>1, <4>2
      <3>4. ASSUME NEW x \in Modules, x \notin Placed(rest) PROVE modules'[x] \in {"ready", "degraded"}
        <4>1. x # pending[2]
          BY <1>1, <2>2, <2>3, <3>4 DEF Placed
        <4>2. CASE x = m
          BY <2>5, <4>2
        <4>3. CASE x # m
          <5>1. x \notin Placed(pending)
            <6>1. SUFFICES ASSUME NEW i \in 1..n, x = pending[i] PROVE FALSE
              BY <1>1 DEF Placed
            <6>2. i # 1
              BY <1>0, <4>3, <6>1
            <6>3. i - 1 \in 1..(n - 1) /\ (i - 1) + 1 = i
              BY <1>1, <6>2
            <6>4. rest[i - 1] = x
              BY <3>1, <6>1, <6>3
            <6>5. QED
              BY <1>1, <3>4, <6>3, <6>4 DEF Placed
          <5>2. modules[x] \in {"ready", "degraded"}
            BY <1>0, <5>1 DEF ComingUp, Up
          <5>3. QED
            BY <2>5, <4>1, <4>3, <5>2
        <4>4. QED
          BY <4>2, <4>3
      <3>5. ASSUME NEW i \in 1..(n - 1), NEW d \in descriptors.dependsOn[rest[i]]
            PROVE  d \in Serving' \cup {rest[j] : j \in 1..(i - 1)}
        <4>1. d \in DependsOn(pending[i + 1]) /\ i + 1 \in 1..n
          BY <3>1, <3>5 DEF DependsOn
        <4>2. CASE d \in Serving
          <5>1. d \in Modules /\ modules[d] \in {"ready", "degraded"}
            BY <4>2 DEF Serving, Up
          <5>2. d # pending[2] /\ d # m
            BY <2>3, <5>1, <1>0 DEF ComingUp
          <5>3. modules'[d] \in {"ready", "degraded"}
            BY <2>5, <5>1, <5>2
          <5>4. QED
            BY <5>1, <5>3 DEF Serving, Up
        <4>3. CASE d \notin Serving
          <5>0. i + 1 \in DOMAIN pending
            BY <1>1, <4>1
          <5>1. PICK j \in 1..((i + 1) - 1) : d = pending[j]
            BY <1>0, <4>1, <4>3, <5>0 DEF ComingUp
          <5>2. CASE j = 1
            BY <1>0, <2>5, <5>1, <5>2 DEF Serving, Up
          <5>3. CASE j # 1
            <6>1. j - 1 \in 1..(i - 1) /\ j - 1 \in 1..(n - 1) /\ (j - 1) + 1 = j
              BY <1>1, <5>1, <5>3
            <6>2. rest[j - 1] = d
              BY <3>1, <5>1, <6>1
            <6>3. QED
              BY <6>1, <6>2
          <5>4. QED
            BY <5>2, <5>3
        <4>4. QED
          BY <4>2, <4>3
      <3>6. /\ pending' # << >> /\ Once(pending') /\ modules'[pending'[1]] = "initializing"
            /\ DOMAIN pending' = 1..(n - 1) /\ Len(pending') = n - 1
        BY <1>1, <1>5, <2>1, <2>3, <2>5, <3>2
      <3>7. \A x \in Modules : x \in Placed(pending)' \/ Up(x)'
        BY <2>1, <3>4 DEF Placed, Up
      <3>8. \A i \in DOMAIN pending' :
               descriptors'.dependsOn[pending'[i]] \subseteq Serving' \cup {pending'[j] : j \in 1..(i - 1)}
        BY <2>1, <3>5, <3>6
      <3>9. \A i \in 2..Len(pending') : modules'[pending'[i]] = "registered"
        BY <2>1, <3>3, <3>6
      <3>10. QED
        BY <3>6, <3>7, <3>8, <3>9 DEF ComingUp, DependsOn
    <2>7. InPhase'
      BY <1>0, <2>1, <2>6 DEF InPhase
    <2>8. QED
      BY <2>3, <2>5, <2>7
  <1>6. QED
    BY <1>4, <1>5

LEMMA ReturnsSound ==
    ASSUME LifecycleInv, NEW m \in Modules, InitializeReturns(m)
    PROVE  LifecycleInv'
  <1>0. LifecycleTypeOK' /\ UNCHANGED <<descriptors, late>> /\ initialized \in Seq(Modules)
    BY LifecycleTypeStep DEF LifecycleInv, LifecycleNext, Settles, InitializeReturns, LifecycleTypeOK
  <1>1. /\ modules'[m] = "ready"
        /\ \A x \in Modules : x # m =>
              modules'[x] = modules[x] \/ (modules[x] = "registered" /\ modules'[x] = "initializing")
        /\ InPhase'
    BY ProceedSound DEF InitializeReturns
  <1>2. ComingUp /\ m = pending[1] /\ m \notin Placed(initialized) /\ m \notin late /\ m \notin open
        /\ modules[m] = "initializing"
    BY Awaited DEF InitializeReturns, Initializing
  <1> DEFINE n == Len(initialized)
  <1>3. /\ n \in Nat /\ DOMAIN initialized = 1..n /\ DOMAIN initialized' = 1..(n + 1)
        /\ initialized'[n + 1] = m
        /\ \A i \in 1..n : initialized'[i] = initialized[i]
    BY <1>0 DEF InitializeReturns
  <1>4. Placed(initialized') = Placed(initialized) \cup {m}
    <2> HIDE DEF n
    <2>1. Placed(initialized') \subseteq Placed(initialized) \cup {m}
      <3>1. SUFFICES ASSUME NEW i \in 1..(n + 1) PROVE initialized'[i] \in Placed(initialized) \cup {m}
        BY <1>3 DEF Placed
      <3>2. CASE i \in 1..n
        BY <1>3, <3>2 DEF Placed
      <3>3. CASE i \notin 1..n
        BY <1>3, <3>3
      <3>4. QED
        BY <3>2, <3>3
    <2>2. \A i \in 1..n : i \in 1..(n + 1)
      BY <1>3
    <2>3. n + 1 \in 1..(n + 1)
      BY <1>3
    <2>4. Placed(initialized) \cup {m} \subseteq Placed(initialized')
      BY <1>3, <2>2, <2>3 DEF Placed
    <2>5. QED
      BY <2>1, <2>4
  <1>5. CameUpInOrder'
    <2>1. Once(initialized')
      <3> HIDE DEF n
      <3>1. \A i \in 1..n : initialized[i] # m
        BY <1>2, <1>3 DEF Placed
      <3>2. ASSUME NEW i \in 1..(n + 1), NEW j \in 1..(n + 1), initialized'[i] = initialized'[j] PROVE i = j
        <4>1. CASE i \in 1..n /\ j \in 1..n
          BY <1>3, <3>2, <4>1 DEF LifecycleInv, CameUpInOrder, Once
        <4>2. CASE i = n + 1 \/ j = n + 1
          BY <1>3, <3>1, <3>2, <4>2
        <4>3. QED
          BY <1>3, <4>1, <4>2
      <3>3. QED
        BY <1>3, <3>2 DEF Once
    <2>2. ASSUME NEW i \in 1..(n + 1), NEW d \in descriptors.dependsOn[initialized'[i]]
          PROVE  modules'[d] = "degraded" \/ \E j \in 1..(i - 1) : initialized'[j] = d
      <3> HIDE DEF n
      <3>0. d \in Modules
        <4>1. initialized'[i] \in Modules
          BY <1>0, <1>3 DEF LifecycleTypeOK
        <4>2. QED
          BY <2>2, <4>1 DEF LifecycleInv, LifecycleTypeOK, Descriptors
      <3>1. modules[d] = "degraded" => modules'[d] = "degraded"
        BY <1>1, <1>2, <3>0
      <3>2. CASE i \in 1..n
        <4>1. modules[d] = "degraded" \/ \E j \in 1..(i - 1) : initialized[j] = d
          BY <1>3, <2>2, <3>2 DEF LifecycleInv, CameUpInOrder, DependsOn
        <4>2. \A j \in 1..(i - 1) : j \in 1..n
          BY <1>3, <3>2
        <4>3. QED
          BY <1>3, <3>1, <4>1, <4>2
      <3>3. CASE i = n + 1
        <4>1. d \in Serving
          <5>1. 1 \in DOMAIN pending
            BY FirstPending, <1>2 DEF ComingUp, LifecycleInv, LifecycleTypeOK
          <5>2. DependsOn(pending[1]) \subseteq Serving \cup {pending[j] : j \in 1..(1 - 1)}
            BY <1>2, <5>1 DEF ComingUp
          <5>3. QED
            BY <1>2, <1>3, <2>2, <3>3, <5>2 DEF DependsOn
        <4>2. CASE modules[d] = "degraded"
          BY <3>1, <4>2
        <4>3. CASE modules[d] = "ready"
          <5>1. PICK j \in 1..n : initialized[j] = d
            BY <1>3, <3>0, <4>3 DEF LifecycleInv, RecordsAgree, Placed
          <5>2. j \in 1..(i - 1)
            BY <1>3, <3>3
          <5>3. QED
            BY <1>3, <5>1, <5>2
        <4>4. QED
          BY <4>1, <4>2, <4>3 DEF Serving, Up
      <3>4. QED
        BY <1>3, <3>2, <3>3
    <2>3. \A i \in DOMAIN initialized' : \A d \in descriptors'.dependsOn[initialized'[i]] :
             modules'[d] = "degraded" \/ \E j \in 1..(i - 1) : initialized'[j] = d
      BY <1>0, <1>3, <2>2
    <2>4. QED
      BY <2>1, <2>3 DEF CameUpInOrder, DependsOn
  <1>6. RecordsAgree'
    <2>1. ASSUME NEW x \in Modules
          PROVE  /\ modules'[x] \in {"ready", "stopping", "stopped"} <=> x \in Placed(initialized')
                 /\ modules'[x] = "degraded" => x \notin descriptors'.required
      BY <1>0, <1>1, <1>2, <1>4 DEF LifecycleInv, RecordsAgree, Required
    <2>2. \A x \in late' : modules'[x] \in {"degraded", "failed"}
      BY <1>0, <1>1, <1>2 DEF LifecycleInv, RecordsAgree, LifecycleTypeOK
    <2>3. \A x \in open' : modules'[x] \in {"ready", "stopping", "degraded", "failed"}
      BY <1>1 DEF InitializeReturns, LifecycleInv, RecordsAgree, LifecycleTypeOK
    <2>4. QED
      BY <2>1, <2>2, <2>3 DEF RecordsAgree, Required, Placed
  <1>7. QED
    BY <1>0, <1>1, <1>5, <1>6 DEF LifecycleInv

\* What a step that leaves the list of what came up alone must keep of the rest.
LEMMA RecordsStand ==
    ASSUME LifecycleInv, UNCHANGED <<descriptors, initialized>>,
           modules' \in [Modules -> ModuleStates], late' \subseteq Modules, open' \subseteq Modules,
           \A x \in Modules :
              /\ modules[x] = "degraded" => modules'[x] = "degraded"
              /\ modules'[x] = "degraded" => modules[x] = "degraded" \/ ~Required(x)
              /\ modules'[x] \in {"ready", "stopping", "stopped"} <=> modules[x] \in {"ready", "stopping", "stopped"},
           \A x \in late' : modules'[x] \in {"degraded", "failed"},
           \A x \in open' : modules'[x] \in {"ready", "stopping", "degraded", "failed"}
    PROVE  CameUpInOrder' /\ RecordsAgree'
  <1>1. RecordsAgree'
    BY DEF LifecycleInv, RecordsAgree, Required, Placed
  <1>2. initialized \in Seq(Modules) /\ descriptors.dependsOn \in [Modules -> SUBSET Modules]
    BY DEF LifecycleInv, LifecycleTypeOK, Descriptors
  <1>3. ASSUME NEW i \in DOMAIN initialized, NEW d \in descriptors.dependsOn[initialized[i]]
        PROVE  modules'[d] = "degraded" \/ \E j \in 1..(i - 1) : initialized[j] = d
    <2>1. initialized[i] \in Modules
      BY <1>2
    <2>2. d \in Modules
      BY <1>2, <1>3, <2>1
    <2>3. modules[d] = "degraded" \/ \E j \in 1..(i - 1) : initialized[j] = d
      BY <1>3 DEF LifecycleInv, CameUpInOrder, DependsOn
    <2>4. QED
      BY <2>2, <2>3
  <1>4. CameUpInOrder'
    BY <1>3 DEF LifecycleInv, CameUpInOrder, DependsOn, Once
  <1>5. QED
    BY <1>1, <1>4

LEMMA OptionalFailsSound ==
    ASSUME LifecycleInv, NEW m \in Modules, OptionalFails(m)
    PROVE  LifecycleInv'
  <1>0. LifecycleTypeOK' /\ UNCHANGED <<descriptors, initialized, open>> /\ ~Required(m)
    BY LifecycleTypeStep DEF LifecycleInv, LifecycleNext, Settles, OptionalFails
  <1>1. /\ modules'[m] = "degraded"
        /\ \A x \in Modules : x # m =>
              modules'[x] = modules[x] \/ (modules[x] = "registered" /\ modules'[x] = "initializing")
        /\ InPhase'
    BY <1>0, ProceedSound DEF OptionalFails
  <1>2. m \notin Placed(initialized) /\ modules[m] = "initializing"
    BY Awaited DEF OptionalFails, Initializing
  <1>3. /\ modules' \in [Modules -> ModuleStates] /\ late' \subseteq Modules /\ open' \subseteq Modules
        /\ late \subseteq Modules /\ late' \subseteq late \cup {m}
    BY <1>0 DEF LifecycleInv, LifecycleTypeOK, OptionalFails, Outlives
  <1>4. ASSUME NEW x \in Modules
        PROVE  /\ modules[x] = "degraded" => modules'[x] = "degraded"
               /\ modules'[x] = "degraded" => modules[x] = "degraded" \/ ~Required(x)
               /\ modules'[x] \in {"ready", "stopping", "stopped"} <=> modules[x] \in {"ready", "stopping", "stopped"}
    BY <1>0, <1>1, <1>2
  <1>5. \A x \in late' : modules'[x] \in {"degraded", "failed"}
    BY <1>1, <1>3 DEF LifecycleInv, RecordsAgree
  <1>6. \A x \in open' : modules'[x] \in {"ready", "stopping", "degraded", "failed"}
    BY <1>0, <1>1, <1>3 DEF LifecycleInv, RecordsAgree
  <1>7. CameUpInOrder' /\ RecordsAgree'
    BY <1>0, <1>3, <1>4, <1>5, <1>6, RecordsStand
  <1>8. QED
    BY <1>0, <1>1, <1>7 DEF LifecycleInv

-----------------------------------------------------------------------------
(* Going down.                                                             *)

\* The loop that takes down what came up begins with the last of it.
LEMMA RollbackBegins ==
    ASSUME LifecycleInv, UNCHANGED initialized, Rollback # << >>, pending' = Rollback,
           \A i \in 1..(Len(initialized) - 1) : modules'[initialized[i]] = "ready",
           modules'[Head(Rollback)] = "stopping",
           \A x \in Modules : modules'[x] # "initializing"
    PROVE  GoingDown'
  <1> DEFINE n == Len(initialized)
  <1>1. /\ initialized \in Seq(Modules) /\ n \in Nat /\ Len(Rollback) = n /\ Rollback \in Seq(Modules)
        /\ \A i \in 1..n : Rollback[i] = initialized[n + 1 - i]
    BY RollbackTyped DEF LifecycleInv, LifecycleTypeOK
  <1>2. DOMAIN Rollback = 1..n /\ Head(Rollback) = Rollback[1]
    BY <1>1
  <1> HIDE DEF n
  <1>3. \A i \in (n + 1)..n : FALSE
    BY <1>1
  <1>4. Len(pending') = n /\ Len(initialized') = n /\ DOMAIN pending' = 1..n
    BY <1>1, <1>2 DEF n
  <1>5. \A i \in DOMAIN pending' : pending'[i] = initialized'[Len(pending') + 1 - i]
    BY <1>1, <1>4
  <1>6. \A i \in 1..(Len(pending') - 1) : modules'[initialized'[i]] = "ready"
    BY <1>4 DEF n
  <1>7. \A i \in (Len(pending') + 1)..Len(initialized') : FALSE
    BY <1>3, <1>4
  <1>8. modules'[pending'[1]] = "stopping" /\ Len(pending') <= Len(initialized') /\ pending' # << >>
    BY <1>1, <1>2, <1>4
  <1>9. QED
    BY <1>5, <1>6, <1>7, <1>8 DEF GoingDown

\* When nothing is being taken down, all that came up is ready, and the last of
\* it is not listed before.
LEMMA CameUpReady ==
    ASSUME LifecycleInv, ComingUp \/ AtRest
    PROVE  /\ initialized \in Seq(Modules)
           /\ \A x \in Modules : modules[x] = "ready" <=> x \in Placed(initialized)
           /\ \A i \in DOMAIN initialized : initialized[i] \in Modules /\ modules[initialized[i]] = "ready"
           /\ Rollback = << >> => \A x \in Modules : modules[x] # "ready"
           /\ Rollback # << >> =>
                 /\ Head(Rollback) \in Modules /\ modules[Head(Rollback)] = "ready"
                 /\ \A i \in 1..(Len(initialized) - 1) :
                       i \in DOMAIN initialized /\ initialized[i] # Head(Rollback)
  <1> DEFINE n == Len(initialized)
  <1>1. /\ initialized \in Seq(Modules) /\ n \in Nat /\ DOMAIN initialized = 1..n
        /\ Rollback \in Seq(Modules) /\ Len(Rollback) = n
        /\ \A i \in 1..n : Rollback[i] = initialized[n + 1 - i]
    BY RollbackTyped DEF LifecycleInv, LifecycleTypeOK
  <1>2. ASSUME NEW x \in Modules PROVE modules[x] = "ready" <=> x \in Placed(initialized)
    <2>1. modules[x] # "stopping" /\ modules[x] # "stopped"
      <3>1. CASE AtRest
        BY <3>1 DEF AtRest, Up
      <3>2. CASE ComingUp
        <4>1. CASE x \notin Placed(pending)
          BY <3>2, <4>1 DEF ComingUp, Up
        <4>2. CASE x \in Placed(pending)
          <5>1. pending \in Seq(Modules)
            BY DEF LifecycleInv, LifecycleTypeOK
          <5>2. PICK i \in DOMAIN pending : pending[i] = x
            BY <4>2 DEF Placed
          <5>3. i = 1 \/ i \in 2..Len(pending)
            BY <5>1, <5>2
          <5>4. QED
            BY <3>2, <5>2, <5>3 DEF ComingUp
        <4>3. QED
          BY <4>1, <4>2
      <3>3. QED
        BY <3>1, <3>2
    <2>2. QED
      BY <2>1 DEF LifecycleInv, RecordsAgree
  <1>3. \A i \in DOMAIN initialized : initialized[i] \in Modules /\ modules[initialized[i]] = "ready"
    BY <1>1, <1>2 DEF Placed
  <1>4. ASSUME Rollback = << >> PROVE \A x \in Modules : modules[x] # "ready"
    <2>1. n = 0
      BY <1>1, <1>4
    <2>2. Placed(initialized) = {}
      BY <1>1, <2>1 DEF Placed
    <2>3. QED
      BY <1>2, <2>2
  <1>5. ASSUME Rollback # << >>
        PROVE  /\ Head(Rollback) \in Modules /\ modules[Head(Rollback)] = "ready"
               /\ \A i \in 1..(n - 1) : i \in DOMAIN initialized /\ initialized[i] # Head(Rollback)
    <2>1. n > 0
      BY <1>1, <1>5
    <2>2. Head(Rollback) = initialized[n] /\ n \in DOMAIN initialized
      BY <1>1, <1>5, <2>1
    <2>3. \A i \in 1..(n - 1) : i \in DOMAIN initialized /\ i # n
      <3>1. n \in Nat /\ DOMAIN initialized = 1..n
        BY <1>1
      <3> HIDE DEF n
      <3>2. \A i \in 1..(n - 1) : i \in 1..n /\ i # n
        BY <3>1
      <3>3. QED
        BY <3>1, <3>2
    <2>4. QED
      BY <1>3, <2>2, <2>3 DEF LifecycleInv, CameUpInOrder, Once
  <1>6. QED
    BY <1>1, <1>2, <1>3, <1>4, <1>5

LEMMA RequiredFailsSound ==
    ASSUME LifecycleInv, NEW m \in Modules, RequiredFails(m)
    PROVE  LifecycleInv'
  <1>0. /\ LifecycleTypeOK' /\ UNCHANGED <<descriptors, initialized, open>> /\ Required(m)
        /\ pending' = Rollback
    BY LifecycleTypeStep DEF LifecycleInv, LifecycleNext, Settles, RequiredFails
  <1>1. /\ ComingUp /\ host = "starting" /\ modules[m] = "initializing"
        /\ m \notin Placed(initialized) /\ m \notin late /\ m \notin open
    BY Awaited DEF RequiredFails, Initializing
  <1>2. /\ modules \in [Modules -> ModuleStates]
        /\ modules' \in [Modules -> ModuleStates] /\ late' \subseteq Modules /\ open' \subseteq Modules
        /\ late \subseteq Modules /\ late' \subseteq late \cup {m}
    BY <1>0 DEF LifecycleInv, LifecycleTypeOK, RequiredFails, Outlives
  <1>3. \A x \in Modules : x # m => modules[x] # "initializing"
    <2>1. SUFFICES ASSUME NEW x \in Modules, modules[x] = "initializing" PROVE x = m
      OBVIOUS
    <2>2. x \in Placed(pending) /\ m \in Placed(pending)
      BY <1>1, <2>1 DEF ComingUp, Up
    <2>3. PICK i \in DOMAIN pending : pending[i] = x
      BY <2>2 DEF Placed
    <2>4. PICK j \in DOMAIN pending : pending[j] = m
      BY <2>2 DEF Placed
    <2>5. pending \in Seq(Modules)
      BY DEF LifecycleInv, LifecycleTypeOK
    <2>6. i = 1 /\ j = 1
      BY <1>1, <2>1, <2>3, <2>4, <2>5 DEF ComingUp
    <2>7. QED
      BY <2>3, <2>4, <2>6
  <1>4. /\ \A x \in Modules : modules[x] = "ready" <=> x \in Placed(initialized)
        /\ \A i \in DOMAIN initialized : initialized[i] \in Modules /\ modules[initialized[i]] = "ready"
        /\ Rollback = << >> => \A x \in Modules : modules[x] # "ready"
        /\ Rollback # << >> =>
              /\ Head(Rollback) \in Modules /\ modules[Head(Rollback)] = "ready"
              /\ \A i \in 1..(Len(initialized) - 1) :
                    i \in DOMAIN initialized /\ initialized[i] # Head(Rollback)
    BY <1>1, CameUpReady
  <1>5. CASE Rollback = << >>
    <2>1. host' = "failed" /\ modules' = [modules EXCEPT ![m] = "failed"]
      BY <1>5 DEF RequiredFails
    <2>2. modules'[m] = "failed" /\ \A x \in Modules : x # m => modules'[x] = modules[x]
      BY <1>2, <2>1
    <2>3. Gone'
      BY <1>0, <1>3, <1>4, <1>5, <2>2 DEF Gone
    <2>4. InPhase'
      BY <2>1, <2>3 DEF InPhase
    <2>5. ASSUME NEW x \in Modules
          PROVE  /\ modules[x] = "degraded" => modules'[x] = "degraded"
                 /\ modules'[x] = "degraded" => modules[x] = "degraded" \/ ~Required(x)
                 /\ modules'[x] \in {"ready", "stopping", "stopped"} <=> modules[x] \in {"ready", "stopping", "stopped"}
      BY <1>1, <2>2
    <2>6. \A x \in late' : modules'[x] \in {"degraded", "failed"}
      BY <1>2, <2>2 DEF LifecycleInv, RecordsAgree
    <2>7. \A x \in open' : modules'[x] \in {"ready", "stopping", "degraded", "failed"}
      BY <1>0, <1>2, <2>2 DEF LifecycleInv, RecordsAgree
    <2>8. CameUpInOrder' /\ RecordsAgree'
      BY <1>0, <1>2, <2>5, <2>6, <2>7, RecordsStand
    <2>9. QED
      BY <1>0, <2>4, <2>8 DEF LifecycleInv
  <1>6. CASE Rollback # << >>
    <2> DEFINE last == Head(Rollback)
    <2>1. /\ host' = host /\ modules' = [modules EXCEPT ![m] = "failed", ![last] = "stopping"]
          /\ last \in Modules /\ modules[last] = "ready" /\ last # m
      BY <1>1, <1>4, <1>6 DEF RequiredFails
    <2> HIDE DEF last
    <2>2. /\ modules'[m] = "failed" /\ modules'[last] = "stopping"
          /\ \A x \in Modules : x # m /\ x # last => modules'[x] = modules[x]
      BY <1>2, <2>1
    <2>3. GoingDown'
      <3>1. \A i \in 1..(Len(initialized) - 1) : modules'[initialized[i]] = "ready"
        <4>1. SUFFICES ASSUME NEW i \in 1..(Len(initialized) - 1) PROVE modules'[initialized[i]] = "ready"
          OBVIOUS
        <4>2. initialized[i] \in Modules /\ modules[initialized[i]] = "ready" /\ initialized[i] # last
          BY <1>4, <1>6 DEF last
        <4>3. QED
          BY <1>1, <2>2, <4>2
      <3>2. \A x \in Modules : modules'[x] # "initializing"
        BY <1>3, <2>2
      <3>3. modules'[Head(Rollback)] = "stopping"
        BY <2>2 DEF last
      <3>4. QED
        BY <1>0, <1>6, <3>1, <3>2, <3>3, RollbackBegins
    <2>4. InPhase'
      BY <1>1, <2>1, <2>3 DEF InPhase
    <2>5. ASSUME NEW x \in Modules
          PROVE  /\ modules[x] = "degraded" => modules'[x] = "degraded"
                 /\ modules'[x] = "degraded" => modules[x] = "degraded" \/ ~Required(x)
                 /\ modules'[x] \in {"ready", "stopping", "stopped"} <=> modules[x] \in {"ready", "stopping", "stopped"}
      BY <1>1, <2>1, <2>2
    <2>6. \A x \in late' : modules'[x] \in {"degraded", "failed"}
      BY <1>2, <2>1, <2>2 DEF LifecycleInv, RecordsAgree
    <2>7. \A x \in open' : modules'[x] \in {"ready", "stopping", "degraded", "failed"}
      BY <1>0, <1>2, <2>2 DEF LifecycleInv, RecordsAgree
    <2>8. CameUpInOrder' /\ RecordsAgree'
      BY <1>0, <1>2, <2>5, <2>6, <2>7, RecordsStand
    <2>9. QED
      BY <1>0, <2>4, <2>8 DEF LifecycleInv
  <1>7. QED
    BY <1>5, <1>6

\* The module told to stop stands where the loop is in the list of what came up.
LEMMA ToldToStop ==
    ASSUME LifecycleInv, NEW m \in Modules, Stopping(m)
    PROVE  /\ GoingDown /\ host \in {"starting", "stopping"}
           /\ pending \in Seq(Modules) /\ initialized \in Seq(Modules)
           /\ Len(pending) \in DOMAIN initialized /\ initialized[Len(pending)] = m
           /\ modules[m] = "stopping"
  <1>1. pending # << >> /\ Head(pending) = m /\ modules[m] = "stopping"
    BY DEF Stopping
  <1>2. pending \in Seq(Modules) /\ initialized \in Seq(Modules) /\ host \in HostStates
    BY DEF LifecycleInv, LifecycleTypeOK
  <1>3. m = pending[1] /\ 1 \in DOMAIN pending /\ Len(pending) \in Nat /\ Len(pending) >= 1
    BY <1>1, <1>2
  <1>4. GoingDown /\ host \in {"starting", "stopping"}
    BY <1>1, <1>2, <1>3 DEF LifecycleInv, InPhase, ComingUp, AtRest, Gone, HostStates
  <1>5. initialized[Len(pending)] = m /\ Len(pending) \in DOMAIN initialized
    <2>1. pending[1] = initialized[Len(pending) + 1 - 1]
      BY <1>3, <1>4 DEF GoingDown
    <2>2. Len(pending) <= Len(initialized)
      BY <1>4 DEF GoingDown
    <2>3. QED
      BY <1>2, <1>3, <2>1, <2>2
  <1>6. QED
    BY <1>1, <1>2, <1>4, <1>5

\* The loop goes on to the module that came up before, or all that came up is down.
LEMMA OnwardSound ==
    ASSUME LifecycleInv, NEW m \in Modules, Stopping(m), UNCHANGED initialized,
           NEW settled \in [Modules -> ModuleStates], settled[m] \in {"stopping", "stopped"},
           \A x \in Modules : x # m => settled[x] = modules[x],
           Onward(settled)
    PROVE  /\ InPhase'
           /\ \A x \in Modules :
                \/ modules'[x] = settled[x]
                \/ x # m /\ modules[x] = "ready" /\ modules'[x] = "stopping"
  <1> DEFINE n == Len(pending)
  <1> DEFINE k == Len(initialized)
  <1> DEFINE rest == Tail(pending)
  <1>1. /\ GoingDown /\ host \in {"starting", "stopping"}
        /\ pending \in Seq(Modules) /\ initialized \in Seq(Modules)
        /\ n \in DOMAIN initialized /\ initialized[n] = m
    BY ToldToStop
  <1>2. /\ n \in Nat /\ n > 0 /\ k \in Nat /\ n <= k /\ DOMAIN initialized = 1..k
        /\ Len(rest) = n - 1 /\ DOMAIN rest = 1..(n - 1)
        /\ \A i \in 1..(n - 1) : rest[i] = pending[i + 1]
        /\ rest = << >> <=> n = 1
        /\ rest # << >> => Head(rest) = pending[2]
    <2>1. /\ pending # << >> /\ n <= k /\ n \in Nat /\ n > 0 /\ k \in Nat /\ DOMAIN initialized = 1..k
      BY <1>1 DEF GoingDown
    <2>2. /\ rest \in Seq(Modules) /\ Len(rest) = n - 1 /\ DOMAIN rest = 1..(n - 1)
          /\ \A i \in 1..(n - 1) : rest[i] = pending[i + 1]
      BY <1>1, <2>1
    <2>3. rest = << >> <=> n = 1
      BY <2>1, <2>2
    <2>4. rest # << >> => Head(rest) = pending[2]
      BY <2>1, <2>2, <2>3, FirstPending, <1>1
    <2>5. QED
      BY <2>1, <2>2, <2>3, <2>4
  <1>3. /\ \A i \in 1..n : pending[i] = initialized[n + 1 - i]
        /\ \A i \in 1..(n - 1) : modules[initialized[i]] = "ready"
        /\ \A i \in (n + 1)..k : modules[initialized[i]] \in {"stopping", "stopped"}
        /\ \A x \in Modules : modules[x] # "initializing"
    BY <1>1 DEF GoingDown
  <1>4. \A i \in 1..k : initialized[i] \in Modules /\ (i # n => initialized[i] # m)
    BY <1>1, <1>2 DEF LifecycleInv, CameUpInOrder, Once
  <1> HIDE DEF n, k, rest
  <1>5. CASE rest = << >>
    <2>1. /\ pending' = << >> /\ modules' = settled
          /\ host' = IF host = "starting" THEN "failed" ELSE "stopped"
      BY <1>5 DEF Onward, rest
    <2>2. ASSUME NEW x \in Modules PROVE modules'[x] \notin {"initializing", "ready"}
      <3>1. CASE x = m
        BY <2>1, <3>1
      <3>2. CASE x # m
        <4>1. modules[x] # "ready"
          <5>1. SUFFICES ASSUME modules[x] = "ready" PROVE FALSE
            OBVIOUS
          <5>2. PICK i \in DOMAIN initialized : initialized[i] = x
            BY <5>1 DEF LifecycleInv, RecordsAgree, Placed
          <5>3. i \in 1..k /\ i # n
            BY <1>1, <1>2, <3>2, <5>2
          <5>4. i \in (n + 1)..k
            BY <1>2, <1>5, <5>3
          <5>5. QED
            BY <1>3, <5>1, <5>2, <5>4
        <4>2. QED
          BY <1>3, <2>1, <3>2, <4>1
      <3>3. QED
        BY <3>1, <3>2
    <2>3. Gone' /\ host' \in {"failed", "stopped"}
      BY <2>1, <2>2 DEF Gone
    <2>4. InPhase'
      BY <2>3 DEF InPhase
    <2>5. QED
      BY <2>1, <2>4
  <1>6. CASE rest # << >>
    <2> DEFINE next == initialized[n - 1]
    <2>1. n >= 2 /\ n - 1 \in 1..(n - 1) /\ n - 1 \in 1..k /\ n - 1 # n /\ 2 \in 1..n /\ n + 1 - 2 = n - 1
      BY <1>2, <1>6
    <2>2. Head(rest) = next
      <3>1. pending[2] = initialized[n + 1 - 2]
        BY <1>3, <2>1
      <3>2. QED
        BY <1>2, <1>6, <2>1, <3>1
    <2>3. /\ pending' = rest /\ modules' = [settled EXCEPT ![Head(rest)] = "stopping"] /\ host' = host
      BY <1>6 DEF Onward, rest
    <2>4. next \in Modules /\ next # m /\ modules[next] = "ready"
      BY <1>3, <1>4, <2>1
    <2> HIDE DEF next
    <2>5. /\ modules'[next] = "stopping" /\ modules'[m] = settled[m]
          /\ \A x \in Modules : x # next => modules'[x] = settled[x]
      BY <2>2, <2>3, <2>4
    <2>6. ASSUME NEW i \in 1..(n - 1) PROVE rest[i] = initialized[(n - 1) + 1 - i]
      <3>1. i + 1 \in 1..n /\ n + 1 - (i + 1) = (n - 1) + 1 - i
        BY <1>2
      <3>2. rest[i] = pending[i + 1]
        BY <1>2
      <3>3. pending[i + 1] = initialized[n + 1 - (i + 1)]
        BY <1>3, <3>1
      <3>4. QED
        BY <3>1, <3>2, <3>3
    <2>7. ASSUME NEW i \in 1..((n - 1) - 1) PROVE modules'[initialized[i]] = "ready"
      <3>1. i \in 1..k /\ i # n /\ i \in 1..(n - 1) /\ i # n - 1
        BY <1>2, <2>1
      <3>2. initialized[i] # next
        <4>1. n - 1 \in DOMAIN initialized /\ i \in DOMAIN initialized
          BY <1>2, <2>1, <3>1
        <4>2. QED
          BY <3>1, <4>1 DEF LifecycleInv, CameUpInOrder, Once, next
      <3>3. initialized[i] \in Modules /\ initialized[i] # m /\ modules[initialized[i]] = "ready"
        BY <1>3, <1>4, <3>1
      <3>4. QED
        BY <2>5, <3>2, <3>3
    <2>8. ASSUME NEW i \in ((n - 1) + 1)..k PROVE modules'[initialized[i]] \in {"stopping", "stopped"}
      <3>1. CASE i = n
        BY <1>1, <2>4, <2>5, <3>1
      <3>2. CASE i # n
        <4>1. i \in (n + 1)..k /\ i \in 1..k
          BY <1>2, <3>2
        <4>2. initialized[i] \in Modules /\ initialized[i] # m
          BY <1>4, <3>2, <4>1
        <4>3. modules[initialized[i]] \in {"stopping", "stopped"}
          BY <1>3, <4>1
        <4>4. QED
          BY <2>4, <2>5, <4>2, <4>3
      <3>3. QED
        BY <3>1, <3>2
    <2>9. \A x \in Modules : modules'[x] # "initializing"
      BY <1>3, <2>4, <2>5
    <2>10. /\ Len(pending') = n - 1 /\ Len(initialized') = k /\ DOMAIN pending' = 1..(n - 1)
           /\ pending' # << >> /\ pending'[1] = next /\ n - 1 <= k
      <3>1. rest[1] = initialized[(n - 1) + 1 - 1] /\ (n - 1) + 1 - 1 = n - 1
        BY <1>2, <2>1, <2>6
      <3>2. QED
        BY <1>2, <1>6, <2>3, <3>1 DEF k, next
    <2>11. GoingDown'
      <3>1. \A i \in DOMAIN pending' : pending'[i] = initialized'[Len(pending') + 1 - i]
        BY <2>3, <2>6, <2>10
      <3>2. \A i \in 1..(Len(pending') - 1) : modules'[initialized'[i]] = "ready"
        BY <2>7, <2>10
      <3>3. \A i \in (Len(pending') + 1)..Len(initialized') : modules'[initialized'[i]] \in {"stopping", "stopped"}
        BY <2>8, <2>10
      <3>4. modules'[pending'[1]] = "stopping" /\ pending' # << >> /\ Len(pending') <= Len(initialized')
        BY <2>5, <2>10
      <3>5. QED
        BY <2>9, <3>1, <3>2, <3>3, <3>4 DEF GoingDown
    <2>12. InPhase'
      BY <1>1, <2>3, <2>11 DEF InPhase
    <2>13. QED
      BY <2>4, <2>5, <2>12
  <1>7. QED
    BY <1>5, <1>6

\* What one module's stopping, well or not, leaves of the invariant.
LEMMA StopSound ==
    ASSUME LifecycleInv, LifecycleTypeOK', NEW m \in Modules, Stopping(m),
           UNCHANGED <<descriptors, initialized, late>>,
           NEW settled \in [Modules -> ModuleStates], settled[m] \in {"stopping", "stopped"},
           \A x \in Modules : x # m => settled[x] = modules[x],
           Onward(settled),
           open' \subseteq open, settled[m] = "stopped" => m \notin open'
    PROVE  LifecycleInv'
  <1>1. /\ InPhase'
        /\ \A x \in Modules :
              \/ modules'[x] = settled[x]
              \/ x # m /\ modules[x] = "ready" /\ modules'[x] = "stopping"
    BY OnwardSound
  <1>2. modules[m] = "stopping"
    BY DEF Stopping
  <1>3. /\ modules' \in [Modules -> ModuleStates] /\ late' \subseteq Modules /\ open' \subseteq Modules
    BY DEF LifecycleTypeOK
  <1>4. ASSUME NEW x \in Modules
        PROVE  /\ modules[x] = "degraded" => modules'[x] = "degraded"
               /\ modules'[x] = "degraded" => modules[x] = "degraded" \/ ~Required(x)
               /\ modules'[x] \in {"ready", "stopping", "stopped"} <=> modules[x] \in {"ready", "stopping", "stopped"}
    BY <1>1, <1>2
  <1>5. \A x \in late' : modules'[x] \in {"degraded", "failed"}
    BY <1>1, <1>2, <1>3 DEF LifecycleInv, RecordsAgree
  <1>6. \A x \in open' : modules'[x] \in {"ready", "stopping", "degraded", "failed"}
    <2>1. SUFFICES ASSUME NEW x \in open' PROVE modules'[x] \in {"ready", "stopping", "degraded", "failed"}
      OBVIOUS
    <2>2. x \in Modules /\ x \in open /\ modules[x] \in {"ready", "stopping", "degraded", "failed"}
      BY <1>3 DEF LifecycleInv, RecordsAgree
    <2>3. QED
      BY <1>1, <2>1, <2>2
  <1>7. CameUpInOrder' /\ RecordsAgree'
    BY <1>3, <1>4, <1>5, <1>6, RecordsStand
  <1>8. QED
    BY <1>1, <1>7 DEF LifecycleInv

LEMMA ShutdownReturnsSound ==
    ASSUME LifecycleInv, NEW m \in Modules, ShutdownReturns(m)
    PROVE  LifecycleInv'
  <1>0. LifecycleTypeOK' /\ modules \in [Modules -> ModuleStates]
    BY LifecycleTypeStep DEF LifecycleInv, LifecycleTypeOK, LifecycleNext, Settles
  <1> DEFINE settled == [modules EXCEPT ![m] = "stopped"]
  <1>1. /\ Stopping(m) /\ Onward(settled) /\ open' = open \ {m}
        /\ UNCHANGED <<descriptors, initialized, late>>
    BY DEF ShutdownReturns
  <1>2. /\ settled \in [Modules -> ModuleStates] /\ settled[m] = "stopped"
        /\ \A x \in Modules : x # m => settled[x] = modules[x]
    BY <1>0 DEF ModuleStates
  <1> HIDE DEF settled
  <1>3. QED
    BY <1>0, <1>1, <1>2, StopSound

LEMMA ShutdownFailsSound ==
    ASSUME LifecycleInv, NEW m \in Modules, ShutdownFails(m)
    PROVE  LifecycleInv'
  <1>1. LifecycleTypeOK' /\ modules \in [Modules -> ModuleStates]
    BY LifecycleTypeStep DEF LifecycleInv, LifecycleTypeOK, LifecycleNext, Settles
  <1>2. /\ Stopping(m) /\ Onward(modules) /\ UNCHANGED <<descriptors, initialized, late, open>>
        /\ modules[m] = "stopping"
    BY DEF ShutdownFails, Stopping
  <1>3. QED
    BY <1>1, <1>2, StopSound

LEMMA ShutdownRunningSound == LifecycleInv /\ ShutdownRunning => LifecycleInv'
  <1> SUFFICES ASSUME LifecycleInv, ShutdownRunning PROVE LifecycleInv'
    OBVIOUS
  <1>0. /\ LifecycleTypeOK' /\ UNCHANGED <<descriptors, initialized, late, open>> /\ pending' = Rollback
        /\ modules \in [Modules -> ModuleStates] /\ modules' \in [Modules -> ModuleStates]
        /\ late' \subseteq Modules /\ open' \subseteq Modules
    BY LifecycleTypeStep DEF LifecycleInv, LifecycleTypeOK, LifecycleNext, ShutdownRunning
  <1>1. AtRest
    BY DEF ShutdownRunning, LifecycleInv, InPhase
  <1>2. \A x \in Modules : modules[x] \in {"ready", "degraded"}
    BY <1>1 DEF AtRest, Up
  <1>3. /\ \A i \in DOMAIN initialized : initialized[i] \in Modules /\ modules[initialized[i]] = "ready"
        /\ Rollback = << >> => \A x \in Modules : modules[x] # "ready"
        /\ Rollback # << >> =>
              /\ Head(Rollback) \in Modules /\ modules[Head(Rollback)] = "ready"
              /\ \A i \in 1..(Len(initialized) - 1) :
                    i \in DOMAIN initialized /\ initialized[i] # Head(Rollback)
    BY <1>1, CameUpReady
  <1>4. CASE Rollback = << >>
    <2>1. host' = "stopped" /\ modules' = modules /\ pending' = << >>
      BY <1>0, <1>4 DEF ShutdownRunning
    <2>2. Gone'
      BY <1>2, <1>3, <1>4, <2>1 DEF Gone
    <2>3. InPhase'
      BY <2>1, <2>2 DEF InPhase
    <2>4. CameUpInOrder' /\ RecordsAgree'
      BY <1>0, <2>1 DEF LifecycleInv, CameUpInOrder, RecordsAgree, Once, Placed, DependsOn, Required
    <2>5. QED
      BY <1>0, <2>3, <2>4 DEF LifecycleInv
  <1>5. CASE Rollback # << >>
    <2> DEFINE last == Head(Rollback)
    <2>1. /\ host' = "stopping" /\ modules' = [modules EXCEPT ![last] = "stopping"]
          /\ last \in Modules /\ modules[last] = "ready"
      BY <1>3, <1>5 DEF ShutdownRunning, Begun
    <2> HIDE DEF last
    <2>2. modules'[last] = "stopping" /\ \A x \in Modules : x # last => modules'[x] = modules[x]
      BY <1>0, <2>1
    <2>3. GoingDown'
      <3>1. \A i \in 1..(Len(initialized) - 1) : modules'[initialized[i]] = "ready"
        <4>1. SUFFICES ASSUME NEW i \in 1..(Len(initialized) - 1) PROVE modules'[initialized[i]] = "ready"
          OBVIOUS
        <4>2. initialized[i] \in Modules /\ modules[initialized[i]] = "ready" /\ initialized[i] # last
          BY <1>3, <1>5 DEF last
        <4>3. QED
          BY <2>2, <4>2
      <3>2. \A x \in Modules : modules'[x] # "initializing"
        BY <1>2, <2>2
      <3>3. modules'[Head(Rollback)] = "stopping"
        BY <2>2 DEF last
      <3>4. QED
        BY <1>0, <1>5, <3>1, <3>2, <3>3, RollbackBegins
    <2>4. InPhase'
      BY <2>1, <2>3 DEF InPhase
    <2>5. ASSUME NEW x \in Modules
          PROVE  /\ modules[x] = "degraded" => modules'[x] = "degraded"
                 /\ modules'[x] = "degraded" => modules[x] = "degraded" \/ ~Required(x)
                 /\ modules'[x] \in {"ready", "stopping", "stopped"} <=> modules[x] \in {"ready", "stopping", "stopped"}
      BY <2>1, <2>2
    <2>6. \A x \in late' : modules'[x] \in {"degraded", "failed"}
      BY <1>0, <2>1, <2>2 DEF LifecycleInv, RecordsAgree
    <2>7. \A x \in open' : modules'[x] \in {"ready", "stopping", "degraded", "failed"}
      BY <1>0, <2>2 DEF LifecycleInv, RecordsAgree
    <2>8. CameUpInOrder' /\ RecordsAgree'
      BY <1>0, <2>5, <2>6, <2>7, RecordsStand
    <2>9. QED
      BY <1>0, <2>4, <2>8 DEF LifecycleInv
  <1>6. QED
    BY <1>4, <1>5

\* The loop in progress and the states it drives stand.
LEMMA InPhaseStands ==
    ASSUME LifecycleInv, UNCHANGED <<descriptors, host, modules, pending, initialized>>
    PROVE  InPhase' /\ CameUpInOrder'
  <1>1. ComingUp' <=> ComingUp
    BY DEF ComingUp, Once, Placed, Up, Serving, DependsOn
  <1>2. GoingDown' <=> GoingDown
    BY DEF GoingDown
  <1>3. /\ AtRest' <=> AtRest
        /\ Gone' <=> Gone
    BY DEF AtRest, Gone, Up
  <1>4. InPhase'
    BY <1>1, <1>2, <1>3 DEF LifecycleInv, InPhase
  <1>5. CameUpInOrder'
    BY DEF LifecycleInv, CameUpInOrder, Once, DependsOn
  <1>6. QED
    BY <1>4, <1>5

\* Every step keeps the invariant.
LEMMA LifecycleInvStep == LifecycleInv /\ [LifecycleNext]_lifecycleVars => LifecycleInv'
  <1> SUFFICES ASSUME LifecycleInv, [LifecycleNext]_lifecycleVars PROVE LifecycleInv'
    OBVIOUS
  <1>0. LifecycleTypeOK /\ LifecycleTypeOK'
    BY LifecycleTypeStep DEF LifecycleInv
  <1>1. CASE Start
    BY <1>1, StartSound
  <1>2. CASE ShutdownRunning
    BY <1>2, ShutdownRunningSound
  <1>3. CASE ShutdownIdle
    <2>1. /\ UNCHANGED <<descriptors, modules, pending, initialized, late, open>>
          /\ host' = "stopped" /\ host \in {"created", "validating", "failed"}
      BY <1>3 DEF ShutdownIdle
    <2>2. Gone'
      BY <2>1 DEF LifecycleInv, InPhase, Gone
    <2>3. InPhase'
      BY <2>1, <2>2 DEF InPhase
    <2>4. CameUpInOrder' /\ RecordsAgree'
      BY <2>1 DEF LifecycleInv, CameUpInOrder, RecordsAgree, Once, Placed, DependsOn, Required
    <2>5. QED
      BY <1>0, <2>3, <2>4 DEF LifecycleInv
  <1>4. CASE ShutdownWhileStarting \/ UNCHANGED lifecycleVars
    <2>1. UNCHANGED <<descriptors, host, modules, pending, initialized, late, open>>
      BY <1>4 DEF ShutdownWhileStarting, lifecycleVars
    <2>2. InPhase' /\ CameUpInOrder'
      BY <2>1, InPhaseStands
    <2>3. RecordsAgree'
      BY <2>1 DEF LifecycleInv, RecordsAgree, Placed, Required
    <2>4. QED
      BY <1>0, <2>2, <2>3 DEF LifecycleInv
  <1>5. ASSUME NEW m \in Modules, Settles(m) PROVE LifecycleInv'
    BY <1>5, ReturnsSound, OptionalFailsSound, RequiredFailsSound, ShutdownReturnsSound, ShutdownFailsSound
       DEF Settles
  <1>6. ASSUME NEW m \in Modules, LateInitialization(m) \/ LateShutdown(m) PROVE LifecycleInv'
    <2>1. /\ UNCHANGED <<descriptors, host, modules, pending, initialized>> /\ late' \subseteq late
          /\ open' \subseteq open \cup {m} /\ (m \in late \/ open' \subseteq open)
      BY <1>6 DEF LateInitialization, LateShutdown
    <2>2. InPhase' /\ CameUpInOrder'
      BY <2>1, InPhaseStands
    <2>3. RecordsAgree'
      BY <2>1 DEF LifecycleInv, RecordsAgree, Placed, Required
    <2>4. QED
      BY <1>0, <2>2, <2>3 DEF LifecycleInv
  <1>7. QED
    BY <1>1, <1>2, <1>3, <1>4, <1>5, <1>6 DEF LifecycleNext

LEMMA LifecycleAlways == LifecycleSpec => []LifecycleInv
  BY LifecycleInvInit, LifecycleInvStep, PTL DEF LifecycleSpec

-----------------------------------------------------------------------------
(* The theorems.                                                           *)

\* The states of the host, of its modules and of the two loops have their types,
\* whatever fails, hangs or comes late.
THEOREM LifecycleTyped == LifecycleSpec => []LifecycleTypeOK
  <1>1. LifecycleInv => LifecycleTypeOK
    BY DEF LifecycleInv
  <1>2. QED
    BY <1>1, LifecycleAlways, PTL

\* However many modules there are and whatever they depend on, a module is never
\* started before what it depends on has come up, and nothing is told to stop
\* while a module that depends on it is up: not by a start, its rollback or a
\* shutdown, and not when modules fail or outlive their timers (doStart and
\* shutdownModules of lifecycle-controller.ts).
THEOREM DependenciesAlwaysOutlive == LifecycleSpec => []DependenciesOutlive
  BY LifecycleAlways, ServingDependencies, PTL

\* What the host says of itself is true of its modules: ready only when all are,
\* degraded when an optional one is missing and no required one, failed or
\* stopped when none is left serving (the end of doStart and of doShutdown).
THEOREM HostAlwaysReflects == LifecycleSpec => []HostReflectsModules
  BY LifecycleAlways, HostTellsModules, PTL

\* A host that is down has asked every module that came up to let go of what it
\* held; only one that was late, or that failed to stop, may hold on to it.
THEOREM OnlyLateEverRemainOpen == LifecycleSpec => []OnlyLateRemainOpen
  BY LifecycleAlways, OthersAreClosed, PTL

\* For every set of modules and dependencies, resolveTopologicalOrder returns the
\* first, by registration, of all the orders that respect the dependencies, and
\* reports a cycle exactly when there is no such order.
THEOREM OrderAlwaysFirstTopological == LifecycleSpec => []OrderIsFirstTopological
  BY FirstTopological, PTL
=============================================================================
