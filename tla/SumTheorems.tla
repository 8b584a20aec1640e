------------------------------ MODULE SumTheorems ------------------------------
(***************************************************************************)
(* Sums over finite sets, as the models take them: SumFunctionOnSet and    *)
(* SumFunction of the community module Functions, which fold a function    *)
(* over the elements of a set in an order CHOOSE picks.  The facts here    *)
(* (a sum is a number, any element can be taken out first, equal values    *)
(* give equal sums, a part sums to no more than the whole, values may be   *)
(* grouped, renamed and added) hold for every finite set, whatever its     *)
(* elements are.                                                           *)
(*                                                                         *)
(* They rest on the least-element principle: a set of naturals that is not *)
(* empty has a least member (WFMin and NatLessThanWellFounded).  A sum     *)
(* over every subset of a finite set at once is one function, so what is   *)
(* minimised is the size of a subset the claim fails for, and no induction *)
(* rule with an operator for its parameter is needed.                      *)
(***************************************************************************)
EXTENDS Functions, FiniteSets, FiniteSetTheorems, WellFoundedInduction, TLAPS

-----------------------------------------------------------------------------
(* Induction by least elements.                                            *)

\* A set of naturals with a member has a least one.
LEMMA LeastNatural ==
    ASSUME NEW T \in SUBSET Nat, T # {}
    PROVE  \E n \in T : \A k \in T : n <= k
  <1>1. \E n \in T : \A k \in T : ~ (<<k, n>> \in OpToRel(<, Nat))
    BY NatLessThanWellFounded, WFMin
  <1>2. PICK n \in T : \A k \in T : ~ (<<k, n>> \in OpToRel(<, Nat))
    BY <1>1
  <1>3. ASSUME NEW k \in T PROVE n <= k
    <2>1. k \in Nat /\ n \in Nat /\ <<k, n>> \in Nat \X Nat
      BY <1>3
    <2>2. ~ (k < n)
      <3>1. SUFFICES ASSUME k < n PROVE <<k, n>> \in OpToRel(<, Nat)
        BY <1>2
      <3>2. <<k, n>>[1] < <<k, n>>[2]
        BY <3>1
      <3>3. QED
        BY <2>1, <3>2 DEF OpToRel
    <2>3. QED
      BY <2>1, <2>2
  <1>4. QED
    BY <1>3

\* A set of naturals with 0 in it that is closed under successors has them all.
LEMMA NaturalsBySuccessor ==
    ASSUME NEW T \in SUBSET Nat, 0 \in T, \A n \in T : n + 1 \in T
    PROVE  T = Nat
  <1>1. SUFFICES ASSUME Nat \ T # {} PROVE FALSE
    OBVIOUS
  <1>2. PICK n \in Nat \ T : \A k \in Nat \ T : n <= k
    <2>1. Nat \ T \in SUBSET Nat
      OBVIOUS
    <2>2. QED
      BY <1>1, <2>1, LeastNatural
  <1>3. n # 0 /\ n - 1 \in Nat /\ n - 1 \in T
    BY <1>2
  <1>4. (n - 1) + 1 \in T
    BY <1>3
  <1>5. QED
    BY <1>2, <1>4

\* Induction over the subsets of a finite set: a family of them that holds the
\* empty set and stays closed when an element is added is all of them.
LEMMA FamilyInduction ==
    ASSUME NEW U, IsFiniteSet(U), NEW F \in SUBSET (SUBSET U), {} \in F,
           \A s \in F : \A x \in U \ s : s \cup {x} \in F
    PROVE  F = SUBSET U
  <1> DEFINE Size(s) == Cardinality(s)
  <1> DEFINE Outside == {Size(s) : s \in (SUBSET U) \ F}
  <1>1. \A s \in SUBSET U : IsFiniteSet(s) /\ Size(s) \in Nat
    BY FS_Subset, FS_CardinalityType
  <1>2. SUFFICES ASSUME (SUBSET U) \ F # {} PROVE FALSE
    OBVIOUS
  <1>3. Outside \in SUBSET Nat /\ Outside # {}
    BY <1>1, <1>2
  <1>4. PICK n \in Outside : \A k \in Outside : n <= k
    BY <1>3, LeastNatural
  <1>5. PICK s \in (SUBSET U) \ F : Size(s) = n
    BY <1>4
  <1>6. PICK x \in s : TRUE
    OBVIOUS
  <1>7. IsFiniteSet(s \ {x}) /\ Size(s \ {x}) = Size(s) - 1
    BY <1>1, <1>5, <1>6, FS_RemoveElement
  <1>8. s \ {x} \in F
    <2>1. SUFFICES ASSUME s \ {x} \notin F PROVE FALSE
      OBVIOUS
    <2>2. Size(s \ {x}) \in Outside
      BY <2>1
    <2>3. n \in Nat /\ n <= Size(s \ {x})
      BY <1>3, <1>4, <2>2
    <2> HIDE DEF Size
    <2>4. QED
      BY <1>5, <1>7, <2>3
  <1>9. (s \ {x}) \cup {x} = s
    BY <1>6
  <1>10. QED
    BY <1>5, <1>6, <1>8, <1>9

-----------------------------------------------------------------------------
(* The fold, as a function on the subsets of what is summed over.          *)

\* The element the fold takes next.
Picked(s) == CHOOSE x \in s : TRUE

\* g is the sum of f over every subset of S.
Sums(f, S, g) ==
    g = [s \in SUBSET S |-> IF s = {} THEN 0 ELSE f[Picked(s)] + g[s \ {Picked(s)}]]

\* The operator the models use chooses such a function.
LEMMA SumUnfolds ==
    ASSUME NEW f, NEW S
    PROVE  SumFunctionOnSet(f, S) = (CHOOSE g : Sums(f, S, g))[S]
  BY DEF SumFunctionOnSet, FoldFunctionOnSet, MapThenFoldSet, Sums, Picked

\* What is picked from a set with a member is a member.
LEMMA PickedIn == ASSUME NEW s, s # {} PROVE Picked(s) \in s
  BY DEF Picked

\* Over a finite set of naturals there is one.
LEMMA SumsExist ==
    ASSUME NEW U, IsFiniteSet(U), NEW f, \A x \in U : f[x] \in Nat
    PROVE  \E g \in [SUBSET U -> Nat] : Sums(f, U, g)
  <1> DEFINE Size(s) == Cardinality(s)
  <1> DEFINE step(g, s) == IF s = {} THEN 0 ELSE f[Picked(s)] + g[s \ {Picked(s)}]
  <1> DEFINE T == {n \in Nat : \E g \in [SUBSET U -> Nat] :
                                  \A s \in SUBSET U : Size(s) <= n => g[s] = step(g, s)}
  <1>1. \A s \in SUBSET U : IsFiniteSet(s) /\ Size(s) \in Nat
    BY FS_Subset, FS_CardinalityType
  <1>2. \A s \in SUBSET U : s # {} => /\ Picked(s) \in U /\ s \ {Picked(s)} \in SUBSET U
                                      /\ Size(s \ {Picked(s)}) = Size(s) - 1
    BY <1>1, PickedIn, FS_RemoveElement
  <1>3. \A s \in SUBSET U : Size(s) = 0 => s = {}
    BY <1>1, FS_EmptySet
  <1> HIDE DEF Size
  <1>4. 0 \in T
    <2>1. \A s \in SUBSET U : Size(s) <= 0 => [t \in SUBSET U |-> 0][s] = step([t \in SUBSET U |-> 0], s)
      BY <1>1, <1>3
    <2>2. [t \in SUBSET U |-> 0] \in [SUBSET U -> Nat]
      OBVIOUS
    <2> HIDE DEF step
    <2>3. QED
      BY <2>1, <2>2
  <1>5. ASSUME NEW n \in T PROVE n + 1 \in T
    <2>1. PICK g \in [SUBSET U -> Nat] : \A s \in SUBSET U : Size(s) <= n => g[s] = step(g, s)
      BY <1>5
    <2> DEFINE h == [s \in SUBSET U |-> step(g, s)]
    <2>2. h \in [SUBSET U -> Nat]
      <3>1. ASSUME NEW s \in SUBSET U PROVE step(g, s) \in Nat
        <4>1. CASE s = {}
          BY <4>1
        <4>2. CASE s # {}
          <5>1. f[Picked(s)] \in Nat /\ g[s \ {Picked(s)}] \in Nat
            BY <1>2, <4>2
          <5>2. QED
            BY <4>2, <5>1
        <4>3. QED
          BY <4>1, <4>2
      <3> HIDE DEF step
      <3>2. QED
        BY <3>1
    <2>3. ASSUME NEW s \in SUBSET U, Size(s) <= n + 1
          PROVE  h[s] = step(h, s)
      <3>1. CASE s = {}
        BY <3>1
      <3>2. CASE s # {}
        <4> DEFINE t == s \ {Picked(s)}
        <4>1. t \in SUBSET U /\ Size(t) <= n
          BY <1>1, <1>2, <2>3, <3>2
        <4>2. g[t] = step(g, t)
          BY <2>1, <4>1
        <4>3. h[t] = step(g, t)
          BY <4>1
        <4>4. h[s] = f[Picked(s)] + g[t]
          BY <3>2
        <4> HIDE DEF h, t
        <4>5. QED
          BY <3>2, <4>2, <4>3, <4>4 DEF t
      <3>3. QED
        BY <3>1, <3>2
    <2> HIDE DEF h, step
    <2>4. QED
      BY <2>2, <2>3
  <1>6. Size(U) \in T
    <2> HIDE DEF T
    <2>1. T = Nat
      <3>1. T \in SUBSET Nat
        BY DEF T
      <3>2. QED
        BY <1>4, <1>5, <3>1, NaturalsBySuccessor
    <2>2. QED
      BY <1>1, <2>1
  <1>7. PICK g \in [SUBSET U -> Nat] : \A s \in SUBSET U : Size(s) <= Size(U) => g[s] = step(g, s)
    BY <1>6
  <1>8. \A s \in SUBSET U : Size(s) <= Size(U)
    BY FS_Subset DEF Size
  <1>9. g = [s \in SUBSET U |-> step(g, s)]
    <2> HIDE DEF step
    <2>1. QED
      BY <1>7, <1>8
  <1>10. QED
    BY <1>9 DEF Sums

\* Two functions that are equal on a set, and one that is no greater.
AgreeOn(f, ff, S) == \A x \in S : f[x] = ff[x]
AtMost(f, ff, S)  == \A x \in S : f[x] <= ff[x]

\* Sums of functions that agree agree, whatever larger set they are part of.
LEMMA SumsAgree ==
    ASSUME NEW U, IsFiniteSet(U), NEW S \in SUBSET U, NEW f, NEW ff, AgreeOn(f, ff, S),
           NEW g, Sums(f, U, g), NEW gg, Sums(ff, S, gg)
    PROVE  \A s \in SUBSET S : g[s] = gg[s]
  <1> DEFINE Agreed == {s \in SUBSET S : g[s] = gg[s]}
  <1> DEFINE Size(s) == Cardinality(s)
  <1> DEFINE Apart == {Size(s) : s \in (SUBSET S) \ Agreed}
  <1>1. \A s \in SUBSET S : IsFiniteSet(s) /\ Size(s) \in Nat
    BY FS_Subset, FS_CardinalityType
  <1>2. \A s \in SUBSET S : s # {} => /\ Picked(s) \in S /\ s \ {Picked(s)} \in SUBSET S
                                      /\ Size(s \ {Picked(s)}) = Size(s) - 1
    BY <1>1, PickedIn, FS_RemoveElement
  <1> HIDE DEF Size
  <1>3. SUFFICES ASSUME (SUBSET S) \ Agreed # {} PROVE FALSE
    OBVIOUS
  <1>4. PICK n \in Apart : \A k \in Apart : n <= k
    <2>1. Apart \in SUBSET Nat /\ Apart # {}
      BY <1>1, <1>3
    <2>2. QED
      BY <2>1, LeastNatural
  <1>5. PICK s \in (SUBSET S) \ Agreed : Size(s) = n
    BY <1>4
  <1>6. s # {}
    BY <1>5 DEF Sums
  <1> DEFINE t == s \ {Picked(s)}
  <1>7. t \in SUBSET S /\ Picked(s) \in S /\ Size(t) = Size(s) - 1 /\ Size(s) \in Nat
    BY <1>1, <1>2, <1>5, <1>6
  <1>8. g[t] = gg[t]
    <2>1. SUFFICES ASSUME t \notin Agreed PROVE FALSE
      BY <1>7
    <2>2. Size(t) \in Apart
      BY <1>7, <2>1
    <2>3. n <= Size(t)
      BY <1>4, <2>2
    <2>4. QED
      BY <1>5, <1>7, <2>3
  <1>9. g[s] = f[Picked(s)] + g[t] /\ gg[s] = ff[Picked(s)] + gg[t]
    BY <1>5, <1>6 DEF Sums
  <1>10. QED
    BY <1>5, <1>7, <1>8, <1>9 DEF AgreeOn

\* Finitely many naturals.
Summable(f, S) == IsFiniteSet(S) /\ \A x \in S : f[x] \in Nat

\* The sums over the subsets of a finite set.
SumsOf(f, U) == CHOOSE g : Sums(f, U, g)

\* The sum over a subset is the value of that function, whichever set it is part of.
LEMMA SumIsSums ==
    ASSUME NEW U, NEW f, Summable(f, U)
    PROVE  /\ SumsOf(f, U) \in [SUBSET U -> Nat]
           /\ Sums(f, U, SumsOf(f, U))
           /\ \A S \in SUBSET U : SumFunctionOnSet(f, S) = SumsOf(f, U)[S]
  <1>1. ASSUME NEW S, NEW h, Summable(h, S) PROVE Sums(h, S, SumsOf(h, S))
    <2>1. \E g : Sums(h, S, g)
      BY <1>1, SumsExist DEF Summable
    <2>2. QED
      BY <2>1 DEF SumsOf
  <1>2. \A S \in SUBSET U : IsFiniteSet(U) /\ Summable(f, S)
    BY FS_Subset DEF Summable
  <1>3. PICK g \in [SUBSET U -> Nat] : Sums(f, U, g)
    BY SumsExist DEF Summable
  <1>4. \A S \in SUBSET U : SumsOf(f, U)[S] = g[S]
    <2>1. U \in SUBSET U /\ AgreeOn(f, f, U)
      BY DEF AgreeOn
    <2>2. QED
      BY <1>1, <1>2, <1>3, <2>1, SumsAgree
  <1>5. SumsOf(f, U) \in [SUBSET U -> Nat]
    BY <1>1, <1>2, <1>3, <1>4 DEF Sums
  <1>6. ASSUME NEW S \in SUBSET U PROVE SumFunctionOnSet(f, S) = SumsOf(f, U)[S]
    <2>1. SumFunctionOnSet(f, S) = SumsOf(f, S)[S]
      BY SumUnfolds DEF SumsOf
    <2>2. S \in SUBSET S /\ AgreeOn(f, f, S)
      BY DEF AgreeOn
    <2>3. \A s \in SUBSET S : SumsOf(f, U)[s] = SumsOf(f, S)[s]
      BY <1>1, <1>2, <2>2, SumsAgree
    <2>4. QED
      BY <2>1, <2>2, <2>3
  <1>7. QED
    BY <1>1, <1>5, <1>6

-----------------------------------------------------------------------------
(* Sums over a set.                                                        *)

\* A sum is a natural.
LEMMA SumType ==
    ASSUME NEW S, NEW f, Summable(f, S)
    PROVE  SumFunctionOnSet(f, S) \in Nat
  <1>1. S \in SUBSET S
    OBVIOUS
  <1>2. SumFunctionOnSet(f, S) = SumsOf(f, S)[S] /\ SumsOf(f, S)[S] \in Nat
    BY <1>1, SumIsSums
  <1>3. QED
    BY <1>2

\* Nothing sums to nothing.
LEMMA SumEmpty == ASSUME NEW f PROVE SumFunctionOnSet(f, {}) = 0
  <1>1. Summable(f, {})
    BY FS_EmptySet DEF Summable
  <1>2. {} \in SUBSET {}
    OBVIOUS
  <1>3. SumFunctionOnSet(f, {}) = SumsOf(f, {})[{}] /\ Sums(f, {}, SumsOf(f, {}))
    BY <1>1, <1>2, SumIsSums
  <1>4. QED
    BY <1>2, <1>3 DEF Sums

\* The element the fold takes first comes out of the sum.
LEMMA SumPicked ==
    ASSUME NEW S, NEW f, Summable(f, S), S # {}
    PROVE  SumFunctionOnSet(f, S) = f[Picked(S)] + SumFunctionOnSet(f, S \ {Picked(S)})
  <1> DEFINE g == SumsOf(f, S)
  <1>1. g[S] = f[Picked(S)] + g[S \ {Picked(S)}]
    BY SumIsSums DEF Sums
  <1>2. S \in SUBSET S /\ S \ {Picked(S)} \in SUBSET S
    OBVIOUS
  <1>3. SumFunctionOnSet(f, S) = g[S] /\ SumFunctionOnSet(f, S \ {Picked(S)}) = g[S \ {Picked(S)}]
    BY <1>2, SumIsSums
  <1>4. QED
    BY <1>1, <1>3

\* Any element can be taken out first.
LEMMA SumRemove ==
    ASSUME NEW S, NEW f, Summable(f, S), NEW x \in S
    PROVE  SumFunctionOnSet(f, S) = f[x] + SumFunctionOnSet(f, S \ {x})
  <1> DEFINE Size(s) == Cardinality(s)
  <1> DEFINE Sum(s) == SumFunctionOnSet(f, s)
  <1> DEFINE Fine == {s \in SUBSET S : \A y \in s : Sum(s) = f[y] + Sum(s \ {y})}
  <1> DEFINE Wrong == {Size(s) : s \in (SUBSET S) \ Fine}
  <1>1. \A s \in SUBSET S : IsFiniteSet(s) /\ Size(s) \in Nat /\ Sum(s) \in Nat
    <2>1. ASSUME NEW s \in SUBSET S PROVE Summable(f, s)
      BY FS_Subset DEF Summable
    <2>2. QED
      BY <2>1, FS_CardinalityType, SumType DEF Summable
  <1>2. \A s \in SUBSET S : \A y \in s : s \ {y} \in SUBSET S /\ Size(s \ {y}) = Size(s) - 1
    BY <1>1, FS_RemoveElement
  <1>3. \A s \in SUBSET S : s # {} => Picked(s) \in s /\ Sum(s) = f[Picked(s)] + Sum(s \ {Picked(s)})
    <2>1. ASSUME NEW s \in SUBSET S PROVE Summable(f, s)
      BY FS_Subset DEF Summable
    <2>2. QED
      BY <2>1, PickedIn, SumPicked
  <1> HIDE DEF Size, Sum
  <1>4. SUFFICES ASSUME (SUBSET S) \ Fine # {} PROVE FALSE
    <2>1. S \in SUBSET S
      OBVIOUS
    <2>2. QED
      BY <2>1 DEF Sum
  <1>5. PICK n \in Wrong : \A k \in Wrong : n <= k
    <2>1. Wrong \in SUBSET Nat /\ Wrong # {}
      BY <1>1, <1>4
    <2>2. QED
      BY <2>1, LeastNatural
  <1>6. PICK s \in (SUBSET S) \ Fine : Size(s) = n
    BY <1>5
  <1>7. PICK y \in s : Sum(s) # f[y] + Sum(s \ {y})
    BY <1>6
  <1> DEFINE p == Picked(s)
  <1>8. p \in s /\ p # y /\ Sum(s) = f[p] + Sum(s \ {p})
    BY <1>3, <1>6, <1>7
  <1>9. ASSUME NEW z \in s PROVE s \ {z} \in Fine
    <2>1. s \ {z} \in SUBSET S /\ Size(s \ {z}) = Size(s) - 1 /\ Size(s) \in Nat
      BY <1>1, <1>2, <1>6, <1>9
    <2>2. SUFFICES ASSUME s \ {z} \notin Fine PROVE FALSE
      OBVIOUS
    <2>3. Size(s \ {z}) \in Wrong
      BY <2>1, <2>2
    <2>4. n <= Size(s \ {z})
      BY <1>5, <2>3
    <2>5. QED
      BY <1>6, <2>1, <2>4
  <1> HIDE DEF p
  <1>10. Sum(s \ {p}) = f[y] + Sum((s \ {p}) \ {y})
    BY <1>7, <1>8, <1>9
  <1>11. Sum(s \ {y}) = f[p] + Sum((s \ {y}) \ {p})
    BY <1>7, <1>8, <1>9
  <1>12. (s \ {p}) \ {y} = (s \ {y}) \ {p}
    OBVIOUS
  <1>13. f[y] \in Nat /\ f[p] \in Nat /\ Sum((s \ {y}) \ {p}) \in Nat
    <2>1. (s \ {y}) \ {p} \in SUBSET S
      BY <1>6
    <2>2. QED
      BY <1>1, <1>6, <1>7, <1>8, <2>1 DEF Summable
  <1>14. Sum(s) = f[p] + (f[y] + Sum((s \ {y}) \ {p}))
    BY <1>8, <1>10, <1>12
  <1>15. Sum(s) # f[y] + (f[p] + Sum((s \ {y}) \ {p}))
    BY <1>7, <1>11
  <1>16. QED
    BY <1>13, <1>14, <1>15

\* One more element adds its value.
LEMMA SumAdd ==
    ASSUME NEW S, NEW f, NEW x, x \notin S, Summable(f, S \cup {x})
    PROVE  SumFunctionOnSet(f, S \cup {x}) = f[x] + SumFunctionOnSet(f, S)
  <1>1. (S \cup {x}) \ {x} = S /\ x \in S \cup {x}
    OBVIOUS
  <1>2. QED
    BY <1>1, SumRemove

\* A part of finitely many naturals is finitely many naturals.
LEMMA SummablePart ==
    ASSUME NEW S, NEW f, Summable(f, S), NEW T \in SUBSET S
    PROVE  Summable(f, T)
  BY FS_Subset DEF Summable

\* Functions that agree on a set have the same sum over it.
LEMMA SumCong ==
    ASSUME NEW S, NEW f, Summable(f, S), NEW g, AgreeOn(f, g, S)
    PROVE  Summable(g, S) /\ SumFunctionOnSet(f, S) = SumFunctionOnSet(g, S)
  <1>1. Summable(g, S)
    BY DEF Summable, AgreeOn
  <1>2. S \in SUBSET S
    OBVIOUS
  <1>3. Sums(f, S, SumsOf(f, S)) /\ Sums(g, S, SumsOf(g, S)) /\ IsFiniteSet(S)
    BY <1>1, SumIsSums DEF Summable
  <1>4. \A s \in SUBSET S : SumsOf(f, S)[s] = SumsOf(g, S)[s]
    BY <1>2, <1>3, SumsAgree
  <1>5. /\ SumFunctionOnSet(f, S) = SumsOf(f, S)[S]
        /\ SumFunctionOnSet(g, S) = SumsOf(g, S)[S]
    BY <1>1, <1>2, SumIsSums
  <1>6. QED
    BY <1>1, <1>2, <1>4, <1>5

\* A part sums to no more than the whole, and pointwise greater values to more.
LEMMA SumMonotone ==
    ASSUME NEW S, NEW f, Summable(f, S), NEW T \in SUBSET S, NEW g, Summable(g, T),
           AtMost(g, f, T)
    PROVE  SumFunctionOnSet(g, T) <= SumFunctionOnSet(f, S)
  <1> DEFINE Fine == {s \in SUBSET S : SumFunctionOnSet(g, s \cap T) <= SumFunctionOnSet(f, s)}
  <1>1. {} \in Fine
    <2>1. {} \cap T = {}
      OBVIOUS
    <2>2. QED
      BY <2>1, SumEmpty
  <1>2. ASSUME NEW s \in Fine, NEW x \in S \ s PROVE s \cup {x} \in Fine
    <2>1. Summable(f, s \cup {x}) /\ Summable(f, s) /\ Summable(g, s \cap T)
      BY SummablePart
    <2>2. SumFunctionOnSet(f, s \cup {x}) = f[x] + SumFunctionOnSet(f, s)
      BY <2>1, SumAdd
    <2>3. /\ SumFunctionOnSet(f, s) \in Nat /\ SumFunctionOnSet(g, s \cap T) \in Nat
          /\ SumFunctionOnSet(g, s \cap T) <= SumFunctionOnSet(f, s)
          /\ f[x] \in Nat
      BY <2>1, SumType DEF Summable
    <2>4. s \cup {x} \in SUBSET S
      OBVIOUS
    <2>5. CASE x \in T
      <3>1. (s \cup {x}) \cap T = (s \cap T) \cup {x} /\ x \notin s \cap T
        BY <2>5
      <3>2. Summable(g, (s \cap T) \cup {x})
        BY <2>5, SummablePart
      <3>3. SumFunctionOnSet(g, (s \cap T) \cup {x}) = g[x] + SumFunctionOnSet(g, s \cap T)
        BY <3>1, <3>2, SumAdd
      <3>4. g[x] \in Nat /\ g[x] <= f[x]
        BY <2>5 DEF Summable, AtMost
      <3>5. SumFunctionOnSet(g, (s \cap T) \cup {x}) <= SumFunctionOnSet(f, s \cup {x})
        BY <2>2, <2>3, <3>3, <3>4
      <3>6. QED
        BY <2>4, <3>1, <3>5
    <2>6. CASE x \notin T
      <3>1. (s \cup {x}) \cap T = s \cap T
        BY <2>6
      <3>2. SumFunctionOnSet(g, s \cap T) <= SumFunctionOnSet(f, s \cup {x})
        BY <2>2, <2>3
      <3>3. QED
        BY <2>4, <3>1, <3>2
    <2>7. QED
      BY <2>5, <2>6
  <1> HIDE DEF Fine
  <1>3. Fine = SUBSET S
    <2>1. Fine \in SUBSET (SUBSET S)
      BY DEF Fine
    <2>2. QED
      BY <1>1, <1>2, <2>1, FamilyInduction DEF Summable
  <1>4. S \in Fine /\ S \cap T = T
    BY <1>3
  <1>5. QED
    BY <1>4 DEF Fine

\* Two parts that do not meet sum to what they sum to together.
LEMMA SumUnion ==
    ASSUME NEW S, NEW T, NEW f, Summable(f, S \cup T), S \cap T = {}
    PROVE  SumFunctionOnSet(f, S \cup T) = SumFunctionOnSet(f, S) + SumFunctionOnSet(f, T)
  <1> DEFINE Fine == {s \in SUBSET S : SumFunctionOnSet(f, s \cup T) = SumFunctionOnSet(f, s) + SumFunctionOnSet(f, T)}
  <1>0. Summable(f, S) /\ Summable(f, T)
    BY SummablePart
  <1>1. {} \in Fine
    <2>1. {} \cup T = T /\ SumFunctionOnSet(f, T) \in Nat
      BY <1>0, SumType
    <2>2. QED
      BY <2>1, SumEmpty
  <1>2. ASSUME NEW s \in Fine, NEW x \in S \ s PROVE s \cup {x} \in Fine
    <2>1. /\ Summable(f, s \cup {x}) /\ Summable(f, s) /\ Summable(f, (s \cup T) \cup {x})
          /\ x \notin s \cup T /\ (s \cup {x}) \cup T = (s \cup T) \cup {x}
      BY SummablePart
    <2>2. /\ SumFunctionOnSet(f, s \cup {x}) = f[x] + SumFunctionOnSet(f, s)
          /\ SumFunctionOnSet(f, (s \cup T) \cup {x}) = f[x] + SumFunctionOnSet(f, s \cup T)
      BY <2>1, SumAdd
    <2>3. SumFunctionOnSet(f, s) \in Nat /\ SumFunctionOnSet(f, T) \in Nat /\ f[x] \in Nat
      BY <1>0, <2>1, SumType DEF Summable
    <2>4. SumFunctionOnSet(f, (s \cup T) \cup {x}) = SumFunctionOnSet(f, s \cup {x}) + SumFunctionOnSet(f, T)
      <3>1. SumFunctionOnSet(f, s \cup T) = SumFunctionOnSet(f, s) + SumFunctionOnSet(f, T)
        OBVIOUS
      <3>2. QED
        BY <2>2, <2>3, <3>1
    <2>5. s \cup {x} \in SUBSET S
      OBVIOUS
    <2>6. QED
      BY <2>1, <2>4, <2>5
  <1> HIDE DEF Fine
  <1>3. Fine = SUBSET S
    <2>1. Fine \in SUBSET (SUBSET S)
      BY DEF Fine
    <2>2. QED
      BY <1>0, <1>1, <1>2, <2>1, FamilyInduction DEF Summable
  <1>4. S \in Fine
    BY <1>3
  <1>5. QED
    BY <1>4 DEF Fine

\* Changing one value changes the sum by the difference.
LEMMA SumChange ==
    ASSUME NEW S, NEW f, Summable(f, S), NEW g, Summable(g, S), NEW x \in S,
           AgreeOn(f, g, S \ {x})
    PROVE  SumFunctionOnSet(g, S) + f[x] = SumFunctionOnSet(f, S) + g[x]
  <1>1. /\ SumFunctionOnSet(f, S) = f[x] + SumFunctionOnSet(f, S \ {x})
        /\ SumFunctionOnSet(g, S) = g[x] + SumFunctionOnSet(g, S \ {x})
    BY SumRemove
  <1>2. Summable(f, S \ {x}) /\ Summable(g, S \ {x})
    BY SummablePart
  <1>3. SumFunctionOnSet(f, S \ {x}) = SumFunctionOnSet(g, S \ {x})
    BY <1>2, SumCong
  <1>4. f[x] \in Nat /\ g[x] \in Nat /\ SumFunctionOnSet(f, S \ {x}) \in Nat
    BY <1>2, SumType DEF Summable
  <1>5. QED
    BY <1>1, <1>3, <1>4

\* b names every member of T by one member of S.
Renames(b, S, T) ==
    /\ \A x, y \in S : b[x] = b[y] => x = y
    /\ \A t \in T : \E x \in S : b[x] = t

\* Renaming what is summed changes nothing.
LEMMA SumRename ==
    ASSUME NEW S, NEW f, Summable(f, S), NEW T, NEW g, NEW b \in [S -> T], Renames(b, S, T),
           \A x \in S : g[b[x]] = f[x]
    PROVE  Summable(g, T) /\ SumFunctionOnSet(g, T) = SumFunctionOnSet(f, S)
  <1> USE DEF Renames
  <1> DEFINE Img(s) == {b[x] : x \in s}
  <1> DEFINE Fine == {s \in SUBSET S : Summable(g, Img(s)) /\ SumFunctionOnSet(g, Img(s)) = SumFunctionOnSet(f, s)}
  <1>1. {} \in Fine
    <2>1. Img({}) = {}
      OBVIOUS
    <2>2. Summable(g, {})
      BY FS_EmptySet DEF Summable
    <2> HIDE DEF Img
    <2>3. QED
      BY <2>1, <2>2, SumEmpty
  <1>2. ASSUME NEW s \in Fine, NEW x \in S \ s PROVE s \cup {x} \in Fine
    <2>1. Img(s \cup {x}) = Img(s) \cup {b[x]} /\ b[x] \notin Img(s)
      OBVIOUS
    <2>2. Summable(f, s \cup {x})
      BY SummablePart
    <2>3. SumFunctionOnSet(f, s \cup {x}) = f[x] + SumFunctionOnSet(f, s)
      BY <2>2, SumAdd
    <2> HIDE DEF Img
    <2>4. Summable(g, Img(s) \cup {b[x]})
      <3>1. Summable(g, Img(s)) /\ g[b[x]] \in Nat
        BY DEF Summable
      <3>2. QED
        BY <3>1, FS_AddElement DEF Summable
    <2>5. SumFunctionOnSet(g, Img(s) \cup {b[x]}) = g[b[x]] + SumFunctionOnSet(g, Img(s))
      BY <2>1, <2>4, SumAdd
    <2>6. QED
      BY <2>1, <2>3, <2>4, <2>5
  <1> HIDE DEF Fine
  <1>3. Fine = SUBSET S
    <2>1. Fine \in SUBSET (SUBSET S)
      BY DEF Fine
    <2>2. QED
      BY <1>1, <1>2, <2>1, FamilyInduction DEF Summable
  <1>4. S \in Fine
    BY <1>3
  <1>5. Img(S) = T
    OBVIOUS
  <1>6. QED
    BY <1>4, <1>5 DEF Fine
\* What is nothing outside a part sums to what the part sums to.
LEMMA SumZeros ==
    ASSUME NEW S, NEW f, Summable(f, S), NEW T \in SUBSET S, \A x \in S \ T : f[x] = 0
    PROVE  SumFunctionOnSet(f, S) = SumFunctionOnSet(f, T)
  <1> DEFINE zero == [x \in S \ T |-> 0]
  <1>1. Summable(f, S \ T) /\ Summable(f, T)
    BY SummablePart
  <1>2. Summable(zero, {}) /\ AgreeOn(f, zero, S \ T)
    BY FS_EmptySet DEF Summable, AgreeOn
  <1> DEFINE Fine == {s \in SUBSET (S \ T) : SumFunctionOnSet(f, s) = 0}
  <1>3. {} \in Fine
    BY SumEmpty
  <1>4. ASSUME NEW s \in Fine, NEW x \in (S \ T) \ s PROVE s \cup {x} \in Fine
    <2>1. Summable(f, s \cup {x}) /\ x \notin s
      BY SummablePart
    <2>2. SumFunctionOnSet(f, s \cup {x}) = f[x] + SumFunctionOnSet(f, s)
      BY <2>1, SumAdd
    <2>3. QED
      BY <2>2
  <1> HIDE DEF Fine
  <1>5. Fine = SUBSET (S \ T)
    <2>1. Fine \in SUBSET (SUBSET (S \ T))
      BY DEF Fine
    <2>2. QED
      BY <1>1, <1>3, <1>4, <2>1, FamilyInduction DEF Summable
  <1>6. SumFunctionOnSet(f, S \ T) = 0
    BY <1>5 DEF Fine
  <1>7. T \cup (S \ T) = S /\ T \cap (S \ T) = {}
    OBVIOUS
  <1>8. SumFunctionOnSet(f, S) = SumFunctionOnSet(f, T) + SumFunctionOnSet(f, S \ T)
    BY <1>7, SumUnion
  <1>9. QED
    BY <1>1, <1>6, <1>8, SumType

\* h is the sum of f and g, value by value.
PlusOn(h, f, g, S) == \A x \in S : h[x] = f[x] + g[x]

\* Values may be added before they are summed or after.
LEMMA SumPlus ==
    ASSUME NEW S, NEW f, Summable(f, S), NEW g, Summable(g, S), NEW h, PlusOn(h, f, g, S)
    PROVE  /\ Summable(h, S)
           /\ SumFunctionOnSet(h, S) = SumFunctionOnSet(f, S) + SumFunctionOnSet(g, S)
  <1> DEFINE Fine == {s \in SUBSET S :
                        SumFunctionOnSet(h, s) = SumFunctionOnSet(f, s) + SumFunctionOnSet(g, s)}
  <1>1. Summable(h, S)
    BY DEF Summable, PlusOn
  <1>2. {} \in Fine
    BY SumEmpty
  <1>3. ASSUME NEW s \in Fine, NEW x \in S \ s PROVE s \cup {x} \in Fine
    <2>1. /\ Summable(f, s \cup {x}) /\ Summable(g, s \cup {x}) /\ Summable(h, s \cup {x})
          /\ Summable(f, s) /\ Summable(g, s) /\ x \notin s
      BY <1>1, SummablePart
    <2>2. /\ SumFunctionOnSet(f, s \cup {x}) = f[x] + SumFunctionOnSet(f, s)
          /\ SumFunctionOnSet(g, s \cup {x}) = g[x] + SumFunctionOnSet(g, s)
          /\ SumFunctionOnSet(h, s \cup {x}) = h[x] + SumFunctionOnSet(h, s)
      BY <2>1, SumAdd
    <2>3. /\ SumFunctionOnSet(f, s) \in Nat /\ SumFunctionOnSet(g, s) \in Nat
          /\ f[x] \in Nat /\ g[x] \in Nat /\ h[x] = f[x] + g[x]
      BY <2>1, SumType DEF Summable, PlusOn
    <2>4. SumFunctionOnSet(h, s) = SumFunctionOnSet(f, s) + SumFunctionOnSet(g, s)
      OBVIOUS
    <2>5. SumFunctionOnSet(h, s \cup {x}) = SumFunctionOnSet(f, s \cup {x}) + SumFunctionOnSet(g, s \cup {x})
      BY <2>2, <2>3, <2>4
    <2>6. QED
      BY <2>5
  <1> HIDE DEF Fine
  <1>4. Fine = SUBSET S
    <2>1. Fine \in SUBSET (SUBSET S)
      BY DEF Fine
    <2>2. QED
      BY <1>2, <1>3, <2>1, FamilyInduction DEF Summable
  <1>5. S \in Fine
    BY <1>4
  <1>6. QED
    BY <1>1, <1>5 DEF Fine

\* g gives each kind the sum of f over the members of S that are of it.
ByKind(g, f, S, k, M) == \A m \in M : g[m] = SumFunctionOnSet(f, {x \in S : k[x] = m})

\* Values may be summed kind by kind.
LEMMA SumByKind ==
    ASSUME NEW S, NEW f, Summable(f, S), NEW M, IsFiniteSet(M), NEW k, \A x \in S : k[x] \in M,
           NEW g, ByKind(g, f, S, k, M)
    PROVE  Summable(g, M) /\ SumFunctionOnSet(g, M) = SumFunctionOnSet(f, S)
  <1> DEFINE Of(s) == {x \in S : k[x] \in s}
  <1> DEFINE Fine == {s \in SUBSET M : SumFunctionOnSet(g, s) = SumFunctionOnSet(f, Of(s))}
  <1>1. Summable(g, M)
    <2>1. ASSUME NEW m \in M PROVE g[m] \in Nat
      <3>1. Summable(f, {x \in S : k[x] = m})
        BY SummablePart
      <3>2. QED
        BY <3>1, SumType DEF ByKind
    <2>2. QED
      BY <2>1 DEF Summable
  <1>2. {} \in Fine
    <2>1. Of({}) = {}
      OBVIOUS
    <2> HIDE DEF Of
    <2>2. QED
      BY <2>1, SumEmpty
  <1>3. ASSUME NEW s \in Fine, NEW m \in M \ s PROVE s \cup {m} \in Fine
    <2> DEFINE new == {x \in S : k[x] = m}
    <2>1. Of(s \cup {m}) = new \cup Of(s) /\ new \cap Of(s) = {} /\ new \cup Of(s) \in SUBSET S
      OBVIOUS
    <2>2. g[m] = SumFunctionOnSet(f, new)
      BY DEF ByKind
    <2>3. Summable(g, s \cup {m}) /\ m \notin s
      BY <1>1, SummablePart
    <2>4. SumFunctionOnSet(g, s \cup {m}) = g[m] + SumFunctionOnSet(g, s)
      BY <2>3, SumAdd
    <2>5. SumFunctionOnSet(g, s) = SumFunctionOnSet(f, Of(s))
      OBVIOUS
    <2>6. Summable(f, new \cup Of(s))
      BY <2>1, SummablePart
    <2> HIDE DEF Of, new
    <2>7. SumFunctionOnSet(f, new \cup Of(s)) = SumFunctionOnSet(f, new) + SumFunctionOnSet(f, Of(s))
      BY <2>1, <2>6, SumUnion
    <2>8. QED
      BY <2>1, <2>2, <2>4, <2>5, <2>7
  <1> HIDE DEF Fine
  <1>4. Fine = SUBSET M
    <2>1. Fine \in SUBSET (SUBSET M)
      BY DEF Fine
    <2>2. QED
      BY <1>2, <1>3, <2>1, FamilyInduction
  <1>5. M \in Fine /\ Of(M) = S
    BY <1>4
  <1>6. QED
    BY <1>1, <1>5 DEF Fine
=============================================================================
