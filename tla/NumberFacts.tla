---------------------------- MODULE NumberFacts ----------------------------
(* Facts that several components rely on: sets of naturals and of finite    *)
(* sets have least members, which is how anything is proved here of walks   *)
(* over ordered containers, of repeated calls and of sums; and sums of the  *)
(* values of a function, which say that items are neither lost nor made.    *)
EXTENDS Integers, Functions, FiniteSetTheorems, WellFoundedInduction, TLAPS

(* A set of naturals has a least element: the intervals from 0 to its members
   are finite sets, which strict inclusion orders well.                     *)
LEMMA LeastNatural ==
    ASSUME NEW S \in SUBSET Nat, S # {}
    PROVE  \E m \in S : \A n \in S : m <= n
  <1> DEFINE T == {0 .. n : n \in S}
  <1>1. T \subseteq FiniteSubsetsOf(Nat) /\ T # {}
    <2>1. \A n \in S : 0 .. n \in SUBSET Nat
      OBVIOUS
    <2>2. \A n \in S : IsFiniteSet(0 .. n)
      BY FS_Interval
    <2>3. QED
      BY <2>1, <2>2 DEF FiniteSubsetsOf
  <1>2. IsWellFoundedOn(StrictSubsetOrdering(Nat), FiniteSubsetsOf(Nat))
    BY FS_StrictSubsetOrderingWellFounded
  <1>3. PICK x \in T : \A y \in T : <<y, x>> \notin StrictSubsetOrdering(Nat)
    <2> HIDE DEF T
    <2>1. QED
      BY <1>1, <1>2, WFMin
  <1>4. PICK m \in S : x = 0 .. m
    OBVIOUS
  <1>5. ASSUME NEW n \in S, n < m PROVE FALSE
    <2>1. 0 .. n \in T /\ 0 .. n \subseteq 0 .. m /\ 0 .. n # 0 .. m
      BY <1>5
    <2>2. 0 .. n \in SUBSET Nat /\ 0 .. m \in SUBSET Nat
      OBVIOUS
    <2>3. <<0 .. n, x>> \in StrictSubsetOrdering(Nat)
      BY <1>4, <2>1, <2>2 DEF StrictSubsetOrdering
    <2>4. QED
      BY <1>3, <2>1, <2>3
  <1>6. QED
    BY <1>5

(* A set of subsets of a finite set has a member that includes no other.    *)
LEMMA LeastSubset ==
    ASSUME NEW S, IsFiniteSet(S), NEW T \in SUBSET SUBSET S, T # {}
    PROVE  \E s \in T : \A t \in T : t \subseteq s => t = s
  <1>1. T \subseteq FiniteSubsetsOf(S)
    BY FS_Subset DEF FiniteSubsetsOf
  <1>2. IsWellFoundedOn(StrictSubsetOrdering(S), FiniteSubsetsOf(S))
    BY FS_StrictSubsetOrderingWellFounded
  <1>3. PICK s \in T : \A t \in T : <<t, s>> \notin StrictSubsetOrdering(S)
    BY <1>1, <1>2, WFMin
  <1>4. QED
    BY <1>3 DEF StrictSubsetOrdering

(* What SumFunction does with a set s of arguments, having done it with what
   is left of s: it takes them one by one.                                  *)
SumStep(f, s, g) ==
    IF s = {} THEN 0
    ELSE LET x == CHOOSE y \in s : TRUE IN f[x] + g[s \ {x}]

Sums(f, S, g) == g = [s \in SUBSET S |-> SumStep(f, s, g)]

(* SumFunction by its definition.                                           *)
LEMMA SumUnfold ==
    ASSUME NEW f
    PROVE  SumFunction(f) = (CHOOSE g : Sums(f, DOMAIN f, g))[DOMAIN f]
  BY DEF SumFunction, SumFunctionOnSet, FoldFunctionOnSet, MapThenFoldSet, Sums, SumStep

-----------------------------------------------------------------------------
(* The sums exist: for sets of one more argument they are made from those   *)
(* that are there.                                                          *)
Small(S, n) == {t \in SUBSET S : Cardinality(t) <= n}

(* There are sums over all subsets of a finite set.                         *)
LEMMA SumsExist ==
    ASSUME NEW S, IsFiniteSet(S), NEW f
    PROVE  \E g : Sums(f, S, g)
  <1> DEFINE Bad == {n \in Nat : ~ \E g : g = [s \in Small(S, n) |-> SumStep(f, s, g)]}
  <1>1. \A s \in SUBSET S : IsFiniteSet(s) /\ Cardinality(s) \in Nat
                            /\ Cardinality(s) <= Cardinality(S)
    BY FS_Subset, FS_CardinalityType
  <1>2. \A s \in SUBSET S : s # {} =>
            LET x == CHOOSE y \in s : TRUE
            IN  s \ {x} \in SUBSET S /\ Cardinality(s \ {x}) = Cardinality(s) - 1
    BY <1>1, FS_RemoveElement
  <1>3. Bad = {}
    <2> SUFFICES ASSUME Bad # {} PROVE FALSE
      OBVIOUS
    <2>1. PICK m \in Bad : \A n \in Bad : m <= n
      BY LeastNatural
    <2>2. m # 0
      <3> DEFINE g == [s \in Small(S, 0) |-> 0]
      <3>1. ASSUME NEW s \in Small(S, 0) PROVE SumStep(f, s, g) = 0
        <4>1. s = {}
          BY <1>1, FS_EmptySet DEF Small
        <4>2. QED
          BY <4>1 DEF SumStep
      <3>2. g = [s \in Small(S, 0) |-> SumStep(f, s, g)]
        BY <3>1
      <3>3. QED
        BY <3>2
    <2>3. PICK g : g = [s \in Small(S, m - 1) |-> SumStep(f, s, g)]
      BY <2>1, <2>2
    <2> DEFINE h == [s \in Small(S, m) |-> SumStep(f, s, g)]
    <2>4. ASSUME NEW s \in Small(S, m - 1) PROVE h[s] = g[s]
      BY <2>3, <1>1, <2>1 DEF Small
    <2>5. ASSUME NEW s \in Small(S, m) PROVE SumStep(f, s, g) = SumStep(f, s, h)
      <3>1. CASE s = {}
        BY <3>1 DEF SumStep
      <3>2. CASE s # {}
        <4> DEFINE x == CHOOSE y \in s : TRUE
        <4>1. s \ {x} \in Small(S, m - 1)
          BY <1>1, <1>2, <3>2, <2>1 DEF Small
        <4>2. QED
          BY <4>1, <2>4, <3>2 DEF SumStep
      <3>3. QED
        BY <3>1, <3>2
    <2>6. h = [s \in Small(S, m) |-> SumStep(f, s, h)]
      BY <2>5
    <2>7. QED
      BY <2>6, <2>1
  <1>4. Cardinality(S) \in Nat /\ Small(S, Cardinality(S)) = SUBSET S
    BY <1>1 DEF Small
  <1>5. QED
    BY <1>3, <1>4, ZenonT(60) DEF Sums

(* A sum is one of them.                                                    *)
LEMMA SumEquation ==
    ASSUME NEW f, IsFiniteSet(DOMAIN f)
    PROVE  \E g : Sums(f, DOMAIN f, g) /\ SumFunction(f) = g[DOMAIN f]
  <1>1. PICK g : Sums(f, DOMAIN f, g)
    BY SumsExist
  <1>2. Sums(f, DOMAIN f, CHOOSE h : Sums(f, DOMAIN f, h))
    BY <1>1
  <1>3. QED
    BY <1>2, SumUnfold

(* A sum of integers is one.                                                *)
LEMMA SumIsInt ==
    ASSUME NEW S, IsFiniteSet(S), NEW f \in [S -> Int]
    PROVE  SumFunction(f) \in Int
  <1>1. PICK g : Sums(f, S, g) /\ SumFunction(f) = g[S]
    BY SumEquation
  <1> DEFINE T == {s \in SUBSET S : g[s] \notin Int}
  <1>2. ASSUME T # {} PROVE FALSE
    <2>1. PICK s \in T : \A t \in T : t \subseteq s => t = s
      <3>1. T \in SUBSET SUBSET S
        OBVIOUS
      <3> HIDE DEF T
      <3>2. QED
        BY <3>1, <1>2, LeastSubset
    <2>2. g[s] = SumStep(f, s, g)
      BY <1>1 DEF Sums
    <2>3. s # {}
      BY <2>2 DEF SumStep
    <2>4. PICK x \in s : g[s] = f[x] + g[s \ {x}]
      BY <2>2, <2>3 DEF SumStep
    <2>5. g[s \ {x}] \in Int
      BY <2>1
    <2>6. QED
      BY <2>4, <2>5
  <1>3. QED
    BY <1>1, <1>2

(* A sum changes by as much as the one summand that changes.                *)
LEMMA SumChanges ==
    ASSUME NEW S, IsFiniteSet(S), NEW f \in [S -> Int], NEW x \in S,
           NEW v \in Int
    PROVE  SumFunction([f EXCEPT ![x] = v]) = SumFunction(f) - f[x] + v
  <1> DEFINE e == [f EXCEPT ![x] = v]
             d(s) == IF x \in s THEN v - f[x] ELSE 0
  <1>0. e \in [S -> Int] /\ \A y \in S : e[y] = IF y = x THEN v ELSE f[y]
    OBVIOUS
  <1> HIDE DEF e
  <1>1. PICK g : Sums(f, S, g) /\ SumFunction(f) = g[S]
    BY SumEquation
  <1>2. PICK h : Sums(e, S, h) /\ SumFunction(e) = h[S]
    BY SumEquation, <1>0
  <1> DEFINE T == {s \in SUBSET S : ~(g[s] \in Int /\ h[s] = g[s] + d(s))}
  <1>3. ASSUME T # {} PROVE FALSE
    <2>1. PICK s \in T : \A t \in T : t \subseteq s => t = s
      <3>1. T \in SUBSET SUBSET S
        OBVIOUS
      <3> HIDE DEF T
      <3>2. QED
        BY <3>1, <1>3, LeastSubset
    <2>2. g[s] = SumStep(f, s, g) /\ h[s] = SumStep(e, s, h)
      BY <1>1, <1>2 DEF Sums
    <2>3. s # {}
      BY <2>2 DEF SumStep
    <2>4. PICK y \in s : /\ g[s] = f[y] + g[s \ {y}]
                         /\ h[s] = e[y] + h[s \ {y}]
      BY <2>2, <2>3 DEF SumStep
    <2>5. g[s \ {y}] \in Int /\ h[s \ {y}] = g[s \ {y}] + d(s \ {y})
      BY <2>1
    <2>6. CASE y = x
      <3>1. e[y] = v /\ d(s \ {y}) = 0 /\ d(s) = v - f[x]
        BY <2>6, <1>0
      <3>2. QED
        BY <2>4, <2>5, <3>1, <2>6
    <2>7. CASE y # x
      <3>1. e[y] = f[y] /\ d(s \ {y}) = d(s) /\ d(s) \in Int /\ f[y] \in Int
        BY <2>7, <1>0
      <3> HIDE DEF d
      <3>2. QED
        BY <2>1, <2>4, <2>5, <3>1
    <2>8. QED
      BY <2>6, <2>7
  <1>4. SumFunction(e) = h[S] /\ h[S] = g[S] + (v - f[x]) /\ g[S] \in Int
    BY <1>2, <1>3
  <1>5. QED
    BY <1>1, <1>4 DEF e

(* Sums of no values and of one.                                            *)
LEMMA SumOfNone == ASSUME NEW f, DOMAIN f = {} PROVE SumFunction(f) = 0
  <1>1. IsFiniteSet(DOMAIN f)
    BY FS_EmptySet
  <1>2. PICK g : Sums(f, DOMAIN f, g) /\ SumFunction(f) = g[DOMAIN f]
    BY <1>1, SumEquation
  <1>3. QED
    BY <1>2 DEF Sums, SumStep

(* The sum of one value is that value.                                    *)
LEMMA SumOfOne ==
    ASSUME NEW f, NEW x, DOMAIN f = {x}, f[x] \in Int
    PROVE  SumFunction(f) = f[x]
  <1>1. IsFiniteSet(DOMAIN f)
    BY FS_Singleton
  <1>2. PICK g : Sums(f, DOMAIN f, g) /\ SumFunction(f) = g[DOMAIN f]
    BY <1>1, SumEquation
  <1>3. g[{}] = 0
    BY <1>2 DEF Sums, SumStep
  <1>4. g[{x}] = SumStep(f, {x}, g)
    BY <1>2 DEF Sums
  <1>5. (CHOOSE y \in {x} : TRUE) = x
    OBVIOUS
  <1>6. SumStep(f, {x}, g) = f[x] + g[{}]
    BY <1>5 DEF SumStep
  <1>7. QED
    BY <1>2, <1>3, <1>4, <1>6

(* The values of f at the arguments in D, and none elsewhere.               *)
Part(f, D) == [x \in DOMAIN f |-> IF x \in D THEN f[x] ELSE 0]

(* A sum grows with the part it is of, from nothing to all of it.           *)
LEMMA SumOfPart ==
    ASSUME NEW S, IsFiniteSet(S), NEW f \in [S -> Int]
    PROVE  /\ Part(f, S) = f
           /\ SumFunction(Part(f, {})) = 0
           /\ \A D \in SUBSET S : \A x \in D :
                  SumFunction(Part(f, D)) = SumFunction(Part(f, D \ {x})) + f[x]
           /\ \A D \in SUBSET S : SumFunction(Part(f, D)) \in Int
  <1>1. ASSUME NEW D \in SUBSET S
        PROVE  Part(f, D) \in [S -> Int] /\ SumFunction(Part(f, D)) \in Int
    <2>1. Part(f, D) \in [S -> Int]
      BY DEF Part
    <2>2. QED
      BY <2>1, SumIsInt
  <1>2. Part(f, S) = f
    BY DEF Part
  <1>3. ASSUME NEW D \in SUBSET S, NEW x \in D
        PROVE  SumFunction(Part(f, D)) = SumFunction(Part(f, D \ {x})) + f[x]
    <2> DEFINE e == Part(f, D \ {x})
    <2>1. e \in [S -> Int] /\ e[x] = 0 /\ f[x] \in Int /\ SumFunction(e) \in Int
      BY <1>1 DEF Part
    <2>2. Part(f, D) = [e EXCEPT ![x] = f[x]]
      BY DEF Part
    <2> HIDE DEF e
    <2>3. SumFunction([e EXCEPT ![x] = f[x]]) = SumFunction(e) - e[x] + f[x]
      BY <2>1, SumChanges
    <2>4. SumFunction(Part(f, D)) = SumFunction(e) + f[x]
      BY <2>1, <2>2, <2>3
    <2>5. QED
      BY <2>4 DEF e
  <1>4. SumFunction(Part(f, {})) = 0
    <2> DEFINE e == Part(f, {})
    <2>1. e \in [S -> Int] /\ \A x \in S : e[x] = 0
      BY DEF Part
    <2> HIDE DEF e
    <2>2. PICK g : Sums(e, S, g) /\ SumFunction(e) = g[S]
      BY <2>1, SumEquation
    <2> DEFINE T == {s \in SUBSET S : g[s] # 0}
    <2>3. ASSUME T # {} PROVE FALSE
      <3>1. PICK s \in T : \A t \in T : t \subseteq s => t = s
        <4>1. T \in SUBSET SUBSET S
          OBVIOUS
        <4> HIDE DEF T
        <4>2. QED
          BY <4>1, <2>3, LeastSubset
      <3>2. g[s] = SumStep(e, s, g)
        BY <2>2 DEF Sums
      <3>3. s # {}
        BY <3>2 DEF SumStep
      <3>4. PICK x \in s : g[s] = e[x] + g[s \ {x}]
        BY <3>2, <3>3 DEF SumStep
      <3>5. g[s \ {x}] = 0
        BY <3>1
      <3>6. QED
        BY <2>1, <3>4, <3>5
    <2>4. QED
      BY <2>2, <2>3 DEF e
  <1>5. QED
    BY <1>1, <1>2, <1>3, <1>4

(* A sum of naturals is not negative.                                       *)
LEMMA SumOfNaturals ==
    ASSUME NEW S, IsFiniteSet(S), NEW f \in [S -> Int], \A x \in S : f[x] >= 0
    PROVE  SumFunction(f) >= 0
  <1> DEFINE T == {D \in SUBSET S : ~ SumFunction(Part(f, D)) >= 0}
  <1>1. ASSUME T # {} PROVE FALSE
    <2>1. PICK D \in T : \A t \in T : t \subseteq D => t = D
      <3>1. T \in SUBSET SUBSET S
        OBVIOUS
      <3> HIDE DEF T
      <3>2. QED
        BY <3>1, <1>1, LeastSubset
    <2>2. {} \notin T
      BY SumOfPart
    <2>3. PICK x \in D : TRUE
      <3> HIDE DEF T
      <3>1. QED
        BY <2>1, <2>2
    <2>4. /\ SumFunction(Part(f, D)) = SumFunction(Part(f, D \ {x})) + f[x]
          /\ SumFunction(Part(f, D \ {x})) \in Int /\ f[x] \in Int /\ f[x] >= 0
      BY SumOfPart
    <2>5. D \ {x} \notin T /\ D \ {x} \in SUBSET S
      BY <2>1
    <2>6. SumFunction(Part(f, D \ {x})) >= 0
      BY <2>5
    <2>7. SumFunction(Part(f, D)) >= 0
      BY <2>4, <2>6
    <2>8. QED
      BY <2>1, <2>7
  <1>2. S \notin T
    BY <1>1
  <1>3. QED
    BY <1>2, SumOfPart

(* The sum of sums.                                                         *)
LEMMA SumAdds ==
    ASSUME NEW S, IsFiniteSet(S), NEW f \in [S -> Int], NEW g \in [S -> Int]
    PROVE  SumFunction([x \in S |-> f[x] + g[x]]) = SumFunction(f) + SumFunction(g)
  <1> DEFINE h == [x \in S |-> f[x] + g[x]]
             T == {D \in SUBSET S : SumFunction(Part(h, D))
                       # SumFunction(Part(f, D)) + SumFunction(Part(g, D))}
  <1>1. h \in [S -> Int] /\ \A x \in S : h[x] = f[x] + g[x]
    OBVIOUS
  <1> HIDE DEF h
  <1>2. ASSUME T # {} PROVE FALSE
    <2>1. PICK D \in T : \A t \in T : t \subseteq D => t = D
      <3>1. T \in SUBSET SUBSET S
        OBVIOUS
      <3> HIDE DEF T
      <3>2. QED
        BY <3>1, <1>2, LeastSubset
    <2>2. D # {}
      <3>1. /\ SumFunction(Part(h, {})) = 0 /\ SumFunction(Part(f, {})) = 0
            /\ SumFunction(Part(g, {})) = 0
        BY <1>1, SumOfPart
      <3>2. {} \notin T
        BY <3>1
      <3> HIDE DEF T
      <3>3. QED
        BY <2>1, <3>2
    <2>3. PICK x \in D : TRUE
      BY <2>2
    <2>4. /\ SumFunction(Part(h, D)) = SumFunction(Part(h, D \ {x})) + h[x]
          /\ SumFunction(Part(f, D)) = SumFunction(Part(f, D \ {x})) + f[x]
          /\ SumFunction(Part(g, D)) = SumFunction(Part(g, D \ {x})) + g[x]
      BY <1>1, SumOfPart
    <2>5. /\ SumFunction(Part(f, D \ {x})) \in Int
          /\ SumFunction(Part(g, D \ {x})) \in Int
      BY SumOfPart
    <2>6. SumFunction(Part(h, D \ {x}))
             = SumFunction(Part(f, D \ {x})) + SumFunction(Part(g, D \ {x}))
      BY <2>1
    <2>7. h[x] = f[x] + g[x] /\ f[x] \in Int /\ g[x] \in Int
      BY <1>1
    <2>8. SumFunction(Part(h, D)) = SumFunction(Part(f, D)) + SumFunction(Part(g, D))
      BY <2>4, <2>5, <2>6, <2>7
    <2>9. QED
      BY <2>1, <2>8
  <1>3. S \notin T
    BY <1>2
  <1>4. SumFunction(Part(h, S)) = SumFunction(Part(f, S)) + SumFunction(Part(g, S))
    BY <1>3
  <1>5. Part(h, S) = h /\ Part(f, S) = f /\ Part(g, S) = g
    BY <1>1, SumOfPart
  <1>6. QED
    BY <1>4, <1>5 DEF h

(* Smaller values have a smaller sum.                                       *)
LEMMA SumGrows ==
    ASSUME NEW S, IsFiniteSet(S), NEW f \in [S -> Int], NEW g \in [S -> Int],
           \A x \in S : g[x] <= f[x]
    PROVE  SumFunction(g) <= SumFunction(f)
  <1> DEFINE h == [x \in S |-> f[x] - g[x]]
  <1>1. h \in [S -> Int] /\ (\A x \in S : h[x] >= 0) /\ f = [x \in S |-> g[x] + h[x]]
    OBVIOUS
  <1> HIDE DEF h
  <1>2. SumFunction([x \in S |-> g[x] + h[x]]) = SumFunction(g) + SumFunction(h)
    BY <1>1, SumAdds
  <1>3. SumFunction(h) >= 0
    BY <1>1, SumOfNaturals
  <1>4. SumFunction(g) \in Int /\ SumFunction(h) \in Int
    BY <1>1, SumIsInt
  <1>5. QED
    BY <1>1, <1>2, <1>3, <1>4

(* A sum does not depend on where its values are.                           *)
LEMMA SumMoves ==
    ASSUME NEW S, IsFiniteSet(S), NEW J, IsFiniteSet(J), NEW f \in [S -> Int],
           NEW m \in [J -> S], \A i, j \in J : m[i] = m[j] => i = j
    PROVE  SumFunction([j \in J |-> f[m[j]]])
              = SumFunction(Part(f, {m[j] : j \in J}))
  <1> DEFINE h == [j \in J |-> f[m[j]]]
             Im(D) == {m[j] : j \in D}
             T == {D \in SUBSET J : SumFunction(Part(h, D))
                       # SumFunction(Part(f, Im(D)))}
  <1>1. h \in [J -> Int] /\ \A j \in J : h[j] = f[m[j]] /\ m[j] \in S
    OBVIOUS
  <1> HIDE DEF h
  <1>2. ASSUME T # {} PROVE FALSE
    <2>1. PICK D \in T : \A t \in T : t \subseteq D => t = D
      <3>1. T \in SUBSET SUBSET J
        OBVIOUS
      <3> HIDE DEF T
      <3>2. QED
        BY <3>1, <1>2, LeastSubset
    <2>2. D # {}
      <3>1. Im({}) = {}
        OBVIOUS
      <3>2. SumFunction(Part(h, {})) = 0 /\ SumFunction(Part(f, {})) = 0
        BY <1>1, SumOfPart
      <3>3. QED
        BY <2>1, <3>1, <3>2
    <2>3. PICK x \in D : TRUE
      BY <2>2
    <2>4. Im(D \ {x}) = Im(D) \ {m[x]} /\ m[x] \in Im(D) /\ Im(D) \in SUBSET S
      BY <1>1
    <2> DEFINE A == Im(D)
    <2>5. A \in SUBSET S /\ m[x] \in A
      BY <2>4
    <2>6. Im(D \ {x}) = A \ {m[x]}
      BY <2>4
    <2> HIDE DEF A
    <2>7. SumFunction(Part(h, D)) = SumFunction(Part(h, D \ {x})) + h[x]
      BY <1>1, SumOfPart
    <2>8. SumFunction(Part(f, A)) = SumFunction(Part(f, A \ {m[x]})) + f[m[x]]
      BY <2>5, SumOfPart
    <2>9. SumFunction(Part(h, D \ {x})) = SumFunction(Part(f, A \ {m[x]}))
      BY <2>1, <2>6
    <2>10. QED
      BY <1>1, <2>1, <2>7, <2>8, <2>9 DEF A
  <1>3. J \notin T
    BY <1>2
  <1>4. SumFunction(Part(h, J)) = SumFunction(Part(f, Im(J)))
    BY <1>3
  <1>5. Part(h, J) = h
    BY <1>1, SumOfPart
  <1>6. QED
    BY <1>4, <1>5 DEF h

\* What is counted by kind, and each kind by what it is worth.
ByKind(S, K, n, kind, w) ==
    [k \in K |-> SumFunction([i \in S |-> IF kind[i] = k THEN n[i] ELSE 0]) * w[k]]

(* It is what the same things are worth one by one.                        *)
LEMMA SumByKind ==
    ASSUME NEW S, IsFiniteSet(S), NEW K, IsFiniteSet(K), NEW n \in [S -> Int],
           NEW kind, NEW w \in [K -> Int], NEW v \in [S -> Int],
           \A i \in S : \/ kind[i] \in K /\ v[i] = n[i] * w[kind[i]]
                        \/ kind[i] \notin K /\ v[i] = 0
    PROVE  SumFunction(ByKind(S, K, n, kind, w)) = SumFunction(v)
  <1> DEFINE of(k) == [i \in S |-> IF kind[i] = k THEN n[i] ELSE 0]
             F(D) == [k \in K |-> SumFunction(Part(of(k), D)) * w[k]]
             T == {D \in SUBSET S : SumFunction(F(D)) # SumFunction(Part(v, D))}
  <1>0. \A f \in [K -> Int] : \A k \in K : \A i \in Int :
            SumFunction([f EXCEPT ![k] = i]) = SumFunction(f) - f[k] + i
    BY SumChanges
  <1>1. ASSUME NEW k PROVE of(k) \in [S -> Int]
    OBVIOUS
  <1>2. ASSUME NEW D \in SUBSET S PROVE F(D) \in [K -> Int] /\ SumFunction(F(D)) \in Int
    <2>1. ASSUME NEW k \in K PROVE SumFunction(Part(of(k), D)) * w[k] \in Int
      <3>1. SumFunction(Part(of(k), D)) \in Int
        <4>1. of(k) \in [S -> Int]
          BY <1>1
        <4> HIDE DEF of
        <4>2. QED
          BY <4>1, SumOfPart
      <3> HIDE DEF of
      <3>2. QED
        BY <3>1
    <2>2. F(D) \in [K -> Int]
      BY <2>1
    <2> HIDE DEF F
    <2>3. QED
      BY <2>2, SumIsInt
  <1>3. ASSUME T # {} PROVE FALSE
    <2>1. PICK D \in T : \A t \in T : t \subseteq D => t = D
      <3>1. T \in SUBSET SUBSET S
        OBVIOUS
      <3> HIDE DEF T
      <3>2. QED
        BY <3>1, <1>3, LeastSubset
    <2>2. D # {}
      <3>1. ASSUME NEW k \in K PROVE SumFunction(Part(of(k), {})) * w[k] = 0
        <4>1. of(k) \in [S -> Int]
          BY <1>1
        <4>2. SumFunction(Part(of(k), {})) = 0
          <5> HIDE DEF of
          <5>1. QED
            BY <4>1, SumOfPart
        <4> HIDE DEF of
        <4>3. QED
          BY <4>2
      <3> DEFINE zero == [k \in K |-> 0]
      <3>2. F({}) = Part(zero, {})
        BY <3>1 DEF Part
      <3>3. zero \in [K -> Int]
        OBVIOUS
      <3>4. SumFunction(Part(zero, {})) = 0
        <4> HIDE DEF zero
        <4>1. QED
          BY <3>3, SumOfPart
      <3>5. SumFunction(Part(v, {})) = 0
        BY SumOfPart
      <3>6. QED
        BY <2>1, <3>2, <3>4, <3>5
    <2>3. PICK x \in D : TRUE
      BY <2>2
    <2> DEFINE B == D \ {x}
    <2>4. B \in SUBSET S /\ SumFunction(F(B)) = SumFunction(Part(v, B)) /\ x \in S
      <3>1. B \in SUBSET S /\ x \in S /\ B \notin T
        BY <2>1
      <3>2. QED
        BY <3>1
    <2>5. SumFunction(Part(v, D)) = SumFunction(Part(v, B)) + v[x]
      BY SumOfPart
    <2>6. ASSUME NEW k \in K
          PROVE  /\ SumFunction(Part(of(k), D)) = SumFunction(Part(of(k), B)) + of(k)[x]
                 /\ SumFunction(Part(of(k), B)) \in Int
                 /\ of(k)[x] = IF kind[x] = k THEN n[x] ELSE 0
      <3> DEFINE f == of(k)
      <3>1. f \in [S -> Int] /\ D \in SUBSET S
        BY <1>1, <2>1
      <3>2. f[x] = IF kind[x] = k THEN n[x] ELSE 0
        BY <2>4
      <3> HIDE DEF f
      <3>3. /\ SumFunction(Part(f, D)) = SumFunction(Part(f, D \ {x})) + f[x]
            /\ SumFunction(Part(f, B)) \in Int
        BY <2>4, <3>1, SumOfPart
      <3>4. QED
        BY <3>2, <3>3 DEF f
    <2>7. CASE kind[x] \in K
      <3> DEFINE a == kind[x]
                 e == F(B)[a] + v[x]
      <3>1. \A k \in K : k # a => F(D)[k] = F(B)[k]
        <4> HIDE DEF of, B
        <4>1. QED
          BY <2>6
      <3>2. F(D)[a] = e /\ e \in Int /\ a \in K
        <4>1. /\ SumFunction(Part(of(a), D)) = SumFunction(Part(of(a), B)) + n[x]
              /\ SumFunction(Part(of(a), B)) \in Int /\ n[x] \in Int /\ w[a] \in Int
              /\ v[x] = n[x] * w[a]
          BY <2>4, <2>6, <2>7
        <4>2. \A p, q, r \in Int : (p + q) * r = p * r + q * r
          OBVIOUS
        <4>3. F(D)[a] = SumFunction(Part(of(a), D)) * w[a]
              /\ F(B)[a] = SumFunction(Part(of(a), B)) * w[a]
          BY <2>7
        <4> HIDE DEF F, of, B
        <4>4. QED
          BY <2>7, <4>1, <4>2, <4>3
      <3>3. F(D) = [F(B) EXCEPT ![a] = e]
        <4>1. DOMAIN F(D) = K /\ DOMAIN F(B) = K /\ F(D) = [k \in K |-> F(D)[k]]
              /\ F(B) = [k \in K |-> F(B)[k]]
          OBVIOUS
        <4> HIDE DEF F, e, a
        <4>2. QED
          BY <3>1, <3>2, <4>1
      <3>4. F(B) \in [K -> Int] /\ SumFunction(F(B)) \in Int /\ v[x] \in Int
        BY <1>2, <2>4
      <3> DEFINE b == F(B)
                 d == F(D)
      <3>5. b \in [K -> Int] /\ SumFunction(b) \in Int /\ b[a] \in Int
            /\ d = [b EXCEPT ![a] = e] /\ e = b[a] + v[x] /\ a \in K /\ e \in Int
        BY ONLY <3>2, <3>3, <3>4
      <3> HIDE DEF e, a, b, d, F, of, T, B
      <3>6. SumFunction([b EXCEPT ![a] = e]) = SumFunction(b) - b[a] + e
        BY <3>5, <1>0
      <3>7. SumFunction(d) = SumFunction(b) + v[x]
        BY <3>4, <3>5, <3>6
      <3>8. SumFunction(F(D)) = SumFunction(Part(v, D))
        BY <2>4, <2>5, <3>7 DEF b, d
      <3>9. D \notin T
        BY <3>8 DEF T
      <3>10. QED
        BY <2>1, <3>9
    <2>8. CASE kind[x] \notin K
      <3>1. \A k \in K : F(D)[k] = F(B)[k]
        <4> HIDE DEF of, B
        <4>1. QED
          BY <2>6, <2>8
      <3>2. F(D) = F(B)
        BY <3>1
      <3>3. v[x] = 0 /\ SumFunction(F(B)) \in Int
        BY <2>4, <2>8, <1>2
      <3> HIDE DEF F, B
      <3>4. SumFunction(F(D)) = SumFunction(Part(v, D))
        BY <2>4, <2>5, <3>2, <3>3
      <3>5. D \notin T
        BY <3>4
      <3> HIDE DEF T
      <3>6. QED
        BY <2>1, <3>5
    <2>9. QED
      BY <2>7, <2>8
  <1>4. S \notin T
    BY <1>3
  <1>5. SumFunction(F(S)) = SumFunction(Part(v, S)) /\ Part(v, S) = v
    BY <1>4, SumOfPart
  <1>6. ASSUME NEW k \in K PROVE Part(of(k), S) = of(k)
    <2>1. of(k) \in [S -> Int]
      BY <1>1
    <2> HIDE DEF of
    <2>2. QED
      BY <2>1, SumOfPart
  <1>7. F(S) = ByKind(S, K, n, kind, w)
    BY <1>6 DEF ByKind
  <1>8. QED
    BY <1>5, <1>7

(* A sum over two sets is the sum of the sums over each.                    *)
LEMMA SumSplits ==
    ASSUME NEW S, IsFiniteSet(S), NEW T, IsFiniteSet(T), S \cap T = {},
           NEW f \in [S \cup T -> Int]
    PROVE  SumFunction(f) = SumFunction([x \in S |-> f[x]]) + SumFunction([x \in T |-> f[x]])
  <1> DEFINE U == S \cup T
             a == Part(f, S)
             b == Part(f, T)
  <1>1. IsFiniteSet(U)
    BY FS_Union
  <1>2. a \in [U -> Int] /\ b \in [U -> Int] /\ f = [x \in U |-> a[x] + b[x]]
    BY DEF Part
  <1>3. ASSUME NEW D \in SUBSET U, IsFiniteSet(D)
        PROVE  SumFunction([x \in D |-> f[x]]) = SumFunction(Part(f, D))
    <2> DEFINE m == [x \in D |-> x]
    <2>1. m \in [D -> U] /\ (\A i, j \in D : m[i] = m[j] => i = j)
          /\ {m[j] : j \in D} = D /\ [j \in D |-> f[m[j]]] = [x \in D |-> f[x]]
      OBVIOUS
    <2>2. f \in [U -> Int]
      OBVIOUS
    <2> HIDE DEF m, U
    <2>3. SumFunction([j \in D |-> f[m[j]]]) = SumFunction(Part(f, {m[j] : j \in D}))
      BY <1>1, <1>3, <2>1, <2>2, SumMoves
    <2>4. QED
      BY <2>1, <2>3
  <1>4. SumFunction([x \in S |-> f[x]]) = SumFunction(a)
        /\ SumFunction([x \in T |-> f[x]]) = SumFunction(b)
    BY <1>3
  <1> HIDE DEF U, a, b
  <1>5. SumFunction([x \in U |-> a[x] + b[x]]) = SumFunction(a) + SumFunction(b)
    BY <1>1, <1>2, SumAdds
  <1>6. QED
    BY <1>2, <1>4, <1>5
=============================================================================
