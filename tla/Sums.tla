-------------------------------- MODULE Sums --------------------------------
(* Lemmas about the sum of a function over a finite set, as the community     *)
(* modules define it: the recursion takes the elements in an order nobody     *)
(* knows, and the lemmas say that the order makes no difference.  Induction   *)
(* over the set is done with a smallest counterexample; so it is for the      *)
(* greatest of a finite set of numbers.                                       *)
EXTENDS Integers, FiniteSetsExt, FiniteSetTheorems, TLAPS

\* The element that the recursion takes next, and the set it leaves.
Taken(S) == CHOOSE x \in S : TRUE
Left(S) == S \ {Taken(S)}

\* The equation of the recursion behind SumFunctionOnSet(f, S).
Recursion(f, S, iter) ==
    iter = [s \in SUBSET S |-> IF s = {} THEN 0 ELSE f[Taken(s)] + iter[Left(s)]]

\* Among subsets of a finite set there is a smallest one.
LEMMA SmallestSubset ==
    ASSUME NEW S, IsFiniteSet(S), NEW T, T \subseteq SUBSET S, T # {}
    PROVE  \E s \in T : \A t \in T : t \subseteq s => t = s
<1>1. T \subseteq FiniteSubsetsOf(S)
    BY FS_Subset DEF FiniteSubsetsOf
<1>2. IsWellFoundedOn(StrictSubsetOrdering(S), FiniteSubsetsOf(S))
    BY FS_StrictSubsetOrderingWellFounded
<1>3. PICK s \in T : \A t \in T : ~ (<<t, s>> \in StrictSubsetOrdering(S))
    BY <1>1, <1>2, WFMin
<1>4. ASSUME NEW t \in T, t \subseteq s PROVE t = s
    BY <1>3, <1>4 DEF StrictSubsetOrdering
<1> QED BY <1>3, <1>4

\* Finite sets of numbers, such as the positions in a sequence.
Positions(S) == IsFiniteSet(S) /\ S \subseteq Nat

\* A finite set of numbers has a greatest one.
LEMMA MaxIsGreatest ==
    ASSUME NEW S, Positions(S), S # {}
    PROVE  Max(S) \in S /\ \A y \in S : Max(S) >= y
<1>0. IsFiniteSet(S)
    BY DEF Positions
<1> DEFINE HasMax(s) == \E x \in s : \A y \in s : x >= y
           T == {s \in SUBSET S : s # {} /\ ~HasMax(s)}
<1>1. T = {}
    <2> SUFFICES ASSUME T # {} PROVE FALSE
        OBVIOUS
    <2>1. PICK s \in T : \A t \in T : t \subseteq s => t = s
        <3>1. T \subseteq SUBSET S
            OBVIOUS
        <3> HIDE DEF T
        <3> QED BY <1>0, <3>1, SmallestSubset
    <2>2. PICK x \in s : TRUE
        BY <2>1
    <2>3. s \ {x} # {}
        <3>1. SUFFICES ASSUME s \ {x} = {} PROVE FALSE
            OBVIOUS
        <3>2. \A y \in s : y = x
            BY <3>1
        <3>3. x \in Nat
            BY <2>1, <2>2 DEF Positions
        <3> QED BY <2>1, <2>2, <3>2, <3>3
    <2>4. PICK m \in s \ {x} : \A y \in s \ {x} : m >= y
        <3>1. s \ {x} \in SUBSET S /\ s \ {x} \subseteq s /\ s \ {x} # s
            BY <2>1, <2>2
        <3>2. s \ {x} \notin T
            BY <2>1, <3>1
        <3> QED BY <2>3, <3>1, <3>2
    <2>5. \A y \in s : y \in Nat
        BY <2>1 DEF Positions
    <2>6. m >= x => \A y \in s : m >= y
        BY <2>4
    <2>7. x >= m => \A y \in s : x >= y
        BY <2>2, <2>4, <2>5
    <2>8. m >= x \/ x >= m
        BY <2>2, <2>4, <2>5
    <2> QED BY <2>1, <2>2, <2>4, <2>6, <2>7, <2>8
<1>2. HasMax(S)
    BY <1>1
<1> QED BY <1>2 DEF Max

\* So is each part of a set of positions.
LEMMA PartOfPositions ==
    ASSUME NEW S, Positions(S), NEW R \in SUBSET S PROVE Positions(R) /\ IsFiniteSet(R)
BY FS_Subset DEF Positions

\* The set that is left is smaller.
LEMMA LeftIsSmaller ==
    ASSUME NEW S, S # {}
    PROVE  Taken(S) \in S /\ Left(S) \subseteq S /\ Left(S) # S
BY DEF Taken, Left

\* The sum is the value of a solution of its recursion at the whole set.
LEMMA SumIsChosen ==
    ASSUME NEW f, NEW S
    PROVE  SumFunctionOnSet(f, S) = (CHOOSE iter : Recursion(f, S, iter))[S]
BY SMT DEF SumFunctionOnSet, FoldFunctionOnSet, MapThenFoldSet, Recursion, Taken, Left

\* The recursion has at most one solution: on a subset, it is the solution of the whole set.
LEMMA RecursionUnique ==
    ASSUME NEW f, NEW S, IsFiniteSet(S), NEW g, Recursion(f, S, g),
           NEW R \in SUBSET S, NEW h, Recursion(f, R, h)
    PROVE  \A s \in SUBSET R : g[s] = h[s]
<1> DEFINE T == {s \in SUBSET R : g[s] # h[s]}
<1> SUFFICES ASSUME T # {} PROVE FALSE
    OBVIOUS
<1>1. PICK s \in T : \A t \in T : t \subseteq s => t = s
    <2>1. IsFiniteSet(R) /\ T \subseteq SUBSET R
        BY FS_Subset
    <2> HIDE DEF T
    <2> QED BY <2>1, SmallestSubset
<1>2. g[s] = (IF s = {} THEN 0 ELSE f[Taken(s)] + g[Left(s)])
    BY <1>1 DEF Recursion
<1>3. h[s] = (IF s = {} THEN 0 ELSE f[Taken(s)] + h[Left(s)])
    BY <1>1 DEF Recursion
<1>4. s # {}
    BY <1>1, <1>2, <1>3
<1>5. Left(s) \in SUBSET R /\ Left(s) \notin T
    BY <1>1, <1>4, LeftIsSmaller
<1> QED BY <1>1, <1>2, <1>3, <1>4, <1>5

\* What the recursion's equation says of the sum of one set.
Unfolds(f, S) ==
    SumFunctionOnSet(f, S) = IF S = {} THEN 0 ELSE f[Taken(S)] + SumFunctionOnSet(f, Left(S))

\* A solution on the whole set is the sum on each subset.
LEMMA SumIsSolution ==
    ASSUME NEW f, NEW S, IsFiniteSet(S), NEW g, Recursion(f, S, g)
    PROVE  \A R \in SUBSET S : SumFunctionOnSet(f, R) = g[R]
<1> SUFFICES ASSUME NEW R \in SUBSET S PROVE SumFunctionOnSet(f, R) = g[R]
    OBVIOUS
<1> DEFINE h == [s \in SUBSET R |-> g[s]]
<1>1. h = [s \in SUBSET R |-> IF s = {} THEN 0 ELSE f[Taken(s)] + h[Left(s)]]
    <2>1. ASSUME NEW s \in SUBSET R, s # {} PROVE Left(s) \in SUBSET R /\ Left(s) \in SUBSET S
        BY <2>1, LeftIsSmaller
    <2>2. ASSUME NEW s \in SUBSET R PROVE g[s] = IF s = {} THEN 0 ELSE f[Taken(s)] + g[Left(s)]
        BY DEF Recursion
    <2>3. ASSUME NEW s \in SUBSET R PROVE h[s] = IF s = {} THEN 0 ELSE f[Taken(s)] + h[Left(s)]
        BY <2>1, <2>2
    <2> QED BY <2>3
<1>2. Recursion(f, R, h)
    BY <1>1 DEF Recursion
<1> DEFINE i == CHOOSE iter : Recursion(f, R, iter)
<1>3. Recursion(f, R, i)
    <2> HIDE DEF h
    <2> QED BY <1>2
<1>4. g[R] = i[R]
    <2> HIDE DEF i
    <2> QED BY <1>3, RecursionUnique
<1> QED BY <1>4, SumIsChosen

\* The sum obeys the equation of its recursion.
LEMMA SumUnfolds ==
    ASSUME NEW f, NEW S, IsFiniteSet(S)
    PROVE  Unfolds(f, S)
<1> DEFINE T == {s \in SUBSET S : ~Unfolds(f, s)}
<1> SUFFICES ASSUME T # {} PROVE FALSE
    OBVIOUS
<1>1. PICK s \in T : \A t \in T : t \subseteq s => t = s
    <2>1. T \subseteq SUBSET S
        OBVIOUS
    <2> HIDE DEF T
    <2> QED BY <2>1, SmallestSubset
<1> DEFINE g == [r \in SUBSET s |->
                    IF r = {} THEN 0 ELSE f[Taken(r)] + SumFunctionOnSet(f, Left(r))]
<1>2. ASSUME NEW r \in SUBSET s, r # {}
      PROVE  Left(r) \in SUBSET s /\ g[Left(r)] = SumFunctionOnSet(f, Left(r))
    <2>1. Left(r) \in SUBSET s /\ Left(r) # s
        BY <1>2, LeftIsSmaller
    <2>2. Unfolds(f, Left(r))
        BY <1>1, <2>1
    <2> QED BY <2>1, <2>2 DEF Unfolds
<1>3. g = [r \in SUBSET s |-> IF r = {} THEN 0 ELSE f[Taken(r)] + g[Left(r)]]
    <2>1. ASSUME NEW r \in SUBSET s PROVE g[r] = IF r = {} THEN 0 ELSE f[Taken(r)] + g[Left(r)]
        BY <1>2
    <2> QED BY <2>1
<1>4. Recursion(f, s, g) /\ IsFiniteSet(s)
    BY <1>1, <1>3, FS_Subset DEF Recursion
<1>5. SumFunctionOnSet(f, s) = g[s]
    <2> HIDE DEF g
    <2> QED BY <1>4, SumIsSolution
<1>6. Unfolds(f, s)
    BY <1>5 DEF Unfolds
<1> QED BY <1>1, <1>6

-----------------------------------------------------------------------------
\* The empty sum.
LEMMA SumEmpty == ASSUME NEW f PROVE SumFunctionOnSet(f, {}) = 0
BY SumUnfolds, FS_EmptySet DEF Unfolds

\* A sum of natural numbers is one.
LEMMA SumType ==
    ASSUME NEW f, NEW S, IsFiniteSet(S), \A x \in S : f[x] \in Nat
    PROVE  SumFunctionOnSet(f, S) \in Nat
<1> DEFINE T == {s \in SUBSET S : SumFunctionOnSet(f, s) \notin Nat}
<1> SUFFICES ASSUME T # {} PROVE FALSE
    OBVIOUS
<1>1. PICK s \in T : \A t \in T : t \subseteq s => t = s
    <2>1. T \subseteq SUBSET S
        OBVIOUS
    <2> HIDE DEF T
    <2> QED BY <2>1, SmallestSubset
<1>2. Unfolds(f, s)
    BY FS_Subset, SumUnfolds
<1>3. s # {}
    BY <1>1, <1>2 DEF Unfolds
<1>4. Taken(s) \in S /\ Left(s) \in SUBSET S /\ Left(s) \notin T
    BY <1>1, <1>3, LeftIsSmaller
<1> QED BY <1>1, <1>2, <1>3, <1>4 DEF Unfolds

\* Any element can be taken first.
LEMMA SumTake ==
    ASSUME NEW f, NEW S, IsFiniteSet(S), \A x \in S : f[x] \in Nat, NEW x \in S
    PROVE  SumFunctionOnSet(f, S) = f[x] + SumFunctionOnSet(f, S \ {x})
<1> DEFINE Takes(s) == \A y \in s : SumFunctionOnSet(f, s) = f[y] + SumFunctionOnSet(f, s \ {y})
           T == {s \in SUBSET S : ~Takes(s)}
<1> SUFFICES ASSUME T # {} PROVE FALSE
    OBVIOUS
<1>1. PICK s \in T : \A t \in T : t \subseteq s => t = s
    <2>1. T \subseteq SUBSET S
        OBVIOUS
    <2> HIDE DEF T
    <2> QED BY <2>1, SmallestSubset
<1>2. PICK y \in s : SumFunctionOnSet(f, s) # f[y] + SumFunctionOnSet(f, s \ {y})
    BY <1>1
<1> DEFINE c == Taken(s)
<1>3. c \in s /\ SumFunctionOnSet(f, s) = f[c] + SumFunctionOnSet(f, s \ {c})
    BY <1>2, FS_Subset, SumUnfolds, LeftIsSmaller DEF Unfolds, Left
<1>4. c # y
    BY <1>2, <1>3
<1> HIDE DEF c
<1>5. Takes(s \ {c}) /\ Takes(s \ {y})
    BY <1>1, <1>2, <1>3
<1>6. SumFunctionOnSet(f, s \ {c}) = f[y] + SumFunctionOnSet(f, (s \ {c}) \ {y})
    BY <1>2, <1>4, <1>5
<1>7. SumFunctionOnSet(f, s \ {y}) = f[c] + SumFunctionOnSet(f, (s \ {y}) \ {c})
    BY <1>3, <1>4, <1>5
<1>8. (s \ {c}) \ {y} = (s \ {y}) \ {c}
    OBVIOUS
<1>9. SumFunctionOnSet(f, (s \ {c}) \ {y}) \in Nat /\ f[c] \in Nat /\ f[y] \in Nat
    BY <1>2, <1>3, FS_Subset, SumType
<1> QED BY <1>2, <1>3, <1>6, <1>7, <1>8, <1>9

\* One element more.
LEMMA SumAdd ==
    ASSUME NEW f, NEW S, IsFiniteSet(S), NEW x, x \notin S,
           \A y \in S \cup {x} : f[y] \in Nat
    PROVE  SumFunctionOnSet(f, S \cup {x}) = f[x] + SumFunctionOnSet(f, S)
<1>1. IsFiniteSet(S \cup {x}) /\ (S \cup {x}) \ {x} = S
    BY FS_AddElement
<1> QED BY <1>1, SumTake

\* Only the values on the set matter.
LEMMA SumSame ==
    ASSUME NEW f, NEW g, NEW S, IsFiniteSet(S), \A x \in S : f[x] = g[x]
    PROVE  SumFunctionOnSet(f, S) = SumFunctionOnSet(g, S)
<1> DEFINE T == {s \in SUBSET S : SumFunctionOnSet(f, s) # SumFunctionOnSet(g, s)}
<1> SUFFICES ASSUME T # {} PROVE FALSE
    OBVIOUS
<1>1. PICK s \in T : \A t \in T : t \subseteq s => t = s
    <2>1. T \subseteq SUBSET S
        OBVIOUS
    <2> HIDE DEF T
    <2> QED BY <2>1, SmallestSubset
<1>2. Unfolds(f, s) /\ Unfolds(g, s)
    BY FS_Subset, SumUnfolds
<1>3. s # {}
    BY <1>1, <1>2 DEF Unfolds
<1>4. Taken(s) \in S /\ Left(s) \in SUBSET S /\ Left(s) \notin T
    BY <1>1, <1>3, LeftIsSmaller
<1> QED BY <1>1, <1>2, <1>3, <1>4 DEF Unfolds

\* The sum over two sets that share no element.
LEMMA SumUnion ==
    ASSUME NEW f, NEW S, IsFiniteSet(S), NEW R, IsFiniteSet(R), S \cap R = {},
           \A x \in S \cup R : f[x] \in Nat
    PROVE  SumFunctionOnSet(f, S \cup R) = SumFunctionOnSet(f, S) + SumFunctionOnSet(f, R)
<1> DEFINE Adds(s) == SumFunctionOnSet(f, s \cup R)
                      = SumFunctionOnSet(f, s) + SumFunctionOnSet(f, R)
           T == {s \in SUBSET S : ~Adds(s)}
<1> SUFFICES ASSUME T # {} PROVE FALSE
    OBVIOUS
<1>1. PICK s \in T : \A t \in T : t \subseteq s => t = s
    <2>1. T \subseteq SUBSET S
        OBVIOUS
    <2> HIDE DEF T
    <2> QED BY <2>1, SmallestSubset
<1>2. s # {}
    <2>1. SumFunctionOnSet(f, R) \in Nat
        BY SumType
    <2>2. SumFunctionOnSet(f, {}) = 0 /\ {} \cup R = R
        BY SumEmpty
    <2>3. Adds({})
        BY <2>1, <2>2
    <2> QED BY <1>1, <2>3
<1>3. PICK x \in s : TRUE
    BY <1>2
<1>4. Adds(s \ {x})
    BY <1>1
<1>5. IsFiniteSet(s) /\ IsFiniteSet(s \cup R) /\ IsFiniteSet(s \ {x})
    BY <1>1, FS_Subset, FS_Union
<1>6. SumFunctionOnSet(f, s) = f[x] + SumFunctionOnSet(f, s \ {x})
    BY <1>5, SumTake
<1>7. SumFunctionOnSet(f, s \cup R) = f[x] + SumFunctionOnSet(f, (s \ {x}) \cup R)
    <2>1. (s \cup R) \ {x} = (s \ {x}) \cup R
        OBVIOUS
    <2>2. \A y \in s \cup R : f[y] \in Nat
        OBVIOUS
    <2>3. x \in s \cup R
        OBVIOUS
    <2> QED BY <1>5, <2>1, <2>2, <2>3, SumTake
<1>8. f[x] \in Nat /\ SumFunctionOnSet(f, s \ {x}) \in Nat /\ SumFunctionOnSet(f, R) \in Nat
    BY <1>5, SumType
<1> QED BY <1>1, <1>4, <1>6, <1>7, <1>8

\* A set whose elements each have an image of their own, with a value not smaller, has a sum
\* not larger.
LEMMA SumInjection ==
    ASSUME NEW f, NEW S, IsFiniteSet(S), \A x \in S : f[x] \in Nat,
           NEW g, NEW R, IsFiniteSet(R), \A y \in R : g[y] \in Nat,
           NEW h, \A x \in S : h[x] \in R /\ f[x] <= g[h[x]],
           \A x, y \in S : h[x] = h[y] => x = y
    PROVE  SumFunctionOnSet(f, S) <= SumFunctionOnSet(g, R)
<1> DEFINE Below(s) == \A r \in SUBSET R :
                          (\A x \in s : h[x] \in r)
                          => SumFunctionOnSet(f, s) <= SumFunctionOnSet(g, r)
           T == {s \in SUBSET S : ~Below(s)}
<1> SUFFICES ASSUME T # {} PROVE FALSE
    OBVIOUS
<1>1. PICK s \in T : \A t \in T : t \subseteq s => t = s
    <2>1. T \subseteq SUBSET S
        OBVIOUS
    <2> HIDE DEF T
    <2> QED BY <2>1, SmallestSubset
<1>2. PICK r \in SUBSET R : /\ \A x \in s : h[x] \in r
                            /\ ~(SumFunctionOnSet(f, s) <= SumFunctionOnSet(g, r))
    BY <1>1
<1>3. IsFiniteSet(s) /\ IsFiniteSet(r)
    BY <1>1, <1>2, FS_Subset
<1>4. s # {}
    <2>1. SumFunctionOnSet(g, r) \in Nat
        BY <1>3, SumType
    <2> QED BY <1>2, <2>1, SumEmpty
<1>5. PICK x \in s : TRUE
    BY <1>4
<1>6. SumFunctionOnSet(f, s) = f[x] + SumFunctionOnSet(f, s \ {x})
    BY <1>3, SumTake
<1>7. h[x] \in r /\ \A y \in r : g[y] \in Nat
    BY <1>2
<1>8. SumFunctionOnSet(g, r) = g[h[x]] + SumFunctionOnSet(g, r \ {h[x]})
    BY <1>3, <1>7, SumTake
<1>9. SumFunctionOnSet(f, s \ {x}) <= SumFunctionOnSet(g, r \ {h[x]})
    <2>1. Below(s \ {x})
        BY <1>1
    <2>2. \A y \in s \ {x} : h[y] \in r \ {h[x]}
        BY <1>2
    <2> QED BY <2>1, <2>2
<1>10. /\ SumFunctionOnSet(f, s \ {x}) \in Nat /\ SumFunctionOnSet(g, r \ {h[x]}) \in Nat
       /\ f[x] \in Nat /\ g[h[x]] \in Nat /\ f[x] <= g[h[x]]
    <2>1. IsFiniteSet(s \ {x}) /\ IsFiniteSet(r \ {h[x]})
        BY <1>3, FS_Subset
    <2> QED BY <1>7, <2>1, SumType
<1> HIDE DEF T
<1> QED BY <1>2, <1>6, <1>8, <1>9, <1>10

\* A part of a set has no larger a sum, nor has a function with smaller values.
LEMMA SumMonotonic ==
    ASSUME NEW f, NEW S, NEW g, NEW R, IsFiniteSet(R), S \subseteq R,
           \A y \in R : g[y] \in Nat, \A x \in S : f[x] \in Nat /\ f[x] <= g[x]
    PROVE  SumFunctionOnSet(f, S) <= SumFunctionOnSet(g, R)
<1> DEFINE h == [x \in S |-> x]
<1>1. IsFiniteSet(S)
    BY FS_Subset
<1>2. /\ \A x \in S : h[x] \in R /\ f[x] <= g[h[x]]
      /\ \A x, y \in S : h[x] = h[y] => x = y
    OBVIOUS
<1>3. \A x \in S : f[x] \in Nat
    OBVIOUS
<1> HIDE DEF h
<1> QED BY <1>1, <1>2, <1>3, SumInjection
=============================================================================
