---------------------------------- MODULE Sums ----------------------------------
(***************************************************************************)
(* What the proofs about money, risk and ratings need to know of a sum     *)
(* over a finite set (SumFunctionOnSet of the community modules), and the  *)
(* two forms of induction they use.  An induction is stated for a set F of *)
(* the cases that are known, where a textbook has a predicate: F can be    *)
(* instantiated with any set, so the rules apply to any predicate.         *)
(***************************************************************************)
EXTENDS Integers, Functions, FiniteSetTheorems, WellFoundedInduction, TLAPS

\* A nonempty family of subsets of a finite set has a least one.
LEMMA LeastSubset ==
  ASSUME NEW S, IsFiniteSet(S), NEW B, B \subseteq SUBSET S, B # {}
  PROVE  \E T \in B : \A U \in SUBSET T : U # T => U \notin B
  <1>1. IsWellFoundedOn(StrictSubsetOrdering(S), SUBSET S)
    BY FS_StrictSubsetOrderingWellFounded, FS_FiniteSubsetsOfFinite
  <1>2. PICK T \in B : \A U \in B : ~ (<<U, T>> \in StrictSubsetOrdering(S))
    BY <1>1, WFMin
  <1>3. \A U \in SUBSET T : U # T => <<U, T>> \in StrictSubsetOrdering(S)
    BY <1>2 DEF StrictSubsetOrdering
  <1>4. \A U \in SUBSET T : U # T => U \notin B
    BY <1>2, <1>3
  <1> QED BY <1>4

\* Induction over the subsets of a finite set, one element at a time.
LEMMA SetInduction ==
  ASSUME NEW S, IsFiniteSet(S), NEW F, {} \in F,
         \A T \in SUBSET S : \A x \in S \ T : T \in F => T \cup {x} \in F
  PROVE  S \in F
  <1> DEFINE B == {T \in SUBSET S : T \notin F}
  <1> SUFFICES ASSUME S \notin F PROVE FALSE
    OBVIOUS
  <1>1. S \in B
    OBVIOUS
  <1>2. PICK T \in B : \A U \in SUBSET T : U # T => U \notin B
    <2> HIDE DEF B
    <2>1. B \subseteq SUBSET S
      BY DEF B
    <2> QED BY <1>1, <2>1, LeastSubset
  <1>3. PICK x \in T : TRUE
    BY <1>2
  <1>4. T \ {x} \in F
    BY <1>2, <1>3
  <1>5. (T \ {x}) \cup {x} = T /\ x \in S \ (T \ {x}) /\ T \ {x} \in SUBSET S
    BY <1>2, <1>3
  <1> QED BY <1>2, <1>4, <1>5

\* Induction over the naturals.
LEMMA NumberInduction ==
  ASSUME NEW F, 0 \in F, \A n \in Nat : n \in F => n + 1 \in F
  PROVE  Nat \subseteq F
  <1> DEFINE B == Nat \ F
             R == OpToRel(<, Nat)
  <1> SUFFICES ASSUME B # {} PROVE FALSE
    OBVIOUS
  <1>1. IsWellFoundedOn(R, Nat)
    BY NatLessThanWellFounded
  <1>2. \A n \in Nat \ {0} : <<n - 1, n>> \in R
    BY DEF OpToRel
  <1> HIDE DEF R
  <1>3. PICK n \in B : \A k \in B : ~ (<<k, n>> \in R)
    <2>1. B \subseteq Nat
      OBVIOUS
    <2> HIDE DEF B
    <2> QED BY <1>1, <2>1, WFMin
  <1>4. n \in Nat /\ n \notin F /\ n # 0
    BY <1>3
  <1>5. n - 1 \in Nat /\ (n - 1) + 1 = n
    BY <1>4
  <1>6. <<n - 1, n>> \in R
    BY <1>2, <1>4
  <1>7. n - 1 \notin B
    BY <1>3, <1>6
  <1> QED BY <1>4, <1>5, <1>7

-------------------------------------------------------------------------------
(* The sum is well defined *)

\* The element that is summed up first.
SumHead(T) == CHOOSE x \in T : TRUE

\* g sums f over every set of the family D that is closed under taking the first element out.
Folding(f, D, g) == g = [T \in D |-> IF T = {} THEN 0 ELSE f[SumHead(T)] + g[T \ {SumHead(T)}]]

\* The element a sum takes first is one of the set.
LEMMA NextIsOne == ASSUME NEW T, T # {} PROVE SumHead(T) \in T
  BY DEF SumHead

\* A sum is the fold of the community modules, a function chosen by its equation.
LEMMA SumIsFold ==
  ASSUME NEW f, NEW S
  PROVE  SumFunctionOnSet(f, S) = (CHOOSE g : Folding(f, SUBSET S, g))[S]
  BY DEF SumFunctionOnSet, FoldFunctionOnSet, MapThenFoldSet, Folding, SumHead

\* There is a function with that equation, by induction on the size of the sets it is asked about.
LEMMA FoldExists ==
  ASSUME NEW f, NEW S, IsFiniteSet(S)
  PROVE  \E g : Folding(f, SUBSET S, g)
  <1> DEFINE Small(n) == {T \in SUBSET S : Cardinality(T) <= n}
             F == {n \in Nat : \E g : Folding(f, Small(n), g)}
  <1>1. \A T \in SUBSET S : IsFiniteSet(T) /\ Cardinality(T) \in Nat
    BY FS_Subset, FS_CardinalityType
  <1>2. 0 \in F
    <2>1. Small(0) = {{}}
      BY <1>1, FS_EmptySet
    <2>2. Folding(f, {{}}, [T \in {{}} |-> 0])
      BY DEF Folding
    <2> QED BY <2>1, <2>2
  <1>3. ASSUME NEW n \in Nat, n \in F PROVE n + 1 \in F
    <2>1. PICK g : Folding(f, Small(n), g)
      BY <1>3
    <2> DEFINE h == [T \in Small(n + 1) |-> IF T = {} THEN 0 ELSE f[SumHead(T)] + g[T \ {SumHead(T)}]]
    <2>2. Small(n) \subseteq Small(n + 1)
      BY <1>1
    <2>3. \A T \in Small(n) : h[T] = g[T]
      BY <2>1, <2>2 DEF Folding
    <2>4. \A T \in Small(n + 1) : T # {} => T \ {SumHead(T)} \in Small(n)
      BY <1>1, FS_RemoveElement, NextIsOne
    <2>5. h = [T \in Small(n + 1) |-> IF T = {} THEN 0 ELSE f[SumHead(T)] + h[T \ {SumHead(T)}]]
      <3> HIDE DEF Small
      <3> QED BY <2>3, <2>4
    <2>6. Folding(f, Small(n + 1), h)
      BY <2>5 DEF Folding
    <2>7. \E k : Folding(f, Small(n + 1), k)
      BY <2>6
    <2> QED BY <2>7
  <1>4. Cardinality(S) \in F
    <2> HIDE DEF F
    <2> QED BY <1>1, <1>2, <1>3, NumberInduction
  <1>5. Small(Cardinality(S)) = SUBSET S
    BY <1>1, FS_Subset
  <1> QED BY <1>4, <1>5

\* Two of them, over a set and over a part of it, agree on the part.
LEMMA FoldUnique ==
  ASSUME NEW f, NEW S, IsFiniteSet(S), NEW T \in SUBSET S,
         NEW g, Folding(f, SUBSET S, g), NEW h, Folding(f, SUBSET T, h)
  PROVE  g[T] = h[T]
  <1> DEFINE B == {U \in SUBSET T : g[U] # h[U]}
  <1> SUFFICES ASSUME B # {} PROVE FALSE
    OBVIOUS
  <1>1. IsFiniteSet(T)
    BY FS_Subset
  <1>2. PICK U \in B : \A V \in SUBSET U : V # U => V \notin B
    <2> HIDE DEF B
    <2>1. B \subseteq SUBSET T
      BY DEF B
    <2> QED BY <1>1, <2>1, LeastSubset
  <1>3. U # {}
    BY <1>2 DEF Folding
  <1>4. SumHead(U) \in U /\ U \ {SumHead(U)} \in SUBSET U /\ U \ {SumHead(U)} # U
    BY <1>3, NextIsOne
  <1>5. g[U \ {SumHead(U)}] = h[U \ {SumHead(U)}]
    BY <1>2, <1>4
  <1>6. g[U] = f[SumHead(U)] + g[U \ {SumHead(U)}] /\ h[U] = f[SumHead(U)] + h[U \ {SumHead(U)}]
    BY <1>2, <1>3 DEF Folding
  <1> QED BY <1>2, <1>5, <1>6

\* So one function folds every part of a finite set.
LEMMA SumFolds ==
  ASSUME NEW f, NEW S, IsFiniteSet(S)
  PROVE  \E g : Folding(f, SUBSET S, g) /\ \A T \in SUBSET S : SumFunctionOnSet(f, T) = g[T]
  <1>1. PICK g : Folding(f, SUBSET S, g)
    BY FoldExists
  <1>2. ASSUME NEW T \in SUBSET S PROVE SumFunctionOnSet(f, T) = g[T]
    <2>1. IsFiniteSet(T)
      BY FS_Subset
    <2>2. Folding(f, SUBSET T, CHOOSE h : Folding(f, SUBSET T, h))
      BY <2>1, FoldExists
    <2> QED BY <1>1, <2>2, FoldUnique, SumIsFold
  <1> QED BY <1>1, <1>2

\* A sum over nothing.
LEMMA SumEmpty == ASSUME NEW f PROVE SumFunctionOnSet(f, {}) = 0
  <1>1. IsFiniteSet({})
    BY FS_EmptySet
  <1>2. PICK g : Folding(f, SUBSET {}, g) /\ \A T \in SUBSET {} : SumFunctionOnSet(f, T) = g[T]
    BY <1>1, SumFolds
  <1> QED BY <1>2 DEF Folding

\* A sum over a nonempty set is the first summand and the sum of the rest.
LEMMA SumNext ==
  ASSUME NEW f, NEW S, IsFiniteSet(S), S # {}
  PROVE  SumFunctionOnSet(f, S) = f[SumHead(S)] + SumFunctionOnSet(f, S \ {SumHead(S)})
  <1>1. PICK g : Folding(f, SUBSET S, g) /\ \A T \in SUBSET S : SumFunctionOnSet(f, T) = g[T]
    BY SumFolds
  <1>2. g[S] = f[SumHead(S)] + g[S \ {SumHead(S)}]
    BY <1>1 DEF Folding
  <1> QED BY <1>1, <1>2
-------------------------------------------------------------------------------
(* Sums of integers *)

\* A sum of integers is one, a sum of naturals too.
LEMMA SumType ==
  ASSUME NEW f, NEW S, IsFiniteSet(S)
  PROVE  /\ (\A x \in S : f[x] \in Int) => SumFunctionOnSet(f, S) \in Int
         /\ (\A x \in S : f[x] \in Nat) => SumFunctionOnSet(f, S) \in Nat
  <1> DEFINE B == {T \in SUBSET S : ~ /\ (\A x \in T : f[x] \in Int) => SumFunctionOnSet(f, T) \in Int
                                      /\ (\A x \in T : f[x] \in Nat) => SumFunctionOnSet(f, T) \in Nat}
  <1> SUFFICES ASSUME B # {} PROVE FALSE
    OBVIOUS
  <1>1. PICK T \in B : \A U \in SUBSET T : U # T => U \notin B
    <2>1. B \subseteq SUBSET S
      OBVIOUS
    <2> HIDE DEF B
    <2> QED BY <2>1, LeastSubset
  <1>2. IsFiniteSet(T) /\ T # {}
    <2>1. IsFiniteSet(T)
      BY FS_Subset
    <2>2. SumFunctionOnSet(f, {}) = 0
      BY SumEmpty
    <2> QED BY <2>1, <2>2
  <1>3. SumHead(T) \in T /\ T \ {SumHead(T)} \in SUBSET T /\ T \ {SumHead(T)} # T
    BY <1>2, NextIsOne
  <1>4. T \ {SumHead(T)} \notin B
    BY <1>1, <1>3
  <1>5. SumFunctionOnSet(f, T) = f[SumHead(T)] + SumFunctionOnSet(f, T \ {SumHead(T)})
    BY <1>2, SumNext
  <1> QED BY <1>3, <1>4, <1>5

\* The two halves of it.
LEMMA SumIsInt ==
  ASSUME NEW f, NEW S, IsFiniteSet(S), \A x \in S : f[x] \in Int
  PROVE  SumFunctionOnSet(f, S) \in Int
  BY SumType

LEMMA SumIsNat ==
  ASSUME NEW f, NEW S, IsFiniteSet(S), \A x \in S : f[x] \in Nat
  PROVE  SumFunctionOnSet(f, S) \in Nat
  BY SumType

\* Any summand may be taken out.
LEMMA SumWithout ==
  ASSUME NEW f, NEW S, IsFiniteSet(S), \A y \in S : f[y] \in Int, NEW x \in S
  PROVE  SumFunctionOnSet(f, S) = f[x] + SumFunctionOnSet(f, S \ {x})
  <1> DEFINE B == {T \in SUBSET S : \E z \in T : SumFunctionOnSet(f, T) # f[z] + SumFunctionOnSet(f, T \ {z})}
  <1> SUFFICES ASSUME B # {} PROVE FALSE
    OBVIOUS
  <1>1. PICK T \in B : \A U \in SUBSET T : U # T => U \notin B
    <2>1. B \subseteq SUBSET S
      OBVIOUS
    <2> HIDE DEF B
    <2> QED BY <2>1, LeastSubset
  <1>2. PICK z \in T : SumFunctionOnSet(f, T) # f[z] + SumFunctionOnSet(f, T \ {z})
    BY <1>1
  <1> DEFINE n == SumHead(T)
  <1>3. IsFiniteSet(T) /\ n \in T /\ z \in S /\ n \in S
    BY FS_Subset, NextIsOne
  <1>4. SumFunctionOnSet(f, T) = f[n] + SumFunctionOnSet(f, T \ {n})
    BY <1>3, SumNext
  <1> HIDE DEF n
  <1>5. n # z
    BY <1>2, <1>4
  <1>6. SumFunctionOnSet(f, T \ {n}) = f[z] + SumFunctionOnSet(f, (T \ {n}) \ {z})
    <2>1. T \ {n} \in SUBSET T /\ T \ {n} # T /\ z \in T \ {n} /\ T \ {n} \in SUBSET S
      BY <1>3, <1>5
    <2> QED BY <1>1, <2>1
  <1>7. SumFunctionOnSet(f, T \ {z}) = f[n] + SumFunctionOnSet(f, (T \ {n}) \ {z})
    <2>1. T \ {z} \in SUBSET T /\ T \ {z} # T /\ n \in T \ {z} /\ T \ {z} \in SUBSET S
      BY <1>3, <1>5
    <2>2. (T \ {z}) \ {n} = (T \ {n}) \ {z}
      OBVIOUS
    <2>3. T \ {z} \notin B
      BY <1>1, <2>1
    <2>4. SumFunctionOnSet(f, T \ {z}) = f[n] + SumFunctionOnSet(f, (T \ {z}) \ {n})
      BY <2>1, <2>3
    <2> QED BY <2>2, <2>4
  <1>8. IsFiniteSet((T \ {n}) \ {z}) /\ \A y \in (T \ {n}) \ {z} : f[y] \in Int
    <2>1. (T \ {n}) \ {z} \in SUBSET S
      OBVIOUS
    <2> QED BY <2>1, FS_Subset
  <1>9. SumFunctionOnSet(f, (T \ {n}) \ {z}) \in Int /\ f[n] \in Int /\ f[z] \in Int
    BY <1>3, <1>8, SumType
  <1> QED BY <1>2, <1>4, <1>6, <1>7, <1>9

\* A sum over one element more.
LEMMA SumWith ==
  ASSUME NEW f, NEW S, IsFiniteSet(S), NEW x, x \notin S, \A y \in S \cup {x} : f[y] \in Int
  PROVE  SumFunctionOnSet(f, S \cup {x}) = f[x] + SumFunctionOnSet(f, S)
  <1>1. IsFiniteSet(S \cup {x}) /\ x \in S \cup {x} /\ (S \cup {x}) \ {x} = S
    BY FS_AddElement
  <1> QED BY <1>1, SumWithout

\* The sum depends on nothing but the summands.
LEMMA SumEqual ==
  ASSUME NEW f, NEW g, NEW S, IsFiniteSet(S), \A x \in S : f[x] \in Int /\ f[x] = g[x]
  PROVE  SumFunctionOnSet(f, S) = SumFunctionOnSet(g, S)
  <1> DEFINE F == {T \in SUBSET S : SumFunctionOnSet(f, T) = SumFunctionOnSet(g, T)}
  <1>1. {} \in F
    BY SumEmpty
  <1>2. ASSUME NEW T \in SUBSET S, NEW x \in S \ T, T \in F PROVE T \cup {x} \in F
    <2>1. IsFiniteSet(T) /\ \A y \in T \cup {x} : f[y] \in Int /\ g[y] \in Int
      BY FS_Subset
    <2>2. SumFunctionOnSet(f, T \cup {x}) = f[x] + SumFunctionOnSet(f, T)
      BY <1>2, <2>1, SumWith
    <2>3. SumFunctionOnSet(g, T \cup {x}) = g[x] + SumFunctionOnSet(g, T)
      BY <1>2, <2>1, SumWith
    <2> QED BY <1>2, <2>2, <2>3
  <1> HIDE DEF F
  <1>3. S \in F
    BY <1>1, <1>2, SetInduction
  <1> QED BY <1>3 DEF F

\* Sums over the same set are added summand by summand.
LEMMA SumPlus ==
  ASSUME NEW f, NEW g, NEW h, NEW S, IsFiniteSet(S),
         \A x \in S : f[x] \in Int /\ g[x] \in Int /\ h[x] = f[x] + g[x]
  PROVE  SumFunctionOnSet(h, S) = SumFunctionOnSet(f, S) + SumFunctionOnSet(g, S)
  <1> DEFINE F == {T \in SUBSET S : SumFunctionOnSet(h, T) = SumFunctionOnSet(f, T) + SumFunctionOnSet(g, T)}
  <1>1. {} \in F
    BY SumEmpty
  <1>2. ASSUME NEW T \in SUBSET S, NEW x \in S \ T, T \in F PROVE T \cup {x} \in F
    <2>1. IsFiniteSet(T) /\ \A y \in T \cup {x} : f[y] \in Int /\ g[y] \in Int /\ h[y] \in Int
      BY FS_Subset
    <2>2. SumFunctionOnSet(f, T \cup {x}) = f[x] + SumFunctionOnSet(f, T)
      BY <1>2, <2>1, SumWith
    <2>3. SumFunctionOnSet(g, T \cup {x}) = g[x] + SumFunctionOnSet(g, T)
      BY <1>2, <2>1, SumWith
    <2>4. SumFunctionOnSet(h, T \cup {x}) = h[x] + SumFunctionOnSet(h, T)
      BY <1>2, <2>1, SumWith
    <2>5. SumFunctionOnSet(f, T) \in Int /\ SumFunctionOnSet(g, T) \in Int
      BY <2>1, SumType
    <2> QED BY <1>2, <2>1, <2>2, <2>3, <2>4, <2>5
  <1> HIDE DEF F
  <1>3. S \in F
    BY <1>1, <1>2, SetInduction
  <1> QED BY <1>3 DEF F

\* The sum over two disjoint sets is the sum of the sums.
LEMMA SumUnion ==
  ASSUME NEW f, NEW S, IsFiniteSet(S), NEW T, IsFiniteSet(T), S \cap T = {},
         \A x \in S \cup T : f[x] \in Int
  PROVE  SumFunctionOnSet(f, S \cup T) = SumFunctionOnSet(f, S) + SumFunctionOnSet(f, T)
  <1> DEFINE F == {U \in SUBSET T : SumFunctionOnSet(f, S \cup U)
                                      = SumFunctionOnSet(f, S) + SumFunctionOnSet(f, U)}
  <1>0. SumFunctionOnSet(f, S) \in Int
    BY SumType
  <1>1. {} \in F
    BY <1>0, SumEmpty, S \cup {} = S
  <1>2. ASSUME NEW U \in SUBSET T, NEW x \in T \ U, U \in F PROVE U \cup {x} \in F
    <2>1. IsFiniteSet(U) /\ IsFiniteSet(S \cup U) /\ x \notin S \cup U /\ x \notin U
      BY FS_Subset, FS_Union
    <2>2. SumFunctionOnSet(f, U \cup {x}) = f[x] + SumFunctionOnSet(f, U)
      BY <2>1, SumWith
    <2>3. SumFunctionOnSet(f, (S \cup U) \cup {x}) = f[x] + SumFunctionOnSet(f, S \cup U)
      BY <2>1, SumWith
    <2>4. SumFunctionOnSet(f, S \cup (U \cup {x})) = f[x] + SumFunctionOnSet(f, S \cup U)
      <3>1. S \cup (U \cup {x}) = (S \cup U) \cup {x}
        OBVIOUS
      <3> QED BY <2>3, <3>1, Zenon
    <2>5. SumFunctionOnSet(f, U) \in Int /\ f[x] \in Int
      BY <2>1, SumType
    <2>6. SumFunctionOnSet(f, S \cup U) = SumFunctionOnSet(f, S) + SumFunctionOnSet(f, U)
      BY <1>2
    <2>7. SumFunctionOnSet(f, S \cup (U \cup {x})) = SumFunctionOnSet(f, S) + SumFunctionOnSet(f, U \cup {x})
      <3> HIDE DEF F
      <3> QED BY <1>0, <2>2, <2>4, <2>5, <2>6
    <2> QED BY <2>7
  <1> HIDE DEF F
  <1>3. T \in F
    BY <1>1, <1>2, SetInduction
  <1> QED BY <1>3 DEF F

\* What is summed up over a part is no more than over the whole, if nothing is negative.
LEMMA SumOfPart ==
  ASSUME NEW f, NEW S, IsFiniteSet(S), NEW T \in SUBSET S, \A x \in S : f[x] \in Nat
  PROVE  SumFunctionOnSet(f, T) \in Nat /\ SumFunctionOnSet(f, S) \in Nat
         /\ SumFunctionOnSet(f, T) <= SumFunctionOnSet(f, S)
  <1>1. IsFiniteSet(T) /\ IsFiniteSet(S \ T) /\ T \cup (S \ T) = S /\ T \cap (S \ T) = {}
    BY FS_Subset
  <1>2. SumFunctionOnSet(f, T) \in Nat /\ SumFunctionOnSet(f, S \ T) \in Nat
    BY <1>1, SumType
  <1>3. SumFunctionOnSet(f, S) = SumFunctionOnSet(f, T) + SumFunctionOnSet(f, S \ T)
    BY <1>1, SumUnion
  <1> QED BY <1>2, <1>3

\* A sum over the first numbers, one more of them.
LEMMA SumUpToNext ==
  ASSUME NEW f, NEW k \in Nat, \A i \in 1..k+1 : f[i] \in Int
  PROVE  SumFunctionOnSet(f, 1..k+1) = f[k + 1] + SumFunctionOnSet(f, 1..k)
  <1>1. 1..k+1 = (1..k) \cup {k + 1} /\ k + 1 \notin 1..k
    OBVIOUS
  <1>2. IsFiniteSet(1..k)
    BY FS_Interval
  <1>3. \A i \in (1..k) \cup {k + 1} : f[i] \in Int
    BY <1>1
  <1> QED BY <1>1, <1>2, <1>3, SumWith
=================================================================================
