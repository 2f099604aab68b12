---------------------------- MODULE SumTheorems ----------------------------
(***************************************************************************)
(* Lemmas about finite sums (SumFunctionOnSet of the community modules)    *)
(* and the two inductions they rest on, stated for a set instead of a      *)
(* predicate: a library theorem with an operator for a parameter cannot be *)
(* used here.                                                              *)
(***************************************************************************)
EXTENDS Integers, FiniteSetsExt, FiniteSetTheorems, TLAPS

-----------------------------------------------------------------------------
(***************************************************************************)
(* Induction.                                                              *)
(***************************************************************************)
\* Induction over the naturals, as a fact about a set of them.
LEMMA SetInduction ==
    ASSUME NEW T, 0 \in T, \A n \in Nat : n \in T => n + 1 \in T
    PROVE  Nat \subseteq T
  <1>. DEFINE rest == Nat \ T
  <1>. SUFFICES ASSUME rest # {} PROVE FALSE
    OBVIOUS
  <1>1. PICK x \in rest : \A y \in rest : ~ (<<y, x>> \in OpToRel(<, Nat))
    <2>. HIDE DEF rest
    <2>1. rest \subseteq Nat
      BY DEF rest
    <2>. QED
      BY <2>1, WFMin, NatLessThanWellFounded
  <1>2. x \in Nat /\ x # 0
    OBVIOUS
  <1>3. x - 1 \in Nat /\ x - 1 < x
    BY <1>2
  <1>4. <<x - 1, x>> \in OpToRel(<, Nat)
    BY <1>2, <1>3 DEF OpToRel
  <1>5. x - 1 \in T
    BY <1>1, <1>3, <1>4
  <1>. QED
    BY <1>2, <1>3, <1>5

\* Taking an element from a finite set leaves a smaller one.
LEMMA Smaller ==
    ASSUME NEW s, IsFiniteSet(s), NEW x \in s
    PROVE  /\ IsFiniteSet(s \ {x})
           /\ Cardinality(s) \in Nat \ {0}
           /\ Cardinality(s \ {x}) = Cardinality(s) - 1
  <1>1. IsFiniteSet(s \ {x}) /\ Cardinality(s \ {x}) = Cardinality(s) - 1
    BY FS_RemoveElement
  <1>2. Cardinality(s) \in Nat /\ Cardinality(s) # 0
    BY FS_CardinalityType, FS_EmptySet
  <1>. QED
    BY <1>1, <1>2

\* Induction over the subsets of a finite set.
LEMMA FiniteInduction ==
    ASSUME NEW S, IsFiniteSet(S), NEW P, {} \in P,
           \A s \in SUBSET S : s # {} /\ (\A x \in s : s \ {x} \in P) => s \in P
    PROVE  SUBSET S \subseteq P
  <1>. DEFINE T == {n \in Nat : \A s \in SUBSET S : Cardinality(s) = n => s \in P}
  <1>1. \A s \in SUBSET S : IsFiniteSet(s) /\ Cardinality(s) \in Nat
    BY FS_Subset, FS_CardinalityType
  <1>2. 0 \in T
    <2>1. ASSUME NEW s \in SUBSET S, Cardinality(s) = 0 PROVE s \in P
      BY <1>1, <2>1, FS_EmptySet
    <2>. QED
      BY <2>1
  <1>3. ASSUME NEW n \in Nat, n \in T PROVE n + 1 \in T
    <2>1. ASSUME NEW s \in SUBSET S, Cardinality(s) = n + 1 PROVE s \in P
      <3>1. s # {}
        BY <2>1, FS_EmptySet
      <3>2. \A x \in s : s \ {x} \in P
        BY <1>1, <1>3, <2>1, Smaller
      <3>. QED
        BY <3>1, <3>2
    <2>. QED
      BY <2>1
  <1>4. Nat \subseteq T
    <2>. HIDE DEF T
    <2>. QED
      BY <1>2, <1>3, SetInduction
  <1>. QED
    BY <1>1, <1>4

-----------------------------------------------------------------------------
(***************************************************************************)
(* Sums.                                                                   *)
(***************************************************************************)
\* The element a sum takes first.
First(s) == CHOOSE x \in s : TRUE

\* The recursion of a sum over S, as an equation of a function.
Iterates(it, f, S) ==
    it = [s \in SUBSET S |-> IF s = {} THEN 0 ELSE f[First(s)] + it[s \ {First(s)}]]

\* A sum is a value of a function that satisfies it, if there is one.
LEMMA SumUnfolded ==
    ASSUME NEW f, NEW S
    PROVE  SumFunctionOnSet(f, S) = (CHOOSE it : Iterates(it, f, S))[S]
  BY DEF SumFunctionOnSet, FoldFunctionOnSet, MapThenFoldSet, Iterates, First

\* First takes an element of the set.
LEMMA FirstIn == ASSUME NEW s, s # {} PROVE First(s) \in s
  BY DEF First

\* Over a finite set there is such a function.
LEMMA IterationExists ==
    ASSUME NEW f, NEW S, IsFiniteSet(S)
    PROVE  \E it : Iterates(it, f, S)
  <1>. DEFINE Value(g, s) == IF s = {} THEN 0 ELSE f[First(s)] + g[s \ {First(s)}]
              Upto(n) == {s \in SUBSET S : Cardinality(s) <= n}
              Good(g, n) == \A s \in Upto(n) : g[s] = Value(g, s)
              T == {n \in Nat : \E g : Good(g, n)}
  <1>1. \A s \in SUBSET S : IsFiniteSet(s) /\ Cardinality(s) \in Nat
    BY FS_Subset, FS_CardinalityType
  <1>2. 0 \in T
    <2>1. \A s \in Upto(0) : s = {}
      BY <1>1, FS_EmptySet
    <2>2. Good([s \in SUBSET S |-> 0], 0)
      BY <2>1
    <2>. QED
      BY <2>2
  <1>3. ASSUME NEW n \in Nat, n \in T PROVE n + 1 \in T
    <2>1. PICK g : Good(g, n)
      BY <1>3
    <2>. DEFINE h == [s \in SUBSET S |-> IF s \in Upto(n) THEN g[s] ELSE Value(g, s)]
    <2>2. \A s \in SUBSET S : s # {} /\ s \in Upto(n + 1) =>
             s \ {First(s)} \in Upto(n)
      BY <1>1, Smaller, FirstIn
    <2>3. ASSUME NEW s \in Upto(n + 1) PROVE h[s] = Value(h, s)
      <3>1. h[s] = Value(g, s)
        BY <2>1
      <3>2. s # {} => h[s \ {First(s)}] = g[s \ {First(s)}]
        BY <2>2
      <3>. QED
        BY <3>1, <3>2
    <2>4. Good(h, n + 1)
      BY <2>3
    <2>. HIDE DEF h, Good
    <2>. QED
      BY <2>4
  <1>4. Cardinality(S) \in T
    <2>. HIDE DEF T
    <2>. QED
      BY <1>1, <1>2, <1>3, SetInduction
  <1>5. PICK g : Good(g, Cardinality(S))
    BY <1>4
  <1>6. \A s \in SUBSET S : g[s] = Value(g, s)
    BY <1>1, <1>5, FS_Subset
  <1>. DEFINE it == [s \in SUBSET S |-> g[s]]
  <1>7. \A s \in SUBSET S : s \ {First(s)} \in SUBSET S
    OBVIOUS
  <1>8. \A s \in SUBSET S : it[s] = Value(it, s)
    BY <1>6, <1>7
  <1>9. Iterates(it, f, S)
    <2>1. it = [s \in SUBSET S |-> it[s]]
      OBVIOUS
    <2>. HIDE DEF it
    <2>. QED
      BY <1>8, <2>1 DEF Iterates
  <1>. QED
    BY <1>9

\* The recursion of a sum over a finite set, which it satisfies on every subset.
LEMMA SumLoop ==
    ASSUME NEW f, NEW S, IsFiniteSet(S)
    PROVE  \E it :
             /\ SumFunctionOnSet(f, S) = it[S]
             /\ it[{}] = 0
             /\ \A s \in SUBSET S : s # {} => it[s] = f[First(s)] + it[s \ {First(s)}]
  <1>. DEFINE it == CHOOSE it : Iterates(it, f, S)
  <1>1. Iterates(it, f, S)
    BY IterationExists
  <1>2. SumFunctionOnSet(f, S) = it[S]
    BY SumUnfolded
  <1>. HIDE DEF it
  <1>3. it[{}] = 0 /\ \A s \in SUBSET S : s # {} => it[s] = f[First(s)] + it[s \ {First(s)}]
    BY <1>1 DEF Iterates
  <1>. QED
    BY <1>2, <1>3

\* The same, with a name for the equations.
SumsUp(it, f, S) ==
    it[{}] = 0 /\ \A s \in SUBSET S : s # {} => it[s] = f[First(s)] + it[s \ {First(s)}]

\* The sum by a loop, with its recursion named.
LEMMA SumLoopNamed ==
    ASSUME NEW f, NEW S, IsFiniteSet(S)
    PROVE  \E it : SumFunctionOnSet(f, S) = it[S] /\ SumsUp(it, f, S)
  <1>. DEFINE it == CHOOSE it : Iterates(it, f, S)
  <1>1. Iterates(it, f, S)
    BY IterationExists
  <1>2. SumFunctionOnSet(f, S) = it[S]
    BY SumUnfolded
  <1>. HIDE DEF it
  <1>3. SumsUp(it, f, S)
    BY <1>1 DEF Iterates, SumsUp
  <1>. QED
    BY <1>2, <1>3

\* A sum over nothing.
LEMMA SumEmpty == ASSUME NEW f PROVE SumFunctionOnSet(f, {}) = 0
  BY SumLoop, FS_EmptySet

\* A sum takes its first element, then the sum of the others.
LEMMA SumFirst ==
    ASSUME NEW f, NEW S, IsFiniteSet(S), S # {}
    PROVE  SumFunctionOnSet(f, S) = f[First(S)] + SumFunctionOnSet(f, S \ {First(S)})
  <1>1. PICK R : R = S \ {First(S)} /\ IsFiniteSet(R) /\ R \subseteq S
    BY FS_Subset
  <1>2. PICK a : /\ SumFunctionOnSet(f, S) = a[S]
                 /\ a[{}] = 0
                 /\ \A s \in SUBSET S : s # {} => a[s] = f[First(s)] + a[s \ {First(s)}]
    BY SumLoop
  <1>3. PICK b : /\ SumFunctionOnSet(f, R) = b[R]
                 /\ b[{}] = 0
                 /\ \A s \in SUBSET R : s # {} => b[s] = f[First(s)] + b[s \ {First(s)}]
    <2>1. IsFiniteSet(R)
      BY <1>1
    <2>. QED
      BY <2>1, SumLoop
  <1>. DEFINE P == {s \in SUBSET R : a[s] = b[s]}
  <1>4. a[R] = b[R]
    <2>1. {} \in P
      BY <1>2, <1>3
    <2>2. ASSUME NEW s \in SUBSET R, s # {}, \A x \in s : s \ {x} \in P
          PROVE  s \in P
      BY <1>1, <1>2, <1>3, <2>2, FirstIn
    <2>3. SUBSET R \subseteq P
      <3>1. IsFiniteSet(R)
        BY <1>1
      <3>. HIDE DEF P
      <3>. QED
        BY <3>1, <2>1, <2>2, FiniteInduction
    <2>. QED
      BY <2>3
  <1>. QED
    BY <1>1, <1>2, <1>3, <1>4

-----------------------------------------------------------------------------
\* A sum of integers is an integer, and one of naturals a natural.
LEMMA SumType ==
    ASSUME NEW f, NEW S, IsFiniteSet(S), NEW N \in {Nat, Int}, \A x \in S : f[x] \in N
    PROVE  \A s \in SUBSET S : SumFunctionOnSet(f, s) \in N
  <1>. DEFINE P == {s \in SUBSET S : SumFunctionOnSet(f, s) \in N}
  <1>1. {} \in P
    BY SumEmpty
  <1>2. ASSUME NEW s \in SUBSET S, s # {}, \A x \in s : s \ {x} \in P
        PROVE  s \in P
    <2>1. First(s) \in s
      BY <1>2, FirstIn
    <2>2. f[First(s)] \in N /\ SumFunctionOnSet(f, s \ {First(s)}) \in N
      BY <1>2, <2>1
    <2>3. SumFunctionOnSet(f, s) = f[First(s)] + SumFunctionOnSet(f, s \ {First(s)})
      BY <1>2, SumFirst, FS_Subset
    <2>4. SumFunctionOnSet(f, s) \in N
      BY <2>2, <2>3
    <2>. QED
      BY <2>4
  <1>3. SUBSET S \subseteq P
    <2>. HIDE DEF P
    <2>. QED
      BY <1>1, <1>2, FiniteInduction
  <1>. QED
    BY <1>3

\* A sum of integers may take any of its elements out.
LEMMA SumRemove ==
    ASSUME NEW f, NEW S, IsFiniteSet(S), \A x \in S : f[x] \in Int, NEW x \in S
    PROVE  SumFunctionOnSet(f, S) = f[x] + SumFunctionOnSet(f, S \ {x})
  <1>. DEFINE Sum(s) == SumFunctionOnSet(f, s)
              P == {s \in SUBSET S : \A y \in s : Sum(s) = f[y] + Sum(s \ {y})}
  <1>1. \A s \in SUBSET S : Sum(s) \in Int
    BY SumType
  <1>2. {} \in P
    OBVIOUS
  <1>3. ASSUME NEW s \in SUBSET S, s # {}, \A y \in s : s \ {y} \in P
        PROVE  s \in P
    <2>1. PICK p \in s : Sum(s) = f[p] + Sum(s \ {p})
      BY <1>3, FirstIn, SumFirst, FS_Subset
    <2>2. ASSUME NEW y \in s, y # p PROVE Sum(s) = f[y] + Sum(s \ {y})
      <3>1. Sum(s \ {p}) = f[y] + Sum((s \ {p}) \ {y})
        BY <1>3, <2>2
      <3>2. Sum(s \ {y}) = f[p] + Sum((s \ {y}) \ {p})
        BY <1>3, <2>2
      <3>3. (s \ {p}) \ {y} = (s \ {y}) \ {p}
        OBVIOUS
      <3>4. (s \ {y}) \ {p} \in SUBSET S /\ s \in SUBSET S
        OBVIOUS
      <3>5. Sum((s \ {y}) \ {p}) \in Int /\ Sum(s) \in Int /\ f[p] \in Int /\ f[y] \in Int
        BY <1>1, <3>4
      <3>6. \A a, b, c \in Int : a + (b + c) = b + (a + c)
        OBVIOUS
      <3>. HIDE DEF Sum
      <3>7. Sum(s) = f[p] + (f[y] + Sum((s \ {y}) \ {p}))
        BY <2>1, <3>1, <3>3, Zenon
      <3>8. f[p] + (f[y] + Sum((s \ {y}) \ {p})) = f[y] + (f[p] + Sum((s \ {y}) \ {p}))
        BY <3>5, <3>6, Zenon
      <3>. QED
        BY <3>2, <3>7, <3>8, Zenon
    <2>. QED
      BY <2>1, <2>2
  <1>4. S \in P
    <2>. HIDE DEF P
    <2>. QED
      BY <1>2, <1>3, FiniteInduction
  <1>. QED
    BY <1>4

\* A sum of nothing but zeros.
LEMMA SumOfZeros ==
    ASSUME NEW f, NEW S, IsFiniteSet(S), \A x \in S : f[x] = 0
    PROVE  \A s \in SUBSET S : SumFunctionOnSet(f, s) = 0
  <1>. DEFINE P == {s \in SUBSET S : SumFunctionOnSet(f, s) = 0}
  <1>1. {} \in P
    BY SumEmpty
  <1>2. ASSUME NEW s \in SUBSET S, s # {}, \A x \in s : s \ {x} \in P
        PROVE  s \in P
    <2>1. First(s) \in s
      BY <1>2, FirstIn
    <2>2. f[First(s)] = 0 /\ SumFunctionOnSet(f, s \ {First(s)}) = 0
      BY <1>2, <2>1
    <2>3. SumFunctionOnSet(f, s) = f[First(s)] + SumFunctionOnSet(f, s \ {First(s)})
      BY <1>2, SumFirst, FS_Subset
    <2>. QED
      BY <2>2, <2>3
  <1>3. SUBSET S \subseteq P
    <2>. HIDE DEF P
    <2>. QED
      BY <1>1, <1>2, FiniteInduction
  <1>. QED
    BY <1>3

\* A sum depends on the values of the elements it takes, and on nothing else.
LEMMA SumSame ==
    ASSUME NEW f, NEW g, NEW S, IsFiniteSet(S), \A x \in S : f[x] = g[x]
    PROVE  SumFunctionOnSet(f, S) = SumFunctionOnSet(g, S)
  <1>. DEFINE P == {s \in SUBSET S : SumFunctionOnSet(f, s) = SumFunctionOnSet(g, s)}
  <1>1. {} \in P
    BY SumEmpty
  <1>2. ASSUME NEW s \in SUBSET S, s # {}, \A x \in s : s \ {x} \in P
        PROVE  s \in P
    <2>1. /\ SumFunctionOnSet(f, s) = f[First(s)] + SumFunctionOnSet(f, s \ {First(s)})
          /\ SumFunctionOnSet(g, s) = g[First(s)] + SumFunctionOnSet(g, s \ {First(s)})
      BY <1>2, SumFirst, FS_Subset
    <2>. QED
      BY <1>2, <2>1, FirstIn
  <1>3. SUBSET S \subseteq P
    <2>. HIDE DEF P
    <2>. QED
      BY <1>1, <1>2, FiniteInduction
  <1>. QED
    BY <1>3

\* Changing one value changes a sum by as much.
LEMMA SumChange ==
    ASSUME NEW f, NEW g, NEW S, IsFiniteSet(S), NEW k \in S,
           \A x \in S : f[x] \in Int /\ g[x] \in Int,
           \A x \in S : x # k => g[x] = f[x]
    PROVE  SumFunctionOnSet(g, S) = SumFunctionOnSet(f, S) - f[k] + g[k]
  <1>1. PICK R : R = S \ {k} /\ IsFiniteSet(R) /\ R \subseteq S
    BY FS_Subset
  <1>2. SumFunctionOnSet(f, S) = f[k] + SumFunctionOnSet(f, R)
    BY <1>1, SumRemove
  <1>3. SumFunctionOnSet(g, S) = g[k] + SumFunctionOnSet(g, R)
    BY <1>1, SumRemove
  <1>4. SumFunctionOnSet(g, R) = SumFunctionOnSet(f, R)
    <2>1. IsFiniteSet(R) /\ \A x \in R : g[x] = f[x]
      BY <1>1
    <2>. QED
      BY <2>1, SumSame
  <1>5. SumFunctionOnSet(f, R) \in Int
    BY <1>1, SumType
  <1>. QED
    BY <1>2, <1>3, <1>4, <1>5

\* A sum over two sets with nothing in common.
LEMMA SumUnion ==
    ASSUME NEW f, NEW S, NEW R, IsFiniteSet(S), IsFiniteSet(R), S \cap R = {},
           \A x \in S \cup R : f[x] \in Int
    PROVE  SumFunctionOnSet(f, S \cup R) = SumFunctionOnSet(f, S) + SumFunctionOnSet(f, R)
  <1>. DEFINE Sum(s) == SumFunctionOnSet(f, s)
              P == {s \in SUBSET S : Sum(s \cup R) = Sum(s) + Sum(R)}
  <1>0. IsFiniteSet(S \cup R)
    BY FS_Union
  <1>1. \A s \in SUBSET (S \cup R) : Sum(s) \in Int
    BY <1>0, SumType
  <1>2. {} \in P
    BY <1>1, SumEmpty
  <1>3. ASSUME NEW s \in SUBSET S, s # {}, \A x \in s : s \ {x} \in P
        PROVE  s \in P
    <2>1. PICK x : x \in s
      BY <1>3
    <2>2. IsFiniteSet(s) /\ IsFiniteSet(s \cup R)
      BY <1>0, FS_Subset
    <2>3. Sum(s) = f[x] + Sum(s \ {x})
      BY <2>1, <2>2, SumRemove
    <2>4. Sum(s \cup R) = f[x] + Sum((s \cup R) \ {x})
      <3>1. x \in s \cup R /\ \A y \in s \cup R : f[y] \in Int
        BY <2>1
      <3>. QED
        BY <2>2, <3>1, SumRemove
    <2>5. (s \cup R) \ {x} = (s \ {x}) \cup R
      BY <2>1
    <2>6. Sum((s \ {x}) \cup R) = Sum(s \ {x}) + Sum(R)
      BY <1>3, <2>1
    <2>7. f[x] \in Int /\ Sum(s \ {x}) \in Int /\ Sum(R) \in Int
      <3>1. s \ {x} \in SUBSET (S \cup R) /\ R \in SUBSET (S \cup R)
        OBVIOUS
      <3>. QED
        BY <1>1, <2>1, <3>1
    <2>8. Sum(s \cup R) = Sum(s) + Sum(R)
      <3>1. \A a, b, c \in Int : a + (b + c) = (a + b) + c
        OBVIOUS
      <3>. HIDE DEF Sum
      <3>2. Sum(s \cup R) = f[x] + (Sum(s \ {x}) + Sum(R))
        BY <2>4, <2>5, <2>6, Zenon
      <3>3. f[x] + (Sum(s \ {x}) + Sum(R)) = (f[x] + Sum(s \ {x})) + Sum(R)
        BY <2>7, <3>1, Zenon
      <3>. QED
        BY <2>3, <3>2, <3>3, Zenon
    <2>. QED
      BY <2>8
  <1>4. S \in P
    <2>. HIDE DEF P
    <2>. QED
      BY <1>2, <1>3, FiniteInduction
  <1>. QED
    BY <1>4

\* A sum of ones counts.
LEMMA SumOfOnes ==
    ASSUME NEW f, NEW S, IsFiniteSet(S), \A x \in S : f[x] = 1
    PROVE  SumFunctionOnSet(f, S) = Cardinality(S)
  <1>. DEFINE P == {s \in SUBSET S : SumFunctionOnSet(f, s) = Cardinality(s)}
  <1>1. {} \in P
    BY SumEmpty, FS_EmptySet
  <1>2. ASSUME NEW s \in SUBSET S, s # {}, \A x \in s : s \ {x} \in P
        PROVE  s \in P
    <2>1. IsFiniteSet(s) /\ First(s) \in s
      BY <1>2, FirstIn, FS_Subset
    <2>2. f[First(s)] = 1 /\ SumFunctionOnSet(f, s \ {First(s)}) = Cardinality(s \ {First(s)})
      BY <1>2, <2>1
    <2>3. SumFunctionOnSet(f, s) = f[First(s)] + SumFunctionOnSet(f, s \ {First(s)})
      BY <1>2, <2>1, SumFirst
    <2>4. Cardinality(s) \in Nat \ {0} /\ Cardinality(s \ {First(s)}) = Cardinality(s) - 1
      BY <2>1, Smaller
    <2>. QED
      BY <2>2, <2>3, <2>4
  <1>3. SUBSET S \subseteq P
    <2>. HIDE DEF P
    <2>. QED
      BY <1>1, <1>2, FiniteInduction
  <1>. QED
    BY <1>3

\* The image of a finite set is finite.
LEMMA FiniteImage ==
    ASSUME NEW h, NEW S, IsFiniteSet(S)
    PROVE  IsFiniteSet({h[x] : x \in S})
  <1>. DEFINE T == {h[x] : x \in S}
              m == [x \in S |-> h[x]]
  <1>1. m \in Surjection(S, T)
    BY DEF Surjection
  <1>. HIDE DEF m, T
  <1>2. IsFiniteSet(T)
    BY <1>1, FS_Surjection
  <1>. QED
    BY <1>2 DEF T

\* A sum over an image is the sum over what it is the image of.
LEMMA SumImage ==
    ASSUME NEW f, NEW g, NEW S, IsFiniteSet(S), NEW T, NEW h \in Bijection(S, T),
           \A x \in S : g[h[x]] \in Int /\ f[x] = g[h[x]]
    PROVE  SumFunctionOnSet(g, T) = SumFunctionOnSet(f, S)
  <1>. DEFINE Image(s) == {h[x] : x \in s}
              P == {s \in SUBSET S : SumFunctionOnSet(g, Image(s)) = SumFunctionOnSet(f, s)}
  <1>0. /\ \A x, y \in S : h[x] = h[y] => x = y
        /\ Image(S) = T
    BY DEF Bijection, Injection, Surjection, IsInjective
  <1>1. {} \in P
    BY SumEmpty
  <1>2. ASSUME NEW s \in SUBSET S, s # {}, \A x \in s : s \ {x} \in P
        PROVE  s \in P
    <2>1. PICK x : x \in s /\ x = First(s)
      BY <1>2, FirstIn
    <2>2. SumFunctionOnSet(f, s) = f[x] + SumFunctionOnSet(f, s \ {x})
      BY <1>2, <2>1, SumFirst, FS_Subset
    <2>3. IsFiniteSet(Image(s))
      BY FiniteImage, FS_Subset
    <2>4. h[x] \in Image(s) /\ \A y \in Image(s) : g[y] \in Int
      BY <2>1
    <2>5. SumFunctionOnSet(g, Image(s)) = g[h[x]] + SumFunctionOnSet(g, Image(s) \ {h[x]})
      <3>. HIDE DEF Image
      <3>. QED
        BY <2>3, <2>4, SumRemove
    <2>6. Image(s) \ {h[x]} = Image(s \ {x})
      BY <1>0, <2>1
    <2>7. SumFunctionOnSet(g, Image(s \ {x})) = SumFunctionOnSet(f, s \ {x})
      BY <1>2, <2>1
    <2>8. SumFunctionOnSet(g, Image(s)) = SumFunctionOnSet(f, s)
      <3>1. f[x] = g[h[x]]
        BY <2>1
      <3>. HIDE DEF Image
      <3>. QED
        BY <2>2, <2>5, <2>6, <2>7, <3>1, Zenon
    <2>. QED
      BY <2>8
  <1>3. SUBSET S \subseteq P
    <2>. HIDE DEF P
    <2>. QED
      BY <1>1, <1>2, FiniteInduction
  <1>5. SumFunctionOnSet(g, Image(S)) = SumFunctionOnSet(f, S)
    BY <1>3
  <1>. HIDE DEF Image
  <1>. QED
    BY <1>0, <1>5

-----------------------------------------------------------------------------
(***************************************************************************)
(* Sums of cardinalities.                                                  *)
(***************************************************************************)
\* A union holds no more than its members together, and as much if they are
\* disjoint.
LEMMA UnionCount ==
    ASSUME NEW f, NEW K, NEW S, IsFiniteSet(S),
           \A x \in S : IsFiniteSet(K[x]) /\ f[x] = Cardinality(K[x]),
           NEW U, \A k : k \in U <=> \E x \in S : k \in K[x]
    PROVE  /\ IsFiniteSet(U)
           /\ Cardinality(U) <= SumFunctionOnSet(f, S)
           /\ (\A x, y \in S : x # y => K[x] \cap K[y] = {})
                  => Cardinality(U) = SumFunctionOnSet(f, S)
  <1>. DEFINE Union(s) == UNION {K[x] : x \in s}
              Apart == \A x, y \in S : x # y => K[x] \cap K[y] = {}
              Bound(s) == /\ IsFiniteSet(Union(s))
                          /\ Cardinality(Union(s)) <= SumFunctionOnSet(f, s)
                          /\ Apart => Cardinality(Union(s)) = SumFunctionOnSet(f, s)
              P == {s \in SUBSET S : Bound(s)}
  <1>1. {} \in P
    <2>1. Union({}) = {}
      OBVIOUS
    <2>. HIDE DEF Union, Apart
    <2>2. Bound({})
      BY <2>1, SumEmpty, FS_EmptySet
    <2>. QED
      BY <2>2
  <1>2. ASSUME NEW s \in SUBSET S, s # {}, \A x \in s : s \ {x} \in P
        PROVE  s \in P
    <2>1. PICK x : x \in s /\ x = First(s)
      BY <1>2, FirstIn
    <2>2. PICK r : r = s \ {x}
      OBVIOUS
    <2>3. SumFunctionOnSet(f, s) = f[x] + SumFunctionOnSet(f, r)
      BY <1>2, <2>1, <2>2, SumFirst, FS_Subset
    <2>4. Bound(r)
      BY <1>2, <2>1, <2>2
    <2>5. Union(s) = K[x] \cup Union(r)
      BY <2>1, <2>2
    <2>6. IsFiniteSet(K[x]) /\ Cardinality(K[x]) \in Nat /\ f[x] = Cardinality(K[x])
      BY <2>1, FS_CardinalityType
    <2>7. Apart => K[x] \cap Union(r) = {}
      BY <2>1, <2>2
    <2>8. PICK u : u = Union(r)
      OBVIOUS
    <2>9. PICK both : both = K[x] \cap u
      OBVIOUS
    <2>10. IsFiniteSet(u) /\ Cardinality(u) \in Nat
      BY <2>4, <2>8, FS_CardinalityType
    <2>11. IsFiniteSet(both) /\ Cardinality(both) \in Nat
      <3>1. both \subseteq u
        BY <2>9
      <3>. QED
        BY <2>10, <3>1, FS_Subset, FS_CardinalityType
    <2>12. /\ IsFiniteSet(K[x] \cup u)
           /\ Cardinality(K[x] \cup u) = Cardinality(K[x]) + Cardinality(u) - Cardinality(both)
      BY <2>6, <2>9, <2>10, FS_Union
    <2>13. Apart => Cardinality(both) = 0
      BY <2>7, <2>8, <2>9, FS_EmptySet
    <2>14. SumFunctionOnSet(f, r) \in Int
      <3>1. \A y \in S : f[y] \in Int
        BY FS_CardinalityType
      <3>. QED
        BY <2>2, <3>1, SumType
    <2>15. /\ Cardinality(u) <= SumFunctionOnSet(f, r)
           /\ Apart => Cardinality(u) = SumFunctionOnSet(f, r)
      BY <2>4, <2>8
    <2>16. Union(s) = K[x] \cup u
      BY <2>5, <2>8
    <2>17. Bound(s)
      <3>. HIDE DEF Apart, Union
      <3>1. IsFiniteSet(Union(s))
        BY <2>12, <2>16
      <3>2. Cardinality(Union(s)) = f[x] + Cardinality(u) - Cardinality(both)
        BY <2>6, <2>12, <2>16
      <3>3. f[x] \in Nat
        BY <2>6
      <3>4. Cardinality(Union(s)) <= SumFunctionOnSet(f, s)
        BY <2>3, <2>10, <2>11, <2>14, <2>15, <3>2, <3>3
      <3>5. Apart => Cardinality(Union(s)) = SumFunctionOnSet(f, s)
        BY <2>3, <2>10, <2>13, <2>14, <2>15, <3>2, <3>3
      <3>. QED
        BY <3>1, <3>4, <3>5
    <2>. QED
      BY <2>17
  <1>3. S \in P
    <2>. HIDE DEF P
    <2>. QED
      BY <1>1, <1>2, FiniteInduction
  <1>4. Union(S) = U
    OBVIOUS
  <1>. HIDE DEF Union
  <1>. QED
    BY <1>3, <1>4

-----------------------------------------------------------------------------
(***************************************************************************)
(* LeastAndGreatest.                                                               *)
(***************************************************************************)
\* A finite set of integers has a greatest and a least element.
LEMMA LeastAndGreatest ==
    ASSUME NEW S, IsFiniteSet(S), S \subseteq Int, S # {}
    PROVE  /\ Max(S) \in S /\ \A y \in S : y <= Max(S)
           /\ Min(S) \in S /\ \A y \in S : Min(S) <= y
  <1>. DEFINE Bounded(s) == s # {} => /\ \E x \in s : \A y \in s : y <= x
                                      /\ \E x \in s : \A y \in s : x <= y
              P == {s \in SUBSET S : Bounded(s)}
  <1>1. {} \in P
    OBVIOUS
  <1>2. ASSUME NEW s \in SUBSET S, s # {}, \A x \in s : s \ {x} \in P
        PROVE  s \in P
    <2>1. PICK x \in s : TRUE
      BY <1>2
    <2>2. Bounded(s \ {x})
      BY <1>2, <2>1
    <2>3. CASE s \ {x} = {}
      <3>1. s = {x} /\ x \in Int
        BY <2>1, <2>3
      <3>. QED
        BY <3>1
    <2>4. CASE s \ {x} # {}
      <3>1. PICK a \in s \ {x}, b \in s \ {x} :
                (\A y \in s \ {x} : y <= a) /\ (\A y \in s \ {x} : b <= y)
        BY <2>2, <2>4
      <3>2. x \in Int /\ a \in Int /\ b \in Int /\ \A y \in s : y \in Int /\ (y # x => y \in s \ {x})
        OBVIOUS
      <3>3. \E g \in s : \A y \in s : y <= g
        <4>1. CASE a <= x
          <5>1. \A y \in s : y <= x
            BY <3>1, <3>2, <4>1
          <5>. QED
            BY <5>1
        <4>2. CASE x <= a
          <5>1. \A y \in s : y <= a
            BY <3>1, <3>2, <4>2
          <5>. QED
            BY <5>1
        <4>. QED
          BY <3>2, <4>1, <4>2
      <3>4. \E g \in s : \A y \in s : g <= y
        <4>1. CASE x <= b
          <5>1. \A y \in s : x <= y
            BY <3>1, <3>2, <4>1
          <5>. QED
            BY <5>1
        <4>2. CASE b <= x
          <5>1. \A y \in s : b <= y
            BY <3>1, <3>2, <4>2
          <5>. QED
            BY <5>1
        <4>. QED
          BY <3>2, <4>1, <4>2
      <3>. QED
        BY <3>3, <3>4
    <2>. QED
      BY <2>3, <2>4
  <1>3. S \in P
    <2>. HIDE DEF P
    <2>. QED
      BY <1>1, <1>2, FiniteInduction
  <1>4. PICK a \in S, b \in S : (\A y \in S : y <= a) /\ (\A y \in S : b <= y)
    BY <1>3
  <1>5. Max(S) \in S /\ \A y \in S : Max(S) >= y
    <2>1. \A y \in S : a >= y
      BY <1>4
    <2>. QED
      BY <2>1 DEF Max
  <1>6. Min(S) \in S /\ \A y \in S : Min(S) <= y
    BY <1>4 DEF Min
  <1>. QED
    BY <1>5, <1>6

-----------------------------------------------------------------------------
(***************************************************************************)
(* Recursion over a sequence's positions.                                  *)
(***************************************************************************)
\* g takes the base first, then steps from each position's value to the next one's.
Recurs(g, n, base, step) ==
    \A i \in 1 .. n : g[i] = IF i = 1 THEN base ELSE step[<<i, g[i - 1]>>]

\* There is such a function.
LEMMA PositionsRecursion ==
    ASSUME NEW n \in Nat, NEW C, NEW base \in C, NEW step \in [(1 .. n) \X C -> C]
    PROVE  \E g \in [1 .. n -> C] : Recurs(g, n, base, step)
  <1>. DEFINE Good(g, m) == \A i \in 1 .. m : g[i] = IF i = 1 THEN base ELSE step[<<i, g[i - 1]>>]
              T == {m \in Nat : m <= n => \E g \in [1 .. m -> C] : Good(g, m)}
  <1>1. 0 \in T
    <2>1. [i \in 1 .. 0 |-> base] \in [1 .. 0 -> C] /\ Good([i \in 1 .. 0 |-> base], 0)
      OBVIOUS
    <2>. HIDE DEF Good
    <2>. QED
      BY <2>1
  <1>2. ASSUME NEW m \in Nat, m \in T PROVE m + 1 \in T
    <2>. SUFFICES ASSUME m + 1 <= n PROVE \E g \in [1 .. m + 1 -> C] : Good(g, m + 1)
      OBVIOUS
    <2>1. PICK g \in [1 .. m -> C] : Good(g, m)
      BY <1>2
    <2>2. PICK x \in C : x = IF m + 1 = 1 THEN base ELSE step[<<m + 1, g[m]>>]
      OBVIOUS
    <2>. DEFINE h == [i \in 1 .. m + 1 |-> IF i = m + 1 THEN x ELSE g[i]]
    <2>3. h \in [1 .. m + 1 -> C]
      OBVIOUS
    <2>4. \A i \in 1 .. m : h[i] = g[i] /\ (i # 1 => h[i - 1] = g[i - 1])
      OBVIOUS
    <2>5. m # 0 => h[m] = g[m]
      OBVIOUS
    <2>6. h[m + 1] = x
      OBVIOUS
    <2>. HIDE DEF h
    <2>7. ASSUME NEW i \in 1 .. m + 1
          PROVE  h[i] = IF i = 1 THEN base ELSE step[<<i, h[i - 1]>>]
      <3>1. CASE i = m + 1 /\ i = 1
        BY <2>2, <2>6, <3>1
      <3>2. CASE i = m + 1 /\ i # 1
        <4>1. h[i - 1] = g[m]
          BY <2>5, <3>2
        <4>2. h[i] = step[<<m + 1, g[m]>>]
          BY <2>2, <2>6, <3>2
        <4>. QED
          BY <3>2, <4>1, <4>2
      <3>3. CASE i \in 1 .. m
        <4>1. g[i] = IF i = 1 THEN base ELSE step[<<i, g[i - 1]>>]
          BY <2>1, <3>3
        <4>2. h[i] = g[i] /\ (i # 1 => h[i - 1] = g[i - 1])
          BY <2>4, <3>3
        <4>. QED
          BY <4>1, <4>2
      <3>. QED
        BY <3>1, <3>2, <3>3
    <2>8. Good(h, m + 1)
      BY <2>7
    <2>. HIDE DEF Good
    <2>. QED
      BY <2>3, <2>8
  <1>3. n \in T
    <2>. HIDE DEF T
    <2>. QED
      BY <1>1, <1>2, SetInduction
  <1>. QED
    BY <1>3 DEF Recurs
-----------------------------------------------------------------------------
(***************************************************************************)
(* Folds over a finite set.                                                *)
(***************************************************************************)
\* it folds g over the subsets of S, taking the element c chooses first.
FoldsOver(it, S, c, g, base) ==
    \A s \in SUBSET S : it[s] = IF s = {} THEN base ELSE g[<<c[s], it[s \ {c[s]}]>>]

Chooses(c, S) == \A s \in SUBSET S : s # {} => c[s] \in s

\* There is such a function.
LEMMA FoldExists ==
    ASSUME NEW S, IsFiniteSet(S), NEW c, Chooses(c, S),
           NEW V, NEW base \in V, NEW g \in [S \X V -> V]
    PROVE  \E it \in [SUBSET S -> V] : FoldsOver(it, S, c, g, base)
  <1>. DEFINE Upto(n) == {s \in SUBSET S : Cardinality(s) <= n}
              Step(h, s) == IF s = {} THEN base ELSE g[<<c[s], h[s \ {c[s]}]>>]
              Good(h, n) == \A s \in Upto(n) : h[s] \in V /\ h[s] = Step(h, s)
              T == {n \in Nat : \E h : Good(h, n)}
  <1>1. \A s \in SUBSET S : IsFiniteSet(s) /\ Cardinality(s) \in Nat
    BY FS_Subset, FS_CardinalityType
  <1>2. 0 \in T
    <2>1. \A s \in Upto(0) : s = {}
      BY <1>1, FS_EmptySet
    <2>2. Good([s \in SUBSET S |-> base], 0)
      BY <2>1
    <2>. HIDE DEF Good
    <2>. QED
      BY <2>2
  <1>3. ASSUME NEW n \in Nat, n \in T PROVE n + 1 \in T
    <2>1. PICK h : Good(h, n)
      BY <1>3
    <2>. DEFINE k == [s \in SUBSET S |-> IF s \in Upto(n) THEN h[s] ELSE Step(h, s)]
    <2>2. ASSUME NEW s \in Upto(n + 1), s # {}
          PROVE  c[s] \in S /\ s \ {c[s]} \in Upto(n)
      <3>1. c[s] \in s
        BY <2>2 DEF Chooses
      <3>2. Cardinality(s \ {c[s]}) = Cardinality(s) - 1
        BY <1>1, <3>1, Smaller
      <3>. QED
        BY <1>1, <3>1, <3>2
    <2>3. ASSUME NEW s \in Upto(n + 1) PROVE k[s] \in V /\ k[s] = Step(k, s)
      <3>1. CASE s = {}
        <4>1. k[s] = base
          BY <2>1, <3>1
        <4>. QED
          BY <3>1, <4>1
      <3>2. CASE s # {}
        <4>1. s \ {c[s]} \in Upto(n) /\ c[s] \in S
          BY <2>2, <3>2
        <4>2. PICK x, t : x = c[s] /\ t = s \ {c[s]}
          OBVIOUS
        <4>3. k[t] = h[t] /\ h[t] \in V
          BY <2>1, <4>1, <4>2
        <4>4. k[s] = g[<<x, h[t]>>]
          BY <2>1, <3>2, <4>2
        <4>5. g[<<x, h[t]>>] \in V
          BY <4>1, <4>2, <4>3
        <4>6. Step(k, s) = g[<<x, k[t]>>]
          BY <3>2, <4>2
        <4>. QED
          BY <4>3, <4>4, <4>5, <4>6
      <3>. QED
        BY <3>1, <3>2
    <2>4. Good(k, n + 1)
      BY <2>3
    <2>. HIDE DEF k, Good
    <2>. QED
      BY <2>4
  <1>4. Cardinality(S) \in T
    <2>. HIDE DEF T
    <2>. QED
      BY <1>1, <1>2, <1>3, SetInduction
  <1>5. PICK h : Good(h, Cardinality(S))
    BY <1>4
  <1>6. \A s \in SUBSET S : s \in Upto(Cardinality(S))
    BY <1>1, FS_Subset
  <1>7. \A s \in SUBSET S : h[s] \in V /\ h[s] = Step(h, s)
    BY <1>5, <1>6
  <1>. DEFINE it == [s \in SUBSET S |-> h[s]]
  <1>8. it \in [SUBSET S -> V]
    BY <1>7
  <1>9. \A s \in SUBSET S : it[s] = h[s] /\ it[s \ {c[s]}] = h[s \ {c[s]}]
    OBVIOUS
  <1>10. FoldsOver(it, S, c, g, base)
    <2>. HIDE DEF it
    <2>. QED
      BY <1>7, <1>9 DEF FoldsOver
  <1>. HIDE DEF it
  <1>. QED
    BY <1>8, <1>10
=============================================================================
