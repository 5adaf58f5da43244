---------------------------- MODULE QueuesProofs ----------------------------
(***************************************************************************)
(* Facts about the operators of module Queues.  The induction theorems of  *)
(* the library take an operator as a parameter; these proofs take a least  *)
(* counterexample instead (LeastElement).                                  *)
(***************************************************************************)
EXTENDS Queues, FiniteSetTheorems, SequenceTheorems, TLAPS

\* A non-empty set of natural numbers has a least element.
LEMMA LeastElement ==
  ASSUME NEW T \in SUBSET Nat, T # {}
  PROVE  \E n \in T : \A k \in T : n <= k
<1> DEFINE R == StrictSubsetOrdering(Nat)
           U == {0 .. n : n \in T}
<1>1. \A n \in Nat : 0 .. n \in FiniteSubsetsOf(Nat)
  <2> TAKE n \in Nat
  <2>1. IsFiniteSet(0 .. n)
    BY FS_Interval
  <2> QED
    BY <2>1 DEF FiniteSubsetsOf
<1>2. U \subseteq FiniteSubsetsOf(Nat) /\ U # {}
  BY <1>1
<1>3. \E x \in U : \A y \in U : ~ (<<y, x>> \in R)
  <2> HIDE DEF U, R
  <2>1. IsWellFoundedOn(R, FiniteSubsetsOf(Nat))
    BY FS_StrictSubsetOrderingWellFounded DEF R
  <2> QED
    BY <1>2, <2>1, WFMin
<1>4. PICK n \in T : \A k \in T : ~ (<<0 .. k, 0 .. n>> \in R)
  BY <1>3
<1>5. ASSUME NEW k \in T, k < n PROVE FALSE
  <2>1. 0 .. k \subseteq 0 .. n /\ 0 .. k # 0 .. n
    <3>1. n \in 0 .. n /\ n \notin 0 .. k
      BY <1>5
    <3> QED
      BY <1>5, <3>1
  <2>2. <<0 .. k, 0 .. n>> \in (SUBSET Nat) \X (SUBSET Nat)
    OBVIOUS
  <2>3. <<0 .. k, 0 .. n>> \in R
    BY <2>1, <2>2 DEF StrictSubsetOrdering
  <2> QED
    BY <1>4, <2>3
<1> QED
  BY <1>5

-----------------------------------------------------------------------------
(* Sums *)

Pick(s) == CHOOSE x \in s : TRUE
SumBody(f, g, s) == IF s = {} THEN 0 ELSE f[Pick(s)] + g[s \ {Pick(s)}]

\* Removing the chosen element of a finite set makes it smaller by one.
LEMMA PickSmaller ==
  ASSUME NEW s, IsFiniteSet(s), s # {}
  PROVE  /\ Pick(s) \in s
         /\ IsFiniteSet(s \ {Pick(s)})
         /\ Cardinality(s) \in Nat \ {0}
         /\ Cardinality(s \ {Pick(s)}) = Cardinality(s) - 1
<1>1. Pick(s) \in s
  BY DEF Pick
<1> QED
  BY <1>1, FS_RemoveElement, FS_CardinalityType, FS_EmptySet

\* g satisfies the recursion a sum over S is defined with.
Unfolds(f, g, S) == g = [s \in SUBSET S |-> SumBody(f, g, s)]

\* The recursive function a sum is defined with exists.
LEMMA SumFunctionExists ==
  ASSUME NEW S, IsFiniteSet(S), NEW f \in [S -> Nat]
  PROVE  \E g \in [SUBSET S -> Nat] : Unfolds(f, g, S)
<1> DEFINE Upto(n, g) ==
             \A s \in SUBSET S : Cardinality(s) <= n => g[s] = SumBody(f, g, s)
           Good == {n \in Nat : \E g \in [SUBSET S -> Nat] : Upto(n, g)}
<1>1. \A s \in SUBSET S : IsFiniteSet(s) /\ Cardinality(s) \in Nat
                          /\ Cardinality(s) <= Cardinality(S)
  BY FS_Subset, FS_CardinalityType
<1>2. \A g \in [SUBSET S -> Nat] : [s \in SUBSET S |-> SumBody(f, g, s)] \in [SUBSET S -> Nat]
  <2> TAKE g \in [SUBSET S -> Nat]
  <2>1. ASSUME NEW s \in SUBSET S PROVE SumBody(f, g, s) \in Nat
    <3>1. CASE s = {}
      BY <3>1 DEF SumBody
    <3>2. CASE s # {}
      <4>1. Pick(s) \in S /\ s \ {Pick(s)} \in SUBSET S
        BY <3>2 DEF Pick
      <4>2. f[Pick(s)] \in Nat /\ g[s \ {Pick(s)}] \in Nat
        BY <4>1
      <4> QED
        BY <3>2, <4>2 DEF SumBody
    <3> QED
      BY <3>1, <3>2
  <2> QED
    BY <2>1
<1>3. 0 \in Good
  <2> DEFINE g == [s \in SUBSET S |-> 0]
  <2>1. g \in [SUBSET S -> Nat]
    OBVIOUS
  <2>2. ASSUME NEW s \in SUBSET S, Cardinality(s) <= 0 PROVE g[s] = SumBody(f, g, s)
    <3>1. s = {}
      BY <1>1, <2>2, FS_EmptySet
    <3> QED
      BY <3>1 DEF SumBody
  <2> QED
    BY <2>1, <2>2
<1>4. ASSUME NEW n \in Nat, n \in Good PROVE n + 1 \in Good
  <2>1. PICK g \in [SUBSET S -> Nat] : Upto(n, g)
    BY <1>4
  <2> DEFINE h == [s \in SUBSET S |-> SumBody(f, g, s)]
  <2>2. ASSUME NEW s \in SUBSET S, Cardinality(s) <= n + 1 PROVE h[s] = SumBody(f, h, s)
    <3>1. CASE s = {}
      BY <3>1 DEF SumBody
    <3>2. CASE s # {}
      <4>1. s \ {Pick(s)} \in SUBSET S /\ Cardinality(s \ {Pick(s)}) <= n
        BY <1>1, <2>2, <3>2, PickSmaller
      <4>2. h[s \ {Pick(s)}] = g[s \ {Pick(s)}]
        BY <2>1, <4>1
      <4> QED
        BY <3>2, <4>2 DEF SumBody
    <3> QED
      BY <3>1, <3>2
  <2>3. Upto(n + 1, h)
    BY <2>2
  <2>4. h \in [SUBSET S -> Nat]
    BY <1>2
  <2> HIDE DEF h
  <2> QED
    BY <2>3, <2>4
<1>5. Good = Nat
  <2> HIDE DEF Good
  <2>1. Good \subseteq Nat
    BY DEF Good
  <2>2. SUFFICES ASSUME Nat \ Good # {} PROVE FALSE
    BY <2>1
  <2>3. PICK n \in Nat \ Good : \A k \in Nat \ Good : n <= k
    BY <2>2, LeastElement
  <2>4. n # 0 /\ n - 1 \in Nat /\ n - 1 \in Good
    BY <1>3, <2>3
  <2> QED
    BY <1>4, <2>3, <2>4
<1>6. PICK g \in [SUBSET S -> Nat] : Upto(Cardinality(S), g)
  <2>1. Cardinality(S) \in Nat
    BY FS_CardinalityType
  <2> QED
    BY <1>5, <2>1
<1>7. Unfolds(f, g, S)
  <2>1. \A s \in SUBSET S : g[s] = SumBody(f, g, s)
    BY <1>1, <1>6
  <2> QED
    BY <2>1 DEF Unfolds
<1> QED
  BY <1>7

\* G has a subset of S if it has it without any one of its elements.
Inductive(S, G) == \A s \in SUBSET S : (\A x \in s : s \ {x} \in G) => s \in G

\* What holds of a finite set whenever it holds of the set without any one element
\* holds of all subsets.
LEMMA SubsetInduction ==
  ASSUME NEW S, IsFiniteSet(S), NEW G,
         Inductive(S, G)
  PROVE  \A s \in SUBSET S : s \in G
<1> DEFINE Bad == {s \in SUBSET S : s \notin G}
           Counts == {Cardinality(s) : s \in Bad}
<1>1. \A s \in SUBSET S : IsFiniteSet(s) /\ Cardinality(s) \in Nat
  BY FS_Subset, FS_CardinalityType
<1>2. SUFFICES ASSUME Bad # {} PROVE FALSE
  OBVIOUS
<1>3. PICK n \in Counts : \A k \in Counts : n <= k
  <2>1. Counts \subseteq Nat /\ Counts # {}
    BY <1>1, <1>2
  <2> HIDE DEF Counts
  <2> QED
    BY <2>1, LeastElement
<1>4. PICK s \in Bad : n = Cardinality(s)
  BY <1>3
<1>5. ASSUME NEW x \in s PROVE s \ {x} \in G
  <2>1. Cardinality(s \ {x}) = Cardinality(s) - 1 /\ s \ {x} \in SUBSET S
    BY <1>1, <1>4, FS_RemoveElement
  <2>2. Cardinality(s \ {x}) < n
    BY <1>1, <1>4, <2>1
  <2>3. ASSUME s \ {x} \in Bad PROVE FALSE
    <3>1. Cardinality(s \ {x}) \in Counts
      BY <2>3
    <3>2. n <= Cardinality(s \ {x})
      BY <1>3, <3>1
    <3>3. n \in Nat /\ Cardinality(s \ {x}) \in Nat
      BY <1>1, <1>4, <2>1
    <3> QED
      BY <2>2, <3>2, <3>3
  <2> QED
    BY <2>1, <2>3
<1> QED
  BY <1>4, <1>5 DEF Inductive

\* g is the running sum of f over the subsets of S, taken in any order.
Tallies(f, g, S) ==
  /\ g[{}] = 0
  /\ \A s \in SUBSET S : \A x \in s : g[s] = f[x] + g[s \ {x}]

\* The order the elements are picked in makes no difference.
LEMMA AnyOrder ==
  ASSUME NEW S, IsFiniteSet(S), NEW f \in [S -> Nat], NEW g \in [SUBSET S -> Nat],
         Unfolds(f, g, S)
  PROVE  Tallies(f, g, S)
<1> DEFINE G == {s \in SUBSET S : \A x \in s : g[s] = f[x] + g[s \ {x}]}
<1>1. \A s \in SUBSET S : g[s] = SumBody(f, g, s)
  BY DEF Unfolds
<1>2. g[{}] = 0
  BY <1>1 DEF SumBody
<1>3. ASSUME NEW s \in SUBSET S, \A x \in s : s \ {x} \in G PROVE s \in G
  <2> SUFFICES ASSUME NEW x \in s PROVE g[s] = f[x] + g[s \ {x}]
    OBVIOUS
  <2> DEFINE p == Pick(s)
  <2>1. p \in s
    BY DEF Pick
  <2>2. g[s] = f[p] + g[s \ {p}]
    BY <1>1 DEF SumBody
  <2> HIDE DEF p
  <2>3. CASE x = p
    BY <2>2, <2>3
  <2>4. CASE x # p
    <3>1. x \in s \ {p} /\ p \in s \ {x} /\ s \ {p} \in G /\ s \ {x} \in G
      BY <1>3, <2>1, <2>4
    <3>2. (s \ {p}) \ {x} = (s \ {x}) \ {p}
      OBVIOUS
    <3>3. g[s \ {p}] = f[x] + g[(s \ {p}) \ {x}] /\ g[s \ {x}] = f[p] + g[(s \ {x}) \ {p}]
      BY <3>1
    <3> DEFINE z == g[(s \ {x}) \ {p}]
    <3>4. g[s \ {p}] = f[x] + z /\ g[s \ {x}] = f[p] + z
      BY <3>2, <3>3
    <3>5. f[x] \in Nat /\ f[p] \in Nat /\ z \in Nat
      BY <2>1
    <3> HIDE DEF z
    <3>6. g[s] = f[p] + (f[x] + z)
      BY <2>2, <3>4
    <3>7. f[p] + (f[x] + z) = f[x] + (f[p] + z)
      BY <3>5
    <3> QED
      BY <3>4, <3>6, <3>7
  <2> QED
    BY <2>3, <2>4
<1>4. \A s \in SUBSET S : s \in G
  <2> HIDE DEF G
  <2>1. Inductive(S, G)
    BY <1>3 DEF Inductive
  <2> QED
    BY <2>1, SubsetInduction
<1> QED
  BY <1>2, <1>4 DEF Tallies

\* Every function to the natural numbers has its running sum, and any two agree.
LEMMA TallyExists ==
  ASSUME NEW S, IsFiniteSet(S), NEW f \in [S -> Nat]
  PROVE  \E g \in [SUBSET S -> Nat] : Tallies(f, g, S) /\ SumFunction(f) = g[S]
<1>2. PICK g \in [SUBSET S -> Nat] : Unfolds(f, g, S)
  BY SumFunctionExists
<1> DEFINE iter == CHOOSE h : h = [s \in SUBSET S |-> SumBody(f, h, s)]
<1>1. SumFunction(f) = iter[S]
  <2>1. DOMAIN f = S
    OBVIOUS
  <2> QED
    BY <2>1 DEF SumFunction, SumFunctionOnSet, FoldFunctionOnSet, MapThenFoldSet, SumBody, Pick
<1>3. iter = [s \in SUBSET S |-> SumBody(f, iter, s)]
  BY <1>2 DEF Unfolds
<1> HIDE DEF iter
<1> DEFINE G == {s \in SUBSET S : iter[s] = g[s]}
<1>4. ASSUME NEW s \in SUBSET S, \A x \in s : s \ {x} \in G PROVE s \in G
  <2>1. iter[s] = SumBody(f, iter, s) /\ g[s] = SumBody(f, g, s)
    BY <1>2, <1>3 DEF Unfolds
  <2>2. CASE s = {}
    BY <2>1, <2>2 DEF SumBody
  <2>3. CASE s # {}
    <3>1. Pick(s) \in s
      BY <2>3 DEF Pick
    <3>2. iter[s \ {Pick(s)}] = g[s \ {Pick(s)}]
      BY <1>4, <3>1
    <3> QED
      BY <2>1, <2>3, <3>2 DEF SumBody
  <2> QED
    BY <2>2, <2>3
<1>5. \A s \in SUBSET S : s \in G
  <2> HIDE DEF G
  <2>1. Inductive(S, G)
    BY <1>4 DEF Inductive
  <2> QED
    BY <2>1, SubsetInduction
<1>6. SumFunction(f) = g[S]
  BY <1>1, <1>5
<1>7. Tallies(f, g, S)
  BY <1>2, AnyOrder
<1> QED
  BY <1>6, <1>7

\* A running sum gives the sum over every subset.
LEMMA TallyOfPart ==
  ASSUME NEW S, IsFiniteSet(S), NEW f \in [S -> Nat], NEW g \in [SUBSET S -> Nat],
         Tallies(f, g, S), NEW T \in SUBSET S
  PROVE  SumFunction(Restrict(f, T)) = g[T]
<1> DEFINE r == Restrict(f, T)
<1>1. r \in [T -> Nat] /\ \A x \in T : r[x] = f[x]
  BY DEF Restrict
<1>2. IsFiniteSet(T)
  BY FS_Subset
<1> HIDE DEF r
<1>3. PICK h \in [SUBSET T -> Nat] : Tallies(r, h, T) /\ SumFunction(r) = h[T]
  BY <1>1, <1>2, TallyExists
<1> DEFINE G == {s \in SUBSET T : h[s] = g[s]}
<1>4. ASSUME NEW s \in SUBSET T, \A x \in s : s \ {x} \in G PROVE s \in G
  <2>1. CASE s = {}
    BY <1>3, <2>1 DEF Tallies
  <2>2. CASE s # {}
    <3>1. PICK x \in s : TRUE
      BY <2>2
    <3>2. h[s] = r[x] + h[s \ {x}] /\ g[s] = f[x] + g[s \ {x}]
      BY <1>3 DEF Tallies
    <3>3. h[s \ {x}] = g[s \ {x}] /\ r[x] = f[x]
      BY <1>1, <1>4
    <3> QED
      BY <3>2, <3>3
  <2> QED
    BY <2>1, <2>2
<1>5. \A s \in SUBSET T : s \in G
  <2> HIDE DEF G
  <2>1. Inductive(T, G)
    BY <1>4 DEF Inductive
  <2> QED
    BY <1>2, <2>1, SubsetInduction
<1> QED
  BY <1>3, <1>5 DEF r

\* Taking one element out of a sum.
LEMMA SumRemove ==
  ASSUME NEW S, IsFiniteSet(S), NEW f \in [S -> Nat], NEW x \in S
  PROVE  /\ SumFunction(f) = f[x] + SumFunction(Restrict(f, S \ {x}))
         /\ SumFunction(Restrict(f, S \ {x})) \in Nat
<1>1. PICK g \in [SUBSET S -> Nat] : Tallies(f, g, S) /\ SumFunction(f) = g[S]
  BY TallyExists
<1>2. g[S] = f[x] + g[S \ {x}]
  BY <1>1 DEF Tallies
<1>3. SumFunction(Restrict(f, S \ {x})) = g[S \ {x}]
  <2>1. S \ {x} \in SUBSET S
    OBVIOUS
  <2> QED
    BY <1>1, <2>1, TallyOfPart
<1>4. g[S \ {x}] \in Nat
  OBVIOUS
<1> QED
  BY <1>1, <1>2, <1>3, <1>4

\* A sum of natural numbers is a natural number.
LEMMA SumType ==
  ASSUME NEW S, IsFiniteSet(S), NEW f \in [S -> Nat]
  PROVE  SumFunction(f) \in Nat
<1>1. PICK g \in [SUBSET S -> Nat] : Tallies(f, g, S) /\ SumFunction(f) = g[S]
  BY TallyExists
<1> QED
  BY <1>1

\* The running sum at a set and at the set without one element.
LEMMA TallyStep ==
  ASSUME NEW S, NEW f, NEW g, Tallies(f, g, S), NEW s, s \in SUBSET S, NEW x \in s,
         NEW r, r = s \ {x}
  PROVE  g[s] = f[x] + g[r]
BY DEF Tallies

\* h is f plus g, at every index.
Plus(h, f, g, S) ==
  /\ f \in [S -> Nat] /\ g \in [S -> Nat] /\ h \in [S -> Nat]
  /\ \A x \in S : h[x] = f[x] + g[x]

\* Sums add up.
LEMMA SumPlus ==
  ASSUME NEW S, IsFiniteSet(S), NEW f, NEW g, NEW h, Plus(h, f, g, S)
  PROVE  SumFunction(h) = SumFunction(f) + SumFunction(g)
<1> USE DEF Plus
<1>1. PICK a \in [SUBSET S -> Nat] : Tallies(f, a, S) /\ SumFunction(f) = a[S]
  BY TallyExists
<1>2. PICK b \in [SUBSET S -> Nat] : Tallies(g, b, S) /\ SumFunction(g) = b[S]
  BY TallyExists
<1>3. PICK c \in [SUBSET S -> Nat] : Tallies(h, c, S) /\ SumFunction(h) = c[S]
  BY TallyExists
<1> DEFINE G == {s \in SUBSET S : c[s] = a[s] + b[s]}
<1>4. ASSUME NEW s \in SUBSET S, \A x \in s : s \ {x} \in G PROVE s \in G
  <2>1. CASE s = {}
    BY <1>1, <1>2, <1>3, <2>1 DEF Tallies
  <2>2. CASE s # {}
    <3>1. PICK x \in s : TRUE
      BY <2>2
    <3> DEFINE r == s \ {x}
    <3>2. r \in G /\ r \in SUBSET S
      BY <1>4
    <3>3. a[s] = f[x] + a[r] /\ b[s] = g[x] + b[r] /\ c[s] = h[x] + c[r]
      BY <1>1, <1>2, <1>3 DEF Tallies
    <3> HIDE DEF r
    <3>4. /\ f[x] \in Nat /\ g[x] \in Nat /\ a[r] \in Nat /\ b[r] \in Nat
          /\ h[x] = f[x] + g[x]
      BY <3>2
    <3>5. c[r] = a[r] + b[r]
      BY <3>2
    <3> QED
      BY <3>3, <3>4, <3>5
  <2> QED
    BY <2>1, <2>2
<1>5. \A s \in SUBSET S : s \in G
  <2> HIDE DEF G
  <2>1. Inductive(S, G)
    BY <1>4 DEF Inductive
  <2> QED
    BY <2>1, SubsetInduction
<1> QED
  BY <1>1, <1>2, <1>3, <1>5

\* A sum of zeros.
LEMMA SumZero ==
  ASSUME NEW S, IsFiniteSet(S), NEW f \in [S -> Nat], \A x \in S : f[x] = 0
  PROVE  SumFunction(f) = 0
<1>1. SumFunction(f) = SumFunction(f) + SumFunction(f)
  <2>1. Plus(f, f, f, S)
    BY DEF Plus
  <2> QED
    BY <2>1, SumPlus
<1>2. SumFunction(f) \in Nat
  BY SumType
<1> DEFINE a == SumFunction(f)
<1>3. a = a + a /\ a \in Nat
  BY <1>1, <1>2
<1> HIDE DEF a
<1>4. a = 0
  BY <1>3
<1> QED
  BY <1>4 DEF a

\* f and g differ at x only.
DifferAt(f, g, x, S) ==
  /\ f \in [S -> Nat] /\ g \in [S -> Nat] /\ x \in S
  /\ \A y \in S \ {x} : f[y] = g[y]

\* Changing one summand changes the sum by the difference.
LEMMA SumChange ==
  ASSUME NEW S, IsFiniteSet(S), NEW f, NEW g, NEW x, DifferAt(f, g, x, S)
  PROVE  SumFunction(f) + g[x] = SumFunction(g) + f[x]
<1> USE DEF DifferAt
<1>1. Restrict(f, S \ {x}) = Restrict(g, S \ {x})
  BY DEF Restrict
<1> DEFINE a == SumFunction(Restrict(f, S \ {x}))
           b == SumFunction(Restrict(g, S \ {x}))
<1>2. SumFunction(f) = f[x] + a /\ a \in Nat
  BY SumRemove
<1>3. SumFunction(g) = g[x] + b /\ b \in Nat
  BY SumRemove
<1>4. a = b
  BY <1>1
<1>5. f[x] \in Nat /\ g[x] \in Nat
  OBVIOUS
<1> HIDE DEF a, b
<1> QED
  BY <1>2, <1>3, <1>4, <1>5

\* A summand is no greater than the sum.
LEMMA SumAtLeast ==
  ASSUME NEW S, IsFiniteSet(S), NEW f \in [S -> Nat], NEW x \in S
  PROVE  f[x] <= SumFunction(f)
<1> DEFINE a == SumFunction(Restrict(f, S \ {x}))
<1>1. SumFunction(f) = f[x] + a /\ a \in Nat
  BY SumRemove
<1>2. f[x] \in Nat
  OBVIOUS
<1> HIDE DEF a
<1> QED
  BY <1>1, <1>2

\* Summands that are zero may be left out.
LEMMA SumPart ==
  ASSUME NEW S, IsFiniteSet(S), NEW f \in [S -> Nat], NEW T \in SUBSET S,
         \A x \in S \ T : f[x] = 0
  PROVE  SumFunction(f) = SumFunction(Restrict(f, T))
<1>1. PICK a \in [SUBSET S -> Nat] : Tallies(f, a, S) /\ SumFunction(f) = a[S]
  BY TallyExists
<1>2. SumFunction(Restrict(f, T)) = a[T]
  BY <1>1, TallyOfPart
<1> DEFINE G == {s \in SUBSET (S \ T) : a[T \cup s] = a[T]}
<1>3. ASSUME NEW s \in SUBSET (S \ T), \A x \in s : s \ {x} \in G PROVE s \in G
  <2>1. CASE s = {}
    <3>1. T \cup s = T
      BY <2>1
    <3> QED
      BY <3>1
  <2>2. CASE s # {}
    <3>1. PICK x \in s : TRUE
      BY <2>2
    <3>2. T \cup s \in SUBSET S /\ x \in T \cup s /\ (T \cup s) \ {x} = T \cup (s \ {x})
      OBVIOUS
    <3>3. a[T \cup s] = f[x] + a[T \cup (s \ {x})]
      BY <1>1, <3>2, TallyStep
    <3>4. a[T \cup (s \ {x})] = a[T] /\ f[x] = 0 /\ a[T] \in Nat
      BY <1>3
    <3> QED
      BY <3>3, <3>4
  <2> QED
    BY <2>1, <2>2
<1>4. \A s \in SUBSET (S \ T) : s \in G
  <2> HIDE DEF G
  <2>1. Inductive(S \ T, G)
    BY <1>3 DEF Inductive
  <2>2. IsFiniteSet(S \ T)
    BY FS_Subset
  <2> QED
    BY <2>1, <2>2, SubsetInduction
<1>5. S = T \cup (S \ T)
  OBVIOUS
<1>6. a[T \cup (S \ T)] = a[T]
  BY <1>4
<1> QED
  BY <1>1, <1>2, <1>5, <1>6

\* g takes the elements of T one to one to the elements of S.
Pairs(g, T, S) ==
  /\ \A t \in T : g[t] \in S
  /\ \A t, u \in T : g[t] = g[u] => t = u
  /\ \A x \in S : \E t \in T : g[t] = x

\* The summands h are the summands f, indexed through g.
Through(h, f, g, T, S) ==
  /\ f \in [S -> Nat] /\ h \in [T -> Nat] /\ Pairs(g, T, S)
  /\ \A t \in T : h[t] = f[g[t]]

\* A sum does not depend on what its summands are indexed by.
LEMMA SumReindexed ==
  ASSUME NEW S, IsFiniteSet(S), NEW T, IsFiniteSet(T), NEW f, NEW g, NEW h,
         Through(h, f, g, T, S)
  PROVE  SumFunction(f) = SumFunction(h)
<1> USE DEF Through
<1>1. PICK a \in [SUBSET S -> Nat] : Tallies(f, a, S) /\ SumFunction(f) = a[S]
  BY TallyExists
<1>2. PICK b \in [SUBSET T -> Nat] : Tallies(h, b, T) /\ SumFunction(h) = b[T]
  BY TallyExists
<1> DEFINE Image(s) == {g[t] : t \in s}
           G == {s \in SUBSET T : b[s] = a[Image(s)]}
<1>3. ASSUME NEW s \in SUBSET T, \A x \in s : s \ {x} \in G PROVE s \in G
  <2>1. CASE s = {}
    <3>1. Image(s) = {}
      BY <2>1
    <3> QED
      BY <1>1, <1>2, <2>1, <3>1 DEF Tallies
  <2>2. CASE s # {}
    <3>1. PICK x \in s : TRUE
      BY <2>2
    <3>2. Image(s) \in SUBSET S /\ g[x] \in Image(s)
      BY DEF Pairs
    <3>3. Image(s) \ {g[x]} = Image(s \ {x})
      BY DEF Pairs
    <3>4. s \ {x} \in G
      BY <1>3
    <3>5. b[s \ {x}] = a[Image(s \ {x})]
      BY <3>4
    <3> HIDE DEF Image
    <3>6. a[Image(s)] = f[g[x]] + a[Image(s \ {x})]
      <4> DEFINE u == Image(s)
                 v == Image(s \ {x})
                 y == g[x]
      <4>1. u \in SUBSET S /\ y \in u /\ v = u \ {y}
        BY <3>2, <3>3
      <4> HIDE DEF u, v, y
      <4>2. a[u] = f[y] + a[v]
        BY <1>1, <4>1, TallyStep
      <4> QED
        BY <4>2 DEF u, v, y
    <3>7. b[s] = h[x] + b[s \ {x}] /\ h[x] = f[g[x]]
      BY <1>2 DEF Tallies
    <3>8. b[s] = a[Image(s)]
      BY <3>5, <3>6, <3>7
    <3> QED
      BY <3>8
  <2> QED
    BY <2>1, <2>2
<1>4. \A s \in SUBSET T : s \in G
  <2> HIDE DEF G
  <2>1. Inductive(T, G)
    BY <1>3 DEF Inductive
  <2> QED
    BY <2>1, SubsetInduction
<1>5. Image(T) = S
  BY DEF Pairs
<1>6. b[T] = a[Image(T)]
  BY <1>4
<1> QED
  BY <1>1, <1>2, <1>5, <1>6

-----------------------------------------------------------------------------
(* Positions and filters *)

\* A set of positions of a sequence of length n.
LEMMA Positions ==
  ASSUME NEW n \in Nat, NEW P \in SUBSET (1 .. n)
  PROVE  /\ \A j \in P : j \in Nat /\ 1 <= j /\ j <= n
         /\ IsFiniteSet(P) /\ Cardinality(P) \in Nat /\ Cardinality(P) <= n
<1>1. \A j \in P : j \in Nat /\ 1 <= j /\ j <= n
  <2>1. \A j \in P : j \in 1 .. n
    OBVIOUS
  <2> QED
    BY <2>1
<1>2. IsFiniteSet(1 .. n) /\ Cardinality(1 .. n) = n
  <2>1. n \in Int /\ 1 \in Int
    OBVIOUS
  <2>2. IsFiniteSet(1 .. n) /\ Cardinality(1 .. n) = IF 1 > n THEN 0 ELSE n - 1 + 1
    BY <2>1, FS_Interval
  <2> QED
    BY <2>2
<1>3. IsFiniteSet(P) /\ Cardinality(P) <= Cardinality(1 .. n)
  BY <1>2, FS_Subset
<1>4. Cardinality(P) \in Nat
  BY <1>3, FS_CardinalityType
<1> QED
  BY <1>1, <1>2, <1>3, <1>4

\* The rank grows by one at each position of P and is constant elsewhere.
LEMMA RankStep ==
  ASSUME NEW n \in Nat, NEW P \in SUBSET (1 .. n), NEW i \in 1 .. n
  PROVE  /\ Rank(P, i) \in Nat /\ Rank(P, i - 1) \in Nat
         /\ Rank(P, i) = Rank(P, i - 1) + (IF i \in P THEN 1 ELSE 0)
<1> DEFINE below == {j \in P : j <= i - 1}
<1>1. IsFiniteSet(P) /\ \A j \in P : j \in Nat
  BY Positions
<1>2. IsFiniteSet(below) /\ Cardinality(below) \in Nat
  <2>1. below \in SUBSET P
    OBVIOUS
  <2> QED
    BY <1>1, <2>1, FS_Subset, FS_CardinalityType
<1>3. {j \in P : j <= i} = IF i \in P THEN below \cup {i} ELSE below
  <2>1. \A j \in P : j <= i <=> j <= i - 1 \/ j = i
    BY <1>1
  <2> QED
    BY <1>1, <2>1
<1>4. i \notin below
  OBVIOUS
<1> HIDE DEF below
<1>5. Cardinality(below \cup {i}) = Cardinality(below) + 1
  BY <1>2, <1>4, FS_AddElement
<1>6. Rank(P, i - 1) = Cardinality(below)
  BY DEF Rank, below
<1>7. Rank(P, i) = IF i \in P THEN Cardinality(below \cup {i}) ELSE Cardinality(below)
  BY <1>3 DEF Rank
<1> QED
  BY <1>2, <1>5, <1>6, <1>7

\* Every rank up to the size of P is the rank of a position of P.
LEMMA NthExists ==
  ASSUME NEW n \in Nat, NEW P \in SUBSET (1 .. n), NEW k \in 1 .. Cardinality(P)
  PROVE  Nth(P, k) \in P /\ Rank(P, Nth(P, k)) = k
<1>1. Cardinality(P) \in Nat /\ \A j \in P : j \in Nat /\ 1 <= j /\ j <= n
  BY Positions
<1>2. Rank(P, n) = Cardinality(P)
  <2>1. {j \in P : j <= n} = P
    BY <1>1
  <2> QED
    BY <2>1 DEF Rank
<1>3. Rank(P, 0) = 0
  <2>1. \A j \in P : ~ (j <= 0)
    BY <1>1
  <2>2. {j \in P : j <= 0} = {}
    BY <2>1
  <2> QED
    BY <2>2, FS_EmptySet DEF Rank
<1> DEFINE T == {i \in 0 .. n : Rank(P, i) >= k}
<1>4. n \in T /\ T \in SUBSET Nat
  BY <1>1, <1>2
<1>5. PICK i \in T : \A j \in T : i <= j
  <2> HIDE DEF T
  <2> QED
    BY <1>4, LeastElement
<1>6. i \in 1 .. n
  BY <1>1, <1>3, <1>5
<1>7. ~ (Rank(P, i - 1) >= k)
  BY <1>5, <1>6
<1>8. i \in P /\ Rank(P, i) = k
  <2>1. /\ Rank(P, i) \in Nat /\ Rank(P, i - 1) \in Nat
        /\ Rank(P, i) = Rank(P, i - 1) + (IF i \in P THEN 1 ELSE 0)
    BY <1>6, RankStep
  <2>2. k \in Nat /\ Rank(P, i) >= k
    BY <1>1, <1>5
  <2> QED
    BY <1>7, <2>1, <2>2
<1> QED
  BY <1>8 DEF Nth

\* Two positions of P have different ranks.
LEMMA RankInjective ==
  ASSUME NEW n \in Nat, NEW P \in SUBSET (1 .. n), NEW i \in P, NEW j \in P, i < j
  PROVE  Rank(P, i) # Rank(P, j)
<1> DEFINE A == {h \in P : h <= i}
           B == {h \in P : h <= j}
<1>1. IsFiniteSet(B)
  <2>1. IsFiniteSet(P) /\ B \in SUBSET P
    BY Positions
  <2> QED
    BY <2>1, FS_Subset
<1>2. A \in SUBSET B /\ j \in B /\ j \notin A
  <2>1. \A h \in P : h \in Nat
    BY Positions
  <2>2. i \in Nat /\ j \in Nat
    BY <2>1
  <2>3. \A h \in P : h <= i => h <= j
    BY <2>1, <2>2
  <2>4. A \in SUBSET B
    BY <2>3
  <2>5. j \in B /\ j \notin A
    BY <2>2
  <2> QED
    BY <2>4, <2>5
<1> HIDE DEF A, B
<1>3. Cardinality(A) # Cardinality(B)
  BY <1>1, <1>2, FS_Subset
<1> QED
  BY <1>3 DEF Rank, A, B

\* The rank of a position of P is one of the indices of the filtered sequence.
LEMMA RankRange ==
  ASSUME NEW n \in Nat, NEW P \in SUBSET (1 .. n), NEW i \in P
  PROVE  Rank(P, i) \in 1 .. Cardinality(P) /\ Nth(P, Rank(P, i)) = i
<1> DEFINE A == {h \in P : h <= i}
<1>1. IsFiniteSet(P) /\ Cardinality(P) \in Nat /\ \A h \in P : h \in Nat
  BY Positions
<1>2. A \in SUBSET P /\ A # {}
  BY <1>1
<1>3. IsFiniteSet(A) /\ Cardinality(A) \in Nat \ {0} /\ Cardinality(A) <= Cardinality(P)
  <2> HIDE DEF A
  <2> QED
    BY <1>1, <1>2, FS_Subset, FS_CardinalityType, FS_EmptySet
<1>4. Rank(P, i) \in 1 .. Cardinality(P)
  BY <1>1, <1>3 DEF Rank
<1>5. Nth(P, Rank(P, i)) \in P /\ Rank(P, Nth(P, Rank(P, i))) = Rank(P, i)
  BY <1>4, NthExists
<1> QED
  <2> DEFINE j == Nth(P, Rank(P, i))
  <2>1. j \in P /\ Rank(P, j) = Rank(P, i)
    BY <1>5
  <2> HIDE DEF j
  <2>2. ~ (i < j) /\ ~ (j < i)
    BY <2>1, RankInjective
  <2>3. i = j
    BY <1>1, <2>1, <2>2
  <2> QED
    BY <1>4, <2>3 DEF j

\* A filtered sequence is a sequence over the same set; it holds exactly the
\* entries that pass, each as often as before.
LEMMA KeepFacts ==
  ASSUME NEW S, NEW q \in Seq(S), NEW K
  PROVE  /\ Keep(q, K) \in Seq(S)
         /\ Range(Keep(q, K)) = Range(q) \cap K
         /\ IsInjective(q) => IsInjective(Keep(q, K))
         /\ Len(Keep(q, K)) <= Len(q)
<1> DEFINE n == Len(q)
           P == {i \in DOMAIN q : q[i] \in K}
           f == Keep(q, K)
<1>1. n \in Nat /\ DOMAIN q = 1 .. n /\ P \in SUBSET (1 .. n)
  OBVIOUS
<1>2. Cardinality(P) \in Nat /\ Cardinality(P) <= n
  BY <1>1, Positions
<1>3. DOMAIN f = 1 .. Cardinality(P) /\ \A k \in 1 .. Cardinality(P) : f[k] = q[Nth(P, k)]
  BY DEF Keep
<1>4. \A k \in 1 .. Cardinality(P) : Nth(P, k) \in P /\ Rank(P, Nth(P, k)) = k
  BY <1>1, NthExists
<1>5. \A i \in P : Rank(P, i) \in 1 .. Cardinality(P) /\ Nth(P, Rank(P, i)) = i
  BY <1>1, RankRange
<1>6. f = [k \in 1 .. Cardinality(P) |-> q[Nth(P, k)]]
  BY DEF Keep
<1> HIDE DEF P, f, n
<1>7. \A i \in P : i \in DOMAIN q /\ q[i] \in K /\ q[i] \in S
  BY DEF P
<1>8. f \in Seq(S) /\ Len(f) = Cardinality(P)
  BY <1>2, <1>4, <1>6, <1>7
<1>9. Range(f) = Range(q) \cap K
  <2>1. ASSUME NEW x \in Range(f) PROVE x \in Range(q) \cap K
    BY <1>3, <1>4, <1>7, <2>1 DEF Range
  <2>2. ASSUME NEW x \in Range(q) \cap K PROVE x \in Range(f)
    <3>1. PICK i \in P : q[i] = x
      BY <2>2 DEF Range, P
    <3>2. f[Rank(P, i)] = x /\ Rank(P, i) \in DOMAIN f
      BY <1>3, <1>5, <3>1
    <3> QED
      BY <3>2 DEF Range
  <2> QED
    BY <2>1, <2>2
<1>10. ASSUME IsInjective(q), NEW a \in DOMAIN f, NEW b \in DOMAIN f, f[a] = f[b]
       PROVE  a = b
  <2>1. Nth(P, a) = Nth(P, b)
    BY <1>3, <1>4, <1>7, <1>10 DEF IsInjective
  <2> QED
    BY <1>3, <1>4, <2>1
<1>11. IsInjective(q) => IsInjective(f)
  BY <1>10 DEF IsInjective
<1> QED
  BY <1>2, <1>8, <1>9, <1>11 DEF f, n

\* The first entry that passes, when some entry does.
LEMMA FirstFacts ==
  ASSUME NEW S, NEW q \in Seq(S), NEW K, Range(q) \cap K # {}
  PROVE  First(q, K) \in Range(q) \cap K /\ First(q, K) \in S
<1> DEFINE P == {i \in DOMAIN q : q[i] \in K}
<1>1. P # {} /\ P \in SUBSET Nat
  BY DEF Range
<1>2. PICK i \in P : \A j \in P : i <= j
  <2> HIDE DEF P
  <2> QED
    BY <1>1, LeastElement
<1>3. i \in DOMAIN q /\ q[i] \in K /\ \A j \in 1 .. i - 1 : q[j] \notin K
  BY <1>2
<1> DEFINE h == CHOOSE h \in DOMAIN q : q[h] \in K /\ \A j \in 1 .. h - 1 : q[j] \notin K
<1>4. h \in DOMAIN q /\ q[h] \in K
  BY <1>3
<1>5. First(q, K) = q[h]
  BY DEF First
<1> HIDE DEF h
<1> QED
  BY <1>4, <1>5 DEF Range

\* The entries a filter keeps stay in order: g gives the place in q of each.
LEMMA KeepPlaces ==
  ASSUME NEW S, NEW q \in Seq(S), NEW K
  PROVE  \E g \in [DOMAIN Keep(q, K) -> DOMAIN q] :
           /\ \A i \in DOMAIN Keep(q, K) : Keep(q, K)[i] = q[g[i]] /\ q[g[i]] \in K
           /\ \A i, j \in DOMAIN Keep(q, K) : i < j => g[i] < g[j]
<1> DEFINE n == Len(q)
           P == {i \in DOMAIN q : q[i] \in K}
           r == Keep(q, K)
           g == [k \in DOMAIN r |-> Nth(P, k)]
<1>1. n \in Nat /\ P \in SUBSET (1 .. n) /\ DOMAIN q = 1 .. n
  OBVIOUS
<1>2. Cardinality(P) \in Nat /\ IsFiniteSet(P)
  BY <1>1, Positions
<1>3. DOMAIN r = 1 .. Cardinality(P) /\ \A k \in DOMAIN r : r[k] = q[Nth(P, k)]
  BY DEF Keep
<1>4. \A k \in DOMAIN r : Nth(P, k) \in P /\ Rank(P, Nth(P, k)) = k
  BY <1>1, <1>3, NthExists
<1>5. ASSUME NEW k \in DOMAIN r, NEW l \in DOMAIN r, k < l
      PROVE  Nth(P, k) < Nth(P, l)
  <2> DEFINE a == Nth(P, k)
             b == Nth(P, l)
  <2>1. a \in P /\ b \in P /\ Rank(P, a) = k /\ Rank(P, b) = l
    BY <1>4
  <2>2. a \in Nat /\ b \in Nat /\ k \in Nat /\ l \in Nat
    BY <1>1, <1>2, <1>3, <2>1
  <2> HIDE DEF a, b
  <2>3. SUFFICES ASSUME b <= a PROVE FALSE
    BY <2>2 DEF a, b
  <2>4. {j \in P : j <= b} \subseteq {j \in P : j <= a}
    <3>1. \A j \in P : j \in Nat
      BY <1>1
    <3> QED
      BY <2>2, <2>3, <3>1
  <2>5. IsFiniteSet({j \in P : j <= a})
    <3>1. {j \in P : j <= a} \subseteq P
      OBVIOUS
    <3> QED
      BY <1>2, <3>1, FS_Subset
  <2>6. Cardinality({j \in P : j <= b}) <= Cardinality({j \in P : j <= a})
    BY <2>4, <2>5, FS_Subset
  <2>7. l <= k
    BY <2>1, <2>6 DEF Rank
  <2> QED
    BY <1>5, <2>2, <2>7
<1>6. \A k \in DOMAIN r : Nth(P, k) \in DOMAIN q /\ q[Nth(P, k)] \in K
  BY <1>4
<1>7. g \in [DOMAIN r -> DOMAIN q]
  BY <1>6
<1>8. \A k \in DOMAIN r : g[k] = Nth(P, k)
  OBVIOUS
<1> HIDE DEF g, P, r, n
<1>9. /\ \A i \in DOMAIN r : r[i] = q[g[i]] /\ q[g[i]] \in K
      /\ \A i, j \in DOMAIN r : i < j => g[i] < g[j]
  BY <1>3, <1>5, <1>6, <1>8
<1> QED
  BY <1>7, <1>9 DEF r

\* First is the entry in K at the least place.
LEMMA FirstPlace ==
  ASSUME NEW S, NEW q \in Seq(S), NEW K, Range(q) \cap K # {}
  PROVE  \E h \in DOMAIN q : /\ First(q, K) = q[h] /\ q[h] \in K
                             /\ \A j \in DOMAIN q : j < h => q[j] \notin K
<1> DEFINE P == {i \in DOMAIN q : q[i] \in K}
<1>1. P # {} /\ P \in SUBSET Nat
  BY DEF Range
<1>2. PICK i \in P : \A j \in P : i <= j
  <2> HIDE DEF P
  <2> QED
    BY <1>1, LeastElement
<1>3. i \in DOMAIN q /\ q[i] \in K /\ \A j \in 1 .. i - 1 : q[j] \notin K
  BY <1>2
<1> DEFINE h == CHOOSE h \in DOMAIN q : q[h] \in K /\ \A j \in 1 .. h - 1 : q[j] \notin K
<1>4. h \in DOMAIN q /\ q[h] \in K /\ \A j \in 1 .. h - 1 : q[j] \notin K
  BY <1>3
<1>5. First(q, K) = q[h]
  BY DEF First
<1> HIDE DEF h
<1>6. \A j \in DOMAIN q : j < h => j \in 1 .. h - 1
  BY <1>4
<1> QED
  BY <1>4, <1>5, <1>6

-----------------------------------------------------------------------------
(* Ascending sequences *)

Ascends(q) == \A i, j \in DOMAIN q : i < j => q[i] < q[j]

\* Two ascending sequences of the same numbers are one.
LEMMA AscendsUnique ==
  ASSUME NEW a \in Seq(Nat), NEW b \in Seq(Nat), Ascends(a), Ascends(b), Range(a) = Range(b)
  PROVE  a = b
<1>1. /\ Len(a) \in Nat /\ DOMAIN a = 1 .. Len(a) /\ \A i \in 1 .. Len(a) : a[i] \in Nat
      /\ Len(b) \in Nat /\ DOMAIN b = 1 .. Len(b) /\ \A i \in 1 .. Len(b) : b[i] \in Nat
  OBVIOUS
<1>2. /\ \A i \in DOMAIN a : \E k \in DOMAIN b : b[k] = a[i]
      /\ \A i \in DOMAIN b : \E k \in DOMAIN a : a[k] = b[i]
  BY DEF Range
<1> DEFINE T == {i \in DOMAIN a \cap DOMAIN b : a[i] # b[i]}
<1>3. T = {}
  <2> SUFFICES ASSUME T # {} PROVE FALSE
    OBVIOUS
  <2>1. PICK i \in T : \A j \in T : i <= j
    <3>1. T \in SUBSET Nat
      BY <1>1
    <3> HIDE DEF T
    <3> QED
      BY <3>1, LeastElement
  <2>2. i \in DOMAIN a /\ i \in DOMAIN b /\ a[i] # b[i] /\ i \in Nat
    BY <1>1, <2>1
  <2>3. ASSUME NEW j \in Nat, j \in DOMAIN a, j < i
        PROVE  j \in DOMAIN b /\ a[j] = b[j]
    <3>1. j \in DOMAIN b
      BY <1>1, <2>2, <2>3
    <3>2. ~ (i <= j)
      BY <2>2, <2>3
    <3>3. j \notin T
      BY <2>1, <3>2
    <3> QED
      BY <2>3, <3>1, <3>3
  <2>4. CASE a[i] < b[i]
    <3>1. PICK k \in DOMAIN b : b[k] = a[i]
      BY <1>2, <2>2
    <3>2. k \in Nat /\ ~ (k = i)
      BY <1>1, <2>2, <3>1
    <3>3. CASE k < i
      <4>1. k \in DOMAIN a /\ a[k] = b[k]
        BY <1>1, <2>2, <2>3, <3>1, <3>2, <3>3
      <4>2. a[k] < a[i]
        BY <2>2, <3>3, <4>1 DEF Ascends
      <4> QED
        BY <1>1, <2>2, <3>1, <4>1, <4>2
    <3>4. CASE i < k
      <4>1. b[i] < b[k]
        BY <2>2, <3>1, <3>4 DEF Ascends
      <4> QED
        BY <1>1, <2>2, <2>4, <3>1, <4>1
    <3> QED
      BY <2>2, <3>2, <3>3, <3>4
  <2>5. CASE b[i] < a[i]
    <3>1. PICK k \in DOMAIN a : a[k] = b[i]
      BY <1>2, <2>2
    <3>2. k \in Nat /\ ~ (k = i)
      BY <1>1, <2>2, <3>1
    <3>3. CASE k < i
      <4>1. k \in DOMAIN b /\ a[k] = b[k]
        BY <2>3, <3>1, <3>2, <3>3
      <4>2. b[k] < b[i]
        BY <2>2, <3>3, <4>1 DEF Ascends
      <4> QED
        BY <1>1, <2>2, <3>1, <4>1, <4>2
    <3>4. CASE i < k
      <4>1. a[i] < a[k]
        BY <2>2, <3>1, <3>4 DEF Ascends
      <4> QED
        BY <1>1, <2>2, <2>5, <3>1, <4>1
    <3> QED
      BY <2>2, <3>2, <3>3, <3>4
  <2> QED
    BY <1>1, <2>2, <2>4, <2>5
<1>4. \A i \in DOMAIN a \cap DOMAIN b : a[i] = b[i]
  BY <1>3
<1>5. ~ (Len(a) < Len(b))
  <2> SUFFICES ASSUME Len(a) < Len(b) PROVE FALSE
    OBVIOUS
  <2> DEFINE i == Len(a) + 1
  <2>1. i \in DOMAIN b
    BY <1>1
  <2>2. PICK k \in DOMAIN a : a[k] = b[i]
    BY <1>2, <2>1
  <2>3. k \in DOMAIN b /\ k < i
    BY <1>1, <2>2
  <2>4. b[k] < b[i] /\ a[k] = b[k]
    BY <1>4, <2>1, <2>2, <2>3 DEF Ascends
  <2> HIDE DEF i
  <2> QED
    BY <1>1, <2>1, <2>2, <2>4
<1>6. ~ (Len(b) < Len(a))
  <2> SUFFICES ASSUME Len(b) < Len(a) PROVE FALSE
    OBVIOUS
  <2> DEFINE i == Len(b) + 1
  <2>1. i \in DOMAIN a
    BY <1>1
  <2>2. PICK k \in DOMAIN b : b[k] = a[i]
    BY <1>2, <2>1
  <2>3. k \in DOMAIN a /\ k < i
    BY <1>1, <2>2
  <2>4. a[k] < a[i] /\ a[k] = b[k]
    BY <1>4, <2>1, <2>2, <2>3 DEF Ascends
  <2> HIDE DEF i
  <2> QED
    BY <1>1, <2>1, <2>2, <2>4
<1>7. Len(a) = Len(b)
  <2> DEFINE m == Len(a)
             n == Len(b)
  <2>1. m \in Nat /\ n \in Nat /\ ~ (m < n) /\ ~ (n < m)
    BY <1>1, <1>5, <1>6
  <2> HIDE DEF m, n
  <2>2. m = n
    BY <2>1
  <2> QED
    BY <2>2 DEF m, n
<1>8. \A i \in 1 .. Len(a) : a[i] = b[i]
  BY <1>1, <1>4, <1>7
<1> QED
  BY <1>7, <1>8, SeqEqual

\* Filtering an ascending sequence.
LEMMA KeepAscends ==
  ASSUME NEW q \in Seq(Nat), NEW K, Ascends(q)
  PROVE  Keep(q, K) \in Seq(Nat) /\ Ascends(Keep(q, K)) /\ Range(Keep(q, K)) = Range(q) \cap K
<1> DEFINE r == Keep(q, K)
<1>1. r \in Seq(Nat) /\ Range(r) = Range(q) \cap K
  BY KeepFacts
<1>2. PICK g \in [DOMAIN r -> DOMAIN q] :
        /\ \A i \in DOMAIN r : r[i] = q[g[i]] /\ q[g[i]] \in K
        /\ \A i, j \in DOMAIN r : i < j => g[i] < g[j]
  BY KeepPlaces
<1> HIDE DEF r
<1>3. Ascends(r)
  BY <1>2 DEF Ascends
<1> QED
  BY <1>1, <1>3 DEF r

\* Appending a number that is greater than all others.
LEMMA AppendAscends ==
  ASSUME NEW q \in Seq(Nat), NEW k \in Nat, Ascends(q), \A x \in Range(q) : x < k
  PROVE  /\ Append(q, k) \in Seq(Nat) /\ Ascends(Append(q, k))
         /\ Range(Append(q, k)) = Range(q) \cup {k}
<1> DEFINE r == Append(q, k)
           n == Len(q)
<1>1. n \in Nat /\ DOMAIN q = 1 .. n
  OBVIOUS
<1>2. r \in Seq(Nat) /\ DOMAIN r = 1 .. n + 1 /\ r[n + 1] = k /\ \A i \in 1 .. n : r[i] = q[i]
  OBVIOUS
<1> HIDE DEF r, n
<1>3. \A i \in 1 .. n : q[i] < k
  BY <1>1 DEF Range
<1>4. Ascends(r)
  <2> SUFFICES ASSUME NEW i \in DOMAIN r, NEW j \in DOMAIN r, i < j PROVE r[i] < r[j]
    BY DEF Ascends
  <2>1. i \in 1 .. n /\ (j \in 1 .. n \/ j = n + 1)
    BY <1>1, <1>2
  <2> QED
    BY <1>1, <1>2, <1>3, <2>1 DEF Ascends
<1>5. Range(r) = Range(q) \cup {k}
  <2>1. ASSUME NEW x \in Range(r) PROVE x \in Range(q) \cup {k}
    <3>1. PICK i \in 1 .. n + 1 : x = r[i]
      BY <1>2, <2>1 DEF Range
    <3>2. i \in 1 .. n \/ i = n + 1
      BY <1>1
    <3> QED
      BY <1>1, <1>2, <3>1, <3>2 DEF Range
  <2>2. \A i \in 1 .. n : q[i] \in Range(r)
    <3>1. \A i \in 1 .. n : i \in 1 .. n + 1
      BY <1>1
    <3> QED
      BY <1>2, <3>1 DEF Range
  <2>3. k \in Range(r)
    <3>1. n + 1 \in DOMAIN r
      BY <1>1, <1>2
    <3> QED
      BY <1>2, <3>1 DEF Range
  <2> QED
    BY <1>1, <2>1, <2>2, <2>3 DEF Range
<1> QED
  BY <1>2, <1>4, <1>5 DEF r

\* The least number of an ascending sequence is the first, and the others follow.
LEMMA AscendsRest ==
  ASSUME NEW q \in Seq(Nat), Ascends(q), NEW k \in Range(q), \A x \in Range(q) : k <= x
  PROVE  /\ Len(q) \in Nat \ {0} /\ q[1] = k /\ SubSeq(q, 1, 1) = <<k>>
         /\ SubSeq(q, 2, Len(q)) \in Seq(Nat) /\ Ascends(SubSeq(q, 2, Len(q)))
         /\ Range(SubSeq(q, 2, Len(q))) = Range(q) \ {k}
<1> DEFINE n == Len(q)
           r == SubSeq(q, 2, n)
<1>1. n \in Nat /\ DOMAIN q = 1 .. n /\ \A i \in 1 .. n : q[i] \in Nat
  OBVIOUS
<1>2. PICK h \in 1 .. n : q[h] = k
  BY <1>1 DEF Range
<1>3. n # 0 /\ 1 \in 1 .. n
  BY <1>1, <1>2
<1>4. q[1] = k
  <2>1. ~ (1 < h)
    <3>1. 1 < h => q[1] < q[h]
      BY <1>1, <1>3 DEF Ascends
    <3>2. k <= q[1]
      BY <1>1, <1>3 DEF Range
    <3> QED
      BY <1>1, <1>2, <1>3, <3>1, <3>2
  <2> QED
    BY <1>1, <1>2, <2>1
<1>5. SubSeq(q, 1, 1) = <<k>>
  <2>1. /\ SubSeq(q, 1, 1) \in Seq(Nat) /\ Len(SubSeq(q, 1, 1)) = 1
        /\ SubSeq(q, 1, 1)[1] = q[1]
    BY <1>1, <1>3
  <2>2. <<k>> \in Seq(Nat) /\ Len(<<k>>) = 1 /\ <<k>>[1] = k
    BY <1>1, <1>3, <1>4
  <2>3. \A i \in 1 .. 1 : i = 1
    OBVIOUS
  <2> QED
    BY <1>4, <2>1, <2>2, <2>3, SeqEqual
<1>6. r \in Seq(Nat) /\ DOMAIN r = 1 .. n - 1 /\ \A i \in 1 .. n - 1 : r[i] = q[i + 1]
  BY <1>1, <1>3
<1> HIDE DEF r
<1>7. Ascends(r)
  <2> SUFFICES ASSUME NEW i \in DOMAIN r, NEW j \in DOMAIN r, i < j PROVE r[i] < r[j]
    BY DEF Ascends
  <2>1. i \in 1 .. n - 1 /\ j \in 1 .. n - 1
    BY <1>6
  <2>2. i + 1 \in DOMAIN q /\ j + 1 \in DOMAIN q /\ i + 1 < j + 1
    BY <1>1, <2>1
  <2> QED
    BY <1>6, <2>1, <2>2 DEF Ascends
<1>8. Range(r) = Range(q) \ {k}
  <2>1. ASSUME NEW i \in 1 .. n - 1 PROVE r[i] \in Range(q) \ {k}
    <3>1. i + 1 \in DOMAIN q /\ 1 < i + 1
      BY <1>1
    <3>2. q[1] < q[i + 1]
      BY <1>1, <1>3, <3>1 DEF Ascends
    <3>3. q[i + 1] # k
      BY <1>1, <1>3, <1>4, <3>1, <3>2
    <3> QED
      BY <1>6, <3>1, <3>3 DEF Range
  <2>2. ASSUME NEW i \in 1 .. n, q[i] # k PROVE q[i] \in Range(r)
    <3>1. i # 1
      BY <1>4, <2>2
    <3>2. i - 1 \in 1 .. n - 1 /\ (i - 1) + 1 = i
      BY <1>1, <3>1
    <3> QED
      BY <1>6, <3>2 DEF Range
  <2> QED
    BY <1>1, <1>6, <2>1, <2>2 DEF Range
<1> QED
  BY <1>1, <1>3, <1>4, <1>5, <1>6, <1>7, <1>8 DEF r

-----------------------------------------------------------------------------
(* What a queue is worth *)

\* The sum of the values v of the entries of q.
Worth(q, v) == SumFunction([i \in DOMAIN q |-> v[q[i]]])

\* The worth of a queue is a natural number.
LEMMA WorthType ==
  ASSUME NEW S, NEW q \in Seq(S), NEW v \in [S -> Nat]
  PROVE  /\ IsFiniteSet(DOMAIN q) /\ [i \in DOMAIN q |-> v[q[i]]] \in [DOMAIN q -> Nat]
         /\ Worth(q, v) \in Nat
<1>1. Len(q) \in Nat /\ DOMAIN q = 1 .. Len(q)
  OBVIOUS
<1>2. IsFiniteSet(DOMAIN q)
  BY <1>1, FS_Interval
<1>3. [i \in DOMAIN q |-> v[q[i]]] \in [DOMAIN q -> Nat]
  OBVIOUS
<1> QED
  BY <1>2, <1>3, SumType DEF Worth

\* What a filter keeps is worth what its entries are worth.
LEMMA WorthOfKept ==
  ASSUME NEW S, NEW q \in Seq(S), NEW v \in [S -> Nat], NEW K
  PROVE  Worth(Keep(q, K), v) = SumFunction([i \in DOMAIN q |-> IF q[i] \in K THEN v[q[i]] ELSE 0])
<1> DEFINE n == Len(q)
           P == {i \in DOMAIN q : q[i] \in K}
           f == [i \in DOMAIN q |-> IF q[i] \in K THEN v[q[i]] ELSE 0]
           r == Restrict(f, P)
           T == 1 .. Cardinality(P)
           g == [k \in T |-> Nth(P, k)]
           h == [k \in DOMAIN Keep(q, K) |-> v[Keep(q, K)[k]]]
<1>1. n \in Nat /\ DOMAIN q = 1 .. n /\ P \in SUBSET (1 .. n)
  OBVIOUS
<1>2. Cardinality(P) \in Nat /\ IsFiniteSet(P)
  BY <1>1, Positions
<1>3. DOMAIN Keep(q, K) = T /\ \A k \in T : Keep(q, K)[k] = q[Nth(P, k)]
  BY DEF Keep
<1>4. \A k \in T : Nth(P, k) \in P /\ Rank(P, Nth(P, k)) = k
  BY <1>1, NthExists
<1>5. \A i \in P : Rank(P, i) \in T /\ Nth(P, Rank(P, i)) = i
  BY <1>1, RankRange
<1>6. f \in [DOMAIN q -> Nat] /\ \A i \in DOMAIN q : f[i] = IF q[i] \in K THEN v[q[i]] ELSE 0
  OBVIOUS
<1>7. \A i \in P : q[i] \in K /\ i \in DOMAIN q
  OBVIOUS
<1>8. \A i \in DOMAIN q \ P : q[i] \notin K
  OBVIOUS
<1>9. IsFiniteSet(DOMAIN q) /\ IsFiniteSet(T)
  BY <1>1, <1>2, FS_Interval
<1>10. \A k \in T : g[k] = Nth(P, k)
  OBVIOUS
<1>11. \A k \in T : h[k] = v[Keep(q, K)[k]]
  BY <1>3
<1>12. DOMAIN h = T
  BY <1>3
<1>13. h = [k \in T |-> h[k]]
  BY <1>12
<1>14. Worth(Keep(q, K), v) = SumFunction(h)
  BY DEF Worth
<1> HIDE DEF n, P, f, T, g, h
<1>15. r \in [P -> Nat] /\ \A i \in P : r[i] = v[q[i]]
  BY <1>6, <1>7 DEF Restrict
<1>16. SumFunction(f) = SumFunction(r)
  <2>1. P \in SUBSET DOMAIN q
    BY <1>7
  <2>2. \A i \in DOMAIN q \ P : f[i] = 0
    BY <1>6, <1>8
  <2> QED
    BY <1>6, <1>9, <2>1, <2>2, SumPart
<1> HIDE DEF r
<1>17. Pairs(g, T, P)
  <2>1. \A t \in T : g[t] \in P
    BY <1>4, <1>10
  <2>2. \A t, u \in T : g[t] = g[u] => t = u
    BY <1>4, <1>10
  <2>3. \A i \in P : \E t \in T : g[t] = i
    BY <1>5, <1>10
  <2> QED
    BY <2>1, <2>2, <2>3 DEF Pairs
<1>18. \A k \in T : h[k] = r[g[k]] /\ h[k] \in Nat
  BY <1>3, <1>4, <1>10, <1>11, <1>15
<1>19. h \in [T -> Nat]
  BY <1>13, <1>18
<1>20. SumFunction(r) = SumFunction(h)
  <2>1. Through(h, r, g, T, P)
    BY <1>15, <1>17, <1>18, <1>19 DEF Through
  <2> QED
    BY <1>2, <1>9, <2>1, SumReindexed
<1> QED
  BY <1>14, <1>16, <1>20 DEF f

\* Two filters that divide a queue divide its worth.
LEMMA WorthDivides ==
  ASSUME NEW S, NEW q \in Seq(S), NEW v \in [S -> Nat], NEW K, NEW L,
         \A x \in Range(q) : (x \in K) <=> (x \notin L)
  PROVE  Worth(q, v) = Worth(Keep(q, K), v) + Worth(Keep(q, L), v)
<1> DEFINE f == [i \in DOMAIN q |-> IF q[i] \in K THEN v[q[i]] ELSE 0]
           g == [i \in DOMAIN q |-> IF q[i] \in L THEN v[q[i]] ELSE 0]
           h == [i \in DOMAIN q |-> v[q[i]]]
<1>1. f \in [DOMAIN q -> Nat] /\ g \in [DOMAIN q -> Nat] /\ h \in [DOMAIN q -> Nat]
  OBVIOUS
<1>2. \A i \in DOMAIN q : h[i] = f[i] + g[i]
  <2> TAKE i \in DOMAIN q
  <2>1. v[q[i]] \in Nat /\ ((q[i] \in K) <=> (q[i] \notin L))
    BY DEF Range
  <2> QED
    BY <2>1
<1>3. IsFiniteSet(DOMAIN q)
  BY WorthType
<1>4. Worth(Keep(q, K), v) = SumFunction(f) /\ Worth(Keep(q, L), v) = SumFunction(g)
  BY WorthOfKept
<1>5. Worth(q, v) = SumFunction(h)
  BY DEF Worth
<1> HIDE DEF f, g, h
<1>6. SumFunction(h) = SumFunction(f) + SumFunction(g)
  <2>1. Plus(h, f, g, DOMAIN q)
    BY <1>1, <1>2 DEF Plus
  <2> QED
    BY <1>3, <2>1, SumPlus
<1> QED
  BY <1>4, <1>5, <1>6

\* An empty queue is worth nothing, nor is one of worthless entries.
LEMMA WorthNothing ==
  ASSUME NEW S, NEW q \in Seq(S), NEW v \in [S -> Nat], \A i \in DOMAIN q : v[q[i]] = 0
  PROVE  Worth(q, v) = 0
<1> DEFINE f == [i \in DOMAIN q |-> v[q[i]]]
<1>1. IsFiniteSet(DOMAIN q) /\ f \in [DOMAIN q -> Nat]
  BY WorthType
<1>2. \A i \in DOMAIN q : f[i] = 0
  OBVIOUS
<1> HIDE DEF f
<1>3. SumFunction(f) = 0
  BY <1>1, <1>2, SumZero
<1> QED
  BY <1>3 DEF f, Worth

\* An appended entry adds its value.
LEMMA WorthAppend ==
  ASSUME NEW S, NEW q \in Seq(S), NEW v \in [S -> Nat], NEW x \in S
  PROVE  Worth(Append(q, x), v) = Worth(q, v) + v[x]
<1> DEFINE n == Len(q)
           p == Append(q, x)
           f == [i \in DOMAIN p |-> v[p[i]]]
           g == [i \in DOMAIN q |-> v[q[i]]]
<1>1. n \in Nat /\ DOMAIN q = 1 .. n
  OBVIOUS
<1>2. p \in Seq(S) /\ DOMAIN p = 1 .. n + 1 /\ p[n + 1] = x /\ \A i \in 1 .. n : p[i] = q[i]
  OBVIOUS
<1>3. Worth(p, v) = SumFunction(f) /\ Worth(q, v) = SumFunction(g)
  BY DEF Worth
<1> HIDE DEF p, n
<1>4. IsFiniteSet(DOMAIN p) /\ f \in [DOMAIN p -> Nat]
  BY <1>2, WorthType
<1>5. \A i \in DOMAIN p : f[i] = v[p[i]]
  OBVIOUS
<1>6. (DOMAIN p) \ {n + 1} = DOMAIN q /\ n + 1 \in DOMAIN p
  BY <1>1, <1>2
<1>7. Restrict(f, DOMAIN q) = g
  <2>1. \A i \in DOMAIN q : f[i] = v[q[i]]
    BY <1>1, <1>2, <1>5
  <2> HIDE DEF f
  <2> QED
    BY <2>1 DEF Restrict
<1>8. f[n + 1] = v[x]
  BY <1>2, <1>5, <1>6
<1>9. v[x] \in Nat /\ SumFunction(g) \in Nat
  BY <1>3, WorthType
<1> HIDE DEF f, g
<1>10. SumFunction(f) = f[n + 1] + SumFunction(Restrict(f, (DOMAIN p) \ {n + 1}))
  BY <1>4, <1>6, SumRemove
<1>11. SumFunction(f) = v[x] + SumFunction(g)
  BY <1>6, <1>7, <1>8, <1>10
<1> QED
  BY <1>3, <1>9, <1>11 DEF p

\* A queue is worth its first entry and the rest.
LEMMA WorthRest ==
  ASSUME NEW S, NEW q \in Seq(S), NEW v \in [S -> Nat], Len(q) > 0
  PROVE  /\ q[1] \in S /\ SubSeq(q, 2, Len(q)) \in Seq(S)
         /\ Worth(q, v) = v[q[1]] + Worth(SubSeq(q, 2, Len(q)), v)
<1> DEFINE n == Len(q)
           p == SubSeq(q, 2, n)
           f == [i \in DOMAIN q |-> v[q[i]]]
           h == [i \in DOMAIN p |-> v[p[i]]]
           r == Restrict(f, (DOMAIN q) \ {1})
           g == [i \in DOMAIN p |-> i + 1]
<1>1. n \in Nat /\ DOMAIN q = 1 .. n /\ 1 \in DOMAIN q /\ q[1] \in S
  OBVIOUS
<1>2. p \in Seq(S) /\ DOMAIN p = 1 .. n - 1 /\ \A i \in 1 .. n - 1 : p[i] = q[i + 1]
  BY <1>1
<1>3. Worth(q, v) = SumFunction(f) /\ Worth(p, v) = SumFunction(h)
  BY DEF Worth
<1> HIDE DEF p, n
<1>4. /\ IsFiniteSet(DOMAIN q) /\ f \in [DOMAIN q -> Nat]
      /\ IsFiniteSet(DOMAIN p) /\ h \in [DOMAIN p -> Nat]
  BY <1>2, WorthType
<1>5. /\ \A i \in DOMAIN q : f[i] = v[q[i]]
      /\ \A i \in DOMAIN p : h[i] = v[p[i]] /\ g[i] = i + 1
  OBVIOUS
<1> HIDE DEF f, h, g
<1>6. SumFunction(f) = f[1] + SumFunction(r)
  BY <1>1, <1>4, SumRemove
<1>7. /\ IsFiniteSet((DOMAIN q) \ {1}) /\ r \in [(DOMAIN q) \ {1} -> Nat]
      /\ \A i \in (DOMAIN q) \ {1} : r[i] = f[i]
  <2>1. IsFiniteSet((DOMAIN q) \ {1})
    BY <1>4, FS_Subset
  <2> QED
    BY <1>4, <2>1 DEF Restrict
<1> HIDE DEF r
<1>8. Pairs(g, DOMAIN p, (DOMAIN q) \ {1})
  <2>1. \A t \in DOMAIN p : g[t] \in (DOMAIN q) \ {1}
    BY <1>1, <1>2, <1>5
  <2>2. \A t, u \in DOMAIN p : g[t] = g[u] => t = u
    BY <1>1, <1>2, <1>5
  <2>3. ASSUME NEW i \in (DOMAIN q) \ {1} PROVE \E t \in DOMAIN p : g[t] = i
    <3>1. i - 1 \in DOMAIN p /\ (i - 1) + 1 = i
      BY <1>1, <1>2
    <3> QED
      BY <1>5, <3>1
  <2> QED
    BY <2>1, <2>2, <2>3 DEF Pairs
<1>9. ASSUME NEW t \in DOMAIN p PROVE h[t] = r[g[t]]
  <2>1. g[t] = t + 1 /\ t + 1 \in (DOMAIN q) \ {1}
    BY <1>1, <1>2, <1>5
  <2>2. p[t] = q[t + 1]
    BY <1>2
  <2>3. h[t] = v[q[t + 1]]
    BY <1>5, <2>2
  <2>4. r[t + 1] = v[q[t + 1]]
    BY <1>5, <1>7, <2>1
  <2> QED
    BY <2>1, <2>3, <2>4
<1>10. SumFunction(r) = SumFunction(h)
  <2>1. Through(h, r, g, DOMAIN p, (DOMAIN q) \ {1})
    BY <1>4, <1>7, <1>8, <1>9 DEF Through
  <2> QED
    BY <1>4, <1>7, <2>1, SumReindexed
<1> QED
  BY <1>1, <1>2, <1>3, <1>5, <1>6, <1>10 DEF p, n

\* A single entry.
LEMMA WorthOne ==
  ASSUME NEW S, NEW v \in [S -> Nat], NEW x \in S
  PROVE  <<x>> \in Seq(S) /\ Worth(<<x>>, v) = v[x]
<1>1. << >> \in Seq(S) /\ Append(<< >>, x) = <<x>> /\ DOMAIN << >> = {}
  OBVIOUS
<1>2. Worth(<< >>, v) = 0
  BY <1>1, WorthNothing
<1>3. Worth(Append(<< >>, x), v) = Worth(<< >>, v) + v[x]
  BY <1>1, WorthAppend
<1>4. v[x] \in Nat /\ <<x>> \in Seq(S)
  OBVIOUS
<1> QED
  BY <1>1, <1>2, <1>3, <1>4

\* The bytes of a queue are what it is worth when every entry is worth its size.
LEMMA BytesAreWorth ==
  ASSUME NEW S, NEW q \in Seq(S), \A x \in S : x.sizeBytes \in Nat
  PROVE  /\ [x \in S |-> x.sizeBytes] \in [S -> Nat]
         /\ Bytes(q) = Worth(q, [x \in S |-> x.sizeBytes])
<1> DEFINE v == [x \in S |-> x.sizeBytes]
<1>1. v \in [S -> Nat]
  OBVIOUS
<1>2. \A i \in DOMAIN q : v[q[i]] = q[i].sizeBytes
  OBVIOUS
<1> HIDE DEF v
<1>3. [i \in DOMAIN q |-> v[q[i]]] = [i \in DOMAIN q |-> q[i].sizeBytes]
  BY <1>2
<1>4. Bytes(q) = Worth(q, v)
  BY <1>3 DEF Bytes, Worth
<1> QED
  BY <1>1, <1>4 DEF v

\* The bytes of a queue of messages with positive sizes.
LEMMA BytesType ==
  ASSUME NEW S, NEW q \in Seq(S), \A x \in S : x.sizeBytes \in Nat
  PROVE  Bytes(q) \in Nat
<1>1. [i \in DOMAIN q |-> q[i].sizeBytes] \in [1 .. Len(q) -> Nat]
  OBVIOUS
<1>2. IsFiniteSet(1 .. Len(q))
  BY FS_Interval
<1> QED
  BY <1>1, <1>2, SumType DEF Bytes

\* Clamped subtraction.
LEMMA MinusType ==
  ASSUME NEW a \in Nat, NEW b \in Nat
  PROVE  Minus(a, b) \in Nat
BY DEF Minus

=============================================================================
