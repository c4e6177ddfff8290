---------------------------- MODULE FiniteLemmas ----------------------------
(***************************************************************************)
(* What the sum of a function over a finite set is, for every function:     *)
(* the facts about SumFunction that proofs about running totals rest on.    *)
(***************************************************************************)
EXTENDS Integers, FiniteSets, Functions, FiniteSetTheorems,
        WellFoundedInduction, TLAPS

-----------------------------------------------------------------------------
(* Induction over the natural numbers, as the existence of a least one.     *)

\* Any set of natural numbers that is not empty has a least element.
LEMMA Least ==
  ASSUME NEW T, T \subseteq Nat, T # {}
  PROVE  \E n \in T : \A m \in T : n <= m
<1>1. PICK n \in T : \A m \in T : <<m, n>> \notin OpToRel(<, Nat)
  BY NatLessThanWellFounded, WFMin
<1>2. ASSUME NEW m \in T
      PROVE  n <= m
  <2>1. ~ m < n
    BY <1>1 DEF OpToRel
  <2> QED
    BY <2>1
<1> QED
  BY <1>2

\* A finite set without one of its elements is finite and has one element less.
LEMMA OneLess ==
  ASSUME NEW s, IsFiniteSet(s), NEW x \in s
  PROVE  /\ IsFiniteSet(s \ {x})
         /\ Cardinality(s \ {x}) \in Nat
         /\ Cardinality(s) = Cardinality(s \ {x}) + 1
<1>1. IsFiniteSet(s \ {x}) /\ Cardinality(s \ {x}) = Cardinality(s) - 1
  BY FS_RemoveElement
<1>2. Cardinality(s) \in Nat /\ Cardinality(s \ {x}) \in Nat
  BY <1>1, FS_CardinalityType
<1> QED
  BY <1>1, <1>2

-----------------------------------------------------------------------------
(* The recursive function inside SumFunctionOnSet exists.                   *)

Pick(s) == CHOOSE x \in s : TRUE

\* The subsets of S with at most n elements.
Small(S, n) == {s \in SUBSET S : Cardinality(s) <= n}

\* g sums f over each set of the family F, one picked element at a time.
Sums(f, F, g) ==
  g = [s \in F |-> IF s = {} THEN 0 ELSE f[Pick(s)] + g[s \ {Pick(s)}]]

\* A function for the small subsets extends to those with one element more,
LEMMA SumsStep ==
  ASSUME NEW f, NEW S, IsFiniteSet(S), NEW n \in Nat, NEW g,
         Sums(f, Small(S, n), g)
  PROVE  \E h : Sums(f, Small(S, n + 1), h)
<1> DEFINE h == [s \in Small(S, n + 1) |->
                   IF s = {} THEN 0 ELSE f[Pick(s)] + g[s \ {Pick(s)}]]
<1>1. ASSUME NEW s \in Small(S, n + 1), s # {}
      PROVE  s \ {Pick(s)} \in Small(S, n) /\ s \ {Pick(s)} \in Small(S, n + 1)
  <2>1. Pick(s) \in s
    BY <1>1 DEF Pick
  <2>2. IsFiniteSet(s)
    BY FS_Subset DEF Small
  <2> QED
    BY <2>1, <2>2, OneLess DEF Small
<1>2. ASSUME NEW t \in Small(S, n), t \in Small(S, n + 1)
      PROVE  h[t] = g[t]
  BY <1>2 DEF Sums
<1>3. h = [s \in Small(S, n + 1) |->
             IF s = {} THEN 0 ELSE f[Pick(s)] + h[s \ {Pick(s)}]]
  <2> SUFFICES ASSUME NEW s \in Small(S, n + 1)
               PROVE  h[s] = IF s = {} THEN 0
                             ELSE f[Pick(s)] + h[s \ {Pick(s)}]
    OBVIOUS
  <2>1. s # {} => h[s \ {Pick(s)}] = g[s \ {Pick(s)}]
    BY <1>1, <1>2
  <2> QED
    BY <2>1
<1> HIDE DEF h
<1> QED
  BY <1>3 DEF Sums

\* so that there is one for all of them.
LEMMA SumsExist ==
  ASSUME NEW f, NEW S, IsFiniteSet(S)
  PROVE  \E g : Sums(f, SUBSET S, g)
<1> DEFINE Bad == {n \in Nat : ~ \E g : Sums(f, Small(S, n), g)}
<1>1. 0 \notin Bad
  <2> DEFINE g == [s \in Small(S, 0) |-> 0]
  <2>1. ASSUME NEW s \in Small(S, 0)
        PROVE  s = {}
    <3>1. IsFiniteSet(s) /\ Cardinality(s) <= 0
      BY FS_Subset DEF Small
    <3> QED
      BY <3>1, FS_CardinalityType, FS_EmptySet
  <2>2. g = [s \in Small(S, 0) |->
               IF s = {} THEN 0 ELSE f[Pick(s)] + g[s \ {Pick(s)}]]
    BY <2>1
  <2> HIDE DEF g
  <2> QED
    BY <2>2 DEF Sums
<1>2. Bad = {}
  <2> SUFFICES ASSUME Bad # {}
               PROVE  FALSE
    OBVIOUS
  <2>1. PICK n \in Bad : \A m \in Bad : n <= m
    BY Least
  <2>2. n \in Nat /\ n - 1 \in Nat /\ n - 1 \notin Bad
    BY <2>1, <1>1
  <2>3. PICK g : Sums(f, Small(S, n - 1), g)
    BY <2>2
  <2>4. \E h : Sums(f, Small(S, (n - 1) + 1), h)
    BY <2>2, <2>3, SumsStep
  <2>5. (n - 1) + 1 = n
    BY <2>2
  <2> QED
    BY <2>1, <2>4, <2>5
<1>3. Small(S, Cardinality(S)) = SUBSET S
  BY FS_Subset DEF Small
<1>4. \E g : Sums(f, Small(S, Cardinality(S)), g)
  <2>1. Cardinality(S) \in Nat
    BY FS_CardinalityType
  <2> QED
    BY <1>2, <2>1
<1> QED
  BY <1>3, <1>4

\* A sum is the value at S of such a function.
LEMMA SumUnfold ==
  ASSUME NEW f, NEW S, IsFiniteSet(S)
  PROVE  \E g : Sums(f, SUBSET S, g) /\ SumFunctionOnSet(f, S) = g[S]
<1> DEFINE g == CHOOSE g : Sums(f, SUBSET S, g)
<1>1. Sums(f, SUBSET S, g)
  BY SumsExist
<1>2. g = CHOOSE iter : iter = [s \in SUBSET S |->
            IF s = {} THEN 0
            ELSE LET x == CHOOSE x \in s : TRUE IN f[x] + iter[s \ {x}]]
  BY DEF Sums, Pick
<1>3. SumFunctionOnSet(f, S) = g[S]
  BY <1>2 DEF SumFunctionOnSet, FoldFunctionOnSet, MapThenFoldSet
<1> QED
  BY <1>1, <1>3

-----------------------------------------------------------------------------
(* Induction over the subsets of a finite set, as the existence of a        *)
(* smallest one.                                                           *)

\* Any collection of subsets that is not empty has a smallest member.
LEMMA Smallest ==
  ASSUME NEW S, IsFiniteSet(S), NEW B, B \subseteq SUBSET S, B # {}
  PROVE  \E t \in B : \A u \in B : u \subseteq t => u = t
<1> DEFINE Sz == {Cardinality(t) : t \in B}
<1>1. ASSUME NEW t \in B
      PROVE  IsFiniteSet(t) /\ Cardinality(t) \in Nat
  BY FS_Subset, FS_CardinalityType
<1>2. PICK n \in Sz : \A m \in Sz : n <= m
  <2>1. Sz \subseteq Nat /\ Sz # {}
    BY <1>1
  <2> QED
    BY <2>1, Least
<1>3. PICK t \in B : Cardinality(t) = n
  BY <1>2
<1>4. ASSUME NEW u \in B, u \subseteq t
      PROVE  u = t
  <2>1. Cardinality(t) <= Cardinality(u)
    BY <1>2, <1>3
  <2>2. Cardinality(u) <= Cardinality(t) /\ (Cardinality(t) = Cardinality(u) => u = t)
    BY <1>1, <1>4, FS_Subset
  <2> QED
    BY <2>1, <2>2, <1>1
<1> QED
  BY <1>4

-----------------------------------------------------------------------------
(* The order in which the elements are picked does not matter.              *)

\* Whichever element is taken first, the rest sums to the same.
LEMMA SumsOrder ==
  ASSUME NEW S, IsFiniteSet(S), NEW f, \A x \in S : f[x] \in Int,
         NEW g, Sums(f, SUBSET S, g)
  PROVE  \A s \in SUBSET S : g[s] \in Int /\ \A x \in s : g[s] = f[x] + g[s \ {x}]
<1> DEFINE Good(t) == g[t] \in Int /\ \A x \in t : g[t] = f[x] + g[t \ {x}]
           Bad == {t \in SUBSET S : ~Good(t)}
<1>1. ASSUME NEW t \in SUBSET S, \A u \in SUBSET t : u # t => Good(u)
      PROVE  Good(t)
  <2>1. CASE t = {}
    BY <2>1 DEF Sums
  <2>2. CASE t # {}
    <3> DEFINE c == Pick(t)
    <3>1. c \in t
      BY <2>2 DEF Pick
    <3>2. g[t] = f[c] + g[t \ {c}]
      BY <2>2 DEF Sums
    <3> HIDE DEF c
    <3>3. g[t] \in Int
      BY <1>1, <3>1, <3>2
    <3>4. ASSUME NEW x \in t, x # c
          PROVE  g[t] = f[x] + g[t \ {x}]
      <4> DEFINE r == (t \ {x}) \ {c}
      <4>1. Good(t \ {c}) /\ Good(t \ {x}) /\ Good(r)
        BY <1>1, <3>1, <3>4
      <4>2. x \in t \ {c} /\ c \in t \ {x} /\ (t \ {c}) \ {x} = r
        BY <3>1, <3>4
      <4>3. g[t \ {c}] = f[x] + g[r] /\ g[t \ {x}] = f[c] + g[r]
        BY <4>1, <4>2
      <4>4. f[x] \in Int /\ f[c] \in Int /\ g[r] \in Int
        BY <3>1, <4>1
      <4> HIDE DEF r
      <4> QED
        BY <3>2, <4>3, <4>4
    <3> QED
      BY <3>2, <3>3, <3>4
  <2> QED
    BY <2>1, <2>2
<1> HIDE DEF Good
<1>2. Bad = {}
  <2> SUFFICES ASSUME Bad # {}
               PROVE  FALSE
    OBVIOUS
  <2>1. Bad \subseteq SUBSET S
    OBVIOUS
  <2> HIDE DEF Bad
  <2>2. PICK t \in Bad : \A u \in Bad : u \subseteq t => u = t
    BY <2>1, Smallest
  <2> QED
    BY <1>1, <2>2 DEF Bad
<1> QED
  BY <1>2 DEF Good

\* In particular for the set as a whole.
LEMMA SumsWhole ==
  ASSUME NEW S, IsFiniteSet(S), NEW f, \A x \in S : f[x] \in Int,
         NEW g, Sums(f, SUBSET S, g)
  PROVE  g[S] \in Int /\ \A x \in S : g[S] = f[x] + g[S \ {x}]
<1>1. \A s \in SUBSET S : g[s] \in Int /\ \A x \in s : g[s] = f[x] + g[s \ {x}]
  BY SumsOrder
<1> QED
  BY <1>1

\* A sum depends on the function on the set only.
LEMMA SumsAgree ==
  ASSUME NEW S, IsFiniteSet(S), NEW T,
         NEW f, NEW g, Sums(f, SUBSET S, g),
         NEW e, NEW h, Sums(e, SUBSET T, h),
         NEW s \in SUBSET S, s \in SUBSET T, \A x \in s : f[x] = e[x]
  PROVE  g[s] = h[s]
<1> DEFINE Bad == {t \in SUBSET s : g[t] # h[t]}
<1>1. ASSUME NEW t \in SUBSET s, \A u \in SUBSET t : u # t => g[u] = h[u]
      PROVE  g[t] = h[t]
  <2>1. CASE t = {}
    BY <2>1 DEF Sums
  <2>2. CASE t # {}
    <3> DEFINE c == Pick(t)
    <3>1. c \in t
      BY <2>2 DEF Pick
    <3>2. g[t] = f[c] + g[t \ {c}] /\ h[t] = e[c] + h[t \ {c}]
      BY <2>2 DEF Sums
    <3> QED
      BY <1>1, <3>1, <3>2
  <2> QED
    BY <2>1, <2>2
<1>2. Bad = {}
  <2> SUFFICES ASSUME Bad # {}
               PROVE  FALSE
    OBVIOUS
  <2>1. IsFiniteSet(s) /\ Bad \subseteq SUBSET s
    BY FS_Subset
  <2> HIDE DEF Bad
  <2>2. PICK t \in Bad : \A u \in Bad : u \subseteq t => u = t
    BY <2>1, Smallest
  <2> QED
    BY <1>1, <2>2 DEF Bad
<1> QED
  BY <1>2

-----------------------------------------------------------------------------
(* The facts other proofs use.                                             *)

\* A sum of integers is an integer.
LEMMA SumType ==
  ASSUME NEW f, IsFiniteSet(DOMAIN f), \A x \in DOMAIN f : f[x] \in Int
  PROVE  SumFunction(f) \in Int
<1> DEFINE D == DOMAIN f
<1> HIDE DEF D
<1>1. IsFiniteSet(D) /\ D \in SUBSET D /\ \A x \in D : f[x] \in Int
  BY DEF D
<1>2. PICK g : Sums(f, SUBSET D, g) /\ SumFunctionOnSet(f, D) = g[D]
  BY <1>1, SumUnfold
<1>3. g[D] \in Int
  BY <1>1, <1>2, SumsWhole
<1> QED
  BY <1>2, <1>3 DEF SumFunction, D

\* Nothing sums to zero.
LEMMA SumEmpty ==
  ASSUME NEW f, DOMAIN f = {}
  PROVE  SumFunction(f) = 0
<1>1. PICK g : Sums(f, SUBSET {}, g) /\ SumFunctionOnSet(f, {}) = g[{}]
  BY SumUnfold, FS_EmptySet
<1>2. g[{}] = 0
  BY <1>1 DEF Sums
<1> QED
  BY <1>1, <1>2 DEF SumFunction

\* One argument more adds its value.
LEMMA SumOnAdd ==
  ASSUME NEW D, IsFiniteSet(D), NEW x, x \notin D,
         NEW f, \A y \in D : f[y] \in Int,
         NEW e, \A y \in D : e[y] = f[y], e[x] \in Int
  PROVE  SumFunctionOnSet(e, D \cup {x}) = SumFunctionOnSet(f, D) + e[x]
<1> DEFINE E == D \cup {x}
<1>1. x \in E /\ E \ {x} = D /\ D \in SUBSET E /\ D \in SUBSET D
  OBVIOUS
<1>2. \A y \in E : e[y] \in Int
  OBVIOUS
<1>3. IsFiniteSet(E)
  BY FS_AddElement
<1>4. PICK g : Sums(f, SUBSET D, g) /\ SumFunctionOnSet(f, D) = g[D]
  BY SumUnfold
<1> HIDE DEF E
<1>5. PICK h : Sums(e, SUBSET E, h) /\ SumFunctionOnSet(e, E) = h[E]
  BY <1>3, SumUnfold
<1>6. h[E] = e[x] + h[D]
  <2>1. \A y \in E : h[E] = e[y] + h[E \ {y}]
    BY <1>2, <1>3, <1>5, SumsWhole
  <2> QED
    BY <1>1, <2>1
<1>7. g[D] \in Int
  BY <1>4, SumsWhole
<1>8. g[D] = h[D]
  BY <1>1, <1>3, <1>4, <1>5, SumsAgree
<1> QED
  BY <1>4, <1>5, <1>6, <1>7, <1>8 DEF E

\* The same for a function and its whole domain.
LEMMA SumAdd ==
  ASSUME NEW f, IsFiniteSet(DOMAIN f), \A y \in DOMAIN f : f[y] \in Int,
         NEW x, x \notin DOMAIN f,
         NEW e, DOMAIN e = DOMAIN f \cup {x}, e[x] \in Int,
         \A y \in DOMAIN f : e[y] = f[y]
  PROVE  SumFunction(e) = SumFunction(f) + e[x]
  BY SumOnAdd DEF SumFunction

\* One argument less takes its value away.
LEMMA SumDrop ==
  ASSUME NEW f, IsFiniteSet(DOMAIN f), \A y \in DOMAIN f : f[y] \in Int,
         NEW x \in DOMAIN f,
         NEW e, DOMAIN e = DOMAIN f \ {x}, \A y \in DOMAIN e : e[y] = f[y]
  PROVE  SumFunction(e) = SumFunction(f) - f[x]
<1>1. IsFiniteSet(DOMAIN e) /\ DOMAIN f = DOMAIN e \cup {x}
  BY FS_Subset
<1>2. SumFunction(f) = SumFunction(e) + f[x]
  BY <1>1, SumAdd
<1>3. SumFunction(e) \in Int
  BY <1>1, SumType
<1> QED
  BY <1>2, <1>3

\* Another value at one argument.
LEMMA SumChange ==
  ASSUME NEW f, IsFiniteSet(DOMAIN f), \A y \in DOMAIN f : f[y] \in Int,
         NEW x \in DOMAIN f,
         NEW e, DOMAIN e = DOMAIN f, e[x] \in Int,
         \A y \in DOMAIN f \ {x} : e[y] = f[y]
  PROVE  SumFunction(e) = SumFunction(f) - f[x] + e[x]
<1> DEFINE r == [y \in DOMAIN f \ {x} |-> f[y]]
<1>1. SumFunction(r) = SumFunction(f) - f[x]
  BY SumDrop
<1>2. IsFiniteSet(DOMAIN r)
  BY FS_Subset
<1>3. SumFunction(e) = SumFunction(r) + e[x]
  BY <1>2, SumAdd
<1> QED
  BY <1>1, <1>3
=============================================================================
