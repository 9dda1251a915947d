----------------------------- MODULE DataLemmas -----------------------------
(***************************************************************************)
(* Facts about data that several proofs need.  Induction on the natural    *)
(* numbers is stated for sets of numbers in place of predicates; from it   *)
(* follows what is needed of functions defined by recursion, such as the   *)
(* crawls of logs and samples.                                             *)
(***************************************************************************)
EXTENDS Integers, Sequences, Functions, FiniteSetTheorems, WellFoundedInduction, TLAPS

\* A set of natural numbers that is not empty has a least element: of the
\* intervals up to its elements, one contains no other.
LEMMA LeastNumber ==
    ASSUME NEW B \in SUBSET Nat, B # {}
    PROVE  \E m \in B : \A k \in B : m <= k
<1>1. PICK n \in B : TRUE
  OBVIOUS
<1> DEFINE T == {1 .. i : i \in B \cap (0 .. n)}
           R == StrictSubsetOrdering(1 .. n)
<1>2. T # {} /\ T \subseteq FiniteSubsetsOf(1 .. n)
  <2>1. 1 .. n \in T
    BY <1>1
  <2>2. ASSUME NEW i \in B \cap (0 .. n) PROVE 1 .. i \in FiniteSubsetsOf(1 .. n)
    <3>1. IsFiniteSet(1 .. i)
      BY FS_Interval
    <3>2. 1 .. i \subseteq 1 .. n
      OBVIOUS
    <3> QED
      BY <3>1, <3>2 DEF FiniteSubsetsOf
  <2> QED
    BY <2>1, <2>2
<1>3. IsWellFoundedOn(R, FiniteSubsetsOf(1 .. n))
  BY FS_StrictSubsetOrderingWellFounded
<1>4. PICK x \in T : \A y \in T : <<y, x>> \notin R
  <2> HIDE DEF T, R
  <2> QED
    BY <1>2, <1>3, WFMin, Zenon
<1>5. PICK m \in B \cap (0 .. n) : x = 1 .. m
  OBVIOUS
<1>6. ASSUME NEW k \in B, k < m PROVE FALSE
  <2>1. 1 .. k \in T
    BY <1>6
  <2>2. 1 .. k \subseteq 1 .. m /\ m \in 1 .. m /\ m \notin 1 .. k
    BY <1>6
  <2>3. 1 .. k \in SUBSET (1 .. n) /\ 1 .. m \in SUBSET (1 .. n)
    BY <1>6
  <2>4. <<1 .. k, 1 .. m>> \in R
    BY <2>2, <2>3 DEF StrictSubsetOrdering
  <2> QED
    BY <2>1, <2>4, <1>4, <1>5
<1> QED
  BY <1>6

\* What holds of 0, and of the successor of each number it holds of, holds of
\* every natural number.
LEMMA Induction ==
    ASSUME NEW B, 0 \in B, \A n \in Nat : n \in B => n + 1 \in B
    PROVE  Nat \subseteq B
<1> SUFFICES ASSUME Nat \ B # {} PROVE FALSE
  OBVIOUS
<1>1. PICK m \in Nat \ B : \A k \in Nat \ B : m <= k
  BY LeastNumber
<1>2. m # 0 /\ m - 1 \in Nat /\ m - 1 \notin Nat \ B
  BY <1>1
<1> QED
  BY <1>1, <1>2

\* A value of S that is carried through n steps.
Carries(S, s, n, step) == s \in S /\ n \in Nat /\ step \in [1 .. n -> [S -> S]]

\* The function that gives it after each of them exists.
LEMMA Iteration ==
    ASSUME NEW S, NEW s, NEW n, NEW step, Carries(S, s, n, step)
    PROVE  \E f \in [0 .. n -> S] :
               f[0] = s /\ \A i \in 1 .. n : f[i] = step[i][f[i - 1]]
<1> USE DEF Carries
<1> DEFINE Is(f, k) == f[0] = s /\ \A i \in 1 .. k : f[i] = step[i][f[i - 1]]
           B == {k \in Nat : k <= n => \E f \in [0 .. k -> S] : Is(f, k)}
<1>1. 0 \in B
  <2>1. [i \in 0 .. 0 |-> s] \in [0 .. 0 -> S] /\ Is([i \in 0 .. 0 |-> s], 0)
    OBVIOUS
  <2> QED
    BY <2>1
<1>2. ASSUME NEW k \in Nat, k + 1 <= n, \E f \in [0 .. k -> S] : Is(f, k)
      PROVE  \E f \in [0 .. k + 1 -> S] : Is(f, k + 1)
  <2>1. PICK g \in [0 .. k -> S] : Is(g, k)
    BY <1>2
  <2> DEFINE f == [i \in 0 .. k + 1 |-> IF i <= k THEN g[i] ELSE step[k + 1][g[k]]]
  <2>2. g[k] \in S /\ step[k + 1][g[k]] \in S
    <3>1. k + 1 \in 1 .. n /\ g[k] \in S
      BY <1>2
    <3>2. step[k + 1] \in [S -> S]
      BY <3>1
    <3> QED
      BY <3>1, <3>2
  <2>3. f \in [0 .. k + 1 -> S]
    BY <2>2
  <2>4. ASSUME NEW i \in 1 .. k + 1 PROVE f[i] = step[i][f[i - 1]]
    <3>1. i - 1 \in 0 .. k /\ f[i - 1] = g[i - 1]
      OBVIOUS
    <3>2. CASE i <= k
      BY <2>1, <3>1, <3>2
    <3>3. CASE i = k + 1
      BY <3>1, <3>3
    <3> QED
      BY <3>2, <3>3
  <2>5. f[0] = s
    BY <2>1
  <2> HIDE DEF f
  <2> QED
    BY <2>3, <2>4, <2>5
<1>3. n \in B
  <2> HIDE DEF Is
  <2>1. ASSUME NEW k \in Nat, k \in B PROVE k + 1 \in B
    <3>1. CASE k + 1 <= n
      <4>1. \E f \in [0 .. k -> S] : Is(f, k)
        BY <2>1, <3>1
      <4>2. \E f \in [0 .. k + 1 -> S] : Is(f, k + 1)
        BY <3>1, <4>1, <1>2
      <4> QED
        BY <4>2
    <3>2. CASE ~(k + 1 <= n)
      BY <3>2
    <3> QED
      BY <3>1, <3>2
  <2> HIDE DEF B
  <2> QED
    BY <1>1, <2>1, Induction
<1> QED
  BY <1>3

-----------------------------------------------------------------------------
(* Counting the places of a sequence that hold certain elements. *)

\* The places among the first k of q that hold an element of T.
Hits(q, T, k) == {i \in 1 .. k : q[i] \in T}
Count(q, T, k) == Cardinality(Hits(q, T, k))

\* A count is a natural number.
LEMMA CountType ==
    ASSUME NEW q, NEW T, NEW k \in Nat
    PROVE  IsFiniteSet(Hits(q, T, k)) /\ Count(q, T, k) \in Nat
<1>1. IsFiniteSet(1 .. k) /\ Hits(q, T, k) \subseteq 1 .. k
  BY FS_Interval DEF Hits
<1> QED
  BY <1>1, FS_Subset, FS_CardinalityType DEF Count

\* Nothing is counted before the first place.
LEMMA CountNone == ASSUME NEW q, NEW T PROVE Count(q, T, 0) = 0
BY FS_EmptySet DEF Count, Hits

\* One more place counts for one or for none.
LEMMA CountNext ==
    ASSUME NEW q, NEW T, NEW k \in Nat
    PROVE  Count(q, T, k + 1) = Count(q, T, k) + (IF q[k + 1] \in T THEN 1 ELSE 0)
<1>1. IsFiniteSet(Hits(q, T, k)) /\ Count(q, T, k) \in Nat /\ k + 1 \notin Hits(q, T, k)
  BY CountType DEF Hits
<1>2. CASE q[k + 1] \in T
  <2>1. Hits(q, T, k + 1) = Hits(q, T, k) \cup {k + 1}
    BY <1>2 DEF Hits
  <2> QED
    BY <1>1, <1>2, <2>1, FS_AddElement DEF Count
<1>3. CASE q[k + 1] \notin T
  <2>1. Hits(q, T, k + 1) = Hits(q, T, k)
    BY <1>3 DEF Hits
  <2> QED
    BY <1>1, <1>3, <2>1 DEF Count
<1> QED
  BY <1>2, <1>3

\* Append adds one place at the end.
LEMMA CountAppend ==
    ASSUME NEW S, NEW q \in Seq(S), NEW x \in S, NEW T
    PROVE  Count(Append(q, x), T, Len(q) + 1) =
               Count(q, T, Len(q)) + (IF x \in T THEN 1 ELSE 0)
<1> DEFINE r == Append(q, x)
<1>1. Len(q) \in Nat /\ r[Len(q) + 1] = x /\ \A i \in 1 .. Len(q) : r[i] = q[i]
  OBVIOUS
<1>2. Hits(r, T, Len(q)) = Hits(q, T, Len(q))
  BY <1>1 DEF Hits
<1>3. Count(r, T, Len(q)) = Count(q, T, Len(q))
  BY <1>2 DEF Count
<1>4. Count(r, T, Len(q) + 1) = Count(r, T, Len(q)) + (IF r[Len(q) + 1] \in T THEN 1 ELSE 0)
  <2> HIDE DEF r
  <2> QED
    BY <1>1, CountNext
<1> QED
  BY <1>1, <1>3, <1>4

\* Tail takes the first place away.
LEMMA CountTail ==
    ASSUME NEW S, NEW q \in Seq(S), q # <<>>, NEW T
    PROVE  Count(q, T, Len(q)) =
               Count(Tail(q), T, Len(q) - 1) + (IF Head(q) \in T THEN 1 ELSE 0)
<1> DEFINE n == Len(q)
           A == Hits(Tail(q), T, n - 1)
           B == Hits(q, T, n)
           f == [i \in A |-> i + 1]
<1>1. n \in Nat \ {0} /\ Head(q) = q[1] /\ \A i \in 1 .. n - 1 : Tail(q)[i] = q[i + 1]
  OBVIOUS
<1>2. IsFiniteSet(A) /\ IsFiniteSet(B) /\ Cardinality(A) \in Nat /\ Cardinality(B) \in Nat
  BY <1>1, CountType, FS_CardinalityType
<1>3. f \in Bijection(A, B \ {1})
  <2>1. ASSUME NEW i \in A PROVE i + 1 \in B \ {1}
    BY <1>1 DEF Hits
  <2>2. ASSUME NEW j \in B \ {1} PROVE j - 1 \in A /\ f[j - 1] = j
    <3>1. j - 1 \in 1 .. n - 1 /\ (j - 1) + 1 = j /\ q[j] \in T
      BY <1>1 DEF Hits
    <3>2. j - 1 \in A
      BY <1>1, <3>1 DEF Hits
    <3> QED
      BY <3>1, <3>2
  <2>3. A \subseteq Nat
    BY DEF Hits
  <2> HIDE DEF A, B
  <2>4. f \in [A -> B \ {1}]
    BY <2>1
  <2>5. \A i, j \in A : f[i] = f[j] => i = j
    BY <2>3
  <2> HIDE DEF f
  <2> QED
    BY <2>2, <2>4, <2>5 DEF Bijection, Injection, Surjection, IsInjective
<1>4. Cardinality(A) = Cardinality(B \ {1})
  <2> HIDE DEF A, B, f
  <2> QED
    BY <1>2, <1>3, FS_Bijection DEF ExistsBijection
<1>5. 1 \in B <=> Head(q) \in T
  BY <1>1 DEF Hits
<1>6. Cardinality(B \ {1}) = IF 1 \in B THEN Cardinality(B) - 1 ELSE Cardinality(B)
  <2> HIDE DEF B
  <2> QED
    BY <1>2, FS_RemoveElement
<1> HIDE DEF A, B
<1> QED
  BY <1>2, <1>4, <1>5, <1>6 DEF Count, A, B
-----------------------------------------------------------------------------
(* Functions defined by recursion. *)

\* step defines a function from D to R by recursion: the value it gives at an
\* element depends on the values at smaller elements only.
DefinesFcn(D, R, bound, size, step) ==
    /\ R # {} /\ bound \in Nat /\ size \in [D -> 0 .. bound]
    /\ step \in [[D -> R] -> [D -> R]]
    /\ \A g, h \in [D -> R] : \A r \in D :
          (\A s \in D : size[s] < size[r] => g[s] = h[s]) => step[g][r] = step[h][r]

\* Such a function exists.
LEMMA Recursion ==
    ASSUME NEW D, NEW R, NEW bound, NEW size, NEW step, DefinesFcn(D, R, bound, size, step)
    PROVE  \E f \in [D -> R] : f = step[f]
<1> USE DEF DefinesFcn
<1> DEFINE Fixed(g, n) == \A r \in D : size[r] < n => g[r] = step[g][r]
           B == {n \in Nat : \E g \in [D -> R] : Fixed(g, n)}
<1>1. 0 \in B
  <2>1. PICK x \in R : TRUE
    OBVIOUS
  <2>2. [r \in D |-> x] \in [D -> R] /\ Fixed([r \in D |-> x], 0)
    OBVIOUS
  <2> QED
    BY <2>2
<1>2. ASSUME NEW n \in Nat, n \in B PROVE n + 1 \in B
  <2>1. PICK g \in [D -> R] : Fixed(g, n)
    BY <1>2
  <2>2. step[g] \in [D -> R]
    OBVIOUS
  <2>3. ASSUME NEW r \in D, size[r] < n + 1 PROVE step[g][r] = step[step[g]][r]
    <3>1. \A s \in D : size[s] < size[r] => g[s] = step[g][s]
      BY <2>1, <2>3
    <3> QED
      BY <2>2, <3>1
  <2> QED
    BY <2>2, <2>3
<1>3. bound + 1 \in B
  <2> HIDE DEF B
  <2> QED
    BY <1>1, <1>2, Induction
<1>4. PICK g \in [D -> R] : Fixed(g, bound + 1)
  BY <1>3
<1>5. step[g] \in [D -> R] /\ \A r \in D : g[r] = step[g][r]
  BY <1>4
<1>6. g = step[g]
  <2>1. g = [r \in D |-> g[r]] /\ step[g] = [r \in D |-> step[g][r]]
    BY <1>5
  <2> QED
    BY <1>5, <2>1
<1> QED
  BY <1>6
-----------------------------------------------------------------------------
(* Sums over finite sets, taken element by element. *)

\* The element that a sum takes next.
Any(s) == CHOOSE x \in s : TRUE

\* What holds of the empty set, and of each set if it holds without one of the
\* elements, holds of every subset of a finite set.
LEMMA SetInduction ==
    ASSUME NEW S, IsFiniteSet(S), NEW B, {} \in B,
           \A s \in SUBSET S : s # {} /\ s \ {Any(s)} \in B => s \in B
    PROVE  SUBSET S \subseteq B
<1> DEFINE D == SUBSET S
           C == {n \in Nat : \A s \in D : Cardinality(s) <= n => s \in B}
<1>1. \A s \in D : IsFiniteSet(s) /\ Cardinality(s) \in Nat
  BY FS_Subset, FS_CardinalityType
<1>2. ASSUME NEW s \in D, s # {}
      PROVE  s \ {Any(s)} \in D /\ Cardinality(s \ {Any(s)}) = Cardinality(s) - 1
  <2>1. Any(s) \in s
    BY <1>2 DEF Any
  <2> QED
    BY <1>1, <2>1, FS_RemoveElement
<1>3. ASSUME NEW n \in Nat, \A s \in D : Cardinality(s) <= n - 1 => s \in B,
             NEW s \in D, Cardinality(s) <= n
      PROVE  s \in B
  <2>1. CASE s = {}
    BY <2>1
  <2>2. CASE s # {}
    <3>1. s \ {Any(s)} \in D /\ Cardinality(s \ {Any(s)}) <= n - 1
      BY <1>1, <1>2, <1>3, <2>2
    <3>2. s \ {Any(s)} \in B
      BY <1>3, <3>1
    <3> QED
      BY <2>2, <3>2
  <2> QED
    BY <2>1, <2>2
<1>4. 0 \in C
  <2>1. \A s \in D : ~(Cardinality(s) <= 0 - 1)
    BY <1>1
  <2> QED
    BY <1>3, <2>1
<1>5. ASSUME NEW n \in Nat, n \in C PROVE n + 1 \in C
  <2>1. n + 1 \in Nat /\ (n + 1) - 1 = n
    OBVIOUS
  <2>2. \A s \in D : Cardinality(s) <= (n + 1) - 1 => s \in B
    BY <1>5, <2>1
  <2>3. \A s \in D : Cardinality(s) <= n + 1 => s \in B
    BY <1>3, <2>1, <2>2
  <2> QED
    BY <2>1, <2>3
<1>6. Nat \subseteq C
  <2> HIDE DEF C
  <2> QED
    BY <1>4, <1>5, Induction
<1> QED
  BY <1>1, <1>6

\* A finite set of integers has a greatest element.
LEMMA Greatest ==
    ASSUME NEW S, IsFiniteSet(S), S # {}, S \subseteq Int
    PROVE  \E m \in S : \A x \in S : m >= x
<1> DEFINE B == {s \in SUBSET S : s # {} => \E m \in s : \A x \in s : m >= x}
<1>1. {} \in B
  OBVIOUS
<1>2. ASSUME NEW s \in SUBSET S, s # {}, s \ {Any(s)} \in B PROVE s \in B
  <2> DEFINE a == Any(s)
             r == s \ {a}
  <2>1. a \in s /\ r \in B
    BY <1>2 DEF Any
  <2> HIDE DEF a
  <2>2. CASE r = {}
    <3>1. \A x \in s : a >= x
      BY <2>1, <2>2
    <3> QED
      BY <2>1, <3>1
  <2>3. CASE r # {}
    <3>1. PICK m \in r : \A x \in r : m >= x
      BY <2>1, <2>3
    <3>2. CASE m >= a
      <4>1. m \in s /\ \A x \in s : m >= x
        BY <3>1, <3>2
      <4> QED
        BY <4>1
    <3>3. CASE ~(m >= a)
      <4>1. \A x \in s : a >= x
        BY <2>1, <3>1, <3>3
      <4> QED
        BY <2>1, <4>1
    <3> QED
      BY <3>2, <3>3
  <2> QED
    BY <2>2, <2>3
<1>3. SUBSET S \subseteq B
  <2> HIDE DEF B
  <2> QED
    BY <1>1, <1>2, SetInduction
<1> QED
  BY <1>3

\* The sums of f over the subsets of its domain, each of them taken by way of
\* one of its elements.
Sums(f, g) ==
    /\ g \in [SUBSET DOMAIN f -> Int] /\ g[{}] = 0
    /\ \A s \in SUBSET DOMAIN f :
          s # {} => /\ Any(s) \in s /\ f[Any(s)] \in Int
                    /\ g[s] = f[Any(s)] + g[s \ {Any(s)}]

\* A total is one of them.
LEMMA TotalSums ==
    ASSUME NEW S, IsFiniteSet(S), NEW f \in [S -> Int]
    PROVE  \E g : Sums(f, g) /\ SumFunction(f) = g[S]
<1> DEFINE D == SUBSET S
           Body(g, s) == IF s = {} THEN 0 ELSE f[Any(s)] + g[s \ {Any(s)}]
           size == [s \in D |-> Cardinality(s)]
           step == [g \in [D -> Int] |-> [s \in D |-> Body(g, s)]]
           Good(g) == g = [s \in D |-> Body(g, s)]
<1>1. \A s \in D : IsFiniteSet(s) /\ Cardinality(s) \in 0 .. Cardinality(S)
  BY FS_Subset, FS_CardinalityType
<1>2. ASSUME NEW s \in D, s # {}
      PROVE  /\ Any(s) \in s /\ Any(s) \in S /\ f[Any(s)] \in Int /\ s \ {Any(s)} \in D
             /\ Cardinality(s \ {Any(s)}) < Cardinality(s)
  <2>1. Any(s) \in s
    BY <1>2 DEF Any
  <2>2. Cardinality(s \ {Any(s)}) = Cardinality(s) - 1
    BY <1>1, <2>1, FS_RemoveElement
  <2> QED
    BY <1>1, <2>1, <2>2
<1>3. DefinesFcn(D, Int, Cardinality(S), size, step)
  <2>1. Int # {} /\ Cardinality(S) \in Nat /\ size \in [D -> 0 .. Cardinality(S)]
    <3>1. Cardinality(S) \in Nat /\ 0 \in Int
      BY FS_CardinalityType
    <3> QED
      BY <1>1, <3>1
  <2>2. step \in [[D -> Int] -> [D -> Int]]
    <3>1. ASSUME NEW g \in [D -> Int], NEW s \in D PROVE Body(g, s) \in Int
      <4>1. CASE s = {}
        BY <4>1
      <4>2. CASE s # {}
        <5>1. f[Any(s)] \in Int /\ s \ {Any(s)} \in D
          BY <1>2, <4>2
        <5>2. g[s \ {Any(s)}] \in Int
          <6> HIDE DEF D
          <6> QED
            BY <3>1, <5>1
        <5> QED
          BY <4>2, <5>1, <5>2
      <4> QED
        BY <4>1, <4>2
    <3> HIDE DEF Body, D
    <3> QED
      BY <3>1
  <2>3. ASSUME NEW g \in [D -> Int], NEW h \in [D -> Int], NEW r \in D,
               \A s \in D : size[s] < size[r] => g[s] = h[s]
        PROVE  step[g][r] = step[h][r]
    <3>1. Body(g, r) = Body(h, r)
      BY <1>2, <2>3
    <3> HIDE DEF Body, D
    <3> QED
      BY <3>1
  <2> HIDE DEF D, step, size
  <2> QED
    BY <2>1, <2>2, <2>3 DEF DefinesFcn
<1>4. PICK g \in [D -> Int] : g = step[g]
  <2> HIDE DEF D, step, size
  <2> QED
    BY <1>3, Recursion
<1>5. Good(g)
  <2> HIDE DEF Body, D
  <2> QED
    BY <1>4
<1> DEFINE iter == CHOOSE iter : Good(iter)
<1>6. Good(iter)
  <2> HIDE DEF Good
  <2> QED
    BY <1>5
<1>7. SumFunction(f) = iter[S]
  BY DEF SumFunction, SumFunctionOnSet, FoldFunctionOnSet, MapThenFoldSet, Any
<1> HIDE DEF iter
<1>8. \A s \in D : iter[s] = Body(iter, s)
  <2> HIDE DEF Body, D
  <2> QED
    BY <1>6
<1>z. {} \in D /\ iter[{}] = 0
  <2>1. {} \in D /\ Body(iter, {}) = 0
    OBVIOUS
  <2> HIDE DEF Body, D
  <2> QED
    BY <1>8, <2>1
<1>9. \A s \in D : iter[s] \in Int
  <2> DEFINE B == {s \in D : iter[s] \in Int}
  <2>1. {} \in B
    <3> HIDE DEF D
    <3> QED
      BY <1>z
  <2>2. ASSUME NEW s \in D, s # {}, s \ {Any(s)} \in B PROVE s \in B
    <3>1. f[Any(s)] \in Int /\ iter[s] = f[Any(s)] + iter[s \ {Any(s)}]
      BY <1>2, <1>8, <2>2
    <3> HIDE DEF D
    <3> QED
      BY <2>2, <3>1
  <2>3. D \subseteq B
    <3> HIDE DEF B
    <3> QED
      BY <2>1, <2>2, SetInduction
  <2> HIDE DEF D
  <2> QED
    BY <2>3
<1>10. Sums(f, iter)
  <2>1. DOMAIN f = S
    OBVIOUS
  <2>2. iter \in [D -> Int]
    <3>1. iter = [s \in D |-> iter[s]]
      <4> HIDE DEF Body, D
      <4> QED
        BY <1>6
    <3> HIDE DEF D
    <3> QED
      BY <1>9, <3>1
  <2>3. {} \in D /\ iter[{}] = 0
    BY <1>z
  <2>4. ASSUME NEW s \in D, s # {} 
        PROVE  Any(s) \in s /\ f[Any(s)] \in Int /\ iter[s] = f[Any(s)] + iter[s \ {Any(s)}]
    BY <1>2, <1>8, <2>4
  <2> QED
    BY <2>1, <2>2, <2>3, <2>4 DEF Sums
<1> QED
  BY <1>7, <1>10

\* A total of integers is an integer.
LEMMA TotalType ==
    ASSUME NEW S, IsFiniteSet(S), NEW f \in [S -> Int]
    PROVE  SumFunction(f) \in Int
<1>1. PICK g : Sums(f, g) /\ SumFunction(f) = g[S]
  BY TotalSums
<1>2. S \in SUBSET DOMAIN f
  OBVIOUS
<1> QED
  BY <1>1, <1>2 DEF Sums

\* One of natural numbers is a natural number.
LEMMA TotalNatural ==
    ASSUME NEW S, IsFiniteSet(S), NEW f \in [S -> Nat]
    PROVE  SumFunction(f) \in Nat
<1> DEFINE D == SUBSET S
<1>1. f \in [S -> Int] /\ DOMAIN f = S
  OBVIOUS
<1>2. PICK g : Sums(f, g) /\ SumFunction(f) = g[S]
  BY <1>1, TotalSums
<1>3. /\ g \in [D -> Int] /\ g[{}] = 0
      /\ \A s \in D : s # {} => Any(s) \in s /\ g[s] = f[Any(s)] + g[s \ {Any(s)}]
  BY <1>1, <1>2 DEF Sums
<1> DEFINE B == {s \in D : g[s] \in Nat}
<1>4. {} \in B
  BY <1>3
<1>5. ASSUME NEW s \in D, s # {}, s \ {Any(s)} \in B PROVE s \in B
  <2>1. f[Any(s)] \in Nat
    BY <1>3, <1>5
  <2> QED
    BY <1>3, <1>5, <2>1
<1>6. D \subseteq B
  <2> HIDE DEF B
  <2> QED
    BY <1>4, <1>5, SetInduction
<1>7. S \in D
  OBVIOUS
<1> HIDE DEF D
<1> QED
  BY <1>2, <1>6, <1>7

\* What is scaled element by element is scaled in the total.
LEMMA TotalScaled ==
    ASSUME NEW S, IsFiniteSet(S), NEW f \in [S -> Int], NEW h \in [S -> Int],
           NEW a \in Nat, NEW d \in Nat, \A x \in S : a * h[x] <= d * f[x]
    PROVE  a * SumFunction(h) <= d * SumFunction(f)
<1> DEFINE D == SUBSET S
<1>1. PICK g : Sums(f, g) /\ SumFunction(f) = g[S]
  BY TotalSums
<1>2. PICK k : Sums(h, k) /\ SumFunction(h) = k[S]
  BY TotalSums
<1>3. /\ g \in [D -> Int] /\ g[{}] = 0
      /\ \A s \in D : s # {} => Any(s) \in s /\ g[s] = f[Any(s)] + g[s \ {Any(s)}]
  BY <1>1 DEF Sums
<1>4. /\ k \in [D -> Int] /\ k[{}] = 0
      /\ \A s \in D : s # {} => Any(s) \in s /\ k[s] = h[Any(s)] + k[s \ {Any(s)}]
  BY <1>2 DEF Sums
<1> DEFINE B == {s \in D : a * k[s] <= d * g[s]}
<1>5. {} \in B
  BY <1>3, <1>4
<1>6. ASSUME NEW s \in D, s # {}, s \ {Any(s)} \in B PROVE s \in B
  <2>1. Any(s) \in S /\ s \ {Any(s)} \in D
    BY <1>3, <1>6
  <2>2. /\ f[Any(s)] \in Int /\ h[Any(s)] \in Int
        /\ g[s \ {Any(s)}] \in Int /\ k[s \ {Any(s)}] \in Int
    BY <1>3, <1>4, <2>1
  <2>3. a * h[Any(s)] <= d * f[Any(s)] /\ a * k[s \ {Any(s)}] <= d * g[s \ {Any(s)}]
    BY <1>6, <2>1
  <2>4. a * (h[Any(s)] + k[s \ {Any(s)}]) <= d * (f[Any(s)] + g[s \ {Any(s)}])
    BY <2>2, <2>3
  <2>5. g[s] = f[Any(s)] + g[s \ {Any(s)}] /\ k[s] = h[Any(s)] + k[s \ {Any(s)}]
    BY <1>3, <1>4, <1>6
  <2> QED
    BY <2>4, <2>5
<1>7. D \subseteq B
  <2> HIDE DEF B
  <2> QED
    BY <1>5, <1>6, SetInduction
<1>8. S \in D
  OBVIOUS
<1> HIDE DEF D
<1> QED
  BY <1>1, <1>2, <1>7, <1>8

\* The total over one number is that number.
LEMMA TotalOfOne ==
    ASSUME NEW x \in Int
    PROVE  SumFunction([y \in {x} |-> y]) = x
<1> DEFINE f == [y \in {x} |-> y]
<1>1. f \in [{x} -> Int] /\ DOMAIN f = {x} /\ f[x] = x
  OBVIOUS
<1>2. PICK g : Sums(f, g) /\ SumFunction(f) = g[{x}]
  <2>1. IsFiniteSet({x})
    BY FS_Singleton
  <2> HIDE DEF f
  <2> QED
    BY <1>1, <2>1, TotalSums
<1>3. Any({x}) = x
  BY DEF Any
<1>4. {x} \in SUBSET DOMAIN f /\ {x} # {} /\ {x} \ {x} = {}
  BY <1>1
<1> HIDE DEF f
<1>5. g[{x}] = x + g[{}] /\ g[{}] = 0
  BY <1>1, <1>2, <1>3, <1>4 DEF Sums
<1>6. SumFunction(f) = x
  BY <1>2, <1>5
<1> QED
  BY <1>6 DEF f

\* It does not matter which element is taken first.
LEMMA SumsByAny ==
    ASSUME NEW S, IsFiniteSet(S), NEW f \in [S -> Int], NEW g, Sums(f, g),
           NEW s \in SUBSET S, NEW x \in s
    PROVE  g[s] = f[x] + g[s \ {x}]
<1> DEFINE D == SUBSET S
           Right(r) == \A y \in r : g[r] = f[y] + g[r \ {y}]
           C == {n \in Nat : \A r \in D : Cardinality(r) = n => Right(r)}
<1>1. /\ g \in [D -> Int] /\ g[{}] = 0
      /\ \A r \in D : r # {} => Any(r) \in r /\ g[r] = f[Any(r)] + g[r \ {Any(r)}]
  BY DEF Sums
<1>2. \A r \in D : IsFiniteSet(r) /\ Cardinality(r) \in Nat
  BY FS_Subset, FS_CardinalityType
<1>3. \A r \in D : \A y \in r : Cardinality(r \ {y}) = Cardinality(r) - 1 /\ r \ {y} \in D
  BY <1>2, FS_RemoveElement
<1>4. 0 \in C
  <2>1. \A r \in D : Cardinality(r) = 0 => r = {}
    BY <1>2, FS_EmptySet
  <2> QED
    BY <2>1
<1>5. ASSUME NEW n \in Nat, n \in C PROVE n + 1 \in C
  <2> SUFFICES ASSUME NEW r \in D, Cardinality(r) = n + 1, NEW y \in r
               PROVE  g[r] = f[y] + g[r \ {y}]
    OBVIOUS
  <2> DEFINE a == Any(r)
             b == r \ {a}
             c == r \ {y}
             e == r \ {a, y}
  <2>1. a \in r /\ g[r] = f[a] + g[b]
    BY <1>1
  <2>2. CASE y = a
    BY <2>1, <2>2
  <2>3. CASE y # a
    <3>1. b \in D /\ Cardinality(b) = n /\ c \in D /\ Cardinality(c) = n
      BY <1>3, <2>1
    <3>2. y \in b /\ a \in c /\ b \ {y} = e /\ c \ {a} = e /\ e \in D
      BY <2>1, <2>3
    <3>3. Right(b) /\ Right(c)
      BY <1>5, <3>1
    <3>4. g[b] = f[y] + g[e] /\ g[c] = f[a] + g[e]
      BY <3>2, <3>3
    <3>5. f[a] \in Int /\ f[y] \in Int /\ g[e] \in Int
      BY <1>1, <2>1, <3>2
    <3> HIDE DEF a, b, c, e
    <3>6. g[r] = f[y] + g[c]
      BY <2>1, <3>4, <3>5
    <3> QED
      BY <3>6 DEF c
  <2> QED
    BY <2>2, <2>3
<1>6. Nat \subseteq C
  <2> HIDE DEF C
  <2> QED
    BY <1>4, <1>5, Induction
<1>7. Right(s)
  BY <1>2, <1>6
<1> QED
  BY <1>7

\* The values of a function on a finite set are finitely many.
LEMMA FiniteImage ==
    ASSUME NEW S, IsFiniteSet(S), NEW f, DOMAIN f = S
    PROVE  IsFiniteSet({f[x] : x \in S})
<1> DEFINE T == {f[x] : x \in S}
           h == [x \in S |-> f[x]]
<1>1. h \in Surjection(S, T)
  BY DEF Surjection
<1> QED
  BY <1>1, FS_Surjection

\* The h that name each element of S once, by an element of T.
Names(h, T, S) ==
    /\ h \in [T -> S] /\ {h[t] : t \in T} = S
    /\ \A t, u \in T : h[t] = h[u] => t = u

\* A total does not depend on what the elements are called.
LEMMA TotalMapped ==
    ASSUME NEW S, IsFiniteSet(S), NEW T, IsFiniteSet(T), NEW f \in [S -> Int],
           NEW h, Names(h, T, S)
    PROVE  SumFunction([t \in T |-> f[h[t]]]) = SumFunction(f)
<1> DEFINE D == SUBSET T
           fh == [t \in T |-> f[h[t]]]
           Of(r) == {h[t] : t \in r}
<1>1. h \in [T -> S] /\ Of(T) = S /\ \A t, u \in T : h[t] = h[u] => t = u
  BY DEF Names
<1>2. fh \in [T -> Int]
  BY <1>1
<1>3. PICK g : Sums(f, g) /\ SumFunction(f) = g[S]
  BY TotalSums
<1>4. PICK k : Sums(fh, k) /\ SumFunction(fh) = k[T]
  <2> HIDE DEF fh
  <2> QED
    BY <1>2, TotalSums
<1>5. \A r \in D : r # {} => Any(r) \in r /\ k[r] = fh[Any(r)] + k[r \ {Any(r)}]
  BY <1>2, <1>4 DEF Sums
<1>6. k[{}] = 0 /\ g[{}] = 0
  BY <1>3, <1>4 DEF Sums
<1> DEFINE B == {r \in D : k[r] = g[Of(r)]}
<1>7. {} \in B
  <2>1. Of({}) = {}
    OBVIOUS
  <2> QED
    BY <1>6, <2>1
<1>8. ASSUME NEW r \in D, r # {}, r \ {Any(r)} \in B PROVE r \in B
  <2> DEFINE a == Any(r)
             c == r \ {a}
  <2>1. a \in r /\ k[r] = fh[a] + k[c] /\ fh[a] = f[h[a]]
    BY <1>5, <1>8
  <2>2. Of(r) \in SUBSET S /\ h[a] \in Of(r) /\ Of(c) = Of(r) \ {h[a]}
    BY <1>1, <2>1
  <2>3. g[Of(r)] = f[h[a]] + g[Of(r) \ {h[a]}]
    <3> HIDE DEF Of, a
    <3> QED
      BY <1>3, <2>2, SumsByAny
  <2>4. k[c] = g[Of(c)]
    BY <1>8
  <2> HIDE DEF a, c, Of
  <2>5. k[r] = g[Of(r)]
    BY <2>1, <2>2, <2>3, <2>4
  <2> QED
    BY <2>5 DEF Of
<1>9. D \subseteq B
  <2> HIDE DEF B
  <2> QED
    BY <1>7, <1>8, SetInduction
<1>10. k[T] = g[Of(T)]
  BY <1>9
<1> HIDE DEF fh, Of
<1>11. SumFunction(fh) = SumFunction(f)
  BY <1>1, <1>3, <1>4, <1>10
<1> QED
  BY <1>11 DEF fh

\* One element more is added to a total.
LEMMA TotalNext ==
    ASSUME NEW S, IsFiniteSet(S), NEW x, x \notin S, NEW f \in [S \cup {x} -> Int],
           NEW h \in [S -> Int], \A y \in S : h[y] = f[y]
    PROVE  SumFunction(f) = f[x] + SumFunction(h)
<1> DEFINE T == S \cup {x}
           D == SUBSET S
<1>1. IsFiniteSet(T)
  BY FS_AddElement
<1>2. PICK g : Sums(f, g) /\ SumFunction(f) = g[T]
  <2> HIDE DEF T
  <2> QED
    BY <1>1, TotalSums DEF T
<1>3. PICK k : Sums(h, k) /\ SumFunction(h) = k[S]
  BY TotalSums
<1>4. T \in SUBSET T /\ x \in T /\ T \ {x} = S /\ f[x] \in Int
  OBVIOUS
<1>5. g[T] = f[x] + g[S]
  <2>1. f \in [T -> Int]
    OBVIOUS
  <2> HIDE DEF T
  <2> QED
    BY <1>1, <1>2, <1>4, <2>1, SumsByAny
<1>6. g[{}] = 0 /\ \A s \in D : s # {} => Any(s) \in s /\ g[s] = f[Any(s)] + g[s \ {Any(s)}]
  BY <1>2 DEF Sums
<1>7. k[{}] = 0 /\ \A s \in D : s # {} => Any(s) \in s /\ k[s] = h[Any(s)] + k[s \ {Any(s)}]
  BY <1>3 DEF Sums
<1> DEFINE B == {s \in D : g[s] = k[s]}
<1>8. {} \in B
  BY <1>6, <1>7
<1>9. ASSUME NEW s \in D, s # {}, s \ {Any(s)} \in B PROVE s \in B
  <2>1. Any(s) \in S
    BY <1>6, <1>9
  <2> QED
    BY <1>6, <1>7, <1>9, <2>1
<1>10. D \subseteq B
  <2> HIDE DEF B
  <2> QED
    BY <1>8, <1>9, SetInduction
<1>11. S \in D
  OBVIOUS
<1>12. g[S] = k[S]
  BY <1>10, <1>11
<1> HIDE DEF T, D, B
<1> QED
  BY <1>2, <1>3, <1>5, <1>12

\* The total over nothing.
LEMMA TotalOfNone == ASSUME NEW f \in [{} -> Int] PROVE SumFunction(f) = 0
<1>1. PICK g : Sums(f, g) /\ SumFunction(f) = g[{}]
  BY FS_EmptySet, TotalSums
<1> QED
  BY <1>1 DEF Sums

\* The total over one element.
LEMMA TotalOfSingle ==
    ASSUME NEW x, NEW f \in [{x} -> Int]
    PROVE  SumFunction(f) = f[x]
<1>1. IsFiniteSet({x})
  BY FS_Singleton
<1>2. PICK g : Sums(f, g) /\ SumFunction(f) = g[{x}]
  BY <1>1, TotalSums
<1>3. g[{x}] = f[x] + g[{}]
  <2>1. {x} \in SUBSET {x} /\ x \in {x} /\ {x} \ {x} = {} /\ f[x] \in Int
    OBVIOUS
  <2> QED
    BY <1>1, <1>2, <2>1, SumsByAny
<1>4. g[{}] = 0
  BY <1>2 DEF Sums
<1> QED
  BY <1>2, <1>3, <1>4
=============================================================================
