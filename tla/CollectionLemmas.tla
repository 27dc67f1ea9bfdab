--------------------------- MODULE CollectionLemmas ---------------------------
(***************************************************************************)
(* Lemmas about the data of the models: sums over finite sets, for the     *)
(* modules whose invariants add up money, and sequences that lose or gain  *)
(* an element.                                                             *)
(*                                                                         *)
(* The sums are SumFunctionOnSet of the community modules, which is        *)
(* defined by recursion over sets.  What it computes follows by induction, *)
(* and the induction is had from the pigeonhole principle: were a set of   *)
(* naturals without a least element, "the predecessor of" would map a      *)
(* finite set one-to-one into a smaller one.                               *)
(***************************************************************************)
EXTENDS Integers, SequencesExt, FiniteSetTheorems, SequenceTheorems, TLAPS

\* A set of naturals that is not empty has a least element.
LEMMA LeastNumber == ASSUME NEW T \in SUBSET Nat, T # {} PROVE \E n \in T : \A m \in T : n <= m
<1>1. SUFFICES ASSUME \A n \in T : \E m \in T : m < n PROVE FALSE
  OBVIOUS
<1>2. PICK t \in T : TRUE OBVIOUS
<1> DEFINE S == {m \in 0..t : \E k \in T : k <= m}
<1>3. t \in S OBVIOUS
<1>4. IsFiniteSet(S)
  <2>1. IsFiniteSet(0..t) BY FS_Interval
  <2> QED BY <2>1, FS_Subset
<1>5. \A m \in S : m \in Int /\ m - 1 \in S \ {t} BY <1>1
<1> HIDE DEF S
<1>6. IsFiniteSet(S \ {t}) /\ Cardinality(S \ {t}) = Cardinality(S) - 1
  BY <1>3, <1>4, FS_RemoveElement
<1>7. Cardinality(S \ {t}) < Cardinality(S)
  BY <1>4, <1>6, FS_CardinalityType
<1> DEFINE g == [m \in S |-> m - 1]
<1>8. g \in [S -> S \ {t}] BY <1>5
<1> HIDE DEF g
<1>9. \E x, y \in S : x # y /\ g[x] = g[y] BY <1>4, <1>6, <1>7, <1>8, FS_PigeonHole
<1> QED BY <1>5, <1>9 DEF g

\* Of some finite sets, one has the fewest elements.
LEMMA SmallestSet ==
  ASSUME NEW F, F # {}, \A S \in F : IsFiniteSet(S)
  PROVE  \E S \in F : \A T \in F : Cardinality(S) <= Cardinality(T)
<1> DEFINE N == {Cardinality(S) : S \in F}
<1>1. N \in SUBSET Nat /\ N # {} BY FS_CardinalityType
<1>2. PICK n \in N : \A m \in N : n <= m BY <1>1, LeastNumber
<1> QED BY <1>2

\* The element a sum over s takes first, the table of partial sums the sum is
\* read from, and the sets of at most n elements.
Pick(s) == CHOOSE x \in s : TRUE
Iter(f, D, it) ==
    it = [s \in D |-> IF s = {} THEN 0 ELSE f[Pick(s)] + it[s \ {Pick(s)}]]
Small(A, n) == {s \in SUBSET A : Cardinality(s) <= n}

\* What is picked from a set is in it.
LEMMA Picked == \A s : s # {} => Pick(s) \in s
BY DEF Pick

\* There is a table of partial sums: it is extended from the sets of at most n
\* elements to those of n + 1.
LEMMA IterExists ==
  ASSUME NEW A, IsFiniteSet(A), NEW f
  PROVE  \E it : Iter(f, SUBSET A, it)
<1> DEFINE G(n) == \E g : Iter(f, Small(A, n), g)
<1>0. \A s \in SUBSET A : IsFiniteSet(s) /\ Cardinality(s) \in Nat
  BY FS_Subset, FS_CardinalityType
<1>1. G(0)
  <2>1. \A s \in Small(A, 0) : s = {}
    BY <1>0, FS_EmptySet DEF Small
  <2> DEFINE g == [s \in Small(A, 0) |-> 0]
  <2>2. Iter(f, Small(A, 0), g) BY <2>1 DEF Iter
  <2> QED BY <2>2
<1>2. ASSUME NEW n \in Nat, G(n) PROVE G(n + 1)
  <2>1. PICK g : Iter(f, Small(A, n), g) BY <1>2
  <2> DEFINE h == [s \in Small(A, n + 1) |->
                      IF s = {} THEN 0 ELSE f[Pick(s)] + g[s \ {Pick(s)}]]
  <2>2. \A s \in Small(A, n) : g[s] = IF s = {} THEN 0 ELSE f[Pick(s)] + g[s \ {Pick(s)}]
    BY <2>1 DEF Iter
  <2>3. \A s \in Small(A, n) : s \in Small(A, n + 1) BY <1>0 DEF Small
  <2>4. \A s \in Small(A, n) : h[s] = g[s] BY <2>2, <2>3
  <2>5. ASSUME NEW s \in Small(A, n + 1), s # {} PROVE s \ {Pick(s)} \in Small(A, n)
    <3>1. Pick(s) \in s BY <2>5, Picked
    <3>2. IsFiniteSet(s) /\ Cardinality(s) \in Nat /\ Cardinality(s) <= n + 1
      BY <1>0 DEF Small
    <3>3. Cardinality(s \ {Pick(s)}) = Cardinality(s) - 1 BY <3>1, <3>2, FS_RemoveElement
    <3> QED BY <3>2, <3>3 DEF Small
  <2>6. \A s \in Small(A, n + 1) :
           h[s] = IF s = {} THEN 0 ELSE f[Pick(s)] + h[s \ {Pick(s)}]
    BY <2>4, <2>5
  <2> HIDE DEF h
  <2>7. h = [s \in Small(A, n + 1) |-> h[s]] BY DEF h
  <2>8. Iter(f, Small(A, n + 1), h) BY <2>6, <2>7 DEF Iter
  <2> QED BY <2>8
<1>3. \A n \in Nat : G(n)
  <2> DEFINE Bad == {n \in Nat : ~G(n)}
  <2>1. SUFFICES ASSUME Bad # {} PROVE FALSE OBVIOUS
  <2> HIDE DEF G
  <2>2. PICK n \in Bad : \A m \in Bad : n <= m BY <2>1, LeastNumber
  <2>3. CASE n = 0 BY <2>3, <1>1
  <2>4. CASE n # 0
    <3>1. n - 1 \in Nat /\ n - 1 \notin Bad BY <2>2, <2>4
    <3>2. G((n - 1) + 1) BY <3>1, <1>2
    <3> QED BY <3>2
  <2> QED BY <2>3, <2>4
<1>4. Cardinality(A) \in Nat /\ Small(A, Cardinality(A)) = SUBSET A
  BY <1>0, FS_Subset, FS_CardinalityType DEF Small
<1> QED BY <1>3, <1>4

\* There is only one, and it is the same for functions that agree.
LEMMA IterUnique ==
  ASSUME NEW A, IsFiniteSet(A), NEW B, B \subseteq A, NEW f, NEW g, NEW it, NEW jt,
         Iter(f, SUBSET A, it), Iter(g, SUBSET B, jt), \A x \in B : f[x] = g[x]
  PROVE  \A s \in SUBSET B : it[s] = jt[s]
<1> DEFINE Bad == {s \in SUBSET B : it[s] # jt[s]}
<1>1. SUFFICES ASSUME Bad # {} PROVE FALSE OBVIOUS
<1>2. \A s \in SUBSET B : IsFiniteSet(s) BY FS_Subset
<1>3. PICK s \in Bad : \A t \in Bad : Cardinality(s) <= Cardinality(t)
  BY <1>1, <1>2, SmallestSet
<1>4. /\ it[s] = IF s = {} THEN 0 ELSE f[Pick(s)] + it[s \ {Pick(s)}]
      /\ jt[s] = IF s = {} THEN 0 ELSE g[Pick(s)] + jt[s \ {Pick(s)}]
  BY DEF Iter
<1>5. s # {} BY <1>4
<1>6. Pick(s) \in s BY <1>5, Picked
<1>7. Cardinality(s \ {Pick(s)}) < Cardinality(s)
  <2>1. Cardinality(s) \in Nat /\ IsFiniteSet(s) BY <1>2, FS_CardinalityType
  <2>2. Cardinality(s \ {Pick(s)}) = Cardinality(s) - 1 BY <1>6, <2>1, FS_RemoveElement
  <2> QED BY <2>1, <2>2
<1>8. s \ {Pick(s)} \notin Bad BY <1>2, <1>3, <1>7, FS_CardinalityType, FS_Subset
<1>9. it[s \ {Pick(s)}] = jt[s \ {Pick(s)}] BY <1>8
<1> QED BY <1>4, <1>6, <1>9

\* A sum is read from its table.
LEMMA SumIsIter ==
  ASSUME NEW f, NEW A
  PROVE SumFunctionOnSet(f, A) = (CHOOSE it : Iter(f, SUBSET A, it))[A]
BY Zenon DEF SumFunctionOnSet, FoldFunctionOnSet, MapThenFoldSet, Iter, Pick

\* The sum over no element.
LEMMA SumEmpty == \A f : SumFunctionOnSet(f, {}) = 0
<1> TAKE f
<1> DEFINE it == CHOOSE it : Iter(f, SUBSET {}, it)
<1>1. Iter(f, SUBSET {}, it) BY IterExists, FS_EmptySet
<1> HIDE DEF it
<1>2. it[{}] = 0 BY <1>1 DEF Iter
<1> QED BY <1>2, SumIsIter DEF it

\* Only the values of the function on the set matter.
LEMMA SumAgrees ==
  ASSUME NEW A, IsFiniteSet(A), NEW f, NEW g, \A x \in A : f[x] = g[x]
  PROVE  SumFunctionOnSet(f, A) = SumFunctionOnSet(g, A)
<1> DEFINE it == CHOOSE it : Iter(f, SUBSET A, it)
<1> DEFINE jt == CHOOSE jt : Iter(g, SUBSET A, jt)
<1>1. Iter(f, SUBSET A, it) /\ Iter(g, SUBSET A, jt) BY IterExists
<1> HIDE DEF it, jt
<1>2. it[A] = jt[A] BY <1>1, IterUnique
<1>3. SumFunctionOnSet(f, A) = it[A] /\ SumFunctionOnSet(g, A) = jt[A] BY SumIsIter DEF it, jt
<1> QED BY <1>2, <1>3

\* The element that is taken first, and the others.
LEMMA SumPick ==
  ASSUME NEW A, IsFiniteSet(A), A # {}, NEW f
  PROVE  SumFunctionOnSet(f, A) = f[Pick(A)] + SumFunctionOnSet(f, A \ {Pick(A)})
<1> DEFINE B == A \ {Pick(A)}
<1> DEFINE it == CHOOSE it : Iter(f, SUBSET A, it)
<1> DEFINE jt == CHOOSE jt : Iter(f, SUBSET B, jt)
<1>0. IsFiniteSet(B) /\ B \subseteq A BY FS_Subset
<1>1. Iter(f, SUBSET A, it) /\ Iter(f, SUBSET B, jt) BY <1>0, IterExists
<1>2. SumFunctionOnSet(f, A) = it[A] /\ SumFunctionOnSet(f, B) = jt[B] BY SumIsIter
<1> HIDE DEF it, jt
<1>3. it[A] = f[Pick(A)] + it[B] BY <1>1 DEF Iter
<1> HIDE DEF B
<1>4. \A s \in SUBSET B : it[s] = jt[s] BY <1>0, <1>1, IterUnique
<1> QED BY <1>2, <1>3, <1>4 DEF B

\* Induction over the subsets of a finite set, one element at a time.
LEMMA SetInduction ==
  ASSUME NEW A, IsFiniteSet(A), NEW Good,
         \A s \in SUBSET A : (\A x \in s : s \ {x} \in Good) => s \in Good
  PROVE  \A s \in SUBSET A : s \in Good
<1> DEFINE Bad == {s \in SUBSET A : s \notin Good}
<1>1. SUFFICES ASSUME Bad # {} PROVE FALSE OBVIOUS
<1>2. \A s \in SUBSET A : IsFiniteSet(s) /\ Cardinality(s) \in Nat
  BY FS_Subset, FS_CardinalityType
<1>3. PICK s \in Bad : \A t \in Bad : Cardinality(s) <= Cardinality(t)
  BY <1>1, <1>2, SmallestSet
<1>4. PICK x \in s : s \ {x} \notin Good OBVIOUS
<1>5. s \ {x} \in Bad BY <1>4
<1>6. Cardinality(s \ {x}) = Cardinality(s) - 1 BY <1>2, FS_RemoveElement
<1> QED BY <1>2, <1>3, <1>5, <1>6

\* A sum of integers is an integer.
LEMMA SumInt ==
  ASSUME NEW A, IsFiniteSet(A), NEW f, \A x \in A : f[x] \in Int
  PROVE  \A s \in SUBSET A : SumFunctionOnSet(f, s) \in Int
<1> DEFINE Good == {s \in SUBSET A : SumFunctionOnSet(f, s) \in Int}
<1>1. ASSUME NEW s \in SUBSET A, \A x \in s : s \ {x} \in Good PROVE s \in Good
  <2>1. CASE s = {} BY <2>1, SumEmpty
  <2>2. CASE s # {}
    <3>1. Pick(s) \in s BY <2>2, Picked
    <3>2. SumFunctionOnSet(f, s) = f[Pick(s)] + SumFunctionOnSet(f, s \ {Pick(s)})
      BY <2>2, FS_Subset, SumPick
    <3> QED BY <1>1, <3>1, <3>2
  <2> QED BY <2>1, <2>2
<1> HIDE DEF Good
<1>2. \A s \in SUBSET A : s \in Good BY <1>1, SetInduction
<1> QED BY <1>2 DEF Good

\* The sum of integers, whatever order the elements are taken in.
LEMMA SumRemove ==
  ASSUME NEW A, IsFiniteSet(A), NEW f, \A x \in A : f[x] \in Int
  PROVE  \A x \in A : SumFunctionOnSet(f, A) = f[x] + SumFunctionOnSet(f, A \ {x})
<1> DEFINE sum == [s \in SUBSET A |-> SumFunctionOnSet(f, s)]
<1> DEFINE Good == {s \in SUBSET A : \A x \in s : sum[s] = f[x] + sum[s \ {x}]}
<1>1. \A s \in SUBSET A : sum[s] \in Int BY SumInt
<1>2. \A s \in SUBSET A : s # {} =>
         Pick(s) \in s /\ sum[s] = f[Pick(s)] + sum[s \ {Pick(s)}]
  BY FS_Subset, SumPick, Picked
<1>3. ASSUME NEW s \in SUBSET A, \A x \in s : s \ {x} \in Good, NEW x \in s
      PROVE  sum[s] = f[x] + sum[s \ {x}]
  <2> DEFINE c == Pick(s)
  <2> HIDE DEF sum, c
  <2>1. c \in s /\ sum[s] = f[c] + sum[s \ {c}] BY <1>2 DEF c
  <2>2. CASE x = c BY <2>1, <2>2
  <2>3. CASE x # c
    <3> DEFINE r == sum[(s \ {c}) \ {x}]
    <3>1. s \ {c} \in Good /\ s \ {x} \in Good BY <1>3, <2>1
    <3>2. x \in s \ {c} /\ c \in s \ {x} /\ (s \ {x}) \ {c} = (s \ {c}) \ {x} BY <2>1, <2>3
    <3>3. sum[s \ {c}] = f[x] + r BY <3>1, <3>2
    <3>4. sum[s \ {x}] = f[c] + r BY <3>1, <3>2
    <3>5. r \in Int BY <1>1
    <3>6. f[x] \in Int /\ f[c] \in Int BY <2>1
    <3> HIDE DEF r
    <3> QED BY <2>1, <3>3, <3>4, <3>5, <3>6
  <2> QED BY <2>2, <2>3
<1>4. \A s \in SUBSET A : (\A x \in s : s \ {x} \in Good) => s \in Good
  BY <1>3
<1> HIDE DEF Good, sum
<1>5. \A s \in SUBSET A : s \in Good BY <1>4, SetInduction
<1> QED BY <1>5 DEF Good, sum

\* The sum with one more element.
LEMMA SumAdd ==
  ASSUME NEW A, IsFiniteSet(A), NEW f, NEW x, x \notin A, \A y \in A \union {x} : f[y] \in Int
  PROVE  SumFunctionOnSet(f, A \union {x}) = f[x] + SumFunctionOnSet(f, A)
<1>1. IsFiniteSet(A \union {x}) /\ (A \union {x}) \ {x} = A BY FS_AddElement
<1> QED BY <1>1, SumRemove

\* A part of naturals adds up to no more than the whole.
LEMMA SumSubset ==
  ASSUME NEW A, IsFiniteSet(A), NEW f, \A x \in A : f[x] \in Nat, NEW B \in SUBSET A
  PROVE  SumFunctionOnSet(f, B) <= SumFunctionOnSet(f, A)
<1> DEFINE sum == [s \in SUBSET A |-> SumFunctionOnSet(f, s)]
<1> DEFINE Good == {s \in SUBSET A : B \subseteq s => sum[B] <= sum[s]}
<1>1. \A s \in SUBSET A : sum[s] \in Int /\ \A x \in s : sum[s] = f[x] + sum[s \ {x}]
  BY FS_Subset, SumInt, SumRemove
<1>2. ASSUME NEW s \in SUBSET A, \A x \in s : s \ {x} \in Good, B \subseteq s
      PROVE  sum[B] <= sum[s]
  <2> HIDE DEF sum
  <2>1. CASE s = B BY <1>1, <2>1
  <2>2. CASE s # B
    <3>1. PICK x \in s : x \notin B BY <1>2, <2>2
    <3>2. sum[B] <= sum[s \ {x}] BY <1>2, <3>1
    <3> QED BY <1>1, <3>2
  <2> QED BY <2>1, <2>2
<1>3. \A s \in SUBSET A : (\A x \in s : s \ {x} \in Good) => s \in Good BY <1>2
<1> HIDE DEF Good
<1>4. \A s \in SUBSET A : s \in Good BY <1>3, SetInduction
<1> QED BY <1>4 DEF Good

-----------------------------------------------------------------------------
\* A finite set of naturals has a greatest element.
LEMMA GreatestNumber ==
  ASSUME NEW S \in SUBSET Nat, IsFiniteSet(S), S # {}
  PROVE  Max(S) \in S /\ \A n \in S : n <= Max(S)
<1> DEFINE Bounded == {s \in SUBSET S : \E m \in Nat : \A n \in s : n <= m}
<1>1. ASSUME NEW s \in SUBSET S, \A n \in s : s \ {n} \in Bounded PROVE s \in Bounded
  <2>1. CASE s = {} BY <2>1
  <2>2. CASE s # {}
    <3>1. PICK n \in s : TRUE BY <2>2
    <3>2. PICK m \in Nat : \A k \in s \ {n} : k <= m BY <1>1
    <3>3. \A k \in s : k <= n + m BY <3>2
    <3>4. n + m \in Nat OBVIOUS
    <3> QED BY <3>3, <3>4
  <2> QED BY <2>1, <2>2
<1>2. \A s \in SUBSET S : (\A n \in s : s \ {n} \in Bounded) => s \in Bounded BY <1>1
<1>3. S \in Bounded
  <2> HIDE DEF Bounded
  <2>1. \A s \in SUBSET S : s \in Bounded BY <1>2, SetInduction
  <2> QED BY <2>1
<1> DEFINE Bounds == {m \in Nat : \A n \in S : n <= m}
<1>4. PICK m \in Bounds : \A k \in Bounds : m <= k
  <2>1. Bounds # {} /\ Bounds \in SUBSET Nat BY <1>3
  <2> QED BY <2>1, LeastNumber
<1>5. m \in S
  <2>1. SUFFICES ASSUME m \notin S PROVE FALSE OBVIOUS
  <2>a. PICK n \in S : TRUE OBVIOUS
  <2>b. \A k \in S : k \in Nat /\ k <= m /\ k # m BY <1>4, <2>1
  <2>2. m - 1 \in Nat /\ \A k \in S : k <= m - 1 BY <2>a, <2>b
  <2> QED BY <1>4, <2>2
<1> QED BY <1>4, <1>5 DEF Max

\* The smaller of two numbers.
LEMMA Smaller ==
  ASSUME NEW m \in Int, NEW n \in Int
  PROVE  Min({m, n}) = IF m <= n THEN m ELSE n
BY DEF Min

\* A sequence without one of its elements, none of which it has twice.
LEMMA RowRemoved ==
  ASSUME NEW S, NEW s \in Seq(S), IsInjective(s), NEW e, NEW t, t = RemoveFirst(s, e)
  PROVE  /\ t \in Seq(S) /\ IsInjective(t)
         /\ ToSet(t) = ToSet(s) \ {e}
         /\ \A i \in DOMAIN t : \E j \in DOMAIN s : t[i] = s[j] /\ (i < Len(t) => j < Len(s))
<1>0. Len(s) \in Nat /\ DOMAIN s = 1..Len(s) /\ \A i \in 1..Len(s) : s[i] \in S
  BY LenProperties, ElementOfSeq
<1>1. CASE e \notin ToSet(s)
  <2>1. ~\E i \in 1..Len(s) : s[i] = e BY <1>0, <1>1 DEF ToSet
  <2>2. t = s BY <2>1, Zenon DEF RemoveFirst
  <2> QED BY <1>0, <1>1, <2>2
<1>2. CASE e \in ToSet(s)
  <2>1. PICK k \in 1..Len(s) : s[k] = e BY <1>0, <1>2 DEF ToSet
  <2>2. {i \in 1..Len(s) : s[i] = e} = {k} BY <1>0, <2>1 DEF IsInjective
  <2>3. SelectInSeq(s, LAMBDA v : v = e) = Min({i \in 1..Len(s) : s[i] = e})
    BY <2>1, <2>2, Zenon DEF SelectInSeq
  <2>K. Min({k}) = k BY DEF Min
  <2>4. t = SubSeq(s, 1, k - 1) \o SubSeq(s, k + 1, Len(s))
    <3>1. t = RemoveAt(s, SelectInSeq(s, LAMBDA v : v = e)) BY <2>1, Zenon DEF RemoveFirst
    <3>2. t = RemoveAt(s, k) BY <2>2, <2>3, <2>K, <3>1, Zenon
    <3> QED BY <3>2, Zenon DEF RemoveAt
  <2> DEFINE a == SubSeq(s, 1, k - 1)
             b == SubSeq(s, k + 1, Len(s))
  <2>5. /\ a \in Seq(S) /\ Len(a) = k - 1 /\ \A i \in 1..(k - 1) : a[i] = s[i]
        /\ b \in Seq(S) /\ Len(b) = Len(s) - k /\ \A i \in 1..(Len(s) - k) : b[i] = s[k + i]
    <3>1. /\ k - 1 \in Int /\ k + 1 \in Int /\ Len(s) \in Int
          /\ \A i \in 1..(k - 1) : s[i] \in S
          /\ \A i \in (k + 1)..Len(s) : s[i] \in S
      BY <1>0, <2>1
    <3>2. /\ a \in Seq(S) /\ Len(a) = IF 1 <= k - 1 THEN k - 1 - 1 + 1 ELSE 0
          /\ \A i \in 1..(k - 1 - 1 + 1) : a[i] = s[1 + i - 1]
      BY <3>1, SubSeqProperties
    <3>3. /\ b \in Seq(S) /\ Len(b) = IF k + 1 <= Len(s) THEN Len(s) - (k + 1) + 1 ELSE 0
          /\ \A i \in 1..(Len(s) - (k + 1) + 1) : b[i] = s[k + 1 + i - 1]
      BY <3>1, SubSeqProperties
    <3> HIDE DEF a, b
    <3>4. k \in Int /\ Len(s) \in Int /\ 1 <= k /\ k <= Len(s) BY <1>0, <2>1
    <3>5. Len(a) = k - 1 /\ Len(b) = Len(s) - k BY <3>2, <3>3, <3>4
    <3>6. \A i \in 1..(k - 1) : a[i] = s[i]
      <4> TAKE i \in 1..(k - 1)
      <4>1. i \in 1..(k - 1 - 1 + 1) /\ 1 + i - 1 = i BY <3>4
      <4> QED BY <3>2, <4>1
    <3>7. \A i \in 1..(Len(s) - k) : b[i] = s[k + i]
      <4> TAKE i \in 1..(Len(s) - k)
      <4>1. i \in 1..(Len(s) - (k + 1) + 1) /\ k + 1 + i - 1 = k + i BY <3>4
      <4> QED BY <3>3, <4>1
    <3> QED BY <3>2, <3>3, <3>5, <3>6, <3>7
  <2> HIDE DEF a, b
  <2>6. /\ t \in Seq(S) /\ Len(t) = Len(s) - 1
        /\ \A i \in 1..Len(t) : t[i] = IF i <= k - 1 THEN a[i] ELSE b[i - (k - 1)]
    <3>1. t = a \o b BY <2>4 DEF a, b
    <3>2. /\ a \o b \in Seq(S) /\ Len(a \o b) = Len(a) + Len(b)
          /\ \A i \in 1..(Len(a) + Len(b)) :
                 (a \o b)[i] = IF i <= Len(a) THEN a[i] ELSE b[i - Len(a)]
      BY <2>5, ConcatProperties
    <3> QED BY <1>0, <2>1, <2>5, <3>1, <3>2
  <2>7. /\ DOMAIN t = 1..(Len(s) - 1)
        /\ \A i \in 1..(Len(s) - 1) : t[i] = IF i < k THEN s[i] ELSE s[i + 1]
    BY <1>0, <2>1, <2>5, <2>6
  <2>8. IsInjective(t)
    <3> SUFFICES ASSUME NEW i \in 1..(Len(s) - 1), NEW j \in 1..(Len(s) - 1), t[i] = t[j]
                 PROVE  i = j
      BY <2>7 DEF IsInjective
    <3> DEFINE From(n) == IF n < k THEN n ELSE n + 1
    <3>1. \A n \in 1..(Len(s) - 1) : From(n) \in DOMAIN s /\ t[n] = s[From(n)]
      BY <1>0, <2>1, <2>7
    <3>2. From(i) = From(j) BY <3>1 DEF IsInjective
    <3> QED BY <1>0, <2>1, <3>2
  <2>9. ToSet(t) = ToSet(s) \ {e}
    <3>1. ASSUME NEW x \in ToSet(s), x # e PROVE x \in ToSet(t)
      <4>1. PICK i \in 1..Len(s) : s[i] = x BY <1>0 DEF ToSet
      <4>2. i # k BY <2>1, <3>1, <4>1
      <4>3. CASE i < k BY <1>0, <2>1, <2>7, <4>1, <4>3 DEF ToSet
      <4>4. CASE i > k
        <5>1. i - 1 \in 1..(Len(s) - 1) /\ t[i - 1] = s[i] BY <1>0, <2>1, <2>7, <4>4
        <5> QED BY <2>7, <4>1, <5>1 DEF ToSet
      <4> QED BY <2>1, <4>2, <4>3, <4>4
    <3>2. ASSUME NEW x \in ToSet(t) PROVE x \in ToSet(s) /\ x # e
      <4>1. PICK i \in 1..(Len(s) - 1) : t[i] = x BY <2>7 DEF ToSet
      <4>2. PICK j \in 1..Len(s) : s[j] = x /\ j # k BY <1>0, <2>1, <2>7, <4>1
      <4> QED BY <1>0, <2>1, <4>2 DEF ToSet, IsInjective
    <3> QED BY <3>1, <3>2
  <2>10. \A i \in DOMAIN t : \E j \in DOMAIN s : t[i] = s[j] /\ (i < Len(t) => j < Len(s))
    <3> TAKE i \in DOMAIN t
    <3>1. i \in 1..(Len(s) - 1) /\ Len(t) = Len(s) - 1 BY <2>6, <2>7
    <3>2. CASE i < k BY <1>0, <2>1, <2>7, <3>1, <3>2
    <3>3. CASE i >= k
      <4>1. i + 1 \in DOMAIN s /\ t[i] = s[i + 1] BY <1>0, <2>1, <2>7, <3>1, <3>3
      <4> QED BY <1>0, <3>1, <4>1
    <3> QED BY <2>1, <3>1, <3>2, <3>3
  <2> QED BY <2>6, <2>8, <2>9, <2>10
<1> QED BY <1>1, <1>2

\* A sequence with one element more.
LEMMA RowAppended ==
  ASSUME NEW S, NEW s \in Seq(S), NEW e \in S, IsInjective(s), e \notin ToSet(s), NEW t, t = Append(s, e)
  PROVE  /\ t \in Seq(S) /\ IsInjective(t)
         /\ \A x : x \in ToSet(t) <=> x \in ToSet(s) \/ x = e
         /\ \A i \in DOMAIN t : (i \in DOMAIN s /\ t[i] = s[i]) \/ (i = Len(t) /\ t[i] = e)
<1>0. Len(s) \in Nat /\ DOMAIN s = 1..Len(s) BY LenProperties
<1>1. /\ t \in Seq(S) /\ Len(t) = Len(s) + 1 /\ DOMAIN t = 1..(Len(s) + 1)
      /\ \A i \in 1..Len(s) : t[i] = s[i]
      /\ t[Len(s) + 1] = e
  BY <1>0, AppendProperties, LenProperties
<1>2. \A i \in DOMAIN t : (i \in DOMAIN s /\ t[i] = s[i]) \/ (i = Len(t) /\ t[i] = e)
  BY <1>0, <1>1
<1>3. \A i \in DOMAIN s : s[i] # e /\ i \in DOMAIN t /\ t[i] = s[i] BY <1>0, <1>1 DEF ToSet
<1>4. IsInjective(t) BY <1>2, <1>3 DEF IsInjective
<1>5. ToSet(t) = ToSet(s) \union {e}
  <2>1. ToSet(t) \subseteq ToSet(s) \union {e} BY <1>2 DEF ToSet
  <2>2. ToSet(s) \subseteq ToSet(t) BY <1>3 DEF ToSet
  <2>3. e \in ToSet(t) BY <1>0, <1>1 DEF ToSet
  <2> QED BY <2>1, <2>2, <2>3
<1> QED BY <1>1, <1>2, <1>4, <1>5
===============================================================================
