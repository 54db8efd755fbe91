------------------------ MODULE Subsequences_proofs ------------------------
(***************************************************************************)
(* What holds of the elements at some positions of a list, for any list    *)
(* and any of its positions: they are those of the list, and in its order. *)
(***************************************************************************)
EXTENDS Subsequences, SequencesExt, FunctionTheorems, FiniteSetTheorems, SequenceTheorems,
        WellFoundedInduction, TLAPS

\* A set of positions.
IsPositions(I) == I \in SUBSET (Nat \ {0}) /\ IsFiniteSet(I)

LEMMA SomePositions ==
    ASSUME NEW n \in Nat, NEW I \in SUBSET (1 .. n)
    PROVE  IsPositions(I) /\ Cardinality(I) \in 0 .. n
<1>1. IsFiniteSet(1 .. n) /\ Cardinality(1 .. n) = n  BY FS_Interval
<1>2. IsFiniteSet(I) /\ Cardinality(I) <= n  BY <1>1, FS_Subset
<1> QED  BY <1>2, FS_CardinalityType DEF IsPositions

\* Ranks count the positions from 1 on, later positions further.
LEMMA RankCounts ==
    ASSUME NEW I, IsPositions(I), NEW i \in I
    PROVE  Rank(I, i) \in 1 .. Cardinality(I)
<1> DEFINE J == {j \in I : j <= i}
<1>1. IsFiniteSet(J) /\ Cardinality(J) <= Cardinality(I)  BY FS_Subset DEF IsPositions
<1>2. Cardinality(J) \in Nat /\ Cardinality(I) \in Nat
      BY <1>1, FS_CardinalityType DEF IsPositions
<1>3. i \in J  BY DEF IsPositions
<1>4. Cardinality(J) # 0  BY <1>1, <1>3, FS_EmptySet
<1> QED  BY <1>1, <1>2, <1>4 DEF Rank

LEMMA RankIncreases ==
    ASSUME NEW I, IsPositions(I), NEW i \in I, NEW j \in I, i < j
    PROVE  Rank(I, i) < Rank(I, j)
<1> DEFINE Below == {k \in I : k <= i}
           Upto == {k \in I : k <= j}
<1>1. i \in Nat /\ j \in Nat /\ I \subseteq Nat  BY DEF IsPositions
<1>2. Below \subseteq Upto /\ j \in Upto /\ j \notin Below
  <2>1. \A k \in I : k <= i => k <= j  BY <1>1
  <2>2. j <= j /\ ~(j <= i)  BY <1>1
  <2> QED  BY <2>1, <2>2
<1>3. IsFiniteSet(Upto)  BY FS_Subset DEF IsPositions
<1>4. /\ IsFiniteSet(Below) /\ Cardinality(Below) <= Cardinality(Upto)
      /\ Cardinality(Below) # Cardinality(Upto)
      BY <1>2, <1>3, FS_Subset
<1>5. Cardinality(Below) \in Nat /\ Cardinality(Upto) \in Nat
      BY <1>3, <1>4, FS_CardinalityType
<1> QED  BY <1>4, <1>5 DEF Rank

\* Every number up to that of the positions is the rank of one of them: the ranks
\* are as many as there are numbers.
LEMMA NthExists ==
    ASSUME NEW I, IsPositions(I), NEW n \in 1 .. Cardinality(I)
    PROVE  Nth(I, n) \in I /\ Rank(I, Nth(I, n)) = n
<1> DEFINE c == Cardinality(I)
           r == [i \in I |-> Rank(I, i)]
<1>1. c \in Nat  BY FS_CardinalityType DEF IsPositions
<1>2. r \in [I -> 1 .. c]  BY RankCounts
<1>3. ASSUME NEW i \in I, NEW j \in I, r[i] = r[j] PROVE i = j
  <2>1. i \in Nat /\ j \in Nat  BY DEF IsPositions
  <2>2. Rank(I, i) = Rank(I, j) /\ Rank(I, i) \in Nat  BY <1>3, <1>1, RankCounts
  <2>3. ~(i < j) /\ ~(j < i)  BY <2>2, RankIncreases
  <2> QED  BY <2>1, <2>3
<1>4. r \in Injection(I, 1 .. c)  BY <1>2, <1>3, Fun_IsInj
<1>5. IsFiniteSet(1 .. c) /\ Cardinality(1 .. c) = c  BY <1>1, FS_Interval
<1>6. r \in Surjection(I, 1 .. c)
  <2> HIDE DEF r
  <2> QED  BY <1>4, <1>5, FS_Injection
<1>7. \A k \in 1 .. c : \E i \in I : r[i] = k  
  <2> HIDE DEF r
  <2> QED BY <1>6, Fun_SurjectionProperties
<1>8. \E i \in I : Rank(I, i) = n  BY <1>7
<1> QED  BY <1>8 DEF Nth

LEMMA NthOfRank ==
    ASSUME NEW I, IsPositions(I), NEW i \in I
    PROVE  Nth(I, Rank(I, i)) = i
<1> DEFINE n == Rank(I, i)
           k == Nth(I, n)
<1>1. n \in 1 .. Cardinality(I)  BY RankCounts
<1>2. k \in I /\ Rank(I, k) = n  BY <1>1, NthExists
<1>3. i \in Nat /\ k \in Nat  BY <1>2 DEF IsPositions
<1>5. n \in Nat  BY <1>1, FS_CardinalityType DEF IsPositions
<1>4. ~(i < k) /\ ~(k < i)
  <2> HIDE DEF k
  <2> QED  BY <1>2, <1>3, <1>5, RankIncreases
<1> QED  BY <1>3, <1>4

LEMMA NthIncreases ==
    ASSUME NEW I, IsPositions(I), NEW m \in 1 .. Cardinality(I), NEW n \in 1 .. Cardinality(I), m < n
    PROVE  Nth(I, m) < Nth(I, n)
<1>1. /\ Nth(I, m) \in I /\ Rank(I, Nth(I, m)) = m
      /\ Nth(I, n) \in I /\ Rank(I, Nth(I, n)) = n
      BY NthExists
<1>2. Nth(I, m) \in Nat /\ Nth(I, n) \in Nat  BY <1>1 DEF IsPositions
<1>3. m \in Nat /\ n \in Nat
  <2>1. Cardinality(I) \in Nat BY FS_CardinalityType DEF IsPositions
  <2> QED BY <2>1
<1>4. Nth(I, m) # Nth(I, n)  BY <1>1, <1>3
<1>5. ~(Nth(I, n) < Nth(I, m))  BY <1>1, <1>3, RankIncreases
<1> QED  BY <1>2, <1>4, <1>5

-----------------------------------------------------------------------------
\* What is picked is a list, of the elements at these positions and no others.
LEMMA PickedType ==
    ASSUME NEW S, NEW s \in Seq(S), NEW I \in SUBSET DOMAIN s
    PROVE  /\ Picked(s, I) \in Seq(S) /\ Len(Picked(s, I)) = Cardinality(I)
           /\ IsPositions(I) /\ Cardinality(I) \in 0 .. Len(s)
<1> DEFINE c == Cardinality(I)
<1>1. Len(s) \in Nat /\ DOMAIN s = 1 .. Len(s)  OBVIOUS
<1>2. IsPositions(I) /\ c \in 0 .. Len(s)  BY <1>1, SomePositions
<1>3. \A n \in 1 .. c : Nth(I, n) \in I  BY <1>2, NthExists
<1>4. Picked(s, I) \in [1 .. c -> S]  BY <1>1, <1>3 DEF Picked
<1> QED  BY <1>2, <1>4

LEMMA PickedElements ==
    ASSUME NEW S, NEW s \in Seq(S), NEW I \in SUBSET DOMAIN s
    PROVE  {Picked(s, I)[n] : n \in DOMAIN Picked(s, I)} = {s[i] : i \in I}
<1> DEFINE c == Cardinality(I)
<1>1. IsPositions(I)  BY PickedType
<1>2. DOMAIN Picked(s, I) = 1 .. c /\ \A n \in 1 .. c : Picked(s, I)[n] = s[Nth(I, n)]
      BY DEF Picked
<1>3. \A n \in 1 .. c : Nth(I, n) \in I  BY <1>1, NthExists
<1>4. \A i \in I : Rank(I, i) \in 1 .. c /\ Nth(I, Rank(I, i)) = i
      BY <1>1, RankCounts, NthOfRank
<1> QED  BY <1>2, <1>3, <1>4

\* From a list without repetitions a list without repetitions is picked.
LEMMA PickedInjective ==
    ASSUME NEW S, NEW s \in Seq(S), NEW I \in SUBSET DOMAIN s, IsInjective(s)
    PROVE  IsInjective(Picked(s, I))
<1> DEFINE c == Cardinality(I)
           t == Picked(s, I)
<1>1. IsPositions(I)  BY PickedType
<1>2. DOMAIN t = 1 .. c /\ \A n \in 1 .. c : t[n] = s[Nth(I, n)]  BY DEF Picked
<1>3. \A n \in 1 .. c : Nth(I, n) \in DOMAIN s /\ Rank(I, Nth(I, n)) = n  BY <1>1, NthExists
<1>4. ASSUME NEW m \in 1 .. c, NEW n \in 1 .. c, t[m] = t[n] PROVE m = n
  <2>1. Nth(I, m) = Nth(I, n)  BY <1>2, <1>3, <1>4 DEF IsInjective
  <2> QED  BY <2>1, <1>3
<1> QED  BY <1>2, <1>4 DEF IsInjective

\* The first positions of a list pick its beginning.
LEMMA PickedBeginning ==
    ASSUME NEW S, NEW s \in Seq(S), NEW k \in 0 .. Len(s)
    PROVE  Picked(s, 1 .. k) = SubSeq(s, 1, k)
<1> DEFINE I == 1 .. k
<1>1. Cardinality(I) = k  BY FS_Interval
<1>2. IsPositions(I)  BY SomePositions
<1>3. ASSUME NEW n \in I PROVE Nth(I, n) = n
  <2>1. {j \in I : j <= n} = 1 .. n  OBVIOUS
  <2>2. n \in Nat /\ Cardinality(1 .. n) = n - 1 + 1  BY FS_Interval
  <2>3. Rank(I, n) = Cardinality(1 .. n)  BY <2>1, Zenon DEF Rank
  <2>4. Rank(I, n) = n  BY <2>2, <2>3
  <2> QED  BY <1>2, <2>4, NthOfRank
<1>4. Picked(s, I) = [n \in 1 .. k |-> s[n]]  
  <2> HIDE DEF I
  <2> QED BY <1>1, <1>3 DEF Picked, I
<1>5. SubSeq(s, 1, k) = [n \in 1 .. k |-> s[n]]  OBVIOUS
<1> QED  BY <1>4, <1>5

\* All positions pick the list.
LEMMA PickedAll ==
    ASSUME NEW S, NEW s \in Seq(S)
    PROVE  Picked(s, DOMAIN s) = s
<1>1. DOMAIN s = 1 .. Len(s) /\ Len(s) \in 0 .. Len(s)  OBVIOUS
<1>2. Picked(s, 1 .. Len(s)) = SubSeq(s, 1, Len(s))  BY <1>1, PickedBeginning
<1> QED  BY <1>1, <1>2
-----------------------------------------------------------------------------
(* Pages *)

LEMMA MinOfTwo ==
    ASSUME NEW a \in Int, NEW b \in Int
    PROVE  Min({a, b}) = IF a <= b THEN a ELSE b
<1>1. \E x \in {a, b} : \A y \in {a, b} : x <= y  OBVIOUS
<1>2. Min({a, b}) \in {a, b} /\ \A y \in {a, b} : Min({a, b}) <= y
      BY <1>1 DEF Min
<1> QED  BY <1>2

\* The positions of a list that page i of a find over it shows.
OnPage(list, limit, i) == {j \in DOMAIN list : (i - 1) * limit < j /\ j <= i * limit}

\* The elements of a list at some of its positions.
At(list, J) == {list[j] : j \in J}

LEMMA PageShows ==
    ASSUME NEW S, NEW list \in Seq(S), NEW limit \in Nat \ {0}, NEW i \in Nat \ {0}
    PROVE  /\ Page(list, limit, i) \in Seq(S)
           /\ ToSet(Page(list, limit, i)) = At(list, OnPage(list, limit, i))
<1> DEFINE m == (i - 1) * limit
           u == i * limit
           n == Min({u, Len(list)})
<1>1. m \in Nat /\ u \in Nat /\ u = m + limit /\ Len(list) \in Nat  OBVIOUS
<1>2. n = IF u <= Len(list) THEN u ELSE Len(list)  BY <1>1, MinOfTwo
<1>3. Page(list, limit, i) = SubSeq(list, m + 1, n)  BY DEF Page
<1> HIDE DEF m, u, n
<1>4. n \in Nat /\ n <= Len(list)  BY <1>1, <1>2
<1>5. OnPage(list, limit, i) = (m + 1) .. n  BY <1>1, <1>2 DEF OnPage, m, u
<1> DEFINE t == SubSeq(list, m + 1, n)
<1>6. t \in Seq(S) /\ Len(t) = (IF m + 1 <= n THEN n - m ELSE 0)
      /\ \A k \in 1 .. Len(t) : t[k] = list[m + k]
      BY <1>1, <1>4, SubSeqProperties
<1>7. ToSet(t) = At(list, (m + 1) .. n)
  <2>1. DOMAIN t = 1 .. Len(t)  BY <1>6
  <2>2. ASSUME NEW k \in DOMAIN t PROVE m + k \in (m + 1) .. n /\ t[k] = list[m + k]
        BY <2>1, <1>1, <1>4, <1>6
  <2>3. ASSUME NEW j \in (m + 1) .. n PROVE j - m \in DOMAIN t /\ t[j - m] = list[j]
    <3>1. j - m \in 1 .. Len(t) /\ m + (j - m) = j  BY <1>1, <1>4, <1>6
    <3> QED BY <3>1, <2>1, <1>6
  <2> HIDE DEF t
  <2> QED  BY <2>2, <2>3 DEF ToSet, At
<1> QED  BY <1>3, <1>5, <1>6, <1>7

\* The last page begins before the end of the list, and no page is missing.
LEMMA PagesFit ==
    ASSUME NEW S, NEW list \in Seq(S), NEW limit \in Nat \ {0}, list # <<>>
    PROVE  /\ PagesOf(list, limit) \in Nat \ {0}
           /\ (PagesOf(list, limit) - 1) * limit < Len(list)
           /\ Len(list) <= PagesOf(list, limit) * limit
<1> DEFINE n == Len(list)
           q == PagesOf(list, limit)
           m == n + limit - 1
<1>1. n \in Nat \ {0} /\ limit \in Nat \ {0} /\ m \in Nat  OBVIOUS
<1>2. q = m \div limit  BY DEF PagesOf
<1>3. q \in Int /\ q * limit <= m /\ m < (q + 1) * limit
  <2> HIDE DEF m
  <2> QED  BY <1>1, <1>2
<1>4. (q + 1) * limit = q * limit + limit /\ (q - 1) * limit = q * limit - limit
  <2> HIDE DEF q
  <2> QED BY <1>1, <1>3
<1> HIDE DEF q
<1>5. q * limit \in Int /\ n <= q * limit BY <1>1, <1>3, <1>4
<1>6. q > 0
  <2>1. q <= 0 => q * limit <= 0  BY <1>1, <1>3
  <2> QED  BY <2>1, <1>1, <1>3, <1>5
<1>7. (q - 1) * limit < n  BY <1>1, <1>3, <1>4, <1>5
<1> QED  BY <1>3, <1>5, <1>6, <1>7 DEF q

LEMMA Quotient ==
    ASSUME NEW m \in Nat, NEW limit \in Nat \ {0}
    PROVE  m \div limit \in Int /\ (m \div limit) * limit <= m /\ m < (m \div limit + 1) * limit
OBVIOUS

\* Every position of a list is on one of its pages.
LEMMA SomePageShows ==
    ASSUME NEW S, NEW list \in Seq(S), NEW limit \in Nat \ {0}, NEW j \in DOMAIN list
    PROVE  \E i \in 1 .. PagesOf(list, limit) : j \in OnPage(list, limit, i)
<1> DEFINE q == (j - 1) \div limit
           n == PagesOf(list, limit)
<1>1. Len(list) \in Nat /\ j \in 1 .. Len(list) /\ list # <<>>  OBVIOUS
<1>2. q \in Int /\ q * limit <= j - 1 /\ j - 1 < (q + 1) * limit
  <2>1. j - 1 \in Nat  BY <1>1
  <2> QED  BY <2>1, Quotient, Zenon
<1>3. n \in Nat \ {0} /\ Len(list) <= n * limit  BY <1>1, PagesFit
<1> HIDE DEF q, n
<1>4. q >= 0
  <2> DEFINE u == (q + 1) * limit
  <2>1. u \in Int /\ j - 1 < u  BY <1>2
  <2>2. q < 0 => u <= 0  BY <1>2
  <2> HIDE DEF u
  <2> QED  BY <2>1, <2>2, <1>1, <1>2
<1>5. q < n
  <2>1. q >= n => q * limit >= n * limit  BY <1>2, <1>3
  <2>2. q * limit \in Int /\ n * limit \in Int  BY <1>2, <1>3
  <2> QED  BY <2>1, <2>2, <1>1, <1>2, <1>3
<1>6. q + 1 \in 1 .. n /\ (q + 1) - 1 = q  BY <1>2, <1>3, <1>4, <1>5
<1>7. j \in OnPage(list, limit, q + 1)
  <2>1. (q + 1) * limit \in Int /\ q * limit \in Int  BY <1>2
  <2> QED  BY <2>1, <1>1, <1>2, <1>6 DEF OnPage
<1> QED  BY <1>6, <1>7 DEF n

-----------------------------------------------------------------------------
(* Induction and recursion up to a number *)

\* Induction, for a set of natural numbers.
LEMMA SetInduction ==
    ASSUME NEW S, 0 \in S, \A n \in Nat : n \in S => n + 1 \in S
    PROVE  Nat \subseteq S
<1> DEFINE T == Nat \ S
<1> SUFFICES ASSUME T # {} PROVE FALSE  OBVIOUS
<1>1. PICK m \in T : \A n \in T : ~(<<n, m>> \in OpToRel(<, Nat))
      BY WFMin, NatLessThanWellFounded
<1>2. m \in Nat /\ m # 0 /\ m - 1 \in Nat  OBVIOUS
<1>3. m - 1 \in T  BY <1>2
<1>4. <<m - 1, m>> \in OpToRel(<, Nat)  BY <1>2 DEF OpToRel
<1> QED  BY <1>1, <1>3, <1>4

LEMMA InductionUpTo ==
    ASSUME NEW last \in Nat, NEW S, 0 \in S, \A n \in 1 .. last : n - 1 \in S => n \in S
    PROVE  0 .. last \subseteq S
<1> DEFINE T == {n \in Nat : n <= last => n \in S}
<1>1. 0 \in T  OBVIOUS
<1>2. \A n \in Nat : n \in T => n + 1 \in T
  <2> SUFFICES ASSUME NEW n \in Nat, n \in T, n + 1 <= last PROVE n + 1 \in S  OBVIOUS
  <2>1. n + 1 \in 1 .. last /\ (n + 1) - 1 = n /\ n \in S  OBVIOUS
  <2> QED  BY <2>1
<1> HIDE DEF T
<1>3. Nat \subseteq T  BY <1>1, <1>2, SetInduction
<1> QED  BY <1>3 DEF T

\* Every set of natural numbers that is not empty has a least element.
LEMMA LeastElement ==
    ASSUME NEW I \in SUBSET Nat, I # {}
    PROVE  Min(I) \in I /\ \A i \in I : Min(I) <= i
<1>1. PICK m \in I : \A n \in I : ~(<<n, m>> \in OpToRel(<, Nat))
      BY WFMin, NatLessThanWellFounded
<1>2. \A n \in I : m <= n
  <2> TAKE n \in I
  <2>1. ~(n < m)  BY <1>1 DEF OpToRel
  <2> QED  BY <2>1
<1> QED  BY <1>2 DEF Min

\* Every set of positions of a list that is not empty has a greatest one.
LEMMA GreatestElement ==
    ASSUME NEW n \in Nat, NEW I \in SUBSET (1 .. n), I # {}
    PROVE  Max(I) \in I /\ \A i \in I : i <= Max(I)
<1> DEFINE J == {n - i : i \in I}
<1>0. \A i \in I : i \in Nat /\ i <= n /\ n - i \in Nat  OBVIOUS
<1>1. J \in SUBSET Nat /\ J # {} /\ \A i \in I : n - i \in J  BY <1>0
<1>2. Min(J) \in J /\ \A j \in J : Min(J) <= j  BY <1>1, LeastElement
<1>3. PICK m \in I : Min(J) = n - m  BY <1>2
<1>4. \A i \in I : i <= m
  <2> TAKE i \in I
  <2>1. n - m <= n - i  BY <1>1, <1>2, <1>3
  <2> HIDE DEF J
  <2> QED  BY <2>1, <1>0
<1>5. \E k \in I : \A i \in I : k >= i  BY <1>4
<1> QED  BY <1>5 DEF Max

\* From a first value and a step for each number up to last there is a function
\* that takes these steps.
Takes(f, a, last, step) == f[0] = a /\ \A n \in 1 .. last : f[n] = step[n][f[n - 1]]

LEMMA RecursionExists ==
    ASSUME NEW A, NEW a \in A, NEW last \in Nat, NEW step \in [1 .. last -> [A -> A]]
    PROVE  \E f \in [0 .. last -> A] : Takes(f, a, last, step)
<1> DEFINE Does(f, m) == f[0] = a /\ \A n \in 1 .. m : f[n] = step[n][f[n - 1]]
           S == {m \in 0 .. last : \E f \in [0 .. m -> A] : Does(f, m)}
<1>1. 0 \in S
  <2> DEFINE f == [n \in 0 .. 0 |-> a]
  <2>1. f \in [0 .. 0 -> A] /\ f[0] = a /\ 1 .. 0 = {}  OBVIOUS
  <2> HIDE DEF f
  <2>2. Does(f, 0)  BY <2>1
  <2> QED  BY <2>1, <2>2
<1>2. ASSUME NEW m \in 1 .. last, m - 1 \in S PROVE m \in S
  <2>1. PICK f \in [0 .. m - 1 -> A] : Does(f, m - 1)  BY <1>2
  <2> DEFINE g == [n \in 0 .. m |-> IF n = m THEN step[m][f[m - 1]] ELSE f[n]]
  <2>2. f[m - 1] \in A  OBVIOUS
  <2>3. step[m][f[m - 1]] \in A  BY <2>2
  <2>4. g \in [0 .. m -> A]  BY <2>3
  <2>5. g[0] = a /\ g[m] = step[m][f[m - 1]] /\ \A n \in 0 .. m - 1 : g[n] = f[n]  BY <2>1
  <2> HIDE DEF g
  <2>6. ASSUME NEW n \in 1 .. m PROVE g[n] = step[n][g[n - 1]]
    <3>1. CASE n = m  BY <3>1, <2>5
    <3>2. CASE n # m
      <4>1. n \in 1 .. m - 1 /\ n - 1 \in 0 .. m - 1 /\ n \in 0 .. m - 1  BY <3>2
      <4> QED  BY <4>1, <2>1, <2>5
    <3> QED  BY <3>1, <3>2
  <2>7. Does(g, m)  BY <2>5, <2>6
  <2> QED  BY <2>4, <2>7
<1> HIDE DEF S
<1>3. 0 .. last \subseteq S  BY <1>1, <1>2, InductionUpTo
<1> QED  BY <1>3 DEF S, Takes

\* And from a step there is a function of all numbers that takes it every time.
LEMMA IterationExists ==
    ASSUME NEW A, NEW a \in A, NEW step \in [A -> A]
    PROVE  \E f \in [Nat -> A] : f[0] = a /\ \A n \in Nat : f[n + 1] = step[f[n]]
<1> DEFINE Does(g, last) == g[0] = a /\ \A n \in 1 .. last : g[n] = step[g[n - 1]]
<1>1. ASSUME NEW last \in Nat PROVE \E g \in [0 .. last -> A] : Does(g, last)
  <2> DEFINE steps == [n \in 1 .. last |-> step]
  <2>1. steps \in [1 .. last -> [A -> A]]  OBVIOUS
  <2> HIDE DEF steps
  <2>2. PICK g \in [0 .. last -> A] : Takes(g, a, last, steps)  BY <2>1, RecursionExists
  <2>3. Does(g, last)  BY <2>2 DEF Takes, steps
  <2> QED  BY <2>3
<1> DEFINE upTo(last) == CHOOSE g \in [0 .. last -> A] : Does(g, last)
           f == [n \in Nat |-> upTo(n)[n]]
<1>2. \A last \in Nat : upTo(last) \in [0 .. last -> A] /\ Does(upTo(last), last)  BY <1>1
<1> HIDE DEF upTo
<1>3. ASSUME NEW last \in Nat PROVE upTo(last + 1)[last] = upTo(last)[last]
  <2> DEFINE S == {n \in 0 .. last : upTo(last + 1)[n] = upTo(last)[n]}
  <2>1. last + 1 \in Nat /\ Does(upTo(last), last) /\ Does(upTo(last + 1), last + 1)  BY <1>2
  <2>2. 0 \in S  BY <2>1
  <2>3. ASSUME NEW n \in 1 .. last, n - 1 \in S PROVE n \in S
    <3>1. n \in 1 .. last + 1  OBVIOUS
    <3>2. upTo(last)[n] = step[upTo(last)[n - 1]] /\ upTo(last + 1)[n] = step[upTo(last + 1)[n - 1]]
          BY <2>1, <3>1
    <3> QED  BY <3>2, <2>3
  <2> HIDE DEF S
  <2>4. last \in S  BY <2>2, <2>3, InductionUpTo
  <2> QED  BY <2>4 DEF S
<1>4. f \in [Nat -> A]
  <2>1. ASSUME NEW n \in Nat PROVE upTo(n)[n] \in A  BY <1>2
  <2> QED  BY <2>1
<1>5. f[0] = a  BY <1>2
<1>6. ASSUME NEW n \in Nat PROVE f[n + 1] = step[f[n]]
  <2>1. n + 1 \in Nat /\ n + 1 \in 1 .. n + 1 /\ (n + 1) - 1 = n  OBVIOUS
  <2>2. upTo(n + 1)[n + 1] = step[upTo(n + 1)[n]]  BY <1>2, <2>1
  <2> QED  BY <2>1, <2>2, <1>3
<1> QED  BY <1>4, <1>5, <1>6

-----------------------------------------------------------------------------
(* Lists that are put together *)

LEMMA ToSetConcat ==
    ASSUME NEW S, NEW s \in Seq(S), NEW t \in Seq(S)
    PROVE  s \o t \in Seq(S) /\ ToSet(s \o t) = ToSet(s) \cup ToSet(t)
<1>1. ASSUME NEW x \in ToSet(s \o t) PROVE x \in ToSet(s) \cup ToSet(t)
      BY <1>1 DEF ToSet
<1>2. ASSUME NEW i \in DOMAIN s PROVE s[i] \in ToSet(s \o t)
  <2>1. i \in DOMAIN (s \o t) /\ (s \o t)[i] = s[i]  OBVIOUS
  <2> QED  BY <2>1 DEF ToSet
<1>3. ASSUME NEW i \in DOMAIN t PROVE t[i] \in ToSet(s \o t)
  <2>1. Len(s) + i \in DOMAIN (s \o t) /\ (s \o t)[Len(s) + i] = t[i]  OBVIOUS
  <2> QED  BY <2>1 DEF ToSet
<1>4. ToSet(s) \cup ToSet(t) \subseteq ToSet(s \o t)  BY <1>2, <1>3, Zenon DEF ToSet
<1>5. s \o t \in Seq(S)  OBVIOUS
<1> QED  BY <1>1, <1>4, <1>5, Zenon

\* All the lists of a list, one after the other, are put together in so many steps.
LEMMA FlattenSeqSteps ==
    ASSUME NEW S, NEW seqs \in Seq(Seq(S))
    PROVE  \E f \in [0 .. Len(seqs) -> Seq(S)] :
             /\ f[0] = <<>> /\ FlattenSeq(seqs) = f[Len(seqs)]
             /\ \A n \in 1 .. Len(seqs) : f[n] = f[n - 1] \o seqs[n]
<1> DEFINE L == Len(seqs)
           A == Seq(S)
           step == [n \in 1 .. L |-> [t \in A |-> t \o seqs[n]]]
           flatten[i \in 1 .. L] == IF i = 1 THEN seqs[i] ELSE flatten[i - 1] \o seqs[i]
<1>1. L \in Nat /\ <<>> \in A /\ \A i \in 1 .. L : seqs[i] \in A  OBVIOUS
<1>2. step \in [1 .. L -> [A -> A]]
  <2>1. ASSUME NEW n \in 1 .. L, NEW t \in A PROVE t \o seqs[n] \in A  BY <1>1
  <2> HIDE DEF A, L
  <2> QED  BY <2>1
<1> HIDE DEF A, L, step, flatten
<1>3. PICK f \in [0 .. L -> A] : Takes(f, <<>>, L, step)
      BY <1>1, <1>2, RecursionExists
<1>4. f[0] = <<>> /\ \A n \in 1 .. L : f[n] = f[n - 1] \o seqs[n]
  <2>1. ASSUME NEW n \in 1 .. L PROVE f[n] = f[n - 1] \o seqs[n]
    <3>1. n - 1 \in 0 .. L /\ f[n - 1] \in A  BY <1>1
    <3>2. f[n] = step[n][f[n - 1]]  BY <1>3 DEF Takes
    <3> QED  BY <3>1, <3>2 DEF step
  <2> QED  BY <2>1, <1>3 DEF Takes
<1>5. CASE L = 0
  <2>1. FlattenSeq(seqs) = seqs /\ seqs = <<>>  BY <1>5 DEF FlattenSeq, L
  <2> QED  BY <2>1, <1>1, <1>4, <1>5 DEF L, A
<1>6. CASE L # 0
  <2>1. FlattenSeq(seqs) = flatten[L]  BY <1>6 DEF FlattenSeq, flatten, L
  <2>2. \E g : g = [i \in 1 .. L |-> IF i = 1 THEN seqs[i] ELSE g[i - 1] \o seqs[i]]
    <3> DEFINE g == [i \in 1 .. L |-> f[i]]
    <3>1. ASSUME NEW i \in 1 .. L PROVE g[i] = IF i = 1 THEN seqs[i] ELSE g[i - 1] \o seqs[i]
      <4>1. f[i] = f[i - 1] \o seqs[i]  BY <1>4
      <4>2. CASE i = 1
        <5>1. <<>> \o seqs[1] = seqs[1] /\ i - 1 = 0  BY <4>2, <1>1 DEF A
        <5>2. f[1] = <<>> \o seqs[1]  BY <4>1, <4>2, <5>1, <1>4
        <5> QED  BY <4>2, <5>1, <5>2
      <4>3. CASE i # 1
        <5>1. i - 1 \in 1 .. L  BY <4>3, <1>1
        <5> QED  BY <4>1, <4>3, <5>1
      <4> QED  BY <4>2, <4>3
    <3>2. g = [i \in 1 .. L |-> IF i = 1 THEN seqs[i] ELSE g[i - 1] \o seqs[i]]
      <4>1. g = [i \in 1 .. L |-> g[i]]  OBVIOUS
      <4> HIDE DEF g
      <4> QED  BY <4>1, <3>1
    <3> QED  BY <3>2
  <2>3. flatten = [i \in 1 .. L |-> IF i = 1 THEN seqs[i] ELSE flatten[i - 1] \o seqs[i]]
        BY <2>2, Zenon DEF flatten
    <2>4. \A i \in 1 .. L : flatten[i] = IF i = 1 THEN seqs[i] ELSE flatten[i - 1] \o seqs[i]
        BY <2>3, Zenon
  <2> DEFINE T == {n \in 0 .. L : n # 0 => flatten[n] = f[n]}
  <2>5. 0 \in T  BY <1>1
  <2>6. ASSUME NEW n \in 1 .. L, n - 1 \in T PROVE n \in T
    <3>1. f[n] = f[n - 1] \o seqs[n]  BY <1>4
    <3>2. CASE n = 1
      <4>1. flatten[1] = seqs[1] /\ <<>> \o seqs[1] = seqs[1] /\ n - 1 = 0  BY <2>4, <3>2, <1>1 DEF A
      <4>2. f[1] = <<>> \o seqs[1]  BY <4>1, <3>1, <3>2, <1>4
      <4> QED  BY <4>1, <4>2, <3>2, <1>1
    <3>3. CASE n # 1
      <4>1. flatten[n] = flatten[n - 1] \o seqs[n]  BY <2>4, <3>3
      <4>2. n - 1 # 0 /\ flatten[n - 1] = f[n - 1]  BY <3>3, <2>6, <1>1
      <4>3. flatten[n] = f[n]  BY <4>1, <4>2, <3>1, Zenon
      <4>4. n \in 0 .. L  BY <1>1
      <4> QED  BY <4>3, <4>4
    <3> QED  BY <3>2, <3>3
  <2> HIDE DEF T
  <2>7. 0 .. L \subseteq T  BY <1>1, <2>5, <2>6, InductionUpTo
  <2>8. flatten[L] = f[L]  BY <1>1, <1>6, <2>7 DEF T
  <2> QED  BY <2>1, <2>8, <1>4 DEF L, A
<1> QED  BY <1>5, <1>6

\* They hold the elements of each.
LEMMA FlattenSeqElements ==
    ASSUME NEW S, NEW seqs \in Seq(Seq(S))
    PROVE  /\ FlattenSeq(seqs) \in Seq(S)
           /\ \A x : x \in ToSet(FlattenSeq(seqs)) <=> \E i \in DOMAIN seqs : x \in ToSet(seqs[i])
<1> DEFINE L == Len(seqs)
           A == Seq(S)
           Elements(n) == {x \in S : \E i \in 1 .. n : x \in ToSet(seqs[i])}
<1>1. L \in Nat /\ DOMAIN seqs = 1 .. L /\ \A i \in 1 .. L : seqs[i] \in A  OBVIOUS
<1>2. PICK f \in [0 .. L -> A] :
        /\ f[0] = <<>> /\ FlattenSeq(seqs) = f[L]
        /\ \A n \in 1 .. L : f[n] = f[n - 1] \o seqs[n]
      BY FlattenSeqSteps
<1>3. \A s \in A : ToSet(s) \subseteq S  BY DEF ToSet
<1> DEFINE T == {n \in 0 .. L : ToSet(f[n]) = Elements(n)}
<1> HIDE DEF L
<1>4. 0 \in T
  <2>1. ToSet(<<>>) = {}  BY DEF ToSet
  <2> QED  BY <2>1, <1>1, <1>2
<1>5. ASSUME NEW n \in 1 .. L, n - 1 \in T PROVE n \in T
  <2>1. 1 .. n = (1 .. n - 1) \cup {n} /\ n - 1 \in 0 .. L  BY <1>1
  <2>2. f[n - 1] \in A /\ seqs[n] \in A /\ f[n] = f[n - 1] \o seqs[n]  BY <1>1, <1>2, <2>1
  <2>3. ToSet(f[n]) = Elements(n - 1) \cup ToSet(seqs[n])  BY <2>2, <1>5, ToSetConcat
  <2>4. Elements(n) = Elements(n - 1) \cup ToSet(seqs[n])  BY <2>1, <2>2, <1>3
  <2> QED  BY <2>3, <2>4
<1> HIDE DEF T
<1>6. L \in T
  <2>1. L \in Nat  BY <1>1
  <2>2. 0 .. L \subseteq T  BY <2>1, <1>4, <1>5, InductionUpTo
  <2> QED  BY <2>1, <2>2
<1>7. f[L] \in A /\ ToSet(f[L]) = Elements(L)  BY <1>1, <1>6 DEF T
<1>8. \A i \in 1 .. L : ToSet(seqs[i]) \subseteq S  BY <1>1, <1>3
<1> QED  BY <1>1, <1>2, <1>7, <1>8

-----------------------------------------------------------------------------
(* Lists that grow *)

\* Appending leaves a list a prefix, and what a prefix contains stays contained.
LEMMA PrefixOfConcat ==
    ASSUME NEW S, NEW s \in Seq(S), NEW t \in Seq(S)
    PROVE  IsPrefix(s, s \o t)
<1>1. s \o t \in Seq(S) /\ Len(s) \in Nat /\ Len(s) <= Len(s \o t)  OBVIOUS
<1>2. \A i \in 1 .. Len(s) : (s \o t)[i] = s[i]  OBVIOUS
<1> DEFINE u == s \o t
<1> HIDE DEF u
<1>3. SubSeq(s, 1, Len(s)) = SubSeq(u, 1, Len(s))  BY <1>1, <1>2 DEF u
<1> QED  BY <1>1, <1>3 DEF IsPrefix, u

LEMMA PrefixElements ==
    ASSUME NEW S, NEW s \in Seq(S), NEW t \in Seq(S)
    PROVE  IsPrefix(s, t) <=> Len(s) <= Len(t) /\ \A i \in 1 .. Len(s) : s[i] = t[i]
<1>1. Len(s) \in Nat /\ Len(t) \in Nat  OBVIOUS
<1>2. ASSUME Len(s) <= Len(t)
      PROVE  SubSeq(s, 1, Len(s)) = SubSeq(t, 1, Len(s)) <=> \A i \in 1 .. Len(s) : s[i] = t[i]
  <2>1. SubSeq(s, 1, Len(s)) = [i \in 1 .. Len(s) |-> s[i]]  BY <1>1
  <2>2. SubSeq(t, 1, Len(s)) = [i \in 1 .. Len(s) |-> t[i]]  BY <1>1, <1>2
  <2> QED  BY <2>1, <2>2
<1> QED  BY <1>2 DEF IsPrefix

LEMMA PrefixIsTransitive ==
    ASSUME NEW S, NEW s \in Seq(S), NEW t \in Seq(S), NEW u \in Seq(S), IsPrefix(s, t), IsPrefix(t, u)
    PROVE  IsPrefix(s, u)
<1>1. Len(s) \in Nat /\ Len(t) \in Nat /\ Len(u) \in Nat  OBVIOUS
<1>2. Len(s) <= Len(t) /\ \A i \in 1 .. Len(s) : s[i] = t[i]  BY PrefixElements
<1>3. Len(t) <= Len(u) /\ \A i \in 1 .. Len(t) : t[i] = u[i]  BY PrefixElements
<1>4. Len(s) <= Len(u) /\ \A i \in 1 .. Len(s) : s[i] = u[i]  BY <1>1, <1>2, <1>3
<1> QED  BY <1>4, PrefixElements

LEMMA PrefixContains ==
    ASSUME NEW S, NEW s \in Seq(S), NEW t \in Seq(S), IsPrefix(s, t), NEW x, Contains(s, x)
    PROVE  Contains(t, x)
<1>1. Len(s) <= Len(t) /\ \A i \in 1 .. Len(s) : s[i] = t[i]  BY PrefixElements
<1> QED  BY <1>1 DEF Contains

-----------------------------------------------------------------------------
\* What a filter keeps.
LEMMA AmongElements ==
    ASSUME NEW S, NEW s \in Seq(S), NEW T
    PROVE  /\ Among(s, T) \in Seq(S \cap T) /\ ToSet(Among(s, T)) = ToSet(s) \cap T
           /\ IsInjective(s) => IsInjective(Among(s, T))
<1> DEFINE I == {i \in DOMAIN s : s[i] \in T}
           t == Among(s, T)
<1>1. t = Picked(s, I) /\ I \in SUBSET DOMAIN s  BY DEF Among
<1>2. t \in Seq(S) /\ ToSet(t) = {s[i] : i \in I}
  <2> HIDE DEF I
  <2>1. t \in Seq(S)  BY <1>1, PickedType
  <2>2. ToSet(Picked(s, I)) = {s[i] : i \in I}  BY <1>1, PickedElements DEF ToSet
  <2> QED  BY <1>1, <2>1, <2>2
<1>3. ToSet(t) = ToSet(s) \cap T  BY <1>2 DEF ToSet
<1>4. IsInjective(s) => IsInjective(t)  BY <1>1, PickedInjective
<1> HIDE DEF t
<1>5. \A i \in DOMAIN t : t[i] \in S \cap T  BY <1>2, <1>3 DEF ToSet
<1> QED  BY <1>2, <1>3, <1>4, <1>5 DEF t
=============================================================================
