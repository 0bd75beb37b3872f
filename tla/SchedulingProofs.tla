-------------------------- MODULE SchedulingProofs --------------------------
(***************************************************************************)
(* The algorithms of the scheduler library, and what they keep, for any    *)
(* jobs and workers, priorities, needs, capacities and slots.              *)
(*                                                                         *)
(* First what sorting and searching compute, for any strict order; then    *)
(* that the two orders of the library are strict; then the properties.     *)
(***************************************************************************)
EXTENDS Scheduling, TLAPS, FiniteSetTheorems, SequenceTheorems

(* Strict orders on finite sets. *)

IsStrictOrder(order, S) ==
  /\ \A x \in S : <<x, x>> \notin order
  /\ \A x, y, z \in S : <<x, y>> \in order /\ <<y, z>> \in order => <<x, z>> \in order
  /\ \A x, y \in S : x = y \/ <<x, y>> \in order \/ <<y, x>> \in order

Before(x, S, order) == {y \in S : <<y, x>> \in order}

\* x comes first in S.
IsFirst(x, S, order) == x \in S /\ \A y \in S : y = x \/ <<x, y>> \in order

\* A strict order on a set is one on its subsets.
LEMMA SubsetOrder ==
  ASSUME NEW S, NEW T \in SUBSET S, NEW order, IsStrictOrder(order, S)
  PROVE  IsStrictOrder(order, T)
BY DEF IsStrictOrder

\* There is one first element at most.
LEMMA OneFirst ==
  ASSUME NEW S, NEW order, IsStrictOrder(order, S), NEW x, NEW y,
         IsFirst(x, S, order), IsFirst(y, S, order)
  PROVE  x = y
BY DEF IsStrictOrder, IsFirst

\* A family of subsets of a finite set has a smallest member, if it has any.
LEMMA SmallestSet ==
  ASSUME NEW S, IsFiniteSet(S), NEW F, F \subseteq SUBSET S, F # {}
  PROVE  \E T \in F : \A U \in F : U \subseteq T => U = T
<1>1. F \subseteq FiniteSubsetsOf(S)
  BY FS_FiniteSubsetsOfFinite
<1>2. PICK T \in F : \A U \in F : <<U, T>> \notin StrictSubsetOrdering(S)
  BY <1>1, FS_StrictSubsetOrderingWellFounded, WFMin
<1>3. ASSUME NEW U \in F, U \subseteq T PROVE U = T
  BY <1>2, <1>3 DEF StrictSubsetOrdering
<1> QED BY <1>3

\* A finite set with an element has a first one: one with the fewest before it.
LEMMA FirstExists ==
  ASSUME NEW S, IsFiniteSet(S), S # {}, NEW order, IsStrictOrder(order, S)
  PROVE  \E x \in S : IsFirst(x, S, order)
<1> DEFINE F == {Before(x, S, order) : x \in S}
<1>1. F \subseteq SUBSET S /\ F # {}
  <2>1. F \subseteq SUBSET S
    BY DEF Before
  <2> QED BY <2>1
<1>2. PICK T \in F : \A U \in F : U \subseteq T => U = T
  <2> HIDE DEF F
  <2> QED BY <1>1, SmallestSet
<1>3. PICK x \in S : T = Before(x, S, order)
  OBVIOUS
<1>4. ASSUME NEW y \in S, <<y, x>> \in order PROVE FALSE
  <2>1. /\ Before(y, S, order) \subseteq Before(x, S, order)
        /\ y \in Before(x, S, order) /\ y \notin Before(y, S, order)
    BY <1>4 DEF IsStrictOrder, Before
  <2>2. Before(y, S, order) \in F
    OBVIOUS
  <2> QED BY <1>2, <1>3, <2>1, <2>2
<1> QED BY <1>4 DEF IsStrictOrder, IsFirst

\* The element of a finite set that has i - 1 others before it is unique, and
\* there is one for every position i.
LEMMA Ranks ==
  ASSUME NEW S, IsFiniteSet(S), NEW order, IsStrictOrder(order, S)
  PROVE  /\ Cardinality(S) \in Nat
         /\ \A x \in S : Cardinality(Before(x, S, order)) \in 0 .. Cardinality(S) - 1
         /\ \A x, y \in S : <<x, y>> \in order <=>
              Cardinality(Before(x, S, order)) < Cardinality(Before(y, S, order))
         /\ \A i \in 1 .. Cardinality(S) : \E x \in S :
              Cardinality(Before(x, S, order)) = i - 1
<1> DEFINE n == Cardinality(S)
           B(x) == Before(x, S, order)
           r == [x \in S |-> Cardinality(B(x)) + 1]
<1>1. n \in Nat
  BY FS_CardinalityType
<1>2. \A x \in S : IsFiniteSet(B(x)) /\ Cardinality(B(x)) \in Nat
  BY FS_Subset, FS_CardinalityType DEF Before
<1>3. ASSUME NEW x \in S PROVE Cardinality(B(x)) < n
  <2>1. B(x) \in SUBSET S /\ B(x) # S
    BY DEF Before, IsStrictOrder
  <2>2. Cardinality(B(x)) <= n /\ Cardinality(B(x)) # n
    BY <2>1, FS_Subset
  <2> QED BY <1>1, <1>2, <2>2
<1>4. ASSUME NEW x \in S, NEW y \in S, <<x, y>> \in order
      PROVE  Cardinality(B(x)) < Cardinality(B(y))
  <2>1. B(x) \in SUBSET B(y) /\ B(x) # B(y)
    BY <1>4 DEF Before, IsStrictOrder
  <2>2. Cardinality(B(x)) <= Cardinality(B(y)) /\ Cardinality(B(x)) # Cardinality(B(y))
    BY <1>2, <2>1, FS_Subset
  <2> QED BY <1>2, <2>2
<1>5. ASSUME NEW x \in S, NEW y \in S, Cardinality(B(x)) < Cardinality(B(y))
      PROVE  <<x, y>> \in order
  <2>1. x # y
    BY <1>2, <1>5
  <2>2. <<y, x>> \notin order
    BY <1>2, <1>4, <1>5
  <2> QED BY <2>1, <2>2 DEF IsStrictOrder
<1>6. r \in [S -> 1 .. n]
  BY <1>1, <1>2, <1>3
<1>7. ASSUME NEW x \in S, NEW y \in S, r[x] = r[y] PROVE x = y
  <2>1. Cardinality(B(x)) = Cardinality(B(y))
    BY <1>2, <1>7
  <2>2. <<x, y>> \notin order /\ <<y, x>> \notin order
    BY <1>2, <1>4, <2>1
  <2> QED BY <2>2 DEF IsStrictOrder
<1>8. r \in Surjection(S, 1 .. n)
  <2>1. r \in Injection(S, 1 .. n)
    BY <1>6, <1>7 DEF Injection, IsInjective
  <2>2. IsFiniteSet(1 .. n) /\ Cardinality(1 .. n) = n
    BY <1>1, FS_Interval
  <2> QED BY <2>1, <2>2, FS_Injection
<1>9. \A i \in 1 .. n : \E x \in S : Cardinality(B(x)) = i - 1
  <2>1. \A i \in 1 .. n : \E x \in S : r[x] = i
    BY <1>8 DEF Surjection
  <2> SUFFICES ASSUME NEW i \in 1 .. n PROVE \E x \in S : Cardinality(B(x)) = i - 1
    OBVIOUS
  <2>2. PICK x \in S : r[x] = i
    BY <2>1
  <2>3. Cardinality(B(x)) = i - 1
    BY <1>2, <2>2
  <2> QED BY <2>3
<1> QED BY <1>1, <1>2, <1>3, <1>4, <1>5, <1>9

\* Sorting a finite set by a strict order lists each of its elements once, in
\* the order.
LEMMA SortedIsSorted ==
  ASSUME NEW S, IsFiniteSet(S), NEW order, IsStrictOrder(order, S)
  PROVE  LET s == Sorted(S, order)
         IN  /\ s \in Seq(S) /\ Len(s) = Cardinality(S) /\ Cardinality(S) \in Nat
             /\ DOMAIN s = 1 .. Cardinality(S)
             /\ Range(s) = S /\ IsInjective(s)
             /\ \A i, k \in DOMAIN s : i < k => <<s[i], s[k]>> \in order
<1> DEFINE s == Sorted(S, order)
           n == Cardinality(S)
           B(x) == Before(x, S, order)
<1>1. /\ n \in Nat
      /\ \A x \in S : Cardinality(B(x)) \in 0 .. n - 1
      /\ \A x, y \in S : <<x, y>> \in order <=> Cardinality(B(x)) < Cardinality(B(y))
      /\ \A i \in 1 .. n : \E x \in S : Cardinality(B(x)) = i - 1
  BY Ranks
<1>2. s = [i \in 1 .. n |-> CHOOSE x \in S : Cardinality(B(x)) = i - 1]
  BY DEF Sorted, Before
<1>3. \A i \in 1 .. n : s[i] \in S /\ Cardinality(B(s[i])) = i - 1
  <2> HIDE DEF B
  <2> QED BY <1>1, <1>2
<1> HIDE DEF s, n, B
<1>4. s \in [1 .. n -> S]
  BY <1>2, <1>3
<1>5. s \in Seq(S) /\ Len(s) = n /\ DOMAIN s = 1 .. n
  BY <1>1, <1>4
<1>6. \A i, k \in 1 .. n : i < k => <<s[i], s[k]>> \in order
  BY <1>1, <1>3
<1>7. \A i, k \in 1 .. n : s[i] = s[k] => i = k
  BY <1>1, <1>3
<1>8. ASSUME NEW x \in S PROVE \E i \in 1 .. n : s[i] = x
  <2> DEFINE i == Cardinality(B(x)) + 1
  <2>1. i \in 1 .. n
    BY <1>1
  <2>2. s[i] \in S /\ Cardinality(B(s[i])) = Cardinality(B(x))
    BY <1>1, <1>3, <2>1
  <2>3. <<s[i], x>> \notin order /\ <<x, s[i]>> \notin order
    BY <1>1, <2>2
  <2>4. s[i] = x
    BY <2>2, <2>3 DEF IsStrictOrder
  <2> QED BY <2>1, <2>4
<1>9. Range(s) = S
  BY <1>4, <1>5, <1>8 DEF Range
<1>10. IsInjective(s)
  BY <1>5, <1>7 DEF IsInjective
<1> QED BY <1>1, <1>5, <1>6, <1>9, <1>10 DEF s, n

\* Its first element comes first in the set.
LEMMA SortedHead ==
  ASSUME NEW S, IsFiniteSet(S), S # {}, NEW order, IsStrictOrder(order, S)
  PROVE  Sorted(S, order) # <<>> /\ IsFirst(Head(Sorted(S, order)), S, order)
<1> DEFINE s == Sorted(S, order)
<1>1. /\ s \in Seq(S) /\ DOMAIN s = 1 .. Cardinality(S) /\ Len(s) = Cardinality(S)
      /\ Cardinality(S) \in Nat /\ Range(s) = S
      /\ \A i, k \in DOMAIN s : i < k => <<s[i], s[k]>> \in order
  BY SortedIsSorted
<1>2. Cardinality(S) # 0
  BY FS_EmptySet
<1> HIDE DEF s
<1>3. s # <<>> /\ Head(s) = s[1] /\ 1 \in DOMAIN s
  BY <1>1, <1>2
<1>4. ASSUME NEW y \in S PROVE y = s[1] \/ <<s[1], y>> \in order
  <2>1. PICK k \in DOMAIN s : s[k] = y
    BY <1>1 DEF Range
  <2>2. k = 1 \/ 1 < k
    BY <1>1
  <2> QED BY <1>1, <1>3, <2>1, <2>2
<1>5. s[1] \in S
  BY <1>1, <1>3
<1> QED BY <1>3, <1>4, <1>5 DEF IsFirst, s

\* A set of positions that is not empty has a least one.
LEMMA MinPosition ==
  ASSUME NEW n \in Nat, NEW I \in SUBSET (1 .. n), I # {}
  PROVE  Min(I) \in I /\ \A i \in I : Min(I) <= i
<1> DEFINE less == {p \in (1 .. n) \X (1 .. n) : p[1] < p[2]}
<1>1. IsFiniteSet(I)
  <2>1. IsFiniteSet(1 .. n)
    BY FS_Interval
  <2> QED BY <2>1, FS_Subset
<1>2. IsStrictOrder(less, I)
  BY DEF IsStrictOrder
<1>3. PICK m \in I : IsFirst(m, I, less)
  <2> HIDE DEF less
  <2> QED BY <1>1, <1>2, FirstExists
<1>4. ASSUME NEW i \in I PROVE m <= i
  <2>1. i = m \/ <<m, i>> \in less
    BY <1>3 DEF IsFirst
  <2>2. m \in Int /\ i \in Int /\ (<<m, i>> \in less => m < i)
    OBVIOUS
  <2> QED BY <2>1, <2>2
<1> QED BY <1>4 DEF Min

\* The greatest position of a set of positions that is not empty.
LEMMA MaxPosition ==
  ASSUME NEW n \in Nat, NEW I \in SUBSET (1 .. n), I # {}
  PROVE  Max(I) \in I /\ \A i \in I : Max(I) >= i
<1> DEFINE greater == {p \in (1 .. n) \X (1 .. n) : p[1] > p[2]}
<1>1. IsFiniteSet(I)
  <2>1. IsFiniteSet(1 .. n)
    BY FS_Interval
  <2> QED BY <2>1, FS_Subset
<1>2. IsStrictOrder(greater, I)
  BY DEF IsStrictOrder
<1>3. PICK m \in I : IsFirst(m, I, greater)
  <2> HIDE DEF greater
  <2> QED BY <1>1, <1>2, FirstExists
<1>4. ASSUME NEW i \in I PROVE m >= i
  <2>1. i = m \/ <<m, i>> \in greater
    BY <1>3 DEF IsFirst
  <2>2. m \in Int /\ i \in Int /\ (<<m, i>> \in greater => m > i)
    OBVIOUS
  <2> QED BY <2>1, <2>2
<1> QED BY <1>4 DEF Max

------------------------------------------------------------------------------
(* The single pass.  tlapm takes the equation of a recursive function, such as *)
(* the one behind a fold, for granted; here it is shown to have a solution     *)
(* before it is used.                                                          *)

\* The values s starts with and has at the positions T of its tail.
Seen(s, T) == {Head(s)} \cup {Tail(s)[i] : i \in T}

\* g is the table of the fold: the best element for every set of positions.
IsBestTable(g, s, order) ==
  g = [T \in SUBSET DOMAIN Tail(s) |->
        IF T = {} THEN Head(s)
        ELSE IF <<Tail(s)[Max(T)], g[T \ {Max(T)}]>> \in order
             THEN Tail(s)[Max(T)] ELSE g[T \ {Max(T)}]]

\* The single pass ends at the entry of the table for all positions.
LEMMA BestIsInTable ==
  ASSUME NEW s, NEW order
  PROVE  BestOf(s, order) = (CHOOSE g : IsBestTable(g, s, order))[DOMAIN Tail(s)]
BY DEF BestOf, FoldLeft, MapThenFoldSet, IsBestTable

\* A sequence has finitely many elements: its first, and those of its tail.
LEMMA SeenAll ==
  ASSUME NEW S, NEW s \in Seq(S), s # <<>>
  PROVE  /\ Len(s) \in Nat \ {0} /\ DOMAIN Tail(s) = 1 .. Len(s) - 1
         /\ Range(s) \in SUBSET S /\ IsFiniteSet(Range(s))
         /\ Seen(s, DOMAIN Tail(s)) = Range(s)
<1>1. /\ Len(s) \in Nat \ {0} /\ s \in [1 .. Len(s) -> S] /\ DOMAIN s = 1 .. Len(s)
      /\ Head(s) = s[1]
  OBVIOUS
<1>2. /\ Len(Tail(s)) = Len(s) - 1 /\ DOMAIN Tail(s) = 1 .. Len(s) - 1
      /\ \A i \in 1 .. Len(s) - 1 : Tail(s)[i] = s[i + 1]
  OBVIOUS
<1>3. s \in Surjection(DOMAIN s, Range(s))
  BY <1>1 DEF Surjection, Range
<1>4. IsFiniteSet(Range(s))
  <2>1. IsFiniteSet(DOMAIN s)
    BY <1>1, FS_Interval
  <2> QED BY <1>3, <2>1, FS_Surjection
<1>5. ASSUME NEW x \in Range(s) PROVE x \in Seen(s, DOMAIN Tail(s))
  <2>1. PICK i \in 1 .. Len(s) : s[i] = x
    BY <1>1 DEF Range
  <2>2. CASE i = 1
    BY <1>1, <2>1, <2>2 DEF Seen
  <2>3. CASE i # 1
    <3>1. i - 1 \in 1 .. Len(s) - 1 /\ Tail(s)[i - 1] = x
      BY <1>1, <1>2, <2>1, <2>3
    <3> QED BY <1>2, <3>1 DEF Seen
  <2> QED BY <2>2, <2>3
<1>6. ASSUME NEW x \in Seen(s, DOMAIN Tail(s)) PROVE x \in Range(s)
  <2>1. CASE x = Head(s)
    BY <1>1, <2>1 DEF Range
  <2>2. ASSUME NEW i \in DOMAIN Tail(s), x = Tail(s)[i] PROVE x \in Range(s)
    <3>1. i + 1 \in 1 .. Len(s) /\ x = s[i + 1]
      BY <1>1, <1>2, <2>2
    <3> QED BY <1>1, <3>1 DEF Range
  <2> QED BY <2>1, <2>2 DEF Seen
<1>7. Range(s) \in SUBSET S
  BY <1>1 DEF Range
<1> QED BY <1>1, <1>2, <1>4, <1>5, <1>6, <1>7

\* The single pass finds the element that comes first.
LEMMA BestIsFirst ==
  ASSUME NEW S, NEW s \in Seq(S), s # <<>>, NEW order, IsStrictOrder(order, S)
  PROVE  IsFirst(BestOf(s, order), Range(s), order)
<1> DEFINE t == Tail(s)
           D == DOMAIN t
           first(T) == CHOOSE x \in Seen(s, T) : IsFirst(x, Seen(s, T), order)
           next(T, x) == IF <<t[Max(T)], x>> \in order THEN t[Max(T)] ELSE x
<1>1. /\ Len(s) \in Nat \ {0} /\ D = 1 .. Len(s) - 1
      /\ Range(s) \in SUBSET S /\ IsFiniteSet(Range(s))
      /\ Seen(s, D) = Range(s)
  BY SeenAll
<1>2. IsFiniteSet(D)
  BY <1>1, FS_Interval
<1>3. ASSUME NEW T \in SUBSET D
      PROVE  /\ Seen(s, T) \in SUBSET S
             /\ IsStrictOrder(order, Seen(s, T))
             /\ IsFirst(first(T), Seen(s, T), order)
  <2>1. Seen(s, T) \in SUBSET Range(s) /\ Seen(s, T) # {}
    BY <1>1 DEF Seen
  <2>2. IsFiniteSet(Seen(s, T)) /\ Seen(s, T) \in SUBSET S
    BY <1>1, <2>1, FS_Subset
  <2>3. IsStrictOrder(order, Seen(s, T))
    BY <2>2, SubsetOrder
  <2>4. \E x \in Seen(s, T) : IsFirst(x, Seen(s, T), order)
    BY <2>1, <2>2, <2>3, FirstExists
  <2> QED BY <2>2, <2>3, <2>4
<1>4. ASSUME NEW T \in SUBSET D, T # {}
      PROVE  /\ Max(T) \in T
             /\ first(T) = next(T, first(T \ {Max(T)}))
  <2> DEFINE m == Max(T)
             U == T \ {m}
             b == next(T, first(U))
  <2>1. m \in T
    <3>1. Len(s) - 1 \in Nat /\ T \in SUBSET (1 .. Len(s) - 1)
      BY <1>1
    <3> QED BY <1>4, <3>1, MaxPosition
  <2>2. Seen(s, T) = Seen(s, U) \cup {t[m]}
    BY <2>1 DEF Seen
  <2>3. IsFirst(first(U), Seen(s, U), order)
    BY <1>3
  <2>4. IsStrictOrder(order, Seen(s, T)) /\ IsFirst(first(T), Seen(s, T), order)
    BY <1>3
  <2> HIDE DEF first, m, U, t
  <2>5. IsFirst(b, Seen(s, T), order)
    <3>1. CASE <<t[m], first(U)>> \in order
      <4>1. b = t[m]
        BY <3>1 DEF m
      <4>2. \A y \in Seen(s, U) : <<t[m], y>> \in order
        BY <2>2, <2>3, <2>4, <3>1 DEF IsFirst, IsStrictOrder
      <4> QED BY <2>2, <4>1, <4>2 DEF IsFirst
    <3>2. CASE <<t[m], first(U)>> \notin order
      <4>1. b = first(U)
        BY <3>2 DEF m
      <4>2. first(U) = t[m] \/ <<first(U), t[m]>> \in order
        BY <2>2, <2>3, <2>4, <3>2 DEF IsFirst, IsStrictOrder
      <4> QED BY <2>2, <2>3, <4>1, <4>2 DEF IsFirst
    <3> QED BY <3>1, <3>2
  <2>6. first(T) = b
    BY <2>4, <2>5, OneFirst
  <2> QED BY <2>1, <2>6 DEF m, U
<1>5. first({}) = Head(s)
  <2>1. Seen(s, {}) = {Head(s)} /\ {} \in SUBSET D
    BY DEF Seen
  <2> QED BY <1>3, <2>1 DEF IsFirst
<1>6. \E g : IsBestTable(g, s, order)
  <2> DEFINE g == [T \in SUBSET D |-> first(T)]
  <2>1. \A T \in SUBSET D : g[T] = IF T = {} THEN Head(s) ELSE next(T, g[T \ {Max(T)}])
    <3> HIDE DEF first
    <3> QED BY <1>4, <1>5
  <2>2. IsBestTable(g, s, order)
    <3> HIDE DEF first
    <3> QED BY <2>1 DEF IsBestTable
  <2> QED BY <2>2
<1>7. ASSUME NEW g, IsBestTable(g, s, order) PROVE \A T \in SUBSET D : g[T] = first(T)
  <2> DEFINE Bad == {T \in SUBSET D : g[T] # first(T)}
  <2> HIDE DEF first
  <2> SUFFICES ASSUME Bad # {} PROVE FALSE
    OBVIOUS
  <2>1. Bad \subseteq SUBSET D
    OBVIOUS
  <2>2. PICK T \in Bad : \A U \in Bad : U \subseteq T => U = T
    <3> HIDE DEF Bad
    <3> QED BY <1>2, <2>1, SmallestSet
  <2>3. CASE T = {}
    BY <1>5, <1>7, <2>2, <2>3 DEF IsBestTable
  <2>4. CASE T # {}
    <3>1. Max(T) \in T /\ first(T) = next(T, first(T \ {Max(T)}))
      BY <1>4, <2>2, <2>4
    <3>2. g[T \ {Max(T)}] = first(T \ {Max(T)})
      BY <2>2, <3>1
    <3>3. g[T] = next(T, g[T \ {Max(T)}])
      BY <1>7, <2>4 DEF IsBestTable
    <3> QED BY <2>2, <3>1, <3>2, <3>3
  <2> QED BY <2>3, <2>4
<1>8. BestOf(s, order) = first(D)
  <2>1. IsBestTable(CHOOSE g : IsBestTable(g, s, order), s, order)
    BY <1>6
  <2> HIDE DEF first
  <2> QED BY <1>7, <2>1, BestIsInTable
<1> QED BY <1>1, <1>3, <1>8

------------------------------------------------------------------------------
(* The orders of the library. *)

\* should_run_before orders the jobs strictly, the identifier breaks every tie.
LEMMA RunsBeforeIsStrict == IsStrictOrder(RunsBefore, Jobs)
<1>1. /\ \A j \in Jobs : Priority[j] \in Int /\ CreatedAt[j] \in Int /\ j \in Int
      /\ \A j, k \in Jobs : <<j, k>> \in RunsBefore <=> ShouldRunBefore(j, k)
  BY SchedulingAssumption DEF RunsBefore
<1> QED BY <1>1 DEF IsStrictOrder, ShouldRunBefore

\* So does the identifier the workers.
LEMMA ByIdIsStrict == IsStrictOrder(ById, Workers)
<1>1. /\ \A v \in Workers : v \in Int
      /\ \A v, w \in Workers : <<v, w>> \in ById <=> v < w
  BY SchedulingAssumption DEF ById
<1> QED BY <1>1 DEF IsStrictOrder

\* Being no busier, as a comparison of fractions, is transitive.
LEMMA FractionsTransitive ==
  ASSUME NEW a \in Nat, NEW c \in Nat, NEW e \in Nat,
         NEW b \in Nat \ {0}, NEW d \in Nat \ {0}, NEW f \in Nat \ {0},
         a * d <= c * b, c * f <= e * d
  PROVE  a * f <= e * b
<1>1. (a * d) * f <= (c * b) * f
  OBVIOUS
<1>2. (c * f) * b <= (e * d) * b
  OBVIOUS
<1>3. (a * f) * d <= (e * b) * d
  BY <1>1, <1>2
<1> QED BY <1>3

\* is_better_candidate orders the workers strictly, whatever their rows hold.
LEMMA BetterFirstIsStrict ==
  ASSUME TypeOK
  PROVE  IsStrictOrder(BetterFirst, Workers)
<1> DEFINE NoBusier(v, w) == running[v] * Slots[w] <= running[w] * Slots[v]
<1>1. /\ \A v \in Workers : /\ v \in Int /\ freeCpu[v] \in Int /\ freeMem[v] \in Int
                            /\ running[v] \in Nat /\ Slots[v] \in Nat \ {0}
      /\ \A v, w \in Workers : <<v, w>> \in BetterFirst <=> IsBetterCandidate(v, w)
  BY SchedulingAssumption DEF BetterFirst, TypeOK
<1>2. \A v, w \in Workers : LessLoaded(v, w) <=> ~NoBusier(w, v)
  BY <1>1 DEF LessLoaded
<1>3. \A v, w \in Workers : NoBusier(v, w) \/ NoBusier(w, v)
  BY <1>1
<1>4. \A u, v, w \in Workers : NoBusier(u, v) /\ NoBusier(v, w) => NoBusier(u, w)
  BY <1>1, FractionsTransitive
<1> HIDE DEF NoBusier
<1>5. \A v, w \in Workers :
        <<v, w>> \in BetterFirst <=>
          \/ ~NoBusier(w, v)
          \/ /\ NoBusier(v, w)
             /\ \/ freeCpu[v] > freeCpu[w]
                \/ /\ freeCpu[v] = freeCpu[w]
                   /\ \/ freeMem[v] > freeMem[w]
                      \/ freeMem[v] = freeMem[w] /\ v < w
  BY <1>1, <1>2 DEF IsBetterCandidate
<1>6. \A v \in Workers : <<v, v>> \notin BetterFirst
  BY <1>1, <1>3, <1>5
<1>7. ASSUME NEW v \in Workers, NEW w \in Workers, v # w
      PROVE  <<v, w>> \in BetterFirst \/ <<w, v>> \in BetterFirst
  <2>1. /\ freeCpu[v] > freeCpu[w] \/ freeCpu[v] = freeCpu[w] \/ freeCpu[w] > freeCpu[v]
        /\ freeMem[v] > freeMem[w] \/ freeMem[v] = freeMem[w] \/ freeMem[w] > freeMem[v]
        /\ v < w \/ w < v
    BY <1>1, <1>7
  <2>2. NoBusier(v, w) \/ NoBusier(w, v)
    BY <1>3
  <2> QED BY <1>5, <2>1, <2>2
<1>8. \A u, v, w \in Workers :
        <<u, v>> \in BetterFirst /\ <<v, w>> \in BetterFirst => <<u, w>> \in BetterFirst
  BY <1>1, <1>3, <1>4, <1>5
<1> QED BY <1>6, <1>7, <1>8 DEF IsStrictOrder

------------------------------------------------------------------------------
(* What the filter and the planner return. *)

\* find_eligible_workers lists the workers that can take the job, each once.
LEMMA CandidatesAre ==
  ASSUME NEW offered \in SUBSET Workers, NEW j
  PROVE  LET c == Candidates(j, offered)
             E == {w \in offered : Eligible(j, w)}
         IN  /\ c \in Seq(Workers) /\ c = Sorted(E, ById)
             /\ Len(c) \in Nat /\ Len(c) <= Cardinality(Workers)
             /\ DOMAIN c = 1 .. Len(c)
             /\ Range(c) = E /\ IsInjective(c)
             /\ c # <<>> <=> E # {}
<1> DEFINE c == Candidates(j, offered)
           E == {w \in offered : Eligible(j, w)}
<1>1. E \in SUBSET Workers /\ c = Sorted(E, ById)
  BY DEF Candidates
<1>2. IsFiniteSet(E) /\ Cardinality(E) <= Cardinality(Workers)
  BY <1>1, SchedulingAssumption, FS_Subset
<1>3. IsStrictOrder(ById, E)
  BY <1>1, ByIdIsStrict, SubsetOrder
<1> HIDE DEF c, E
<1>4. /\ c \in Seq(E) /\ Len(c) = Cardinality(E) /\ Cardinality(E) \in Nat
      /\ DOMAIN c = 1 .. Cardinality(E) /\ Range(c) = E /\ IsInjective(c)
  BY <1>1, <1>2, <1>3, SortedIsSorted
<1>5. c \in Seq(Workers)
  BY <1>1, <1>4, SeqMonotonic
<1>6. c # <<>> <=> E # {}
  <2>1. c # <<>> <=> Len(c) # 0
    BY <1>4
  <2> QED BY <1>2, <1>4, <2>1, FS_EmptySet
<1> QED BY <1>1, <1>2, <1>4, <1>5, <1>6 DEF c, E

\* Both policies choose a candidate, and least loaded the first of its order.
LEMMA SelectedIsCandidate ==
  ASSUME TypeOK, NEW c \in Seq(Workers), c # <<>>
  PROVE  /\ SelectWorker(c) \in Range(c)
         /\ policy = "least-loaded" => IsFirst(SelectWorker(c), Range(c), BetterFirst)
         /\ policy # "least-loaded" =>
              /\ SelectedIndex(c) \in 0 .. Len(c) - 1
              /\ SelectWorker(c) = c[SelectedIndex(c) + 1]
<1>1. Len(c) \in Nat \ {0} /\ DOMAIN c = 1 .. Len(c)
  OBVIOUS
<1>2. CASE policy = "least-loaded"
  <2>1. IsFirst(BestOf(c, BetterFirst), Range(c), BetterFirst)
    BY BetterFirstIsStrict, BestIsFirst
  <2> QED BY <1>2, <2>1 DEF SelectWorker, IsFirst
<1>3. CASE policy # "least-loaded"
  <2>1. SelectedIndex(c) \in 0 .. Len(c) - 1
    BY <1>1 DEF SelectedIndex, TypeOK
  <2>2. SelectedIndex(c) + 1 \in DOMAIN c
    BY <1>1, <2>1
  <2>3. SelectWorker(c) = c[SelectedIndex(c) + 1]
    BY <1>3 DEF SelectWorker
  <2> QED BY <1>3, <2>1, <2>2, <2>3 DEF Range
<1> QED BY <1>2, <1>3

\* The jobs of the queue that a worker on offer can take.
Fits(offered) == {j \in Range(jobs) : \E w \in offered : Eligible(j, w)}

\* plan returns the first of those jobs in queue order, with all its candidates.
LEMMA PlanServesFirst ==
  ASSUME TypeOK, NEW offered \in SUBSET Workers
  PROVE  LET d == Plan(offered)
         IN  /\ Fits(offered) = {} => d = NoDecision
             /\ Fits(offered) # {} =>
                  /\ IsFirst(d.job, Fits(offered), RunsBefore)
                  /\ d.candidates = Candidates(d.job, offered)
                  /\ d.candidates # <<>>
                  /\ d.worker = SelectWorker(d.candidates)
<1> DEFINE s == OrderedJobs
           I == {i \in 1 .. Len(s) : Candidates(s[i], offered) # <<>>}
           n == Cardinality(Range(jobs))
           d == Plan(offered)
<1>1. Range(jobs) \in SUBSET Jobs /\ IsFiniteSet(Range(jobs))
  <2>1. Range(jobs) \in SUBSET Jobs
    BY RangeOfSeq DEF TypeOK
  <2> QED BY <2>1, SchedulingAssumption, FS_Subset
<1>2. /\ Len(s) = n /\ n \in Nat /\ DOMAIN s = 1 .. n /\ Range(s) = Range(jobs)
      /\ \A i, k \in DOMAIN s : i < k => <<s[i], s[k]>> \in RunsBefore
  <2>1. IsStrictOrder(RunsBefore, Range(jobs))
    BY <1>1, RunsBeforeIsStrict, SubsetOrder
  <2> QED BY <1>1, <2>1, SortedIsSorted DEF OrderedJobs
<1>3. \A j : Candidates(j, offered) # <<>> <=> \E w \in offered : Eligible(j, w)
  BY CandidatesAre
<1>4. SelectInSeq(s, LAMBDA j : Candidates(j, offered) # <<>>) = IF I # {} THEN Min(I) ELSE 0
  BY DEF SelectInSeq
<1>5. CASE I = {}
  <2>1. d = NoDecision
    BY <1>4, <1>5 DEF Plan
  <2>2. ASSUME NEW j \in Fits(offered) PROVE FALSE
    <3>1. PICK i \in 1 .. n : s[i] = j
      BY <1>2 DEF Fits, Range
    <3>2. Candidates(s[i], offered) # <<>>
      BY <1>3, <3>1 DEF Fits
    <3> QED BY <1>2, <1>5, <3>1, <3>2
  <2> QED BY <2>1, <2>2
<1>6. CASE I # {}
  <2> DEFINE m == Min(I)
  <2>1. m \in I /\ \A i \in I : m <= i
    BY <1>2, <1>6, MinPosition
  <2>2. m \in 1 .. n /\ Candidates(s[m], offered) # <<>>
    BY <1>2, <2>1
  <2>3. d = [job |-> s[m], worker |-> SelectWorker(Candidates(s[m], offered)),
             candidates |-> Candidates(s[m], offered)]
    <3>1. SelectInSeq(s, LAMBDA j : Candidates(j, offered) # <<>>) = m /\ m # 0
      BY <1>2, <1>4, <1>6, <2>2
    <3> HIDE DEF m, I
    <3> QED BY <3>1 DEF Plan
  <2>4. s[m] \in Fits(offered)
    BY <1>2, <1>3, <2>2 DEF Fits, Range
  <2>5. ASSUME NEW j \in Fits(offered) PROVE j = s[m] \/ <<s[m], j>> \in RunsBefore
    <3>1. PICK i \in 1 .. n : s[i] = j
      BY <1>2 DEF Fits, Range
    <3>2. i \in I
      BY <1>2, <1>3, <3>1 DEF Fits
    <3>3. m = i \/ m < i
      BY <1>2, <2>1, <2>2, <3>2
    <3> QED BY <1>2, <2>2, <3>1, <3>3
  <2>6. IsFirst(s[m], Fits(offered), RunsBefore)
    BY <2>4, <2>5 DEF IsFirst
  <2> HIDE DEF m, s
  <2> QED BY <2>2, <2>3, <2>4, <2>6
<1> QED BY <1>5, <1>6

\* A decision the planner returns: a queued job and a worker that can take it.
LEMMA DecisionIsSound ==
  ASSUME TypeOK, NEW offered \in SUBSET Workers, Plan(offered) # NoDecision
  PROVE  LET d == Plan(offered)
         IN  /\ IsFirst(d.job, Fits(offered), RunsBefore)
             /\ d.job \in Range(jobs) /\ d.job \in Jobs
             /\ d.candidates = Candidates(d.job, offered)
             /\ d.candidates \in Seq(Workers) /\ d.candidates # <<>>
             /\ d.worker = SelectWorker(d.candidates)
             /\ d.worker \in Range(d.candidates)
             /\ d.worker \in offered /\ Eligible(d.job, d.worker)
<1> DEFINE d == Plan(offered)
<1>1. /\ IsFirst(d.job, Fits(offered), RunsBefore)
      /\ d.candidates = Candidates(d.job, offered)
      /\ d.candidates # <<>> /\ d.worker = SelectWorker(d.candidates)
  BY PlanServesFirst
<1>2. d.job \in Range(jobs) /\ d.job \in Jobs
  <2>1. Range(jobs) \in SUBSET Jobs
    BY RangeOfSeq DEF TypeOK
  <2> QED BY <1>1, <2>1 DEF IsFirst, Fits
<1> HIDE DEF d
<1>3. /\ d.candidates \in Seq(Workers)
      /\ Range(d.candidates) = {w \in offered : Eligible(d.job, w)}
  BY <1>1, CandidatesAre
<1>4. d.worker \in Range(d.candidates)
  BY <1>1, <1>3, SelectedIsCandidate
<1> QED BY <1>1, <1>2, <1>3, <1>4 DEF d

\* take erases one job of the queue and keeps the others.
LEMMA WithoutIs ==
  ASSUME jobs \in Seq(Jobs), IsInjective(jobs), NEW j \in Range(jobs)
  PROVE  /\ Without(j) \in Seq(Jobs) /\ IsInjective(Without(j))
         /\ Range(Without(j)) = Range(jobs) \ {j}
<1> DEFINE n == Len(jobs)
           I == {i \in 1 .. n : jobs[i] = j}
           m == Min(I)
           head == SubSeq(jobs, 1, m - 1)
           tail == SubSeq(jobs, m + 1, n)
           q == head \o tail
<1>1. n \in Nat /\ DOMAIN jobs = 1 .. n /\ \A i \in 1 .. n : jobs[i] \in Jobs
  OBVIOUS
<1>2. I # {}
  BY <1>1 DEF Range
<1>3. m \in 1 .. n /\ jobs[m] = j
  <2>1. m \in I
    BY <1>1, <1>2, MinPosition
  <2> QED BY <2>1
<1>4. Without(j) = q
  <2>1. SelectInSeq(jobs, LAMBDA v : v = j) = m
    BY <1>2 DEF SelectInSeq
  <2>2. \E i \in 1 .. Len(jobs) : jobs[i] = j
    BY <1>3
  <2> HIDE DEF m
  <2> QED BY <2>1, <2>2 DEF Without, RemoveFirst, RemoveAt
<1> HIDE DEF m, I
<1>5. /\ head \in Seq(Jobs) /\ Len(head) = m - 1 /\ \A i \in 1 .. m - 1 : head[i] = jobs[i]
      /\ tail \in Seq(Jobs) /\ Len(tail) = n - m /\ \A i \in 1 .. n - m : tail[i] = jobs[m + i]
  <2>1. /\ head \in Seq(Jobs) /\ Len(head) = m - 1
        /\ \A i \in 1 .. m - 1 : head[i] = jobs[i]
    BY <1>1, <1>3
  <2>2. /\ tail \in Seq(Jobs) /\ Len(tail) = n - m
        /\ \A i \in 1 .. n - m : tail[i] = jobs[m + i]
    <3>0. m \in Nat /\ 1 <= m /\ m <= n /\ n \in Nat
      BY <1>1, <1>3
    <3>1. /\ m + 1 \in Int /\ n \in Int /\ \A i \in m + 1 .. n : jobs[i] \in Jobs
          /\ (m + 1) - 1 <= n /\ n - (m + 1) + 1 = n - m
      <4>1. ASSUME NEW i \in m + 1 .. n PROVE jobs[i] \in Jobs
        <5>1. i \in 1 .. n
          BY <3>0
        <5> QED BY <1>1, <5>1
      <4>2. /\ m + 1 \in Int /\ n \in Int
            /\ (m + 1) - 1 <= n /\ n - (m + 1) + 1 = n - m
        BY <3>0
      <4> QED BY <4>1, <4>2
    <3>2. /\ tail \in Seq(Jobs) /\ Len(tail) = n - m
          /\ \A i \in 1 .. n - m : tail[i] = jobs[(m + 1) + i - 1]
      BY <3>1, SubSeqProperties
    <3>3. \A i \in 1 .. n - m : (m + 1) + i - 1 = m + i
      BY <1>1, <1>3
    <3> QED BY <3>2, <3>3
  <2> QED BY <2>1, <2>2
<1> HIDE DEF head, tail
<1>6. /\ q \in Seq(Jobs) /\ Len(q) = n - 1 /\ DOMAIN q = 1 .. n - 1
      /\ \A i \in 1 .. n - 1 : q[i] = IF i < m THEN jobs[i] ELSE jobs[i + 1]
  <2>1. /\ q \in Seq(Jobs) /\ Len(q) = Len(head) + Len(tail)
        /\ \A i \in 1 .. Len(head) + Len(tail) :
             q[i] = IF i <= Len(head) THEN head[i] ELSE tail[i - Len(head)]
    BY <1>5, ConcatProperties
  <2>2. Len(q) = n - 1 /\ DOMAIN q = 1 .. n - 1
    <3>1. Len(q) = n - 1
      BY <1>1, <1>3, <1>5, <2>1
    <3> QED BY <2>1, <3>1, LenProperties
  <2>3. ASSUME NEW i \in 1 .. n - 1 PROVE q[i] = IF i < m THEN jobs[i] ELSE jobs[i + 1]
    <3>1. CASE i < m
      BY <1>1, <1>3, <1>5, <2>1, <3>1
    <3>2. CASE ~(i < m)
      <4>1. i - (m - 1) \in 1 .. n - m /\ m + (i - (m - 1)) = i + 1
        BY <1>1, <1>3, <3>2
      <4>2. q[i] = tail[i - (m - 1)]
        BY <1>1, <1>3, <1>5, <2>1, <3>2
      <4> QED BY <1>5, <3>2, <4>1, <4>2
    <3> QED BY <3>1, <3>2
  <2> QED BY <2>1, <2>2, <2>3
<1> HIDE DEF q
<1>7. \A i, k \in 1 .. n : jobs[i] = jobs[k] => i = k
  BY <1>1 DEF IsInjective
<1>8. IsInjective(q)
  BY <1>1, <1>3, <1>6, <1>7 DEF IsInjective
<1>9. ASSUME NEW x \in Range(q) PROVE x \in Range(jobs) \ {j}
  <2>1. PICK i \in 1 .. n - 1 : x = q[i]
    BY <1>6 DEF Range
  <2>2. PICK k \in 1 .. n : x = jobs[k] /\ k # m
    BY <1>1, <1>3, <1>6, <2>1
  <2> QED BY <1>1, <1>3, <1>7, <2>2 DEF Range
<1>10. ASSUME NEW x \in Range(jobs) \ {j} PROVE x \in Range(q)
  <2>1. PICK k \in 1 .. n : x = jobs[k] /\ k # m
    BY <1>1, <1>3 DEF Range
  <2> DEFINE i == IF k < m THEN k ELSE k - 1
  <2>2. i \in 1 .. n - 1 /\ q[i] = x
    BY <1>1, <1>3, <1>6, <2>1
  <2> QED BY <1>6, <2>2 DEF Range
<1> QED BY <1>4, <1>6, <1>8, <1>9, <1>10

------------------------------------------------------------------------------
(* The rows, the queue and the index keep their types. *)

\* The index after a decision is the index of a candidate.
LEMMA IndexInRange ==
  ASSUME NEW n \in Nat \ {0}, NEW i \in Nat
  PROVE  i % n \in 0 .. n - 1 /\ AdvancedIndex(i, n) \in 0 .. n - 1
BY DEF AdvancedIndex

\* What a dispatch does: it serves a queued job on a worker that can take it.
LEMMA DispatchKeepsTypes ==
  ASSUME TypeOK, NEW offered \in SUBSET Workers, Dispatch(offered)
  PROVE  TypeOK'
<1> DEFINE d == Plan(offered)
           c == d.candidates
           n == Len(c)
<1>1. /\ d.job \in Range(jobs) /\ d.job \in Jobs
      /\ c = Candidates(d.job, offered) /\ c \in Seq(Workers) /\ c # <<>>
      /\ d.worker \in Range(c) /\ d.worker \in offered /\ Eligible(d.job, d.worker)
  BY DecisionIsSound DEF Dispatch
<1>2. /\ jobs' = Without(d.job) /\ placed' = [placed EXCEPT ![d.job] = d.worker]
      /\ Reserve(d.job, d.worker) /\ Decided(d) /\ UNCHANGED <<policy, online>>
  BY DEF Dispatch
<1>3. n \in Nat \ {0} /\ n <= Cardinality(Workers) /\ Range(c) \in SUBSET Workers
  <2>1. n \in Nat /\ n <= Cardinality(Workers) /\ Range(c) = {w \in offered : Eligible(d.job, w)}
    BY <1>1, CandidatesAre
  <2> QED BY <1>1, <2>1
<1>4. Cardinality(Workers) \in Nat
  BY SchedulingAssumption, FS_CardinalityType
<1> HIDE DEF d
<1>5. policy' \in {"least-loaded", "round-robin"} /\ online' \in SUBSET Workers
  BY <1>2 DEF TypeOK
<1>6. jobs' \in Seq(Jobs) /\ IsInjective(jobs')
  BY <1>1, <1>2, WithoutIs DEF TypeOK
<1>7. placed' \in [Jobs -> Workers \cup {NoWorker}]
  BY <1>1, <1>2 DEF TypeOK
<1>8. /\ running' \in [Workers -> Nat]
      /\ freeCpu' \in [Workers -> Nat] /\ freeMem' \in [Workers -> Nat]
  <2>1. d.worker \in Workers /\ CpuNeed[d.job] \in Nat /\ MemNeed[d.job] \in Nat
    BY <1>1, SchedulingAssumption
  <2>2. /\ freeCpu[d.worker] - CpuNeed[d.job] \in Nat
        /\ freeMem[d.worker] - MemNeed[d.job] \in Nat
    <3>1. freeCpu[d.worker] >= CpuNeed[d.job] /\ freeMem[d.worker] >= MemNeed[d.job]
      BY <1>1 DEF Eligible
    <3>2. freeCpu[d.worker] \in Nat /\ freeMem[d.worker] \in Nat
      BY <2>1 DEF TypeOK
    <3> QED BY <2>1, <3>1, <3>2
  <2> QED BY <1>2, <2>1, <2>2 DEF Reserve, TypeOK
<1>9. CASE policy = "round-robin"
  <2>1. nextIndex' = AdvancedIndex(SelectedIndex(c), n)
    BY <1>2, <1>9 DEF Decided
  <2>2. nextIndex' \in 0 .. n - 1
    <3>1. SelectedIndex(c) \in Nat
      <4>1. nextIndex \in Nat
        BY DEF TypeOK
      <4>2. nextIndex % n \in 0 .. n - 1
        BY <1>3, <4>1, IndexInRange
      <4> QED BY <4>2 DEF SelectedIndex
    <3> QED BY <1>3, <2>1, <3>1, IndexInRange
  <2>3. nextIndex' \in Nat /\ nextIndex' < Cardinality(Workers)
    BY <1>3, <1>4, <2>2
  <2>4. /\ round'.among = Range(c)
        /\ round'.served = IF Range(c) = round.among /\ Len(round.served) < n
                           THEN Append(round.served, d.worker) ELSE <<d.worker>>
    BY <1>2, <1>9 DEF Decided
  <2>5. round'.served \in Seq(round'.among)
    <3>1. CASE Range(c) = round.among /\ Len(round.served) < n
      <4>1. round.served \in Seq(Range(c))
        BY <3>1 DEF TypeOK
      <4>2. Append(round.served, d.worker) \in Seq(Range(c))
        BY <1>1, <4>1, AppendProperties
      <4> QED BY <2>4, <3>1, <4>2
    <3>2. CASE ~(Range(c) = round.among /\ Len(round.served) < n)
      <4>1. <<d.worker>> \in Seq(Range(c))
        BY <1>1
      <4> QED BY <2>4, <3>2, <4>1
    <3> QED BY <3>1, <3>2
  <2>6. round'.among \in SUBSET Workers
    BY <1>3, <2>4
  <2> QED BY <1>5, <1>6, <1>7, <1>8, <2>3, <2>5, <2>6 DEF TypeOK
<1>10. CASE policy # "round-robin"
  <2>1. nextIndex' = nextIndex /\ round' = round
    BY <1>2, <1>10 DEF Decided
  <2> QED BY <1>5, <1>6, <1>7, <1>8, <2>1 DEF TypeOK
<1> QED BY <1>9, <1>10

\* The initial state has its types.
LEMMA InitTypeOK == Init => TypeOK
<1> SUFFICES ASSUME Init PROVE TypeOK
  OBVIOUS
<1>1. jobs \in Seq(Jobs) /\ IsInjective(jobs)
  BY DEF Init, IsInjective
<1>2. round.among \in SUBSET Workers /\ round.served \in Seq(round.among)
  BY DEF Init
<1>3. nextIndex \in Nat /\ (Workers # {} => nextIndex < Cardinality(Workers))
  <2>1. Cardinality(Workers) \in Nat /\ (Workers # {} => Cardinality(Workers) # 0)
    BY SchedulingAssumption, FS_CardinalityType, FS_EmptySet
  <2> QED BY <2>1 DEF Init
<1> QED BY <1>1, <1>2, <1>3, SchedulingAssumption DEF Init, TypeOK

\* Every step keeps them.
LEMMA NextTypeOK == TypeOK /\ [Next]_vars => TypeOK'
<1> SUFFICES ASSUME TypeOK, [Next]_vars PROVE TypeOK'
  OBVIOUS
<1>1. ASSUME NEW j \in Jobs, Enqueue(j) PROVE TypeOK'
  <2>1. jobs' = Append(jobs, j) /\ j \notin Range(jobs) /\ jobs \in Seq(Jobs) /\ IsInjective(jobs)
    BY <1>1 DEF Enqueue, TypeOK
  <2>2. /\ jobs' \in Seq(Jobs) /\ DOMAIN jobs' = 1 .. Len(jobs) + 1
        /\ \A i \in 1 .. Len(jobs) : jobs'[i] = jobs[i] /\ jobs[i] # j
        /\ jobs'[Len(jobs) + 1] = j
    BY <2>1 DEF Range
  <2>3. IsInjective(jobs')
    BY <2>1, <2>2 DEF IsInjective
  <2> QED BY <1>1, <2>2, <2>3 DEF Enqueue, TypeOK, rows
<1>2. ASSUME NEW j \in Jobs, JobLeaves(j) PROVE TypeOK'
  <2>1. placed[j] \in Workers
    BY <1>2 DEF JobLeaves, TypeOK
  <2>2. /\ running' \in [Workers -> Nat]
        /\ freeCpu' \in [Workers -> Nat] /\ freeMem' \in [Workers -> Nat]
    <3>1. /\ running[placed[j]] > 0 /\ running[placed[j]] \in Nat
          /\ CpuNeed[j] \in Nat /\ MemNeed[j] \in Nat
      BY <1>2, <2>1, SchedulingAssumption DEF JobLeaves, CanRelease, TypeOK
    <3>2. Release(j, placed[j])
      BY <1>2 DEF JobLeaves
    <3>3. running[placed[j]] - 1 \in Nat
      BY <3>1
    <3> QED BY <2>1, <3>1, <3>2, <3>3 DEF Release, TypeOK
  <2>3. placed' \in [Jobs -> Workers \cup {NoWorker}]
    BY <1>2 DEF JobLeaves, TypeOK
  <2> QED BY <1>2, <2>2, <2>3 DEF JobLeaves, TypeOK
<1>3. ASSUME DispatchOnce PROVE TypeOK'
  BY <1>3, DispatchKeepsTypes DEF DispatchOnce
<1>4. ASSUME NEW w \in Workers, DispatchOnceForWorker(w) PROVE TypeOK'
  BY <1>4, DispatchKeepsTypes DEF DispatchOnceForWorker
<1>5. ASSUME NEW w \in Workers, WorkerStateChanges(w) PROVE TypeOK'
  BY <1>5 DEF WorkerStateChanges, TypeOK, rows
<1>6. CASE UNCHANGED vars
  BY <1>6 DEF TypeOK, vars, rows
<1> QED BY <1>1, <1>2, <1>3, <1>4, <1>5, <1>6 DEF Next

\* The queue never holds a job twice, what a worker has left never goes below
\* zero, and the index of the round-robin policy stays in the worker list.
THEOREM TypeCorrect == Spec => []TypeOK
<1>1. Init => TypeOK
  BY InitTypeOK
<1>2. TypeOK /\ [Next]_vars => TypeOK'
  BY NextTypeOK
<1> QED BY <1>1, <1>2, PTL DEF Spec

------------------------------------------------------------------------------
(* The planner and the queue. *)

\* In any state of its types the planner serves the first job, by priority, age
\* and identifier, that fits a worker on offer, and fails only if none does.
THEOREM PlanIsRight == TypeOK => PlanServesFirstDispatchable
<1> SUFFICES ASSUME TypeOK, NEW offered \in {Workers} \cup {{w} : w \in Workers}
             PROVE  LET fits    == Fits(offered)
                        highest == {j \in fits : \A k \in fits : Priority[j] >= Priority[k]}
                        oldest  == {j \in highest : \A k \in highest : CreatedAt[j] <= CreatedAt[k]}
                        d       == Plan(offered)
                    IN  IF fits = {} THEN d = NoDecision
                        ELSE /\ d.job \in oldest /\ \A k \in oldest : d.job <= k
                             /\ d.worker \in offered /\ Eligible(d.job, d.worker)
  BY DEF PlanServesFirstDispatchable, Fits
<1> DEFINE d == Plan(offered)
           fits == Fits(offered)
<1>1. offered \in SUBSET Workers
  OBVIOUS
<1>2. CASE fits = {}
  BY <1>1, <1>2, PlanServesFirst
<1>3. CASE fits # {}
  <2>1. IsFirst(d.job, fits, RunsBefore)
    BY <1>1, <1>3, PlanServesFirst
  <2>2. d # NoDecision
    <3>1. d.candidates # <<>>
      BY <1>1, <1>3, PlanServesFirst
    <3> QED BY <3>1 DEF NoDecision
  <2>3. d.worker \in offered /\ Eligible(d.job, d.worker)
    BY <1>1, <2>2, DecisionIsSound
  <2>4. fits \in SUBSET Jobs
    <3>1. Range(jobs) \in SUBSET Jobs
      BY RangeOfSeq DEF TypeOK
    <3> QED BY <3>1 DEF Fits
  <2> HIDE DEF d, fits
  <2>5. \A k \in fits : k = d.job \/ ShouldRunBefore(d.job, k)
    BY <2>1, <2>4 DEF IsFirst, RunsBefore
  <2>6. /\ d.job \in fits
        /\ \A k \in fits : Priority[k] \in Int /\ CreatedAt[k] \in Int /\ k \in Int
    BY <2>1, <2>4, SchedulingAssumption DEF IsFirst
  <2> QED BY <1>3, <2>3, <2>5, <2>6 DEF ShouldRunBefore, d, fits
<1> QED BY <1>2, <1>3

\* Every plan is the right one.
THEOREM PlansServeFirstDispatchable == Spec => []PlanServesFirstDispatchable
BY TypeCorrect, PlanIsRight, PTL

\* The single pass and the sorted list agree on the head of the queue.
THEOREM PopIsHead == TypeOK => PopTakesHead
<1> SUFFICES ASSUME TypeOK, jobs # <<>> PROVE PopNext = Head(OrderedJobs)
  BY DEF PopTakesHead
<1>1. jobs \in Seq(Jobs)
  BY DEF TypeOK
<1>2. IsFirst(PopNext, Range(jobs), RunsBefore)
  BY <1>1, RunsBeforeIsStrict, BestIsFirst DEF PopNext
<1>3. Range(jobs) \in SUBSET Jobs /\ IsFiniteSet(Range(jobs)) /\ Range(jobs) # {}
  <2>1. Range(jobs) \in SUBSET Jobs /\ IsFiniteSet(Range(jobs))
    BY <1>1, SeenAll
  <2> QED BY <1>2, <2>1 DEF IsFirst
<1>4. IsStrictOrder(RunsBefore, Range(jobs))
  BY <1>3, RunsBeforeIsStrict, SubsetOrder
<1>5. IsFirst(Head(OrderedJobs), Range(jobs), RunsBefore)
  BY <1>3, <1>4, SortedHead DEF OrderedJobs
<1> QED BY <1>2, <1>4, <1>5, OneFirst

\* pop_next always takes the head of ordered_jobs.
THEOREM PopsTakeHead == Spec => []PopTakesHead
BY TypeCorrect, PopIsHead, PTL

------------------------------------------------------------------------------
(* The policies. *)

\* A job is placed on a worker that is first in the order of the policy.
THEOREM LeastLoadedAlwaysSpreads == Spec => LeastLoadedSpreads
<1> DEFINE Spreads ==
      policy = "least-loaded" /\ DispatchOnce =>
        \A j \in Jobs, v, w \in Workers :
          placed[j] = NoWorker /\ placed'[j] = w /\ Eligible(j, v)
            => running[w] * Slots[v] <= running[v] * Slots[w]
<1>1. TypeOK /\ [Next]_vars => [Spreads]_vars
  <2> SUFFICES ASSUME TypeOK, policy = "least-loaded", DispatchOnce,
                      NEW j \in Jobs, NEW v \in Workers, NEW w \in Workers,
                      placed[j] = NoWorker, placed'[j] = w, Eligible(j, v)
               PROVE  running[w] * Slots[v] <= running[v] * Slots[w]
    BY DEF Spreads
  <2> DEFINE d == Plan(Workers)
  <2>1. /\ d.candidates = Candidates(d.job, Workers) /\ d.candidates \in Seq(Workers)
        /\ d.candidates # <<>> /\ d.worker = SelectWorker(d.candidates)
        /\ d.job \in Jobs
    BY DecisionIsSound DEF DispatchOnce, Dispatch
  <2>2. placed' = [placed EXCEPT ![d.job] = d.worker]
    BY DEF DispatchOnce, Dispatch
  <2> HIDE DEF d
  <2>3. j = d.job /\ w = d.worker
    <3>1. w # NoWorker
      BY SchedulingAssumption DEF NoWorker
    <3>2. placed \in [Jobs -> Workers \cup {NoWorker}]
      BY DEF TypeOK
    <3> QED BY <2>1, <2>2, <3>1, <3>2
  <2>4. v \in Range(d.candidates)
    <3>1. Workers \in SUBSET Workers
      OBVIOUS
    <3>2. Range(Candidates(j, Workers)) = {u \in Workers : Eligible(j, u)}
      BY <3>1, CandidatesAre
    <3> QED BY <2>1, <2>3, <3>2
  <2>5. IsFirst(w, Range(d.candidates), BetterFirst)
    BY <2>1, <2>3, SelectedIsCandidate
  <2>6. v = w \/ IsBetterCandidate(w, v)
    BY <2>4, <2>5 DEF IsFirst, BetterFirst
  <2>7. /\ running[v] \in Nat /\ running[w] \in Nat
        /\ Slots[v] \in Nat /\ Slots[w] \in Nat
    BY SchedulingAssumption DEF TypeOK
  <2>8. running[w] * Slots[v] \in Nat /\ running[v] * Slots[w] \in Nat
    BY <2>7
  <2> QED BY <2>6, <2>7, <2>8 DEF IsBetterCandidate, LessLoaded
<1> QED BY <1>1, TypeCorrect, PTL DEF Spec, LeastLoadedSpreads, Spreads

\* The position d places before i, around a list of n.
Back(i, d, n) == IF i >= d THEN i - d ELSE i + n - d

\* The workers of a round are the ones the index went over last, in order.
RoundInv ==
  round.served # <<>> =>
    LET n == Cardinality(round.among)
        m == Len(round.served)
    IN  /\ m <= n /\ nextIndex < n
        /\ \A k \in 1 .. m :
             round.served[k] = Sorted(round.among, ById)[Back(nextIndex, m + 1 - k, n) + 1]

\* One step of the index is one place further back.
LEMMA BackStep ==
  ASSUME NEW n \in Nat \ {0}, NEW i \in 0 .. n - 1, NEW d \in 0 .. n - 1
  PROVE  /\ i % n = i /\ AdvancedIndex(i, n) \in 0 .. n - 1
         /\ Back(i, 0, n) = i
         /\ Back(AdvancedIndex(i, n), d + 1, n) = Back(i, d, n)
<1>1. i % n = i
  OBVIOUS
<1>2. AdvancedIndex(i, n) = IF i + 1 = n THEN 0 ELSE i + 1
  <2>1. CASE i + 1 = n
    <3>1. n % n = 0
      OBVIOUS
    <3> QED BY <2>1, <3>1 DEF AdvancedIndex
  <2>2. CASE i + 1 # n
    <3>1. i + 1 \in 0 .. n - 1
      BY <2>2
    <3>2. (i + 1) % n = i + 1
      BY <3>1
    <3> QED BY <2>2, <3>2 DEF AdvancedIndex
  <2> QED BY <2>1, <2>2
<1> QED BY <1>1, <1>2 DEF Back

\* Around a list of n, n places follow one another.
LEMMA BackIsInjective ==
  ASSUME NEW n \in Nat, NEW i \in 0 .. n - 1, NEW d \in 1 .. n, NEW e \in 1 .. n,
         Back(i, d, n) + 1 = Back(i, e, n) + 1
  PROVE  d = e
<1>1. CASE i >= d /\ i >= e
  BY <1>1 DEF Back
<1>2. CASE i >= d /\ ~(i >= e)
  BY <1>2 DEF Back
<1>3. CASE ~(i >= d) /\ i >= e
  BY <1>3 DEF Back
<1>4. CASE ~(i >= d) /\ ~(i >= e)
  BY <1>4 DEF Back
<1> QED BY <1>1, <1>2, <1>3, <1>4

\* A decision over other candidates starts a new round, one over the same goes on.
LEMMA NextRoundInv ==
  ASSUME TypeOK, RoundInv, [Next]_vars
  PROVE  RoundInv'
<1>1. CASE UNCHANGED <<nextIndex, round>>
  BY <1>1 DEF RoundInv
<1>2. ASSUME NEW offered \in SUBSET Workers, Dispatch(offered) PROVE RoundInv'
  <2> DEFINE c == Plan(offered).candidates
             w == Plan(offered).worker
             n == Len(c)
             i == SelectedIndex(c)
             m == Len(round.served)
             E == Range(c)
  <2>1. CASE policy # "round-robin"
    BY <1>1, <1>2, <2>1 DEF Dispatch, Decided
  <2>2. CASE policy = "round-robin"
    <3>1. /\ c \in Seq(Workers) /\ c # <<>> /\ c = Candidates(Plan(offered).job, offered)
          /\ w = SelectWorker(c)
      BY <1>2, DecisionIsSound DEF Dispatch
    <3>2. /\ n \in Nat \ {0} /\ c = Sorted(E, ById) /\ E \in SUBSET Workers
          /\ n = Cardinality(E)
      <4>1. /\ n \in Nat /\ c = Sorted({v \in offered : Eligible(Plan(offered).job, v)}, ById)
            /\ E = {v \in offered : Eligible(Plan(offered).job, v)}
        BY <3>1, CandidatesAre
      <4>2. IsFiniteSet(E) /\ IsStrictOrder(ById, E)
        BY <4>1, SchedulingAssumption, FS_Subset, ByIdIsStrict, SubsetOrder
      <4>3. Len(Sorted(E, ById)) = Cardinality(E)
        BY <4>2, SortedIsSorted
      <4>4. c = Sorted(E, ById) /\ n # 0
        BY <3>1, <4>1
      <4>5. E \in SUBSET Workers
        BY <4>1
      <4>6. n = Cardinality(E)
        BY <4>3, <4>4
      <4> HIDE DEF c, E
      <4> QED BY <4>1, <4>4, <4>5, <4>6
    <3>3. i \in 0 .. n - 1 /\ w = c[i + 1]
      BY <2>2, <3>1, SelectedIsCandidate
    <3>4. /\ nextIndex' = AdvancedIndex(i, n) /\ round'.among = E
          /\ round'.served = IF E = round.among /\ m < n
                             THEN Append(round.served, w) ELSE <<w>>
      BY <1>2, <2>2 DEF Dispatch, Decided
    <3>5. i = nextIndex % n
      BY DEF SelectedIndex
    <3>6. round.served \in Seq(round.among) /\ m \in Nat /\ nextIndex \in Nat
      BY DEF TypeOK
    <3> HIDE DEF c, w, n, i, m, E
    <3>7. nextIndex' \in 0 .. n - 1 /\ Back(nextIndex', 1, n) = i
      <4>1. 0 \in 0 .. n - 1
        BY <3>2
      <4>2. Back(AdvancedIndex(i, n), 0 + 1, n) = Back(i, 0, n) /\ Back(i, 0, n) = i
        BY <3>2, <3>3, <4>1, BackStep
      <4> QED BY <3>2, <3>3, <3>4, <4>2, BackStep
    <3>8. CASE E = round.among /\ m < n /\ round.served # <<>>
      <4>1. /\ nextIndex < n
            /\ \A k \in 1 .. m : round.served[k] = c[Back(nextIndex, m + 1 - k, n) + 1]
        BY <3>2, <3>8 DEF RoundInv, m
      <4>2. i = nextIndex
        <5>1. nextIndex \in 0 .. n - 1
          BY <3>2, <3>6, <4>1
        <5> QED BY <3>2, <3>5, <5>1, BackStep
      <4>3. /\ Len(round'.served) = m + 1
            /\ \A k \in 1 .. m : round'.served[k] = round.served[k]
            /\ round'.served[m + 1] = w
        BY <3>4, <3>6, <3>8, AppendProperties DEF m
      <4>4. ASSUME NEW k \in 1 .. m + 1
            PROVE  round'.served[k] = c[Back(nextIndex', (m + 1) + 1 - k, n) + 1]
        <5>1. CASE k = m + 1
          BY <3>3, <3>6, <3>7, <4>3, <5>1
        <5>2. CASE k # m + 1
          <6> DEFINE d == m + 1 - k
          <6>1. k \in 1 .. m /\ d \in 0 .. n - 1 /\ (m + 1) + 1 - k = d + 1
            BY <3>2, <3>6, <3>8, <5>2
          <6> HIDE DEF d
          <6>2. Back(nextIndex', d + 1, n) = Back(nextIndex, d, n)
            BY <3>2, <3>3, <3>4, <4>2, <6>1, BackStep
          <6>3. round.served[k] = c[Back(nextIndex, d, n) + 1]
            BY <4>1, <6>1 DEF d
          <6> QED BY <4>3, <6>1, <6>2, <6>3
        <5> QED BY <5>1, <5>2
      <4> QED BY <3>2, <3>4, <3>6, <3>7, <3>8, <4>3, <4>4 DEF RoundInv
    <3>9. CASE ~(E = round.among /\ m < n /\ round.served # <<>>)
      <4>1. round'.served = <<w>>
        <5>1. round.served = <<>> => Append(round.served, w) = <<w>>
          OBVIOUS
        <5> QED BY <3>4, <3>9, <5>1
      <4>2. Len(round'.served) = 1 /\ round'.served[1] = w
        BY <4>1
      <4>3. \A k \in 1 .. 1 : k = 1 /\ 1 + 1 - k = 1
        OBVIOUS
      <4> QED BY <3>2, <3>3, <3>4, <3>7, <4>2, <4>3 DEF RoundInv
    <3> QED BY <3>8, <3>9
  <2> QED BY <2>1, <2>2
<1>3. ASSUME NEW j \in Jobs, Enqueue(j) \/ JobLeaves(j) PROVE RoundInv'
  BY <1>1, <1>3 DEF Enqueue, JobLeaves
<1>4. ASSUME DispatchOnce PROVE RoundInv'
  BY <1>2, <1>4 DEF DispatchOnce
<1>5. ASSUME NEW w \in Workers, DispatchOnceForWorker(w) \/ WorkerStateChanges(w)
      PROVE  RoundInv'
  BY <1>1, <1>2, <1>5 DEF DispatchOnceForWorker, WorkerStateChanges
<1>6. CASE UNCHANGED vars
  BY <1>1, <1>6 DEF vars
<1> QED BY <1>3, <1>4, <1>5, <1>6 DEF Next

\* Two places of a round that are different places of the list are different
\* workers.
LEMMA RoundIsInjective == TypeOK /\ RoundInv => RoundServesEachOnce
<1> DEFINE s == round.served
           m == Len(round.served)
           n == Cardinality(round.among)
           c == Sorted(round.among, ById)
<1> SUFFICES ASSUME TypeOK, RoundInv, NEW k \in DOMAIN s, NEW l \in DOMAIN s, s[k] = s[l]
             PROVE  k = l
  BY DEF RoundServesEachOnce, IsInjective
<1>1. s \in Seq(round.among) /\ m \in Nat /\ DOMAIN s = 1 .. m /\ nextIndex \in Nat
  BY DEF TypeOK
<1>2. s # <<>>
  BY <1>1
<1>3. /\ m <= n /\ nextIndex < n
      /\ s[k] = c[Back(nextIndex, m + 1 - k, n) + 1]
      /\ s[l] = c[Back(nextIndex, m + 1 - l, n) + 1]
  BY <1>1, <1>2 DEF RoundInv
<1>4. n \in Nat /\ DOMAIN c = 1 .. n /\ \A p, q \in 1 .. n : c[p] = c[q] => p = q
  <2>1. IsFiniteSet(round.among) /\ IsStrictOrder(ById, round.among)
    <3>1. round.among \in SUBSET Workers
      BY DEF TypeOK
    <3> QED BY <3>1, SchedulingAssumption, FS_Subset, ByIdIsStrict, SubsetOrder
  <2>2. n \in Nat /\ DOMAIN c = 1 .. n /\ IsInjective(c)
    BY <2>1, SortedIsSorted
  <2> HIDE DEF n, c
  <2> QED BY <2>2 DEF IsInjective
<1> HIDE DEF c, n, s, m
<1>5. \A d \in 1 .. n : Back(nextIndex, d, n) + 1 \in 1 .. n
  BY <1>1, <1>3, <1>4 DEF Back
<1>6. k \in 1 .. m /\ l \in 1 .. m /\ m + 1 - k \in 1 .. n /\ m + 1 - l \in 1 .. n
  BY <1>1, <1>3, <1>4
<1>7. Back(nextIndex, m + 1 - k, n) + 1 = Back(nextIndex, m + 1 - l, n) + 1
  BY <1>3, <1>4, <1>5, <1>6
<1>8. m + 1 - k = m + 1 - l
  <2>1. nextIndex \in 0 .. n - 1
    BY <1>1, <1>3, <1>4
  <2> QED BY <1>4, <1>6, <1>7, <2>1, BackIsInjective
<1> QED BY <1>1, <1>6, <1>8

\* Round robin serves every candidate once before it serves one twice.
THEOREM RoundsServeEachOnce == Spec => []RoundServesEachOnce
<1>1. Init => RoundInv
  BY DEF Init, RoundInv
<1>2. TypeOK /\ RoundInv /\ [Next]_vars => RoundInv'
  BY NextRoundInv
<1> QED BY <1>1, <1>2, TypeCorrect, RoundIsInjective, PTL DEF Spec
=============================================================================
