------------------------------ MODULE ListFacts ------------------------------
(***************************************************************************)
(* Facts about numbers and lists that several proofs need: the least and   *)
(* the greatest of some numbers, on which induction rests, what a filter   *)
(* keeps of a list, and what a loop comes to that makes something smaller. *)
(***************************************************************************)
EXTENDS Lists, Sequences, FiniteSetsExt, FiniteSetTheorems, SequenceTheorems,
        WellFoundedInduction, TLAPS

\* A set of natural numbers that is not empty has a least one.
LEMMA LeastNumber ==
    ASSUME NEW T \in SUBSET Nat, T # {}
    PROVE  \E x \in T : \A y \in T : x <= y
<1> DEFINE R == OpToRel(<, Nat)
<1>1. IsWellFoundedOn(R, Nat)
  BY NatLessThanWellFounded
<1>2. \A x, y \in Nat : x < y => <<x, y>> \in R
  BY DEF OpToRel
<1> HIDE DEF R
<1>3. PICK x \in T : \A y \in T : ~(<<y, x>> \in R)
  BY <1>1, WFMin
<1>4. \A y \in T : ~(y < x)
  BY <1>2, <1>3
<1> QED BY <1>4

\* Min of the community modules is the least one.
LEMMA MinIsLeast ==
    ASSUME NEW T \in SUBSET Nat, T # {}
    PROVE  Min(T) \in T /\ \A y \in T : Min(T) <= y
<1>1. PICK x \in T : \A y \in T : x <= y
  BY LeastNumber
<1> QED BY <1>1 DEF Min

\* Max is the greatest one, if there is a bound.
LEMMA MaxIsGreatest ==
    ASSUME NEW b \in Nat, NEW T \in SUBSET (0 .. b), T # {}
    PROVE  Max(T) \in T /\ \A y \in T : y <= Max(T)
<1> DEFINE below == {b - y : y \in T}
<1>1. below \in SUBSET Nat /\ below # {}
  <2>1. \A y \in T : b - y \in Nat
    OBVIOUS
  <2> QED BY <2>1
<1>2. PICK d \in below : \A e \in below : d <= e
  BY <1>1, LeastNumber
<1>3. PICK x \in T : d = b - x
  BY <1>2
<1>4. \A y \in T : y <= x
  BY <1>2, <1>3
<1> HIDE DEF below
<1>5. \A y \in T : x >= y
  BY <1>4
<1> QED BY <1>3, <1>5 DEF Max

-----------------------------------------------------------------------------
\* Induction up to N.
LEMMA Induction ==
    ASSUME NEW N \in Nat, NEW T, 0 \in T, \A n \in 1 .. N : n - 1 \in T => n \in T
    PROVE  \A n \in 0 .. N : n \in T
<1> DEFINE without == {n \in 0 .. N : n \notin T}
<1> SUFFICES ASSUME without # {} PROVE FALSE
  OBVIOUS
<1>1. without \in SUBSET Nat
  OBVIOUS
<1>2. PICK n \in without : \A k \in without : n <= k
  <2> HIDE DEF without
  <2> QED BY <1>1, LeastNumber
<1>3. n \in 1 .. N
  BY <1>2
<1>4. n - 1 \in 0 .. N /\ ~(n <= n - 1)
  BY <1>3
<1>5. n - 1 \in T
  BY <1>2, <1>4
<1> QED BY <1>2, <1>3, <1>5

\* f starts at z and takes step[n] to get from n - 1 to n.
Follows(f, N, S, z, step) ==
    /\ f \in [0 .. N -> S] /\ f[0] = z
    /\ \A n \in 1 .. N : f[n] = step[n][f[n - 1]]

\* A function that is defined by its value before exists.
LEMMA Recursion ==
    ASSUME NEW N \in Nat, NEW S, NEW z \in S, NEW step \in [1 .. N -> [S -> S]]
    PROVE  \E f : Follows(f, N, S, z, step)
<1> DEFINE Upto(k, f) == f \in [0 .. k -> S] /\ f[0] = z
                         /\ \A n \in 1 .. k : f[n] = step[n][f[n - 1]]
           T == {k \in 0 .. N : \E f : Upto(k, f)}
<1>1. 0 \in T
  <2>1. Upto(0, [i \in 0 .. 0 |-> z])
    OBVIOUS
  <2> HIDE DEF Upto
  <2> QED BY <2>1
<1>2. ASSUME NEW k \in 1 .. N, k - 1 \in T PROVE k \in T
  <2>1. PICK f : Upto(k - 1, f)
    BY <1>2
  <2> DEFINE g == [i \in 0 .. k |-> IF i = k THEN step[k][f[k - 1]] ELSE f[i]]
  <2>2. f \in [0 .. k - 1 -> S] /\ f[k - 1] \in S /\ step[k] \in [S -> S]
    BY <2>1
  <2>3. g \in [0 .. k -> S]
    BY <2>2
  <2>4. g[0] = z
    BY <2>1
  <2>5. ASSUME NEW n \in 1 .. k PROVE g[n] = step[n][g[n - 1]]
    <3>1. g[n - 1] = f[n - 1]
      OBVIOUS
    <3>2. CASE n = k
      BY <3>1, <3>2
    <3>3. CASE n # k
      <4>1. n \in 1 .. k - 1 /\ g[n] = f[n]
        BY <3>3
      <4> QED BY <2>1, <3>1, <4>1
    <3> QED BY <3>2, <3>3
  <2>6. Upto(k, g)
    <3> HIDE DEF g
    <3> QED BY <2>3, <2>4, <2>5
  <2> HIDE DEF Upto, g
  <2> QED BY <2>6
<1>3. N \in T
  <2>1. N \in 0 .. N
    OBVIOUS
  <2> HIDE DEF T
  <2> QED BY <1>1, <1>2, <2>1, Induction
<1>4. PICK f : Upto(N, f)
  BY <1>3
<1> QED BY <1>4 DEF Follows

-----------------------------------------------------------------------------
\* The values a loop goes through.
GoesThrough(f, S, step, start, times) ==
    /\ f \in [0 .. times -> S] /\ f[0] = start
    /\ \A n \in 1 .. times : f[n] = step[f[n - 1]]
    /\ Repeated(step, start, times) = f[times]

\* What a loop comes to is the last of them.
LEMMA Repetition ==
    ASSUME NEW S, NEW start \in S, NEW times \in Nat, NEW step \in [S -> S]
    PROVE  \E f : GoesThrough(f, S, step, start, times)
<1> DEFINE Is(f) == f = [n \in 0 .. times |-> IF n = 0 THEN start ELSE step[f[n - 1]]]
           all == [n \in 1 .. times |-> step]
           after == CHOOSE f : Is(f)
<1>1. Repeated(step, start, times) = after[times]
  BY DEF Repeated
<1>2. all \in [1 .. times -> [S -> S]]
  OBVIOUS
<1>3. PICK f : Follows(f, times, S, start, all)
  <2> HIDE DEF all
  <2> QED BY <1>2, Recursion
<1>4. /\ f \in [0 .. times -> S] /\ f[0] = start
      /\ \A n \in 1 .. times : f[n] = step[f[n - 1]]
  BY <1>3 DEF Follows
<1>5. Is(f)
  <2>1. \A n \in 0 .. times : n = 0 \/ n \in 1 .. times
    OBVIOUS
  <2>2. \A n \in 0 .. times : f[n] = IF n = 0 THEN start ELSE step[f[n - 1]]
    BY <1>4, <2>1
  <2>3. f = [n \in 0 .. times |-> f[n]]
    BY <1>4
  <2> QED BY <2>2, <2>3
<1>6. Is(after)
  BY <1>5
<1> HIDE DEF after
<1>7. after[0] = start /\ \A n \in 1 .. times : after[n] = step[after[n - 1]]
  <2>1. \A n \in 0 .. times : after[n] = IF n = 0 THEN start ELSE step[after[n - 1]]
    BY <1>6, Zenon
  <2>2. 0 \in 0 .. times /\ \A n \in 1 .. times : n \in 0 .. times /\ n # 0
    OBVIOUS
  <2> QED BY <2>1, <2>2, Zenon
<1>8. \A n \in 0 .. times : after[n] \in S
  <2> DEFINE T == {n \in 0 .. times : after[n] \in S}
  <2>1. 0 \in T
    BY <1>7
  <2>2. \A n \in 1 .. times : n - 1 \in T => n \in T
    <3> SUFFICES ASSUME NEW n \in 1 .. times, n - 1 \in T PROVE n \in T
      OBVIOUS
    <3>1. after[n - 1] \in S /\ n \in 0 .. times
      OBVIOUS
    <3>2. step[after[n - 1]] \in S
      BY <3>1
    <3> QED BY <1>7, <3>1, <3>2
  <2>3. \A n \in 0 .. times : n \in T
    <3> HIDE DEF T
    <3> QED BY <2>1, <2>2, Induction
  <2> QED BY <2>3
<1>9. after \in [0 .. times -> S]
  BY <1>6, <1>8
<1> HIDE DEF Is
<1>10. GoesThrough(after, S, step, start, times)
  BY <1>1, <1>7, <1>9 DEF GoesThrough
<1> QED BY <1>10

\* A loop whose step, where it still changes the value, makes it smaller keeps
\* the invariant and comes to a value it does not change.
Shrinks(S, I, step, size, start, times) ==
    /\ step \in [S -> S] /\ size \in [S -> Nat] /\ I \in SUBSET S
    /\ start \in I /\ times \in Nat /\ size[start] <= times
    /\ \A x \in I : step[x] \in I /\ (step[x] = x \/ size[step[x]] < size[x])
LEMMA RepeatedSettles ==
    ASSUME NEW S, NEW I, NEW step, NEW size, NEW start, NEW times,
           Shrinks(S, I, step, size, start, times)
    PROVE  /\ Repeated(step, start, times) \in I
           /\ step[Repeated(step, start, times)] = Repeated(step, start, times)
<1> DEFINE Settled(x, n) == x \in I /\ (step[x] = x \/ size[x] + n <= times)
<1>b. /\ step \in [S -> S] /\ size \in [S -> Nat] /\ I \in SUBSET S
      /\ start \in I /\ times \in Nat /\ size[start] <= times
      /\ \A x \in I : step[x] \in I /\ (step[x] = x \/ size[step[x]] < size[x])
  BY DEF Shrinks
<1>0. start \in S /\ times \in Nat /\ step \in [S -> S]
  BY <1>b
<1>a. PICK f : GoesThrough(f, S, step, start, times)
  BY <1>0, Repetition
<1>1. /\ f \in [0 .. times -> S] /\ f[0] = start
      /\ \A n \in 1 .. times : f[n] = step[f[n - 1]]
      /\ Repeated(step, start, times) = f[times]
  BY <1>a DEF GoesThrough
<1> DEFINE T == {n \in 0 .. times : Settled(f[n], n)}
<1>2. 0 \in T
  BY <1>1, <1>b
<1>3. ASSUME NEW n \in 1 .. times, n - 1 \in T PROVE n \in T
  <2>1. f[n] = step[f[n - 1]] /\ Settled(f[n - 1], n - 1) /\ n \in 0 .. times
    BY <1>1, <1>3, <1>b
  <2>2. CASE step[f[n - 1]] = f[n - 1]
    BY <1>b, <2>1, <2>2
  <2>3. CASE step[f[n - 1]] # f[n - 1]
    <3>1. /\ f[n] \in I /\ f[n - 1] \in I /\ size[f[n]] < size[f[n - 1]]
          /\ size[f[n - 1]] + (n - 1) <= times
      BY <1>b, <2>1, <2>3
    <3>2. size[f[n]] \in Nat /\ size[f[n - 1]] \in Nat
      BY <1>b, <3>1
    <3>3. size[f[n]] + n <= times
      BY <1>b, <3>1, <3>2
    <3> QED BY <2>1, <3>1, <3>3
  <2> QED BY <2>2, <2>3
<1>4. times \in T
  <2>1. times \in 0 .. times
    BY <1>b
  <2> HIDE DEF T
  <2> QED BY <1>b, <1>2, <1>3, <2>1, Induction
<1>5. f[times] \in I /\ (step[f[times]] = f[times] \/ size[f[times]] + times <= times)
  BY <1>4
<1>6. step[f[times]] \in I /\ (step[f[times]] = f[times] \/ size[step[f[times]]] < size[f[times]])
  BY <1>b, <1>5
<1>7. size[f[times]] \in Nat /\ size[step[f[times]]] \in Nat
  BY <1>b, <1>5, <1>6
<1> QED BY <1>b, <1>1, <1>5, <1>6, <1>7

\* It keeps an invariant, whether it settles or not.
LEMMA RepeatedKeeps ==
    ASSUME NEW S, NEW I \in SUBSET S, NEW start \in I, NEW times \in Nat, NEW step \in [S -> S],
           \A x \in I : step[x] \in I
    PROVE  Repeated(step, start, times) \in I
<1>0. start \in S
  OBVIOUS
<1>a. PICK f : GoesThrough(f, S, step, start, times)
  BY <1>0, Repetition
<1>1. /\ f \in [0 .. times -> S] /\ f[0] = start
      /\ \A n \in 1 .. times : f[n] = step[f[n - 1]]
      /\ Repeated(step, start, times) = f[times]
  BY <1>a DEF GoesThrough
<1> DEFINE T == {n \in 0 .. times : f[n] \in I}
<1>2. 0 \in T
  BY <1>1
<1>3. ASSUME NEW n \in 1 .. times, n - 1 \in T PROVE n \in T
  <2>1. f[n] = step[f[n - 1]] /\ f[n - 1] \in I /\ n \in 0 .. times
    BY <1>1, <1>3
  <2>2. step[f[n - 1]] \in I
    BY <2>1
  <2> QED BY <2>1, <2>2
<1>4. times \in T
  <2>1. times \in 0 .. times
    OBVIOUS
  <2> HIDE DEF T
  <2> QED BY <1>2, <1>3, <2>1, Induction
<1> QED BY <1>1, <1>4

-----------------------------------------------------------------------------
\* The ranks of the places are different numbers, in their order.
LEMMA Ranks ==
    ASSUME NEW places \in SUBSET Int, IsFiniteSet(places)
    PROVE  /\ Cardinality(places) \in Nat
           /\ \A i \in places : RankIn(places, i) \in 1 .. Cardinality(places)
           /\ \A i, k \in places : i < k => RankIn(places, i) < RankIn(places, k)
<1> DEFINE upto(i) == {j \in places : j <= i}
<1>1. Cardinality(places) \in Nat
  BY FS_CardinalityType
<1>2. ASSUME NEW i \in places
      PROVE  /\ IsFiniteSet(upto(i)) /\ Cardinality(upto(i)) \in Nat
             /\ Cardinality(upto(i)) <= Cardinality(places) /\ Cardinality(upto(i)) # 0
  <2>1. upto(i) \in SUBSET places /\ i \in upto(i)
    OBVIOUS
  <2> HIDE DEF upto
  <2>2. IsFiniteSet(upto(i)) /\ Cardinality(upto(i)) <= Cardinality(places)
    BY <2>1, FS_Subset
  <2> QED BY <2>1, <2>2, FS_CardinalityType, FS_EmptySet
<1>3. ASSUME NEW i \in places, NEW k \in places, i < k
      PROVE  Cardinality(upto(i)) < Cardinality(upto(k))
  <2>0. \A j \in places : j <= i => j <= k
    BY <1>3
  <2>a. upto(i) \in SUBSET upto(k)
    BY <2>0
  <2>b. i \in Int /\ k \in Int
    OBVIOUS
  <2>c. k <= k /\ ~(k <= i)
    BY <2>b, <1>3
  <2>1. upto(i) \in SUBSET upto(k) /\ k \in upto(k) /\ k \notin upto(i)
    BY <2>a, <2>c
  <2>2. IsFiniteSet(upto(k))
    BY <1>2
  <2> HIDE DEF upto
  <2>3. /\ Cardinality(upto(i)) <= Cardinality(upto(k))
        /\ Cardinality(upto(k)) = Cardinality(upto(i)) => upto(k) = upto(i)
    BY <2>1, <2>2, FS_Subset
  <2> QED BY <1>2, <2>1, <2>3
<1>4. \A i : RankIn(places, i) = Cardinality(upto(i))
  BY DEF RankIn
<1> HIDE DEF upto
<1> QED BY <1>1, <1>2, <1>3, <1>4

\* Every number up to theirs is the rank of one place.
LEMMA Places ==
    ASSUME NEW places \in SUBSET Int, IsFiniteSet(places)
    PROVE  /\ \A n \in 1 .. Cardinality(places) :
                PlaceOf(places, n) \in places /\ RankIn(places, PlaceOf(places, n)) = n
           /\ \A i \in places : PlaceOf(places, RankIn(places, i)) = i
<1> DEFINE size == Cardinality(places)
<1> DEFINE rank == [i \in places |-> RankIn(places, i)]
<1>1. /\ size \in Nat
      /\ \A i \in places : RankIn(places, i) \in 1 .. size
      /\ \A i, k \in places : i < k => RankIn(places, i) < RankIn(places, k)
  BY Ranks
<1>2. \A i, k \in places : RankIn(places, i) = RankIn(places, k) => i = k
  <2> SUFFICES ASSUME NEW i \in places, NEW k \in places, RankIn(places, i) = RankIn(places, k)
               PROVE  i = k
    OBVIOUS
  <2>1. ~(i < k) /\ ~(k < i)
    BY <1>1
  <2> QED BY <2>1
<1>3. rank \in Injection(places, 1 .. size)
  BY <1>1, <1>2 DEF Injection, IsInjective
<1>4. IsFiniteSet(1 .. size) /\ Cardinality(1 .. size) = size
  BY <1>1, FS_Interval
<1>5. rank \in Surjection(places, 1 .. size)
  <2> HIDE DEF rank
  <2> QED BY <1>3, <1>4, FS_Injection
<1>6. \A n \in 1 .. size : \E i \in places : RankIn(places, i) = n
  BY <1>5 DEF Surjection
<1>7. \A n \in 1 .. size : PlaceOf(places, n) \in places /\ RankIn(places, PlaceOf(places, n)) = n
  BY <1>6 DEF PlaceOf
<1>8. \A i \in places : PlaceOf(places, RankIn(places, i)) = i
  BY <1>1, <1>2, <1>7
<1> HIDE DEF rank
<1> QED BY <1>7, <1>8

\* What is kept of a list is a list of its elements at those places.
LEMMA ElementsKept ==
    ASSUME NEW S, NEW list \in Seq(S), NEW places \in SUBSET DOMAIN list
    PROVE  /\ IsFiniteSet(places) /\ places \in SUBSET Int /\ Cardinality(places) \in Nat
           /\ ElementsAt(list, places) \in Seq(S)
           /\ Len(ElementsAt(list, places)) = Cardinality(places)
           /\ DOMAIN ElementsAt(list, places) = 1 .. Cardinality(places)
           /\ \A n \in 1 .. Cardinality(places) :
                /\ PlaceOf(places, n) \in places
                /\ ElementsAt(list, places)[n] = list[PlaceOf(places, n)]
<1>1. places \in SUBSET (1 .. Len(list)) /\ Len(list) \in Nat
  OBVIOUS
<1>2. IsFiniteSet(1 .. Len(list))
  BY <1>1, FS_Interval
<1>3. IsFiniteSet(places) /\ places \in SUBSET Int
  <2>1. IsFiniteSet(places)
    BY <1>1, <1>2, FS_Subset
  <2> QED BY <1>1, <2>1
<1>4. Cardinality(places) \in Nat
  BY <1>3, FS_CardinalityType
<1>5. \A n \in 1 .. Cardinality(places) : PlaceOf(places, n) \in places
  BY <1>3, Places
<1>6. \A i \in places : list[i] \in S
  BY <1>1
<1> DEFINE size == Cardinality(places)
<1>7. ElementsAt(list, places) = [n \in 1 .. size |-> list[PlaceOf(places, n)]]
  BY DEF ElementsAt
<1> HIDE DEF size
<1>8. size \in Nat /\ \A n \in 1 .. size : list[PlaceOf(places, n)] \in S
  BY <1>4, <1>5, <1>6 DEF size
<1>9. ElementsAt(list, places) \in [1 .. size -> S]
  BY <1>7, <1>8
<1>10. ElementsAt(list, places) \in Seq(S) /\ Len(ElementsAt(list, places)) = size
  BY <1>8, <1>9
<1>11. DOMAIN ElementsAt(list, places) = 1 .. size
  BY <1>7
<1> QED BY <1>3, <1>4, <1>5, <1>7, <1>10, <1>11 DEF size

\* It has every one of them, in the order of the list.
LEMMA ElementsInOrder ==
    ASSUME NEW S, NEW list \in Seq(S), NEW places \in SUBSET DOMAIN list
    PROVE  /\ \A i \in places : /\ RankIn(places, i) \in 1 .. Cardinality(places)
                                /\ PlaceOf(places, RankIn(places, i)) = i
                                /\ ElementsAt(list, places)[RankIn(places, i)] = list[i]
           /\ \A n, k \in 1 .. Cardinality(places) :
                n < k => PlaceOf(places, n) < PlaceOf(places, k)
<1>1. /\ IsFiniteSet(places) /\ places \in SUBSET Int /\ Cardinality(places) \in Nat
      /\ \A n \in 1 .. Cardinality(places) :
           ElementsAt(list, places)[n] = list[PlaceOf(places, n)]
  BY ElementsKept
<1>2. /\ \A i \in places : RankIn(places, i) \in 1 .. Cardinality(places)
      /\ \A i, k \in places : i < k => RankIn(places, i) < RankIn(places, k)
  BY <1>1, Ranks
<1>3. /\ \A n \in 1 .. Cardinality(places) :
           PlaceOf(places, n) \in places /\ RankIn(places, PlaceOf(places, n)) = n
      /\ \A i \in places : PlaceOf(places, RankIn(places, i)) = i
  BY <1>1, Places
<1>4. ASSUME NEW n \in 1 .. Cardinality(places), NEW k \in 1 .. Cardinality(places), n < k
      PROVE  PlaceOf(places, n) < PlaceOf(places, k)
  <2>1. PlaceOf(places, n) \in Int /\ PlaceOf(places, k) \in Int
    BY <1>1, <1>3
  <2>2. ~(PlaceOf(places, k) < PlaceOf(places, n))
    BY <1>2, <1>3, <1>4
  <2>3. PlaceOf(places, k) # PlaceOf(places, n)
    BY <1>3, <1>4
  <2> QED BY <2>1, <2>2, <2>3
<1> QED BY <1>1, <1>2, <1>3, <1>4

\* One more place, after the others, is one more element at the end.
LEMMA ElementAppended ==
    ASSUME NEW S, NEW list \in Seq(S), NEW n \in 1 .. Len(list), NEW places \in SUBSET (1 .. n - 1)
    PROVE  ElementsAt(list, places \cup {n}) = Append(ElementsAt(list, places), list[n])
<1> DEFINE more == places \cup {n}
           size == Cardinality(places)
<1>1. /\ Len(list) \in Nat /\ DOMAIN list = 1 .. Len(list) /\ n \in Int
      /\ places \in SUBSET DOMAIN list /\ more \in SUBSET DOMAIN list
      /\ n \notin places /\ \A i \in places : i < n /\ i \in Int /\ i <= n
  <2>1. \A i \in 1 .. n - 1 : i \in 1 .. Len(list) /\ i < n /\ i \in Int /\ i <= n
    OBVIOUS
  <2> QED BY <2>1
<1>2. /\ IsFiniteSet(places) /\ size \in Nat
      /\ ElementsAt(list, places) \in Seq(S) /\ Len(ElementsAt(list, places)) = size
      /\ \A k \in 1 .. size : PlaceOf(places, k) \in places
                              /\ ElementsAt(list, places)[k] = list[PlaceOf(places, k)]
  BY <1>1, ElementsKept
<1>3. Cardinality(more) = size + 1 /\ IsFiniteSet(more)
  BY <1>1, <1>2, FS_AddElement
<1>4. /\ ElementsAt(list, more) \in Seq(S) /\ Len(ElementsAt(list, more)) = size + 1
      /\ \A i \in more : /\ RankIn(more, i) \in 1 .. size + 1
                         /\ ElementsAt(list, more)[RankIn(more, i)] = list[i]
  <2> HIDE DEF more, size
  <2>1. ElementsAt(list, more) \in Seq(S) /\ Len(ElementsAt(list, more)) = Cardinality(more)
    BY <1>1, ElementsKept
  <2>2. \A i \in more : /\ RankIn(more, i) \in 1 .. Cardinality(more)
                        /\ ElementsAt(list, more)[RankIn(more, i)] = list[i]
    BY <1>1, ElementsInOrder
  <2> QED BY <1>3, <2>1, <2>2
<1>5. \A i \in places : RankIn(more, i) = RankIn(places, i)
  <2> SUFFICES ASSUME NEW i \in places PROVE RankIn(more, i) = RankIn(places, i)
    OBVIOUS
  <2>1. i < n /\ i \in Int /\ ~(n <= i)
    BY <1>1
  <2>2. {j \in more : j <= i} = {j \in places : j <= i}
    BY <2>1
  <2> QED BY <2>2 DEF RankIn
<1>6. RankIn(more, n) = size + 1
  <2>1. n <= n
    BY <1>1
  <2>2. {j \in more : j <= n} = more
    BY <1>1, <2>1
  <2> HIDE DEF more
  <2>3. RankIn(more, n) = Cardinality({j \in more : j <= n})
    BY DEF RankIn
  <2> QED BY <1>3, <2>2, <2>3
<1>7. ASSUME NEW k \in 1 .. size + 1
      PROVE  ElementsAt(list, more)[k] = Append(ElementsAt(list, places), list[n])[k]
  <2>1. CASE k = size + 1
    <3>1. ElementsAt(list, more)[k] = list[n]
      BY <1>4, <1>6, <2>1
    <3>2. Append(ElementsAt(list, places), list[n])[k] = list[n]
      BY <1>2, <2>1
    <3> QED BY <3>1, <3>2
  <2>2. CASE k \in 1 .. size
    <3>1. PlaceOf(places, k) \in places /\ RankIn(places, PlaceOf(places, k)) = k
      BY <1>1, <1>2, <2>2, Places
    <3>2. RankIn(more, PlaceOf(places, k)) = k
      BY <1>5, <3>1
    <3>3. ElementsAt(list, more)[k] = list[PlaceOf(places, k)]
      BY <1>4, <3>1, <3>2
    <3>4. Append(ElementsAt(list, places), list[n])[k] = ElementsAt(list, places)[k]
      BY <1>2, <2>2
    <3> QED BY <1>2, <2>2, <3>3, <3>4
  <2> QED BY <1>2, <2>1, <2>2
<1>8. list[n] \in S
  OBVIOUS
<1>9. /\ Append(ElementsAt(list, places), list[n]) \in Seq(S)
      /\ Len(Append(ElementsAt(list, places), list[n])) = size + 1
  BY <1>2, <1>8
<1> HIDE DEF more
<1>10. ElementsAt(list, more) = Append(ElementsAt(list, places), list[n])
  <2> DEFINE u == ElementsAt(list, more)
             v == Append(ElementsAt(list, places), list[n])
  <2>1. u \in Seq(S) /\ v \in Seq(S) /\ Len(u) = Len(v) /\ \A k \in 1 .. Len(u) : u[k] = v[k]
    BY <1>4, <1>7, <1>9
  <2> HIDE DEF u, v
  <2>2. u = v
    BY <2>1, SeqEqual
  <2> QED BY <2>2 DEF u, v
<1> QED BY <1>10 DEF more

\* The elements at consecutive places are a part of the list.
LEMMA ElementsBetween ==
    ASSUME NEW S, NEW list \in Seq(S), NEW first \in Nat \ {0}, NEW last \in 0 .. Len(list)
    PROVE  ElementsAt(list, first .. last) = SubSeq(list, first, last)
<1> DEFINE places == first .. last
           size == IF first > last THEN 0 ELSE last - first + 1
<1>1. Len(list) \in Nat /\ DOMAIN list = 1 .. Len(list) /\ first \in Int /\ last \in Int /\ size \in Nat
  OBVIOUS
<1>2. places \in SUBSET DOMAIN list
  BY <1>1
<1>3. \A a, b \in Int : Cardinality(a .. b) = IF a > b THEN 0 ELSE b - a + 1
  BY FS_Interval
<1>4. Cardinality(places) = size
  BY <1>1, <1>3
<1>5. \A k \in 1 .. size : first + k - 1 \in places
  BY <1>1
<1>6. ASSUME NEW k \in 1 .. size PROVE RankIn(places, first + k - 1) = k
  <2>1. {j \in places : j <= first + k - 1} = first .. (first + k - 1)
    BY <1>1
  <2>2. Cardinality(first .. (first + k - 1)) = k
    BY <1>1, <1>3
  <2> QED BY <2>1, <2>2 DEF RankIn
<1> HIDE DEF places
<1>7. /\ ElementsAt(list, places) \in Seq(S) /\ Len(ElementsAt(list, places)) = size
      /\ \A i \in places : ElementsAt(list, places)[RankIn(places, i)] = list[i]
  BY <1>2, <1>4, ElementsKept, ElementsInOrder
<1> DEFINE u == ElementsAt(list, places)
           v == SubSeq(list, first, last)
<1>8. \A k \in 1 .. size : u[k] = list[first + k - 1]
  BY <1>5, <1>6, <1>7
<1>9. v \in Seq(S) /\ Len(v) = size /\ \A k \in 1 .. size : v[k] = list[first + k - 1]
  <2>1. CASE first > last
    BY <1>1, <2>1
  <2>2. CASE ~(first > last)
    <3>1. first \in 1 .. Len(list) /\ last \in 1 .. Len(list)
      BY <1>1, <2>2
    <3> QED BY <1>1, <2>2, <3>1
  <2> QED BY <2>1, <2>2
<1>10. u \in Seq(S) /\ Len(u) = Len(v) /\ \A k \in 1 .. Len(u) : u[k] = v[k]
  BY <1>7, <1>8, <1>9
<1> HIDE DEF u, v
<1>11. u = v
  BY <1>9, <1>10, SeqEqual
<1> QED BY <1>11 DEF u, v, places

\* The first element kept is one of the list's; none is kept only of no places.
LEMMA FirstElement ==
    ASSUME NEW S, NEW list \in Seq(S), NEW places \in SUBSET DOMAIN list
    PROVE  /\ ElementsAt(list, places) # <<>> => \E i \in places : ElementsAt(list, places)[1] = list[i]
           /\ ElementsAt(list, places) = <<>> => places = {}
<1>1. /\ ElementsAt(list, places) \in Seq(S)
      /\ Len(ElementsAt(list, places)) = Cardinality(places) /\ Cardinality(places) \in Nat
      /\ \A n \in 1 .. Cardinality(places) :
           PlaceOf(places, n) \in places /\ ElementsAt(list, places)[n] = list[PlaceOf(places, n)]
  BY ElementsKept
<1>2. \A i \in places : RankIn(places, i) \in 1 .. Cardinality(places)
  BY ElementsInOrder
<1>3. ASSUME ElementsAt(list, places) # <<>>
      PROVE  \E i \in places : ElementsAt(list, places)[1] = list[i]
  <2>1. Cardinality(places) # 0
    BY <1>1, <1>3
  <2>2. 1 \in 1 .. Cardinality(places)
    BY <1>1, <2>1
  <2> QED BY <1>1, <2>2
<1>4. ASSUME ElementsAt(list, places) = <<>>, NEW i \in places PROVE FALSE
  <2>1. Cardinality(places) = 0
    BY <1>1, <1>4
  <2> QED BY <1>2, <2>1
<1> QED BY <1>3, <1>4
=============================================================================
