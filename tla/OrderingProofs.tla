--------------------------- MODULE OrderingProofs ----------------------------
(***************************************************************************)
(* What the operators of Ordering return: InOrder enumerates a finite set  *)
(* without repetition and in order, Picked is a subsequence.               *)
(***************************************************************************)
EXTENDS Ordering, Integers, FiniteSetTheorems, FunctionTheorems, TLAPS

\* Some elements of S come before others, and no two are equal in that.
Orders(before, S) ==
    /\ before \in [S -> SUBSET S]
    /\ \A x \in S : x \notin before[x]
    /\ \A x, y, z \in S : x \in before[y] /\ y \in before[z] => x \in before[z]
    /\ \A x, y \in S : x # y => x \in before[y] \/ y \in before[x]

\* A rank is a number below the cardinality, and ranks are as their elements are.
LEMMA Ranks ==
    ASSUME NEW S, IsFiniteSet(S), NEW before, Orders(before, S)
    PROVE  /\ Cardinality(S) \in Nat
           /\ \A x \in S : Rank(before, x) \in Nat
           /\ \A x \in S : 1 + Rank(before, x) \in 1..Cardinality(S)
           /\ \A x, y \in S : x \in before[y] <=> Rank(before, x) < Rank(before, y)
           /\ \A x, y \in S : Rank(before, x) = Rank(before, y) => x = y
  <1>1. Cardinality(S) \in Nat
    BY FS_CardinalityType
  <1>2. ASSUME NEW x \in S
        PROVE  /\ IsFiniteSet(before[x]) /\ Cardinality(before[x]) \in Nat
               /\ Cardinality(before[x]) <= Cardinality(S)
               /\ Cardinality(before[x]) # Cardinality(S)
    <2>1. before[x] \in SUBSET S /\ before[x] # S
      BY DEF Orders
    <2>2. QED
      BY <2>1, FS_Subset, FS_CardinalityType
  <1>3. ASSUME NEW x \in S, NEW y \in S, x \in before[y]
        PROVE  Cardinality(before[x]) < Cardinality(before[y])
    <2>1. before[x] \in SUBSET before[y] /\ before[x] # before[y]
      BY <1>3 DEF Orders
    <2>2. Cardinality(before[x]) <= Cardinality(before[y])
          /\ Cardinality(before[x]) # Cardinality(before[y])
      BY <2>1, <1>2, FS_Subset
    <2>3. QED
      BY <2>2, <1>2
  <1>4. \A x \in S : Rank(before, x) = Cardinality(before[x])
    BY DEF Rank
  <1>5. \A x \in S : Rank(before, x) \in Nat /\ Rank(before, x) < Cardinality(S)
    BY <1>1, <1>2, <1>4
  <1>6. \A x, y \in S : x \in before[y] => Rank(before, x) < Rank(before, y)
    BY <1>3, <1>4
  <1>7. \A x, y \in S : Rank(before, x) < Rank(before, y) => x # y /\ ~ y \in before[x]
    BY <1>5, <1>6
  <1>8. ASSUME NEW x \in S, NEW y \in S, Rank(before, x) = Rank(before, y), x # y
        PROVE  FALSE
    <2>1. Rank(before, x) \in Nat /\ Rank(before, y) \in Nat
      BY <1>5
    <2>2. Rank(before, x) < Rank(before, y) \/ Rank(before, y) < Rank(before, x)
      BY <1>6, <1>8 DEF Orders
    <2>3. QED
      BY <2>1, <2>2, <1>8
  <1>9. \A x, y \in S : x \in before[y] <=> Rank(before, x) < Rank(before, y)
    BY <1>6, <1>7 DEF Orders
  <1>10. QED
    BY <1>1, <1>5, <1>8, <1>9

\* InOrder counts the elements of S: every place has one, every element a place,
\* the one after its rank, and places are ordered as their elements are.
LEMMA InOrderCounts ==
    ASSUME NEW S, IsFiniteSet(S), NEW before, Orders(before, S)
    PROVE  /\ InOrder(S, before) \in [1..Cardinality(S) -> S]
           /\ \A i \in 1..Cardinality(S) : 1 + Rank(before, InOrder(S, before)[i]) = i
           /\ \A x \in S : InOrder(S, before)[1 + Rank(before, x)] = x
           /\ \A i, j \in 1..Cardinality(S) :
                  i < j <=> InOrder(S, before)[i] \in before[InOrder(S, before)[j]]
  <1> DEFINE n == Cardinality(S)
             place == [x \in S |-> 1 + Rank(before, x)]
             f == InOrder(S, before)
  <1>1. /\ n \in Nat
        /\ \A x \in S : 1 + Rank(before, x) \in 1..n
        /\ \A x, y \in S : x \in before[y] <=> Rank(before, x) < Rank(before, y)
        /\ \A x, y \in S : Rank(before, x) = Rank(before, y) => x = y
    BY Ranks
  <1>r. \A x \in S : Rank(before, x) \in Nat
    BY Ranks
  <1>2. IsFiniteSet(1..n) /\ Cardinality(1..n) = n
    <2>1. 1 \in Int /\ n \in Int
      BY <1>1
    <2>2. Cardinality(1..n) = IF 1 > n THEN 0 ELSE n - 1 + 1
      BY <2>1, FS_Interval
    <2>3. QED
      BY <1>1, <2>1, <2>2, FS_Interval
  <1>3. place \in Injection(S, 1..n)
    <2>1. place \in [S -> 1..n]
      BY <1>1
    <2>2. \A x, y \in S : place[x] = place[y] => x = y
      BY <1>1, <1>r
    <2> HIDE DEF place, n
    <2>3. QED
      BY <2>1, <2>2 DEF Injection, IsInjective
  <1>4. place \in Surjection(S, 1..n)
    <2> HIDE DEF place
    <2>1. QED
      BY <1>2, <1>3, FS_Injection
  <1>5. \A i \in 1..n : \E x \in S : place[x] = i
    <2> HIDE DEF place
    <2>1. QED
      BY <1>4 DEF Surjection
  <1>6. \A i \in 1..n : f[i] \in S /\ 1 + Rank(before, f[i]) = i
    BY <1>5 DEF InOrder
  <1>7. f \in [1..n -> S]
    BY <1>6 DEF InOrder
  <1> HIDE DEF f, place, n
  <1>8. \A x \in S : f[1 + Rank(before, x)] = x
    BY <1>1, <1>6, <1>r
  <1>9. ASSUME NEW i \in 1..n, NEW j \in 1..n
        PROVE  i < j <=> f[i] \in before[f[j]]
    <2>1. f[i] \in before[f[j]] <=> Rank(before, f[i]) < Rank(before, f[j])
      BY <1>1, <1>6
    <2>2. Rank(before, f[i]) \in Nat /\ Rank(before, f[j]) \in Nat
      BY <1>6, <1>r
    <2>3. QED
      BY <2>1, <2>2, <1>6
  <1>10. QED
    BY <1>6, <1>7, <1>8, <1>9 DEF f, n

\* Numbers are ordered by <.
LEMMA AscendingOrders ==
    ASSUME NEW S \in SUBSET Nat
    PROVE  Orders(Ascending(S), S)
  BY DEF Orders, Ascending

\* What is picked from a sequence is a sequence: there is a rising function that
\* gives, of each of its elements, the place it was picked from.
LEMMA PickedFrom ==
    ASSUME NEW T, NEW s \in Seq(T), NEW places \in SUBSET (1..Len(s))
    PROVE  /\ Picked(s, places) \in Seq(T)
           /\ IsFiniteSet(places) /\ Cardinality(places) \in Nat
           /\ Len(Picked(s, places)) = Cardinality(places)
           /\ \E from \in [1..Cardinality(places) -> places] :
                 /\ \A i \in 1..Cardinality(places) : Picked(s, places)[i] = s[from[i]]
                 /\ \A i, j \in 1..Cardinality(places) : i < j <=> from[i] < from[j]
                 /\ \A p \in places : \E i \in 1..Cardinality(places) : from[i] = p
                 /\ from = InOrder(places, Ascending(places))
  <1> DEFINE n == Cardinality(places)
             before == Ascending(places)
             from == InOrder(places, before)
  <1>1. places \in SUBSET Nat /\ Len(s) \in Nat
    OBVIOUS
  <1>2. IsFiniteSet(places) /\ n \in Nat
    <2>1. \A p \in places : p <= Len(s)
      OBVIOUS
    <2>2. IsFiniteSet(places)
      BY <1>1, <2>1, FS_BoundedSetOfNaturals
    <2>3. QED
      BY <2>2, FS_CardinalityType
  <1>3. Orders(before, places)
    BY <1>1, AscendingOrders
  <1>4. /\ from \in [1..n -> places]
        /\ \A p \in places : from[1 + Rank(before, p)] = p
        /\ \A i, j \in 1..n : i < j <=> from[i] \in before[from[j]]
        /\ \A p \in places : 1 + Rank(before, p) \in 1..n
    BY <1>2, <1>3, InOrderCounts, Ranks
  <1>5. \A i, j \in 1..n : from[i] \in before[from[j]] <=> from[i] < from[j]
    <2>1. \A i \in 1..n : from[i] \in places
      BY <1>4
    <2>2. \A p, q \in places : p \in before[q] <=> p < q
      BY DEF Ascending
    <2> HIDE DEF n, before, from
    <2>3. QED
      BY <2>1, <2>2
  <1>6. Picked(s, places) = [i \in 1..n |-> s[from[i]]]
    BY DEF Picked
  <1> HIDE DEF n, before, from
  <1>7. \A i \in 1..n : s[from[i]] \in T
    <2>1. \A i \in 1..n : from[i] \in 1..Len(s)
      BY <1>4
    <2>2. QED
      BY <2>1
  <1>8. Picked(s, places) \in Seq(T) /\ Len(Picked(s, places)) = n
    <2>1. [i \in 1..n |-> s[from[i]]] \in Seq(T) /\ Len([i \in 1..n |-> s[from[i]]]) = n
      BY <1>2, <1>7
    <2>2. QED
      BY <1>6, <2>1
  <1>9. /\ \A i \in 1..n : Picked(s, places)[i] = s[from[i]]
        /\ \A i, j \in 1..n : i < j <=> from[i] < from[j]
        /\ \A p \in places : \E i \in 1..n : from[i] = p
    BY <1>4, <1>5, <1>6
  <1>10. QED
    BY <1>2, <1>4, <1>8, <1>9 DEF n, before, from

\* Nothing else is in it, and nothing that was to be picked is missing.
LEMMA PickedElements ==
    ASSUME NEW T, NEW s \in Seq(T), NEW places \in SUBSET (1..Len(s))
    PROVE  /\ \A i \in 1..Len(Picked(s, places)) :
                  \E p \in places : Picked(s, places)[i] = s[p]
           /\ \A p \in places :
                  \E i \in 1..Len(Picked(s, places)) : Picked(s, places)[i] = s[p]
  <1> DEFINE n == Cardinality(places)
             t == Picked(s, places)
  <1>1. PICK from \in [1..n -> places] :
           /\ \A i \in 1..n : t[i] = s[from[i]]
           /\ \A p \in places : \E i \in 1..n : from[i] = p
    BY PickedFrom
  <1>2. Len(t) = n
    BY PickedFrom
  <1> HIDE DEF n, t
  <1>3. \A i \in 1..n : from[i] \in places
    OBVIOUS
  <1>4. \A i \in 1..n : \E p \in places : t[i] = s[p]
    BY <1>1, <1>3
  <1>5. \A p \in places : \E i \in 1..n : t[i] = s[p]
    BY <1>1
  <1>6. QED
    BY <1>2, <1>4, <1>5 DEF t

\* A set of numbers that has one has a least one.
LEMMA LeastPlace ==
    ASSUME NEW n \in Nat, NEW S \in SUBSET (1..n), S # {}
    PROVE  \E p \in S : \A q \in S : p <= q
  <1>1. S \in SUBSET Nat /\ IsFiniteSet(S)
    <2>1. \A p \in S : p \in Nat /\ p <= n
      OBVIOUS
    <2>2. QED
      BY <2>1, FS_BoundedSetOfNaturals
  <1>2. Orders(Ascending(S), S)
    BY <1>1, AscendingOrders
  <1> DEFINE first == InOrder(S, Ascending(S))[1]
  <1>3. /\ Cardinality(S) \in Nat /\ Cardinality(S) # 0
        /\ \A p \in S : Rank(Ascending(S), p) \in Nat
        /\ \A p, q \in S : p \in Ascending(S)[q]
                           <=> Rank(Ascending(S), p) < Rank(Ascending(S), q)
    BY <1>1, <1>2, Ranks, FS_EmptySet
  <1>4. 1 \in 1..Cardinality(S)
    BY <1>3
  <1>5. first \in S /\ 1 + Rank(Ascending(S), first) = 1
    <2>1. /\ InOrder(S, Ascending(S)) \in [1..Cardinality(S) -> S]
          /\ \A i \in 1..Cardinality(S) :
                 1 + Rank(Ascending(S), InOrder(S, Ascending(S))[i]) = i
      BY <1>1, <1>2, InOrderCounts
    <2>2. QED
      BY <1>4, <2>1
  <1> HIDE DEF first
  <1>6. ASSUME NEW q \in S, q < first PROVE FALSE
    <2>1. q \in Ascending(S)[first]
      BY <1>5, <1>6 DEF Ascending
    <2>2. QED
      BY <1>3, <1>5, <2>1
  <1>7. QED
    BY <1>1, <1>5, <1>6

\* Numbers from one in ascending order stay where they are.
LEMMA InOrderOfNumbers ==
    ASSUME NEW n \in Nat
    PROVE  InOrder(1..n, Ascending(1..n)) = [i \in 1..n |-> i]
  <1> DEFINE S == 1..n
             f == InOrder(S, Ascending(S))
  <1>1. S \in SUBSET Nat /\ IsFiniteSet(S) /\ Cardinality(S) = n
    <2>1. 1 \in Int /\ n \in Int
      OBVIOUS
    <2>2. IsFiniteSet(S) /\ Cardinality(S) = IF 1 > n THEN 0 ELSE n - 1 + 1
      BY <2>1, FS_Interval
    <2>3. QED
      BY <2>2
  <1>2. Orders(Ascending(S), S)
    BY <1>1, AscendingOrders
  <1>3. ASSUME NEW i \in S PROVE Rank(Ascending(S), i) = i - 1
    <2>1. Ascending(S)[i] = 1..(i - 1)
      BY DEF Ascending
    <2>2. 1 \in Int /\ i - 1 \in Int
      OBVIOUS
    <2>3. Cardinality(1..(i - 1)) = IF 1 > i - 1 THEN 0 ELSE (i - 1) - 1 + 1
      BY <2>2, FS_Interval
    <2>4. QED
      BY <2>1, <2>3 DEF Rank
  <1>4. /\ f \in [1..n -> S]
        /\ \A x \in S : f[1 + Rank(Ascending(S), x)] = x
    BY <1>1, <1>2, InOrderCounts
  <1> HIDE DEF f
  <1>5. \A i \in S : f[i] = i
    <2>1. ASSUME NEW i \in S PROVE f[i] = i
      <3>1. 1 + Rank(Ascending(S), i) = i
        BY <1>3
      <3>2. QED
        BY <1>4, <3>1
    <2>2. QED
      BY <2>1
  <1>6. QED
    BY <1>4, <1>5 DEF f

\* Who picks everything picks the sequence.
LEMMA PickedAll ==
    ASSUME NEW T, NEW s \in Seq(T)
    PROVE  Picked(s, 1..Len(s)) = s
  <1>1. Len(s) \in Nat
    OBVIOUS
  <1>2. PICK from \in [1..Cardinality(1..Len(s)) -> 1..Len(s)] :
           /\ \A i \in 1..Cardinality(1..Len(s)) : Picked(s, 1..Len(s))[i] = s[from[i]]
           /\ from = InOrder(1..Len(s), Ascending(1..Len(s)))
    BY PickedFrom
  <1>3. from = [i \in 1..Len(s) |-> i]
    BY <1>1, <1>2, InOrderOfNumbers
  <1>4. Cardinality(1..Len(s)) = Len(s)
    <2>1. 1 \in Int /\ Len(s) \in Int
      BY <1>1
    <2>2. Cardinality(1..Len(s)) = IF 1 > Len(s) THEN 0 ELSE Len(s) - 1 + 1
      BY <2>1, FS_Interval
    <2>3. QED
      BY <1>1, <2>2
  <1>5. Picked(s, 1..Len(s)) \in Seq(T) /\ Len(Picked(s, 1..Len(s))) = Len(s)
    BY <1>4, PickedFrom
  <1>6. \A i \in 1..Len(s) : Picked(s, 1..Len(s))[i] = s[i]
    BY <1>2, <1>3, <1>4
  <1> DEFINE t == Picked(s, 1..Len(s))
  <1> HIDE DEF t
  <1>7. t \in Seq(T) /\ Len(t) = Len(s) /\ \A i \in 1..Len(s) : t[i] = s[i]
    BY <1>5, <1>6 DEF t
  <1>8. t = s
    BY <1>7
  <1>9. QED
    BY <1>8 DEF t

\* Who picks nothing has nothing.
LEMMA PickedNone ==
    ASSUME NEW T, NEW s \in Seq(T)
    PROVE  Picked(s, {}) = << >>
  <1>1. {} \in SUBSET (1..Len(s))
    OBVIOUS
  <1>2. Picked(s, {}) \in Seq(T) /\ Len(Picked(s, {})) = Cardinality({})
    BY <1>1, PickedFrom
  <1>3. Cardinality({}) = 0
    BY FS_EmptySet
  <1>4. QED
    BY <1>2, <1>3
=============================================================================
