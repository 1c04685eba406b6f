---------------------------- MODULE ListingProofs ----------------------------
(***************************************************************************)
(* Theorems about Listing, for any table and any page size: the variables  *)
(* keep their types, a pass deletes nothing but orphans, and a listing     *)
(* that is returned misses no row that was there all along, unless a row   *)
(* disappeared meanwhile or the instance gets paging wrong in a way the    *)
(* client does not tell.                                                   *)
(***************************************************************************)
EXTENDS Listing, OrderingProofs, SequenceTheorems

RowRecords == [id : 1..MaxId, niceId : NiceIds]

\* The place of a row among all that are stored.
Place(t, n) == 1 + Rank(Ascending(StoredIn(t)), n)

\* The rows the pages before this one took up, at most.
Behind == (page - 1) * PageSize

\* An id is given once: it tells rows apart, and is never that of a row to come.
IdsAreOnce ==
    /\ \A n \in NiceIds : table[n] < nextId
    /\ \A m, n \in NiceIds : table[m] = table[n] /\ table[n] # 0 => m = n

\* What was listed may be gone, but its id is no other row's.
ListedIdsHold ==
    \A i \in 1..Len(all) :
        /\ all[i].id < nextId
        /\ \A n \in NiceIds : table[n] = all[i].id => n = all[i].niceId

\* What is left to delete was picked as an orphan.
OnlyOrphansLeft ==
    pc = "deleting" => \A i \in 1..Len(all) : all[i].niceId \in Owned \ Wanted

\* A row that was there all along is listed, or still behind the pages fetched:
\* rows that appear move it further back only.
ListedOrAhead ==
    /\ stayed \subseteq StoredIn(table)
    /\ pc = "listing" => Len(all) <= Behind
    /\ Noticed /\ pc = "listing" /\ ~ shrunk =>
          \A n \in stayed : n \in Listed \/ Behind < Place(table, n)

Inv == TypeOK /\ IdsAreOnce /\ ListedIdsHold /\ OnlyOrphansLeft /\ ListedOrAhead
       /\ GrowthHidesNothing

----------------------------------------------------------------------------
(* The constants, and the rows the server answers with.                    *)

\* The assumptions, in the form the provers use.
LEMMA Constants ==
    /\ NiceIds \in SUBSET Nat /\ IsFiniteSet(NiceIds)
    /\ Wanted \in SUBSET NiceIds /\ Owned \in SUBSET NiceIds
    /\ InitialRows \in SUBSET NiceIds
    /\ PageSize \in Nat /\ PageSize > 0
    /\ MaxChanges \in Nat /\ MaxFaults \in Nat /\ MaxId \in Nat
    /\ Cardinality(InitialRows) <= MaxId
  <1>1. PageSize \in Nat /\ PageSize # 0
    BY ListingAssumption
  <1>2. PageSize > 0
    BY <1>1
  <1>3. NiceIds \in SUBSET Nat /\ IsFiniteSet(NiceIds)
    BY ListingAssumption
  <1>4. Wanted \in SUBSET NiceIds /\ Owned \in SUBSET NiceIds /\ InitialRows \in SUBSET NiceIds
    BY ListingAssumption
  <1>5. /\ MaxChanges \in Nat /\ MaxFaults \in Nat /\ MaxId \in Nat
        /\ Cardinality(InitialRows) <= MaxId
    BY ListingAssumption
  <1>6. QED
    BY <1>1, <1>2, <1>3, <1>4, <1>5

\* Any set of niceIds is ordered, finite, and numbered from one.
LEMMA Numbers ==
    ASSUME NEW S \in SUBSET NiceIds
    PROVE  /\ IsFiniteSet(S) /\ Orders(Ascending(S), S)
           /\ Cardinality(S) \in Nat
           /\ \A n \in S : Rank(Ascending(S), n) \in Nat
           /\ \A n \in S : 1 + Rank(Ascending(S), n) \in 1..Cardinality(S)
           /\ \A m, n \in S : Rank(Ascending(S), m) = Rank(Ascending(S), n) => m = n
           /\ InOrder(S, Ascending(S)) \in [1..Cardinality(S) -> S]
           /\ \A n \in S : InOrder(S, Ascending(S))[1 + Rank(Ascending(S), n)] = n
  <1>1. S \in SUBSET Nat /\ IsFiniteSet(S)
    BY Constants, FS_Subset
  <1>2. Orders(Ascending(S), S)
    BY <1>1, AscendingOrders
  <1>3. QED
    BY <1>1, <1>2, Ranks, InOrderCounts

\* Every stored row is at its place in the table, and nothing else is.
LEMMA RowsStored ==
    ASSUME table \in [NiceIds -> 0..MaxId]
    PROVE  /\ Rows \in Seq(RowRecords)
           /\ \A i \in 1..Len(Rows) :
                 Rows[i].niceId \in StoredIn(table) /\ Rows[i].id = table[Rows[i].niceId]
           /\ \A n \in StoredIn(table) :
                 Place(table, n) \in 1..Len(Rows) /\ Rows[Place(table, n)].niceId = n
  <1> DEFINE S == StoredIn(table)
             sorted == InOrder(S, Ascending(S))
             c == Cardinality(S)
  <1>1. S \in SUBSET NiceIds
    BY DEF StoredIn
  <1>2. /\ c \in Nat
        /\ sorted \in [1..c -> S]
        /\ \A n \in S : Place(table, n) \in 1..c /\ sorted[Place(table, n)] = n
    BY <1>1, Numbers DEF Place
  <1>3. Rows = [i \in 1..c |-> Row(sorted[i])]
    BY DEF Rows
  <1>4. \A n \in S : n \in NiceIds /\ table[n] \in 1..MaxId
    <2>1. \A n \in S : table[n] \in 0..MaxId /\ table[n] # 0
      BY <1>1 DEF StoredIn
    <2>2. QED
      BY <2>1, <1>1, Constants
  <1>5. \A n \in S : Row(n) \in RowRecords /\ Row(n).niceId = n /\ Row(n).id = table[n]
    BY <1>4 DEF Row, RowRecords
  <1> HIDE DEF S, sorted, c
  <1>6. \A i \in 1..c : sorted[i] \in S
    BY <1>2
  <1>7. Rows \in Seq(RowRecords) /\ Len(Rows) = c
    <2>1. \A i \in 1..c : Row(sorted[i]) \in RowRecords
      BY <1>5, <1>6
    <2>2. [i \in 1..c |-> Row(sorted[i])] \in Seq(RowRecords)
          /\ Len([i \in 1..c |-> Row(sorted[i])]) = c
      BY <1>2, <2>1
    <2>3. QED
      BY <1>3, <2>2
  <1>8. \A i \in 1..c : Rows[i] = Row(sorted[i])
    BY <1>3
  <1>9. \A i \in 1..c : Rows[i].niceId \in S /\ Rows[i].id = table[Rows[i].niceId]
    BY <1>5, <1>6, <1>8
  <1>10. \A n \in S : Rows[Place(table, n)].niceId = n
    BY <1>2, <1>5, <1>8
  <1>11. QED
    BY <1>2, <1>7, <1>9, <1>10 DEF S

\* A page holds the rows that follow those of the pages before, PageSize of them
\* or as many as there are.
LEMMA AnswerRows ==
    ASSUME TypeOK
    PROVE  /\ Answer \in Seq(RowRecords)
           /\ \A i \in 1..Len(Answer) :
                 Answer[i].niceId \in StoredIn(table)
                 /\ Answer[i].id = table[Answer[i].niceId]
           /\ Len(Answer) <= PageSize /\ Behind \in Nat
           /\ Noticed /\ ~ Stalled =>
                /\ Len(Answer) = 0 => Len(Rows) <= Behind
                /\ \A n \in StoredIn(table) :
                      Behind < Place(table, n) /\ Place(table, n) <= Behind + PageSize
                      => \E i \in 1..Len(Answer) : Answer[i].niceId = n
  <1>1. /\ table \in [NiceIds -> 0..MaxId] /\ page \in Nat /\ page > 0
        /\ PageSize \in Nat /\ PageSize > 0
    BY Constants DEF TypeOK
  <1>2. /\ Rows \in Seq(RowRecords)
        /\ \A i \in 1..Len(Rows) :
              Rows[i].niceId \in StoredIn(table) /\ Rows[i].id = table[Rows[i].niceId]
        /\ \A n \in StoredIn(table) :
              Place(table, n) \in 1..Len(Rows) /\ Rows[Place(table, n)].niceId = n
    BY <1>1, RowsStored
  <1> DEFINE L == Len(Rows)
             before == (Served - 1) * PageSize
             upto == Served * PageSize
             a == Smaller(before, L)
             b == Smaller(upto, L)
  <1>3. L \in Nat
    BY <1>2
  <1>4. before \in Nat /\ upto = before + PageSize
    <2>1. Served \in Nat /\ Served > 0
      <3>1. Served = 1 \/ Served = page
        BY DEF Served
      <3>2. QED
        BY <1>1, <3>1
    <2>2. Served - 1 \in Nat
      BY <2>1
    <2>3. PICK k \in Nat : k = Served - 1
      BY <2>2
    <2>4. k * PageSize \in Nat /\ (k + 1) * PageSize = k * PageSize + PageSize
      BY <1>1, <2>3
    <2>5. Served = k + 1
      BY <2>1, <2>3
    <2>6. QED
      BY <2>3, <2>4, <2>5
  <1>5. Answer = SubSeq(Rows, 1 + a, b)
    BY DEF Answer
  <1>6. a \in Nat /\ b \in Nat /\ a <= b /\ b <= L /\ b - a <= PageSize
    <2> HIDE DEF before, upto, L
    <2>1. QED
      BY <1>1, <1>3, <1>4 DEF Smaller
  <1>7. a = b => L <= before
    <2> HIDE DEF before, upto, L
    <2>1. QED
      BY <1>1, <1>3, <1>4 DEF Smaller
  <1>8. Noticed /\ ~ Stalled => before = Behind
    <2>1. CASE "page ignored" \in server
      <3>1. Noticed => Said = 1
        BY <2>1 DEF Noticed, Said, Served
      <3>2. Noticed /\ ~ Stalled => page = 1
        BY <3>1 DEF Stalled
      <3>3. Served = 1
        BY <2>1 DEF Served
      <3>4. QED
        BY <3>2, <3>3 DEF Behind
    <2>2. CASE "page ignored" \notin server
      BY <2>2 DEF Served, Behind
    <2>3. QED
      BY <2>1, <2>2
  <1>9. \A k \in 1..L : before < k /\ k <= upto => a < k /\ k <= b
    <2> HIDE DEF before, upto, L
    <2>1. QED
      BY <1>1, <1>3, <1>4 DEF Smaller
  <1> HIDE DEF a, b, before, upto, L
  <1>10. /\ SubSeq(Rows, 1 + a, b) \in Seq(RowRecords)
         /\ Len(SubSeq(Rows, 1 + a, b)) = b - a
         /\ \A i \in 1..(b - a) : SubSeq(Rows, 1 + a, b)[i] = Rows[a + i]
    <2>1. 1 + a \in 1..(L + 1) /\ b \in (1 + a) - 1..L
      BY <1>3, <1>6
    <2>2. Rows \in Seq(RowRecords) /\ L = Len(Rows)
      BY <1>2 DEF L
    <2>3. /\ SubSeq(Rows, 1 + a, b) \in Seq(RowRecords)
          /\ Len(SubSeq(Rows, 1 + a, b)) =
                IF 1 + a <= b THEN b - (1 + a) + 1 ELSE 0
          /\ \A i \in 1..(b - (1 + a) + 1) :
                SubSeq(Rows, 1 + a, b)[i] = Rows[1 + a + i - 1]
      BY <2>1, <2>2, SubSeqProperties
    <2>4. b - (1 + a) + 1 = b - a /\ \A i \in 1..(b - a) : 1 + a + i - 1 = a + i
      BY <1>6
    <2>5. QED
      BY <1>6, <2>3, <2>4
  <1>11. /\ Answer \in Seq(RowRecords) /\ Len(Answer) = b - a
         /\ \A i \in 1..(b - a) : Answer[i] = Rows[a + i]
    BY <1>5, <1>10
  <1>12. \A i \in 1..(b - a) : a + i \in 1..Len(Rows)
    BY <1>6, <1>3 DEF L
  <1>13. \A i \in 1..(b - a) : Answer[i].niceId \in StoredIn(table)
                               /\ Answer[i].id = table[Answer[i].niceId]
    BY <1>2, <1>11, <1>12
  <1>14. ASSUME Noticed, ~ Stalled, NEW n \in StoredIn(table),
                Behind < Place(table, n), Place(table, n) <= Behind + PageSize
         PROVE  \E i \in 1..Len(Answer) : Answer[i].niceId = n
    <2> DEFINE k == Place(table, n)
    <2>1. k \in 1..L /\ Rows[k].niceId = n
      BY <1>2 DEF L
    <2>2. before < k /\ k <= upto
      BY <1>4, <1>8, <1>14
    <2>3. a < k /\ k <= b
      BY <1>9, <2>1, <2>2
    <2> HIDE DEF k
    <2>4. k - a \in 1..(b - a) /\ a + (k - a) = k
      BY <1>3, <1>6, <2>1, <2>3
    <2>5. Answer[k - a] = Rows[k]
      BY <1>11, <2>4
    <2>6. QED
      BY <1>11, <2>1, <2>4, <2>5
  <1>15. Noticed /\ ~ Stalled => (Len(Answer) = 0 => Len(Rows) <= Behind)
    <2>1. b - a = 0 => a = b
      BY <1>6
    <2>2. QED
      BY <1>4, <1>6, <1>7, <1>8, <1>11, <2>1 DEF L
  <1>16. Behind \in Nat
    <2>1. PICK k \in Nat : k = page - 1
      BY <1>1
    <2>2. k * PageSize \in Nat
      BY <1>1
    <2>3. QED
      BY <2>1, <2>2 DEF Behind
  <1>17. QED
    BY <1>6, <1>11, <1>13, <1>14, <1>15, <1>16

\* A row moves to the back when others appear.
LEMMA PlaceGrows ==
    ASSUME NEW t, NEW u, StoredIn(t) \subseteq StoredIn(u), NEW n \in StoredIn(t)
    PROVE  /\ Place(t, n) \in Nat /\ Place(u, n) \in Nat
           /\ Place(t, n) <= Place(u, n)
  <1> DEFINE before(v) == Ascending(StoredIn(v))[n]
  <1>1. StoredIn(t) \in SUBSET NiceIds /\ StoredIn(u) \in SUBSET NiceIds
    BY DEF StoredIn
  <1>2. IsFiniteSet(StoredIn(t)) /\ IsFiniteSet(StoredIn(u))
    BY <1>1, Numbers
  <1>3. before(t) \in SUBSET before(u) /\ before(u) \in SUBSET StoredIn(u)
    <2>1. n \in StoredIn(u)
      OBVIOUS
    <2>2. /\ before(t) = {m \in StoredIn(t) : m < n}
          /\ before(u) = {m \in StoredIn(u) : m < n}
      BY <2>1 DEF Ascending
    <2>3. QED
      BY <2>2
  <1>4. IsFiniteSet(before(u))
    BY <1>2, <1>3, FS_Subset
  <1>5. /\ Cardinality(before(u)) \in Nat /\ Cardinality(before(t)) \in Nat
        /\ Cardinality(before(t)) <= Cardinality(before(u))
    BY <1>3, <1>4, FS_Subset, FS_CardinalityType
  <1>6. QED
    BY <1>5 DEF Place, Rank

\* A listed row is a row, and says which id its name had.
LEMMA ListedRows ==
    ASSUME TypeOK
    PROVE  \A i \in 1..Len(all) : all[i].id \in 1..MaxId /\ all[i].niceId \in NiceIds
  <1>1. all \in Seq(RowRecords)
    BY DEF TypeOK, RowRecords
  <1>2. \A i \in 1..Len(all) : all[i] \in RowRecords
    BY <1>1
  <1>3. QED
    BY <1>2 DEF RowRecords

----------------------------------------------------------------------------
(* The invariant.                                                          *)

\* It holds before the first listing.
LEMMA InitInv ==
    ASSUME Init
    PROVE  Inv
  <1> DEFINE c == Cardinality(InitialRows)
             at(n) == 1 + Rank(Ascending(InitialRows), n)
  <1>1. /\ c \in Nat /\ c <= MaxId /\ MaxId \in Nat /\ PageSize \in Nat
        /\ \A n \in InitialRows : at(n) \in 1..c
        /\ \A m, n \in InitialRows :
              Rank(Ascending(InitialRows), m)
              = Rank(Ascending(InitialRows), n) => m = n
        /\ InitialRows \in SUBSET NiceIds
    BY Constants, Numbers
  <1>2. table = [n \in NiceIds |-> IF n \in InitialRows THEN at(n) ELSE 0]
    BY DEF Init, Numbered
  <1>3. nextId = c + 1 /\ pc = "idle" /\ page = 1 /\ all = << >> /\ stayed = {}
    BY DEF Init
  <1>r. \A n \in InitialRows : Rank(Ascending(InitialRows), n) \in Nat
    BY <1>1, Numbers
  <1>4. \A m, n \in InitialRows : at(m) = at(n) => m = n
    BY <1>1, <1>r
  <1> HIDE DEF c, at
  <1>5. table \in [NiceIds -> 0..MaxId] /\ nextId \in 1..(MaxId + 1)
    BY <1>1, <1>2, <1>3
  <1>6. MaxChanges \in Nat /\ MaxFaults \in Nat
    BY Constants
  <1>7. TypeOK
    <2>1. checked \in BOOLEAN /\ server \in SUBSET Lapses
      BY Zenon DEF Init
    <2>2. changes \in 0..MaxChanges /\ faults \in 0..MaxFaults /\ shrunk \in BOOLEAN
      <3>1. changes = 0 /\ faults = 0 /\ shrunk = FALSE
        BY DEF Init
      <3>2. shrunk \in BOOLEAN
        BY <3>1
      <3>3. changes \in 0..MaxChanges /\ faults \in 0..MaxFaults
        BY <1>6, <3>1
      <3>4. QED
        BY <3>2, <3>3
    <2>3. pc \in {"idle", "listing", "listed", "deleting"} /\ page \in Nat \ {0}
          /\ all \in Seq([id : 1..MaxId, niceId : NiceIds]) /\ stayed \subseteq NiceIds
      BY <1>3
    <2>4. QED
      BY <1>5, <2>1, <2>2, <2>3 DEF TypeOK
  <1>8. IdsAreOnce
    <2>1. \A n \in NiceIds : table[n] < nextId
      BY <1>1, <1>2, <1>3
    <2>2. ASSUME NEW m \in NiceIds, NEW n \in NiceIds, table[m] = table[n], table[n] # 0
          PROVE  m = n
      BY <1>2, <1>4, <2>2
    <2>3. QED
      BY <2>1, <2>2 DEF IdsAreOnce
  <1>9. ListedIdsHold /\ OnlyOrphansLeft
    BY <1>3 DEF ListedIdsHold, OnlyOrphansLeft
  <1>10. ListedOrAhead /\ GrowthHidesNothing
    BY <1>3 DEF ListedOrAhead, GrowthHidesNothing
  <1>11. QED
    BY <1>7, <1>8, <1>9, <1>10 DEF Inv

\* What the instance gets wrong, and what of it is noticed, stays as it is.
LEMMA InstanceKept ==
    ASSUME checked' = checked, server' = server
    PROVE  Noticed' <=> Noticed
  <1>1. server' = server /\ (checked' <=> checked)
    OBVIOUS
  <1>2. QED
    BY <1>1 DEF Noticed

\* A row is stored under an id that was never given before.
LEMMA StoreStep ==
    ASSUME Inv, NEW n \in NiceIds, table[n] = 0, nextId < MaxId, Store(n),
           UNCHANGED <<checked, server, all, pc, page, stayed, shrunk>>
    PROVE  /\ table' \in [NiceIds -> 0..MaxId] /\ nextId' \in 1..(MaxId + 1)
           /\ IdsAreOnce' /\ ListedIdsHold' /\ ListedOrAhead' /\ GrowthHidesNothing'
  <1>1. /\ table \in [NiceIds -> 0..MaxId] /\ nextId \in 1..(MaxId + 1) /\ MaxId \in Nat
        /\ all \in Seq(RowRecords)
    BY Constants DEF Inv, TypeOK, RowRecords
  <1>2. /\ table' = [table EXCEPT ![n] = nextId] /\ nextId' = nextId + 1
        /\ all' = all /\ stayed' = stayed /\ pc' = pc /\ page' = page /\ shrunk' = shrunk
    BY DEF Store
  <1>0. Noticed' <=> Noticed
    BY InstanceKept
  <1>3. table' \in [NiceIds -> 0..MaxId] /\ nextId' \in 1..(MaxId + 1)
    BY <1>1, <1>2
  <1>4. /\ table'[n] = nextId
        /\ \A m \in NiceIds : m # n => table'[m] = table[m]
        /\ \A m \in NiceIds : table[m] \in Nat /\ table[m] < nextId
    BY <1>1, <1>2 DEF Inv, IdsAreOnce
  <1>5. IdsAreOnce'
    <2>1. \A m \in NiceIds : table'[m] < nextId'
      BY <1>1, <1>2, <1>4
    <2>2. ASSUME NEW l \in NiceIds, NEW m \in NiceIds,
                 table'[l] = table'[m], table'[m] # 0
          PROVE  l = m
      <3>1. l = n <=> m = n
        BY <1>1, <1>4, <2>2
      <3>2. QED
        BY <1>4, <2>2, <3>1 DEF Inv, IdsAreOnce
    <2>3. QED
      BY <2>1, <2>2 DEF IdsAreOnce
  <1>6. ListedIdsHold'
    <2>1. ASSUME NEW i \in 1..Len(all)
          PROVE  /\ all[i].id < nextId'
                 /\ \A m \in NiceIds : table'[m] = all[i].id => m = all[i].niceId
      <3>1. all[i].id \in Nat /\ all[i].id < nextId
        <4>1. all[i].id \in 1..MaxId
          BY ListedRows DEF Inv
        <4>2. all[i].id < nextId
          BY DEF Inv, ListedIdsHold
        <4>3. QED
          BY <1>1, <4>1, <4>2
      <3>2. QED
        BY <1>1, <1>2, <1>4, <3>1 DEF Inv, ListedIdsHold
    <2>2. QED
      BY <1>2, <2>1 DEF ListedIdsHold
  <1>7. ListedOrAhead'
    <2>1. StoredIn(table) \subseteq StoredIn(table')
      BY <1>1, <1>4 DEF StoredIn
    <2>2. stayed' \subseteq StoredIn(table')
      BY <1>2, <2>1 DEF Inv, ListedOrAhead
    <2>3. pc' = "listing" => Len(all') <= Behind'
      BY <1>2 DEF Inv, ListedOrAhead, Behind
    <2>4. ASSUME Noticed', pc' = "listing", ~ shrunk', NEW m \in stayed'
          PROVE  m \in Listed' \/ Behind' < Place(table', m)
      <3>1. m \in StoredIn(table) /\ Listed' = Listed /\ Behind' = Behind
        BY <1>2 DEF Inv, ListedOrAhead, Listed, Behind
      <3>2. /\ Place(table, m) \in Nat /\ Place(table', m) \in Nat
            /\ Place(table, m) <= Place(table', m)
        BY <2>1, <3>1, PlaceGrows
      <3>3. m \in Listed \/ Behind < Place(table, m)
        BY <1>0, <1>2, <2>4 DEF Inv, ListedOrAhead
      <3>4. Behind \in Int
        <4>1. page \in Nat /\ PageSize \in Nat
          BY Constants DEF Inv, TypeOK
        <4>2. QED
          BY <4>1 DEF Behind
      <3>5. QED
        BY <3>1, <3>2, <3>3, <3>4
    <2>5. QED
      BY <2>2, <2>3, <2>4 DEF ListedOrAhead
  <1>8. GrowthHidesNothing'
    <2>1. Listed' = Listed
      BY <1>2 DEF Listed
    <2>2. ASSUME Noticed', pc' = "listed", ~ shrunk', NEW m \in stayed'
          PROVE  m \in Listed
      <3>1. shrunk' = shrunk /\ pc' = pc /\ stayed' = stayed
        BY <1>2
      <3>2. ~ shrunk
        BY ONLY <3>1, ~ shrunk'
      <3>3. GrowthHidesNothing
        BY DEF Inv
      <3>4. QED
        BY <1>0, <2>2, <3>1, <3>2, <3>3 DEF GrowthHidesNothing
    <2>3. QED
      BY <2>1, <2>2 DEF GrowthHidesNothing
  <1>9. QED
    BY <1>3, <1>5, <1>6, <1>7, <1>8

\* Rows that go leave the ids of the others alone.
LEMMA GoneStep ==
    ASSUME Inv, table' \in [NiceIds -> 0..MaxId], nextId' = nextId,
           \A n \in NiceIds : table'[n] = table[n] \/ table'[n] = 0
    PROVE  /\ IdsAreOnce'
           /\ \A i \in 1..Len(all) :
                 /\ all[i].id < nextId'
                 /\ \A n \in NiceIds : table'[n] = all[i].id => n = all[i].niceId
  <1>1. /\ table \in [NiceIds -> 0..MaxId] /\ nextId \in 1..(MaxId + 1)
        /\ all \in Seq(RowRecords) /\ MaxId \in Nat
    BY Constants DEF Inv, TypeOK, RowRecords
  <1>2. IdsAreOnce'
    <2>1. \A n \in NiceIds : table'[n] < nextId'
      BY <1>1 DEF Inv, IdsAreOnce
    <2>2. ASSUME NEW m \in NiceIds, NEW n \in NiceIds,
                 table'[m] = table'[n], table'[n] # 0
          PROVE  m = n
      <3>1. table'[n] = table[n] /\ table'[m] = table[m]
        BY <2>2
      <3>2. QED
        BY <2>2, <3>1 DEF Inv, IdsAreOnce
    <2>3. QED
      BY <2>1, <2>2 DEF IdsAreOnce
  <1>3. ASSUME NEW i \in 1..Len(all)
        PROVE  /\ all[i].id < nextId'
               /\ \A n \in NiceIds : table'[n] = all[i].id => n = all[i].niceId
    <2>1. all[i].id # 0
      <3>2. all[i].id \in 1..MaxId
        BY ListedRows DEF Inv
      <3>3. QED
        BY <1>1, <3>2
    <2>2. QED
      BY <2>1 DEF Inv, ListedIdsHold
  <1>4. QED
    BY <1>2, <1>3

\* A row appears: under a new id, in some place among the others.
LEMMA CreateInv ==
    ASSUME Inv, NEW n \in NiceIds, Create(n) \/ (n \in Wanted /\ Reapply(n))
    PROVE  Inv'
  <1>1. table[n] = 0 /\ nextId < MaxId /\ Store(n)
        /\ UNCHANGED <<all, pc, page, stayed, shrunk, checked, server, faults>>
    BY DEF Create, Reapply, instance, passVars, history
  <1>2. /\ table' \in [NiceIds -> 0..MaxId] /\ nextId' \in 1..(MaxId + 1)
        /\ IdsAreOnce' /\ ListedIdsHold' /\ ListedOrAhead' /\ GrowthHidesNothing'
    BY <1>1, StoreStep
  <1>3. changes' \in 0..MaxChanges
    <2>1. MaxChanges \in Nat /\ changes \in 0..MaxChanges
      BY Constants DEF Inv, TypeOK
    <2>2. changes' = changes \/ (changes < MaxChanges /\ changes' = changes + 1)
      BY DEF Create, Reapply, Changed
    <2>3. QED
      BY <2>1, <2>2
  <1>4. TypeOK'
    <2>1. checked' \in BOOLEAN /\ server' \in SUBSET Lapses
      BY <1>1, Zenon DEF Inv, TypeOK
    <2>2. QED
      BY <1>1, <1>2, <1>3, <2>1 DEF Inv, TypeOK
  <1>5. OnlyOrphansLeft'
    BY <1>1 DEF Inv, OnlyOrphansLeft
  <1>6. QED
    BY <1>2, <1>4, <1>5 DEF Inv

\* A row goes: the listing is no longer undisturbed.
LEMMA DisappearInv ==
    ASSUME Inv, NEW n \in NiceIds, Disappear(n)
    PROVE  Inv'
  <1>1. /\ table' = [table EXCEPT ![n] = 0] /\ nextId' = nextId
        /\ stayed' = stayed \ {n} /\ shrunk' = TRUE
        /\ UNCHANGED <<all, pc, page, checked, server, faults>>
    BY DEF Disappear, instance, passVars
  <1>2. table \in [NiceIds -> 0..MaxId] /\ MaxId \in Nat
    BY Constants DEF Inv, TypeOK
  <1>3. /\ table' \in [NiceIds -> 0..MaxId]
        /\ \A m \in NiceIds : table'[m] = table[m] \/ table'[m] = 0
        /\ \A m \in NiceIds : m # n => table'[m] = table[m]
    BY <1>1, <1>2
  <1>4. IdsAreOnce' /\ ListedIdsHold'
    BY <1>1, <1>3, GoneStep DEF ListedIdsHold
  <1>5. changes' \in 0..MaxChanges
    <2>1. MaxChanges \in Nat /\ changes \in 0..MaxChanges
      BY Constants DEF Inv, TypeOK
    <2>2. changes < MaxChanges /\ changes' = changes + 1
      BY DEF Disappear, Changed
    <2>3. QED
      BY <2>1, <2>2
  <1>6. TypeOK'
    <2>1. checked' \in BOOLEAN /\ server' \in SUBSET Lapses
      BY <1>1, Zenon DEF Inv, TypeOK
    <2>2. QED
      BY <1>1, <1>3, <1>5, <2>1 DEF Inv, TypeOK
  <1>7. OnlyOrphansLeft'
    BY <1>1 DEF Inv, OnlyOrphansLeft
  <1>8. ListedOrAhead'
    <2>1. stayed' \subseteq StoredIn(table')
      BY <1>1, <1>3 DEF Inv, ListedOrAhead, StoredIn
    <2>2. pc' = "listing" => Len(all') <= Behind'
      BY <1>1 DEF Inv, ListedOrAhead, Behind
    <2>3. QED
      BY <1>1, <2>1, <2>2 DEF ListedOrAhead
  <1>9. GrowthHidesNothing'
    BY <1>1 DEF GrowthHidesNothing
  <1>10. QED
    BY <1>4, <1>6, <1>7, <1>8, <1>9 DEF Inv

\* A listing begins with everything that is there still ahead.
LEMMA BeginListingInv ==
    ASSUME Inv, BeginListing
    PROVE  Inv'
  <1>1. /\ pc' = "listing" /\ page' = 1 /\ all' = << >>
        /\ stayed' = StoredIn(table) /\ shrunk' = FALSE
        /\ UNCHANGED <<table, nextId, checked, server, changes, faults>>
    BY DEF BeginListing, tableVars, instance
  <1>2. TypeOK'
    <2>1. checked' \in BOOLEAN /\ server' \in SUBSET Lapses
      BY <1>1, Zenon DEF Inv, TypeOK
    <2>2. stayed' \subseteq NiceIds
      BY <1>1 DEF StoredIn
    <2>3. /\ all' \in Seq([id : 1..MaxId, niceId : NiceIds]) /\ page' \in Nat \ {0}
          /\ pc' \in {"idle", "listing", "listed", "deleting"}
      BY <1>1
    <2>6. shrunk' \in BOOLEAN
      BY <1>1
    <2>4. /\ table' \in [NiceIds -> 0..MaxId] /\ nextId' \in 1..(MaxId + 1)
          /\ changes' \in 0..MaxChanges /\ faults' \in 0..MaxFaults
      BY <1>1 DEF Inv, TypeOK
    <2>5. QED
      BY <2>1, <2>2, <2>3, <2>6, <2>4 DEF TypeOK
  <1>3. IdsAreOnce' /\ ListedIdsHold' /\ OnlyOrphansLeft'
    BY <1>1 DEF Inv, IdsAreOnce, ListedIdsHold, OnlyOrphansLeft
  <1>4. ListedOrAhead'
    <2>1. Behind' = 0
      <3>1. PageSize \in Nat
        BY Constants
      <3>2. QED
        BY <1>1, <3>1 DEF Behind
    <2>2. \A n \in StoredIn(table) : Place(table, n) \in Nat /\ Place(table, n) > 0
      <3>1. StoredIn(table) \in SUBSET NiceIds
        BY DEF StoredIn
      <3>2. QED
        BY <3>1, Numbers DEF Place
    <2>3. QED
      BY <1>1, <2>1, <2>2 DEF ListedOrAhead
  <1>5. GrowthHidesNothing'
    BY <1>1 DEF GrowthHidesNothing
  <1>6. QED
    BY <1>2, <1>3, <1>4, <1>5 DEF Inv

\* The pass returns to idle: nothing is listed any more.
LEMMA AbandonInv ==
    ASSUME Inv, Abandon, UNCHANGED <<table, nextId, checked, server, stayed, shrunk, changes>>,
           faults' \in 0..MaxFaults
    PROVE  Inv'
  <1>1. pc' = "idle" /\ page' = 1 /\ all' = << >>
    BY DEF Abandon
  <1>2. TypeOK'
    <2>1. checked' \in BOOLEAN /\ server' \in SUBSET Lapses
      BY Zenon DEF Inv, TypeOK
    <2>2. QED
      BY <1>1, <2>1 DEF Inv, TypeOK
  <1>3. IdsAreOnce' /\ ListedIdsHold' /\ OnlyOrphansLeft'
    BY <1>1 DEF Inv, IdsAreOnce, ListedIdsHold, OnlyOrphansLeft
  <1>4. ListedOrAhead' /\ GrowthHidesNothing'
    BY <1>1 DEF Inv, ListedOrAhead, GrowthHidesNothing
  <1>5. QED
    BY <1>2, <1>3, <1>4 DEF Inv

\* A page that is taken up: what it adds, and whom it leaves behind.
LEMMA PageTaken ==
    ASSUME Inv, pc = "listing", ~ Stalled
    PROVE  /\ all \o Answer \in Seq(RowRecords)
           /\ Len(all \o Answer) = Len(all) + Len(Answer)
           /\ \A i \in 1..Len(all \o Answer) :
                 \/ i \in 1..Len(all) /\ (all \o Answer)[i] = all[i]
                 \/ \E j \in 1..Len(Answer) : (all \o Answer)[i] = Answer[j]
           /\ Behind \in Nat /\ PageSize \in Nat
           /\ page * PageSize = Behind + PageSize
           /\ Len(all \o Answer) <= Behind + PageSize
           /\ Noticed /\ ~ shrunk => \A n \in stayed :
                 \/ \E i \in 1..Len(all \o Answer) : (all \o Answer)[i].niceId = n
                 \/ Behind + PageSize < Place(table, n)
  <1>1. all \in Seq(RowRecords) /\ TypeOK
    BY DEF Inv, TypeOK, RowRecords
  <1>2. /\ Answer \in Seq(RowRecords)
        /\ Len(Answer) <= PageSize /\ Behind \in Nat
        /\ Noticed => \A n \in StoredIn(table) :
              Behind < Place(table, n) /\ Place(table, n) <= Behind + PageSize
              => \E i \in 1..Len(Answer) : Answer[i].niceId = n
    BY <1>1, AnswerRows
  <1> DEFINE t == all \o Answer
  <1>3. /\ t \in Seq(RowRecords) /\ Len(t) = Len(all) + Len(Answer)
        /\ \A i \in 1..Len(t) :
              t[i] = IF i <= Len(all) THEN all[i] ELSE Answer[i - Len(all)]
    BY <1>1, <1>2, ConcatProperties
  <1>4. Len(all) \in Nat /\ Len(Answer) \in Nat /\ PageSize \in Nat
    BY <1>1, <1>2, Constants
  <1> HIDE DEF t
  <1>5. ASSUME NEW i \in 1..Len(t)
        PROVE  \/ i \in 1..Len(all) /\ t[i] = all[i]
               \/ \E j \in 1..Len(Answer) : t[i] = Answer[j]
    <2>1. CASE i <= Len(all)
      BY <1>3, <1>4, <2>1
    <2>2. CASE ~ i <= Len(all)
      <3>1. i - Len(all) \in 1..Len(Answer) /\ t[i] = Answer[i - Len(all)]
        BY <1>3, <1>4, <2>2
      <3>2. QED
        BY <3>1
    <2>3. QED
      BY <2>1, <2>2
  <1>6. page * PageSize = Behind + PageSize
    <2>1. page \in Nat /\ page > 0 /\ PageSize \in Nat
      BY <1>1, <1>4 DEF TypeOK
    <2>2. PICK k \in Nat : page = k + 1
      <3>1. page - 1 \in Nat /\ page = (page - 1) + 1
        BY <2>1
      <3>2. QED
        BY <3>1
    <2>3. (k + 1) * PageSize = k * PageSize + PageSize /\ page - 1 = k
      BY <2>1, <2>2
    <2>4. QED
      BY <2>2, <2>3 DEF Behind
  <1>7. Len(t) <= Behind + PageSize
    <2>1. Len(all) <= Behind
      BY DEF Inv, ListedOrAhead
    <2>2. QED
      BY <1>2, <1>3, <1>4, <2>1
  <1>8. ASSUME Noticed, ~ shrunk, NEW n \in stayed
        PROVE  \/ \E i \in 1..Len(t) : t[i].niceId = n
               \/ Behind + PageSize < Place(table, n)
    <2>1. n \in StoredIn(table) /\ (n \in Listed \/ Behind < Place(table, n))
      BY <1>8 DEF Inv, ListedOrAhead
    <2>2. CASE n \in Listed
      <3>1. PICK i \in 1..Len(all) : all[i].niceId = n
        BY <1>1, <2>2 DEF Listed
      <3>2. i \in 1..Len(t) /\ t[i] = all[i]
        BY <1>3, <1>4
      <3>3. QED
        BY <3>1, <3>2
    <2>3. CASE \E i \in 1..Len(Answer) : Answer[i].niceId = n
      <3>1. PICK i \in 1..Len(Answer) : Answer[i].niceId = n
        BY <2>3
      <3>2. Len(all) + i \in 1..Len(t) /\ ~ (Len(all) + i <= Len(all))
            /\ (Len(all) + i) - Len(all) = i
        BY <1>3, <1>4
      <3>4. t[Len(all) + i] = Answer[i]
        BY <1>3, <3>2
      <3>3. QED
        BY <3>1, <3>2, <3>4
    <2>4. Place(table, n) \in Nat
      BY <2>1, PlaceGrows
    <2>5. QED
      BY <1>2, <1>4, <1>8, <2>1, <2>2, <2>3, <2>4
  <1>9. QED
    BY <1>2, <1>3, <1>4, <1>5, <1>6, <1>7, <1>8 DEF t

\* A page is read: what was ahead is listed now or still ahead.
LEMMA FetchPageInv ==
    ASSUME Inv, FetchPage
    PROVE  Inv'
  <1>1. /\ pc = "listing"
        /\ UNCHANGED <<table, nextId, checked, server, stayed, shrunk, changes, faults>>
    BY DEF FetchPage, tableVars, instance, history
  <1>2. CASE Stalled \/ NoTotal
    <2>1. Abandon
      BY <1>2 DEF FetchPage
    <2>2. faults' \in 0..MaxFaults
      BY <1>1 DEF Inv, TypeOK
    <2>3. QED
      BY <1>1, <2>1, <2>2, AbandonInv
  <1>3. CASE ~ (Stalled \/ NoTotal)
    <2> DEFINE t == all \o Answer
    <2>1. /\ all' = t /\ page' = page + 1
          /\ pc' = IF Complete THEN "listed" ELSE "listing"
      BY <1>3 DEF FetchPage
    <2>2. /\ t \in Seq(RowRecords)
          /\ \A i \in 1..Len(t) :
                \/ i \in 1..Len(all) /\ t[i] = all[i]
                \/ \E j \in 1..Len(Answer) : t[i] = Answer[j]
          /\ Behind \in Nat /\ PageSize \in Nat
          /\ page * PageSize = Behind + PageSize
          /\ Len(t) <= Behind + PageSize
          /\ Noticed /\ ~ shrunk => \A n \in stayed :
                \/ \E i \in 1..Len(t) : t[i].niceId = n
                \/ Behind + PageSize < Place(table, n)
      BY <1>1, <1>3, PageTaken
    <2>3. \A i \in 1..Len(Answer) :
              /\ Answer[i].niceId \in NiceIds /\ table[Answer[i].niceId] # 0
              /\ Answer[i].id = table[Answer[i].niceId]
      BY AnswerRows DEF Inv, StoredIn
    <2>4. Complete => Len(Answer) = 0 \/ Len(t) >= Total
      BY DEF Complete
    <2>5. Noticed => (Len(Answer) = 0 => Len(Rows) <= Behind)
      BY <1>3, AnswerRows DEF Inv
    <2> HIDE DEF t
    <2>6. TypeOK'
      <3>1. checked' \in BOOLEAN /\ server' \in SUBSET Lapses
        BY <1>1, Zenon DEF Inv, TypeOK
      <3>2. /\ table' \in [NiceIds -> 0..MaxId] /\ nextId' \in 1..(MaxId + 1)
            /\ stayed' \subseteq NiceIds /\ shrunk' \in BOOLEAN
            /\ changes' \in 0..MaxChanges /\ faults' \in 0..MaxFaults
        BY <1>1 DEF Inv, TypeOK
      <3>3. page' \in Nat \ {0}
        BY <2>1 DEF Inv, TypeOK
      <3>4. pc' \in {"idle", "listing", "listed", "deleting"}
        BY <2>1
      <3>5. all' \in Seq([id : 1..MaxId, niceId : NiceIds])
        BY <2>1, <2>2 DEF RowRecords
      <3>6. QED
        BY <3>1, <3>2, <3>3, <3>4, <3>5 DEF TypeOK
    <2>7. IdsAreOnce'
      BY <1>1 DEF Inv, IdsAreOnce
    <2>8. ListedIdsHold'
      <3>1. ASSUME NEW i \in 1..Len(t)
            PROVE  t[i].id < nextId /\ \A n \in NiceIds : table[n] = t[i].id => n = t[i].niceId
        <4>1. CASE i \in 1..Len(all) /\ t[i] = all[i]
          BY <4>1 DEF Inv, ListedIdsHold
        <4>2. CASE \E j \in 1..Len(Answer) : t[i] = Answer[j]
          <5>1. PICK j \in 1..Len(Answer) : t[i] = Answer[j]
            BY <4>2
          <5>2. /\ t[i].niceId \in NiceIds /\ table[t[i].niceId] # 0
                /\ t[i].id = table[t[i].niceId]
            BY <2>3, <5>1
          <5>3. QED
            BY <5>2 DEF Inv, IdsAreOnce
        <4>3. QED
          BY <2>2, <4>1, <4>2
      <3>2. QED
        BY <1>1, <2>1, <3>1 DEF ListedIdsHold
    <2>9. OnlyOrphansLeft'
      BY <2>1 DEF OnlyOrphansLeft
    <2>10. Behind' = Behind + PageSize
      <3>1. page \in Nat
        BY DEF Inv, TypeOK
      <3>2. page' - 1 = page
        BY <2>1, <3>1
      <3>3. QED
        BY <2>2, <3>2 DEF Behind
    <2>11. Listed' = {t[i].niceId : i \in 1..Len(t)}
      BY <2>1, <2>2 DEF Listed
    <2>12. ListedOrAhead'
      <3>1. stayed' \subseteq StoredIn(table')
        BY <1>1 DEF Inv, ListedOrAhead
      <3>2. pc' = "listing" => Len(all') <= Behind'
        BY <2>1, <2>2, <2>10
      <3>3. Noticed' /\ pc' = "listing" /\ ~ shrunk' =>
               \A n \in stayed' : n \in Listed' \/ Behind' < Place(table', n)
        BY <1>1, <2>2, <2>10, <2>11 DEF Noticed
      <3>4. QED
        BY <3>1, <3>2, <3>3 DEF ListedOrAhead
    <2>13. GrowthHidesNothing'
      <3>1. SUFFICES ASSUME Noticed', pc' = "listed", ~ shrunk', NEW n \in stayed'
                     PROVE  n \in Listed'
        BY DEF GrowthHidesNothing
      <3>0. Noticed
        BY <1>1, <3>1 DEF Noticed
      <3>2. n \in stayed /\ ~ shrunk /\ n \in StoredIn(table) /\ Complete
        BY <1>1, <2>1, <3>1 DEF Inv, ListedOrAhead
      <3>3. Place(table, n) \in Nat /\ Place(table, n) <= Len(Rows) /\ Len(Rows) \in Nat
        <4>1. table \in [NiceIds -> 0..MaxId]
          BY DEF Inv, TypeOK
        <4>2. Place(table, n) \in 1..Len(Rows) /\ Rows \in Seq(RowRecords)
          BY <3>2, <4>1, RowsStored
        <4>3. QED
          BY <4>2
      <3>4. Len(Answer) = 0 \/ Len(t) >= Len(Rows)
        <4>1. CASE Len(Answer) = 0
          BY <4>1
        <4>2. CASE Len(Answer) # 0
          <5>1. Len(Answer) > 0
            <6>1. Answer \in Seq(RowRecords)
              BY AnswerRows DEF Inv
            <6>2. Len(Answer) \in Nat
              BY <6>1
            <6>3. QED
              BY <4>2, <6>2
          <5>2. ~ checked \/ Total # 0
            BY <1>3, <5>1 DEF NoTotal
          <5>3. "total left out" \notin server
            <6>1. CASE ~ checked
              BY <3>0, <6>1 DEF Noticed
            <6>2. CASE Total # 0
              BY <6>2 DEF Total
            <6>3. QED
              BY <5>2, <6>1, <6>2
          <5>4. Total = Len(Rows)
            BY <5>3 DEF Total
          <5>5. QED
            BY <2>4, <3>2, <4>2, <5>4
        <4>3. QED
          BY <4>1, <4>2
      <3>5. ~ (Behind + PageSize < Place(table, n))
        <4>1. Len(t) \in Nat
          BY <2>2
        <4>2. QED
          BY <2>2, <2>5, <3>0, <3>3, <3>4, <4>1
      <3>6. \E i \in 1..Len(t) : t[i].niceId = n
        BY <2>2, <3>0, <3>2, <3>5
      <3>7. QED
        BY <2>11, <3>6
    <2>14. QED
      BY <2>6, <2>7, <2>8, <2>9, <2>12, <2>13 DEF Inv
  <1>4. QED
    BY <1>2, <1>3

\* A complete listing is cut down to its orphans.
LEMMA BeginDeletingInv ==
    ASSUME Inv, BeginDeleting
    PROVE  Inv'
  <1> DEFINE places == {i \in DOMAIN all : all[i].niceId \in Owned \ Wanted}
  <1>1. /\ pc' = "deleting" /\ all' = Picked(all, places)
        /\ UNCHANGED <<table, nextId, checked, server, page, stayed, shrunk, changes, faults>>
    BY DEF BeginDeleting, Orphans, tableVars, instance, history
  <1>2. all \in Seq(RowRecords)
    BY DEF Inv, TypeOK, RowRecords
  <1>3. places \in SUBSET (1..Len(all))
    BY <1>2
  <1>4. \A p \in places : p \in 1..Len(all) /\ all[p].niceId \in Owned \ Wanted
    BY <1>3
  <1> HIDE DEF places
  <1>5. /\ all' \in Seq(RowRecords)
        /\ \A i \in 1..Len(all') : \E p \in places : all'[i] = all[p]
    BY <1>1, <1>2, <1>3, PickedFrom, PickedElements
  <1>6. TypeOK'
    <2>1. checked' \in BOOLEAN /\ server' \in SUBSET Lapses
      BY <1>1, Zenon DEF Inv, TypeOK
    <2>2. QED
      BY <1>1, <1>5, <2>1 DEF Inv, TypeOK, RowRecords
  <1>7. IdsAreOnce' /\ ListedIdsHold'
    BY <1>1, <1>4, <1>5 DEF Inv, IdsAreOnce, ListedIdsHold
  <1>8. OnlyOrphansLeft'
    BY <1>4, <1>5 DEF OnlyOrphansLeft
  <1>9. ListedOrAhead' /\ GrowthHidesNothing'
    BY <1>1 DEF Inv, ListedOrAhead, GrowthHidesNothing
  <1>10. QED
    BY <1>6, <1>7, <1>8, <1>9 DEF Inv

\* One row less to delete: what holds of the rows that are left held before.
LEMMA TailLeft ==
    ASSUME Inv, all # << >>
    PROVE  /\ Tail(all) \in Seq(RowRecords)
           /\ Head(all) = all[1] /\ 1 \in 1..Len(all)
           /\ \A i \in 1..Len(Tail(all)) : \E j \in 1..Len(all) : Tail(all)[i] = all[j]
  <1>1. all \in Seq(RowRecords)
    BY DEF Inv, TypeOK, RowRecords
  <1>2. /\ Tail(all) \in Seq(RowRecords) /\ Len(Tail(all)) = Len(all) - 1
        /\ Head(all) = all[1] /\ Len(all) \in Nat /\ Len(all) # 0
        /\ \A i \in 1..Len(Tail(all)) : Tail(all)[i] = all[i + 1]
    BY <1>1, HeadTailProperties
  <1>3. \A i \in 1..Len(Tail(all)) : i + 1 \in 1..Len(all)
    BY <1>2
  <1>4. QED
    BY <1>2, <1>3

\* A delete goes by the id a name was listed with.
LEMMA DeleteNextInv ==
    ASSUME Inv, DeleteNext
    PROVE  Inv'
  <1>1. /\ pc = "deleting" /\ all # << >> /\ all' = Tail(all)
        /\ table' = [n \in NiceIds |-> IF n \in Holders(Head(all).id) THEN 0 ELSE table[n]]
        /\ stayed' = stayed \ Holders(Head(all).id)
        /\ UNCHANGED <<nextId, checked, server, pc, page, shrunk, changes, faults>>
    BY DEF DeleteNext, instance
  <1>2. /\ Tail(all) \in Seq(RowRecords)
        /\ \A i \in 1..Len(Tail(all)) : \E j \in 1..Len(all) : Tail(all)[i] = all[j]
    BY <1>1, TailLeft
  <1>3. table \in [NiceIds -> 0..MaxId] /\ MaxId \in Nat
    BY Constants DEF Inv, TypeOK
  <1>4. /\ table' \in [NiceIds -> 0..MaxId]
        /\ \A n \in NiceIds : table'[n] = table[n] \/ table'[n] = 0
        /\ \A n \in NiceIds : n \notin Holders(Head(all).id) => table'[n] = table[n]
    BY <1>1, <1>3
  <1>5. /\ IdsAreOnce'
        /\ \A i \in 1..Len(all) :
              /\ all[i].id < nextId'
              /\ \A n \in NiceIds : table'[n] = all[i].id => n = all[i].niceId
    BY <1>1, <1>4, GoneStep
  <1>6. ListedIdsHold'
    BY <1>1, <1>2, <1>5 DEF ListedIdsHold
  <1>7. OnlyOrphansLeft'
    BY <1>1, <1>2 DEF Inv, OnlyOrphansLeft
  <1>8. TypeOK'
    <2>1. checked' \in BOOLEAN /\ server' \in SUBSET Lapses
      BY <1>1, Zenon DEF Inv, TypeOK
    <2>2. QED
      BY <1>1, <1>2, <1>4, <2>1 DEF Inv, TypeOK, RowRecords
  <1>9. ListedOrAhead'
    <2>1. stayed' \subseteq StoredIn(table')
      BY <1>1, <1>4 DEF Inv, ListedOrAhead, StoredIn
    <2>2. QED
      BY <1>1, <2>1 DEF ListedOrAhead
  <1>10. GrowthHidesNothing'
    BY <1>1 DEF GrowthHidesNothing
  <1>11. QED
    BY <1>5, <1>6, <1>7, <1>8, <1>9, <1>10 DEF Inv

\* A delete that fails leaves the orphan where it is.
LEMMA DeleteFailsInv ==
    ASSUME Inv, DeleteFails
    PROVE  Inv'
  <1>1. /\ pc = "deleting" /\ all # << >> /\ all' = Tail(all)
        /\ faults < MaxFaults /\ faults' = faults + 1
        /\ UNCHANGED <<table, nextId, checked, server, pc, page, stayed, shrunk, changes>>
    BY DEF DeleteFails, tableVars, instance, history
  <1>2. /\ Tail(all) \in Seq(RowRecords)
        /\ \A i \in 1..Len(Tail(all)) : \E j \in 1..Len(all) : Tail(all)[i] = all[j]
    BY <1>1, TailLeft
  <1>3. IdsAreOnce' /\ ListedIdsHold' /\ OnlyOrphansLeft'
    BY <1>1, <1>2 DEF Inv, IdsAreOnce, ListedIdsHold, OnlyOrphansLeft
  <1>4. faults' \in 0..MaxFaults
    <2>1. faults \in 0..MaxFaults /\ MaxFaults \in Nat
      BY Constants DEF Inv, TypeOK
    <2>2. QED
      BY <1>1, <2>1
  <1>5. TypeOK'
    <2>1. checked' \in BOOLEAN /\ server' \in SUBSET Lapses
      BY <1>1, Zenon DEF Inv, TypeOK
    <2>2. QED
      BY <1>1, <1>2, <1>4, <2>1 DEF Inv, TypeOK, RowRecords
  <1>6. ListedOrAhead' /\ GrowthHidesNothing'
    BY <1>1 DEF Inv, ListedOrAhead, GrowthHidesNothing
  <1>7. QED
    BY <1>3, <1>5, <1>6 DEF Inv

\* Every step keeps the invariant.
LEMMA NextInv ==
    ASSUME Inv, [Next]_vars
    PROVE  Inv'
  <1>1. CASE UNCHANGED vars
    <2>1. checked' \in BOOLEAN /\ server' \in SUBSET Lapses
      BY <1>1, Zenon DEF Inv, TypeOK, vars
    <2>2. TypeOK'
      BY <1>1, <2>1 DEF Inv, TypeOK, vars
    <2>3. IdsAreOnce' /\ ListedIdsHold' /\ OnlyOrphansLeft'
      BY <1>1 DEF Inv, IdsAreOnce, ListedIdsHold, OnlyOrphansLeft, vars
    <2>4. ListedOrAhead' /\ GrowthHidesNothing'
      <3>1. Noticed' <=> Noticed
        BY <1>1, InstanceKept DEF vars
      <3>2. QED
        BY <1>1, <3>1 DEF Inv, ListedOrAhead, GrowthHidesNothing, Behind, Listed, vars
    <2>5. QED
      BY <2>2, <2>3, <2>4 DEF Inv
  <1>2. CASE BeginListing
    BY <1>2, BeginListingInv
  <1>3. ASSUME NEW n \in Wanted, Reapply(n) PROVE Inv'
    <2>1. n \in NiceIds
      BY Constants
    <2>2. QED
      BY <1>3, <2>1, CreateInv
  <1>4. CASE FetchPage
    BY <1>4, FetchPageInv
  <1>5. CASE BeginDeleting
    BY <1>5, BeginDeletingInv
  <1>6. CASE DeleteNext
    BY <1>6, DeleteNextInv
  <1>7. CASE Pruned
    <2>1. /\ Abandon
          /\ UNCHANGED <<table, nextId, checked, server, stayed, shrunk, changes, faults>>
      BY <1>7 DEF Pruned, tableVars, instance, history
    <2>2. faults' \in 0..MaxFaults
      BY <2>1 DEF Inv, TypeOK
    <2>3. QED
      BY <2>1, <2>2, AbandonInv
  <1>8. CASE FetchFails
    <2>1. /\ Abandon /\ faults < MaxFaults /\ faults' = faults + 1
          /\ UNCHANGED <<table, nextId, checked, server, stayed, shrunk, changes>>
      BY <1>8 DEF FetchFails, tableVars, instance, history
    <2>2. faults' \in 0..MaxFaults
      <3>1. faults \in 0..MaxFaults /\ MaxFaults \in Nat
        BY Constants DEF Inv, TypeOK
      <3>2. QED
        BY <2>1, <3>1
    <2>3. QED
      BY <2>1, <2>2, AbandonInv
  <1>9. CASE DeleteFails
    BY <1>9, DeleteFailsInv
  <1>10. ASSUME NEW n \in NiceIds, Create(n) PROVE Inv'
    BY <1>10, CreateInv
  <1>11. ASSUME NEW n \in NiceIds, Disappear(n) PROVE Inv'
    BY <1>11, DisappearInv
  <1>12. QED
    BY <1>1, <1>2, <1>3, <1>4, <1>5, <1>6, <1>7, <1>8, <1>9, <1>10, <1>11 DEF Next, Pass

\* Hence it holds throughout.
LEMMA Invariance == Spec => []Inv
  BY InitInv, NextInv, PTL DEF Spec

----------------------------------------------------------------------------
(* The theorems.                                                           *)

\* Every variable holds a value of its type, however many rows there are.
THEOREM Typing == Spec => []TypeOK
  <1>1. Inv => TypeOK
    BY DEF Inv
  <1>2. QED
    BY <1>1, Invariance, PTL

\* A listing that is returned names every row that was there all along, however
\* many rows appeared between its pages and whatever the size of a page, where the
\* client tells what the instance gets wrong about paging (client.go:433-444): every
\* loop but listPages takes a first page without a total for the whole listing.
THEOREM GrowthIsHarmless == Spec => []GrowthHidesNothing
  <1>1. Inv => GrowthHidesNothing
    BY DEF Inv
  <1>2. QED
    BY <1>1, Invariance, PTL

\* A delete that acts upon an old listing hits an orphan or nothing, though rows
\* came and went since (publisher.go:332): ids are given once.
THEOREM DeletesAreApt == Spec => DeletesOnlyOrphans
  <1>1. ASSUME Inv, DeleteNext, NEW n \in NiceIds, table[n] # 0, table'[n] = 0
        PROVE  n \in Owned \ Wanted
    <2>1. /\ pc = "deleting" /\ all # << >>
          /\ table' = [m \in NiceIds |-> IF m \in Holders(Head(all).id) THEN 0 ELSE table[m]]
      BY <1>1 DEF DeleteNext
    <2>2. n \in Holders(Head(all).id)
      BY <1>1, <2>1
    <2>3. table[n] = Head(all).id
      BY <2>2 DEF Holders
    <2>4. Head(all) = all[1] /\ 1 \in 1..Len(all)
      BY <1>1, <2>1, TailLeft
    <2>5. n = all[1].niceId
      BY <1>1, <2>3, <2>4 DEF Inv, ListedIdsHold
    <2>6. QED
      BY <1>1, <2>1, <2>4, <2>5 DEF Inv, OnlyOrphansLeft
  <1>2. Inv /\ [Next]_vars =>
           [DeleteNext => \A n \in NiceIds :
               table[n] # 0 /\ table'[n] = 0 => n \in Owned \ Wanted]_vars
    BY <1>1
  <1>3. QED
    BY <1>2, Invariance, PTL DEF Spec, DeletesOnlyOrphans
=============================================================================
