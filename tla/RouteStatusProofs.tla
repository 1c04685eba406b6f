-------------------------- MODULE RouteStatusProofs --------------------------
(***************************************************************************)
(* Theorems about RouteStatus, for any parents, controllers and edits: a   *)
(* write leaves the entries of others as they are, a parent has one entry  *)
(* of ours, and a status that was written is not written again.            *)
(***************************************************************************)
EXTENDS RouteStatus, OrderingProofs, SequenceTheorems

Lists == Seq(Entries)

\* A parent has one entry of ours.
OneEach(parents) ==
    \A i, j \in DOMAIN parents :
        /\ parents[i].controller = Ours /\ parents[j].controller = Ours
        /\ parents[i].ref.parent = parents[j].ref.parent
        => i = j

\* Our entries are those of the parents the verdict names, and say what it says.
Current(parents, wanted, said, gen) ==
    /\ \A k \in DOMAIN wanted : HasEntry(parents, wanted[k])
    /\ \A i \in DOMAIN parents : parents[i].controller = Ours =>
          /\ parents[i].outcome = said /\ parents[i].gen = gen
          /\ \E k \in DOMAIN wanted : wanted[k].parent = parents[i].ref.parent

\* The places of an entry in a list.
PlacesOf(parents, e) == {i \in DOMAIN parents : parents[i] = e}

----------------------------------------------------------------------------
(* Entries and the lists of them.                                          *)

\* The fields of the entries of a list.
LEMMA EntryFields ==
    ASSUME NEW parents \in Lists
    PROVE  /\ Len(parents) \in Nat /\ DOMAIN parents = 1..Len(parents)
           /\ \A i \in 1..Len(parents) :
                /\ parents[i] \in Entries
                /\ parents[i].controller \in Controllers /\ parents[i].controller \in Nat
                /\ parents[i].ref \in Refs
                /\ parents[i].ref.parent \in Parents /\ parents[i].ref.parent \in Nat
                /\ parents[i].outcome \in Outcomes /\ parents[i].gen \in 0..MaxEdits
  <1>1. \A i \in 1..Len(parents) : parents[i] \in Entries
    BY DEF Lists
  <1>2. \A e \in Entries :
           /\ e.controller \in Controllers /\ e.ref \in Refs /\ e.ref.parent \in Parents
           /\ e.outcome \in Outcomes /\ e.gen \in 0..MaxEdits
    BY DEF Entries, Refs
  <1>3. Controllers \subseteq Nat /\ Parents \subseteq Nat
    BY StatusAssumption
  <1>4. Len(parents) \in Nat /\ DOMAIN parents = 1..Len(parents)
    BY DEF Lists
  <1>5. QED
    BY <1>1, <1>2, <1>3, <1>4

\* A new entry is ours and says the verdict.
LEMMA NewEntryType ==
    ASSUME NEW ref \in Refs, NEW said \in Outcomes, NEW gen \in 0..MaxEdits
    PROVE  /\ NewEntry(ref, said, gen) \in Entries
           /\ NewEntry(ref, said, gen).controller = Ours
           /\ NewEntry(ref, said, gen).ref = ref
           /\ NewEntry(ref, said, gen).outcome = said
           /\ NewEntry(ref, said, gen).gen = gen
  <1>1. Ours \in Controllers
    BY StatusAssumption
  <1>2. QED
    BY <1>1 DEF NewEntry, Entries

\* So are new entries, one for each reference.
LEMMA NewEntriesType ==
    ASSUME NEW refs \in Seq(Refs), NEW said \in Outcomes, NEW gen \in 0..MaxEdits
    PROVE  /\ NewEntries(refs, said, gen) \in Lists
           /\ Len(NewEntries(refs, said, gen)) = Len(refs)
           /\ \A i \in 1..Len(refs) :
                 /\ NewEntries(refs, said, gen)[i].controller = Ours
                 /\ NewEntries(refs, said, gen)[i].ref = refs[i]
                 /\ NewEntries(refs, said, gen)[i].outcome = said
                 /\ NewEntries(refs, said, gen)[i].gen = gen
  <1> DEFINE t == [i \in 1..Len(refs) |-> NewEntry(refs[i], said, gen)]
  <1>1. /\ Len(refs) \in Nat /\ DOMAIN refs = 1..Len(refs)
        /\ \A i \in 1..Len(refs) : refs[i] \in Refs
    OBVIOUS
  <1>2. \A i \in 1..Len(refs) :
           /\ NewEntry(refs[i], said, gen) \in Entries
           /\ NewEntry(refs[i], said, gen).controller = Ours
           /\ NewEntry(refs[i], said, gen).ref = refs[i]
           /\ NewEntry(refs[i], said, gen).outcome = said
           /\ NewEntry(refs[i], said, gen).gen = gen
    BY <1>1, NewEntryType
  <1>3. NewEntries(refs, said, gen) = t
    BY <1>1 DEF NewEntries
  <1>4. t \in Seq(Entries) /\ Len(t) = Len(refs)
    BY <1>1, <1>2
  <1>5. \A i \in 1..Len(refs) : t[i] = NewEntry(refs[i], said, gen)
    OBVIOUS
  <1> HIDE DEF t
  <1>6. QED
    BY <1>2, <1>3, <1>4, <1>5 DEF Lists

\* Where HasEntry looks.
LEMMA HasEntryAt ==
    ASSUME NEW parents \in Lists, NEW ref
    PROVE  HasEntry(parents, ref) <=>
              \E i \in 1..Len(parents) :
                 parents[i].controller = Ours /\ parents[i].ref.parent = ref.parent
  <1>1. DOMAIN parents = 1..Len(parents)
    BY DEF Lists
  <1>2. QED
    BY <1>1 DEF HasEntry, Range

----------------------------------------------------------------------------
(* The verdict.                                                            *)

\* A verdict names references of the route.
LEMMA VerdictType ==
    ASSUME NEW gws, NEW refs \in Seq(Refs)
    PROVE  VerdictParents(gws, refs) \in Seq(Refs)
  <1> DEFINE places == {i \in DOMAIN refs :
                            Found(gws, refs[i]) /\ gws[GatewayOf[refs[i].parent]] = "served"}
  <1>1. places \in SUBSET (1..Len(refs))
    OBVIOUS
  <1>2. ServedParents(gws, refs) = Picked(refs, places)
    BY DEF ServedParents
  <1> HIDE DEF places
  <1>3. ServedParents(gws, refs) \in Seq(Refs)
    BY <1>1, <1>2, PickedFrom
  <1>4. QED
    BY <1>3 DEF VerdictParents

----------------------------------------------------------------------------
(* Dropping entries.                                                       *)

KeptPlaces(parents, wanted) ==
    {i \in DOMAIN parents :
        \/ parents[i].controller # Ours
        \/ \E ref \in Range(wanted) : ref.parent = parents[i].ref.parent}

\* Which entries are kept, by their places.
LEMMA KeptAt ==
    ASSUME NEW parents \in Lists, NEW wanted \in Seq(Refs)
    PROVE  /\ Kept(parents, wanted) = Picked(parents, KeptPlaces(parents, wanted))
           /\ KeptPlaces(parents, wanted) \in SUBSET (1..Len(parents))
           /\ \A i \in 1..Len(parents) : i \in KeptPlaces(parents, wanted) <=>
                 \/ parents[i].controller # Ours
                 \/ \E k \in DOMAIN wanted : wanted[k].parent = parents[i].ref.parent
  <1>1. DOMAIN parents = 1..Len(parents)
    BY DEF Lists
  <1>2. QED
    BY <1>1 DEF Kept, KeptPlaces, Range

\* Lists that hold an entry at places that correspond hold it equally often.
LEMMA SameCount ==
    ASSUME NEW t \in Lists, NEW parents \in Lists, NEW e,
           NEW f \in [1..Len(t) -> 1..Len(parents)],
           \A i, j \in 1..Len(t) : f[i] = f[j] => i = j,
           \A i \in 1..Len(t) : t[i] = e => parents[f[i]] = e,
           \A q \in 1..Len(parents) : parents[q] = e =>
               \E i \in 1..Len(t) : f[i] = q /\ t[i] = e
    PROVE  Cardinality(PlacesOf(t, e)) = Cardinality(PlacesOf(parents, e))
  <1> DEFINE g == [i \in PlacesOf(t, e) |-> f[i]]
  <1>1. /\ PlacesOf(t, e) = {i \in 1..Len(t) : t[i] = e}
        /\ PlacesOf(parents, e) = {i \in 1..Len(parents) : parents[i] = e}
    BY DEF PlacesOf, Lists
  <1>2. \A i \in PlacesOf(t, e) : g[i] \in PlacesOf(parents, e) /\ g[i] = f[i] /\ i \in 1..Len(t)
    BY <1>1
  <1>3. \A p \in PlacesOf(parents, e) : \E i \in PlacesOf(t, e) : g[i] = p
    BY <1>1
  <1>4. g \in [PlacesOf(t, e) -> PlacesOf(parents, e)]
    BY <1>2
  <1>5. IsFiniteSet(PlacesOf(t, e))
    <2>1. 1 \in Int /\ Len(t) \in Int
      BY DEF Lists
    <2>2. IsFiniteSet(1..Len(t))
      BY <2>1, FS_Interval
    <2>3. PlacesOf(t, e) \in SUBSET (1..Len(t))
      BY <1>1
    <2>4. QED
      BY <2>2, <2>3, FS_Subset
  <1> HIDE DEF g
  <1>6. \A i, j \in PlacesOf(t, e) : g[i] = g[j] => i = j
    BY <1>2
  <1>7. g \in Bijection(PlacesOf(t, e), PlacesOf(parents, e))
    BY <1>3, <1>4, <1>6 DEF Bijection, Injection, Surjection, IsInjective
  <1>8. QED
    BY <1>5, <1>7, FS_Bijection DEF ExistsBijection

\* A rising selection keeps the entries one each, and all those of others.
LEMMA PickedKeeps ==
    ASSUME NEW parents \in Lists, NEW places \in SUBSET (1..Len(parents))
    PROVE  /\ Picked(parents, places) \in Lists
           /\ OneEach(parents) => OneEach(Picked(parents, places))
           /\ \A e \in Entries : PlacesOf(parents, e) \subseteq places =>
                 Cardinality(PlacesOf(Picked(parents, places), e))
                 = Cardinality(PlacesOf(parents, e))
  <1> DEFINE n == Cardinality(places)
             t == Picked(parents, places)
  <1>0. parents \in Seq(Entries)
    BY DEF Lists
  <1>1. PICK from \in [1..n -> places] :
           /\ \A i \in 1..n : t[i] = parents[from[i]]
           /\ \A i, j \in 1..n : i < j <=> from[i] < from[j]
           /\ \A p \in places : \E i \in 1..n : from[i] = p
    BY <1>0, PickedFrom
  <1>2. t \in Lists /\ n \in Nat /\ Len(t) = n
    BY <1>0, PickedFrom DEF Lists
  <1>3. DOMAIN t = 1..n /\ DOMAIN parents = 1..Len(parents) /\ Len(parents) \in Nat
    BY <1>2 DEF Lists
  <1> HIDE DEF n, t
  <1>4. \A i \in 1..n : from[i] \in places /\ from[i] \in 1..Len(parents)
    BY <1>1
  <1>5. ASSUME NEW i \in 1..n, NEW j \in 1..n, from[i] = from[j] PROVE i = j
    <2>1. ~ (from[i] < from[j]) /\ ~ (from[j] < from[i])
      BY <1>3, <1>4, <1>5
    <2>2. ~ (i < j) /\ ~ (j < i)
      BY <1>1, <2>1
    <2>3. QED
      BY <1>2, <2>2
  <1>6. ASSUME OneEach(parents) PROVE OneEach(t)
    <2>1. ASSUME NEW i \in 1..n, NEW j \in 1..n,
                 t[i].controller = Ours, t[j].controller = Ours,
                 t[i].ref.parent = t[j].ref.parent
          PROVE  i = j
      <3>1. t[i] = parents[from[i]] /\ t[j] = parents[from[j]]
        BY <1>1
      <3>2. from[i] = from[j]
        BY <1>3, <1>4, <1>6, <2>1, <3>1 DEF OneEach
      <3>3. QED
        BY <1>5, <3>2
    <2>2. QED
      BY <1>3, <2>1 DEF OneEach
  <1>7. ASSUME NEW e \in Entries, PlacesOf(parents, e) \subseteq places
        PROVE  Cardinality(PlacesOf(t, e)) = Cardinality(PlacesOf(parents, e))
    <2>1. from \in [1..Len(t) -> 1..Len(parents)]
      BY <1>2, <1>4
    <2>2. \A i \in 1..Len(t) : t[i] = e => parents[from[i]] = e
      BY <1>1, <1>2
    <2>3. ASSUME NEW q \in 1..Len(parents), parents[q] = e
          PROVE  \E i \in 1..Len(t) : from[i] = q /\ t[i] = e
      <3>1. q \in places
        BY <1>3, <1>7, <2>3 DEF PlacesOf
      <3>2. QED
        BY <1>1, <1>2, <2>3, <3>1
    <2>4. \A i, j \in 1..Len(t) : from[i] = from[j] => i = j
      BY <1>2, <1>5
    <2>5. QED
      BY <1>2, <2>1, <2>2, <2>3, <2>4, SameCount
  <1>8. QED
    BY <1>2, <1>6, <1>7 DEF t

----------------------------------------------------------------------------
(* Adding entries.                                                         *)

\* What the list holds when the parent at this place is looked for.
Upto(parents, wanted, said, gen, k) ==
    parents \o NewEntries(SubSeq(wanted, 1, k - 1), said, gen)

Missing(parents, wanted, said, gen) ==
    {k \in DOMAIN wanted : ~ HasEntry(Upto(parents, wanted, said, gen, k), wanted[k])}

\* A parent has an entry when it is looked for if it had one in the list read, or
\* is the parent of an earlier reference.
LEMMA UptoHas ==
    ASSUME NEW parents \in Lists, NEW wanted \in Seq(Refs), NEW said \in Outcomes,
           NEW gen \in 0..MaxEdits, NEW k \in 1..Len(wanted), NEW ref
    PROVE  HasEntry(Upto(parents, wanted, said, gen, k), ref) <=>
              \/ HasEntry(parents, ref)
              \/ \E j \in 1..(k - 1) : wanted[j].parent = ref.parent
  <1> DEFINE before == SubSeq(wanted, 1, k - 1)
             new == NewEntries(before, said, gen)
             t == parents \o new
  <1>1. /\ before \in Seq(Refs) /\ Len(before) = k - 1
        /\ \A j \in 1..(k - 1) : before[j] = wanted[j]
    <2>1. 1 \in 1..(Len(wanted) + 1) /\ k - 1 \in 1 - 1..Len(wanted)
      OBVIOUS
    <2>2. /\ before \in Seq(Refs)
          /\ Len(before) = IF 1 <= k - 1 THEN (k - 1) - 1 + 1 ELSE 0
          /\ \A j \in 1..((k - 1) - 1 + 1) : before[j] = wanted[1 + j - 1]
      BY <2>1, SubSeqProperties
    <2>3. (k - 1) - 1 + 1 = k - 1 /\ \A j \in 1..(k - 1) : 1 + j - 1 = j
      OBVIOUS
    <2> HIDE DEF before
    <2>4. QED
      BY <2>2, <2>3
  <1> HIDE DEF before
  <1>2. /\ new \in Lists /\ Len(new) = k - 1
        /\ \A j \in 1..(k - 1) : new[j].controller = Ours /\ new[j].ref = wanted[j]
    BY <1>1, NewEntriesType
  <1> HIDE DEF new
  <1>3. parents \in Seq(Entries) /\ new \in Seq(Entries) /\ Len(parents) \in Nat
    BY <1>2 DEF Lists
  <1>c. /\ t \in Seq(Entries) /\ Len(t) = Len(parents) + Len(new)
        /\ \A i \in 1..Len(t) :
              t[i] = IF i <= Len(parents) THEN parents[i] ELSE new[i - Len(parents)]
    BY <1>3, ConcatProperties
  <1>4. /\ t \in Seq(Entries) /\ Len(t) = Len(parents) + (k - 1)
        /\ \A i \in 1..Len(t) :
              t[i] = IF i <= Len(parents) THEN parents[i] ELSE new[i - Len(parents)]
    BY <1>2, <1>c
  <1> HIDE DEF t
  <1>5. t \in Lists
    BY <1>4 DEF Lists
  <1>6. ASSUME HasEntry(t, ref)
        PROVE  HasEntry(parents, ref) \/ \E j \in 1..(k - 1) : wanted[j].parent = ref.parent
    <2>1. PICK i \in 1..Len(t) : t[i].controller = Ours /\ t[i].ref.parent = ref.parent
      BY <1>5, <1>6, HasEntryAt
    <2>2. CASE i <= Len(parents)
      <3>1. i \in 1..Len(parents) /\ t[i] = parents[i]
        BY <1>3, <1>4, <2>2
      <3>2. QED
        BY <2>1, <3>1, HasEntryAt
    <2>3. CASE ~ i <= Len(parents)
      <3>1. i - Len(parents) \in 1..(k - 1) /\ t[i] = new[i - Len(parents)]
        BY <1>3, <1>4, <2>3
      <3>2. QED
        BY <1>2, <2>1, <3>1
    <2>4. QED
      BY <2>2, <2>3
  <1>7. ASSUME HasEntry(parents, ref) PROVE HasEntry(t, ref)
    <2>1. PICK i \in 1..Len(parents) :
             parents[i].controller = Ours /\ parents[i].ref.parent = ref.parent
      BY <1>7, HasEntryAt
    <2>2. i \in 1..Len(t) /\ t[i] = parents[i]
      BY <1>3, <1>4
    <2>3. QED
      BY <1>5, <2>1, <2>2, HasEntryAt
  <1>8. ASSUME NEW j \in 1..(k - 1), wanted[j].parent = ref.parent PROVE HasEntry(t, ref)
    <2>1. Len(parents) + j \in 1..Len(t) /\ ~ (Len(parents) + j <= Len(parents))
          /\ (Len(parents) + j) - Len(parents) = j
      BY <1>3, <1>4
    <2>2. t[Len(parents) + j] = new[j]
      BY <1>4, <2>1
    <2>3. QED
      BY <1>2, <1>5, <1>8, <2>1, <2>2, HasEntryAt
  <1>9. QED
    BY <1>6, <1>7, <1>8 DEF Upto, t, new, before

\* What is added: the list stays in front, each new entry is ours and of a missing
\* parent, and afterwards no parent is missing.
LEMMA AddMissingAt ==
    ASSUME NEW parents \in Lists, NEW wanted \in Seq(Refs), NEW said \in Outcomes,
           NEW gen \in 0..MaxEdits
    PROVE  LET t == AddMissing(parents, wanted, said, gen)
               missing == Missing(parents, wanted, said, gen)
               n == Cardinality(missing)
           IN  /\ t \in Lists /\ n \in Nat /\ Len(t) = Len(parents) + n
               /\ \A i \in 1..Len(parents) : i \in 1..Len(t) /\ t[i] = parents[i]
               /\ \E from \in [1..n -> missing] :
                     /\ \A i \in 1..n : /\ Len(parents) + i \in 1..Len(t)
                                        /\ t[Len(parents) + i].controller = Ours
                                        /\ t[Len(parents) + i].ref = wanted[from[i]]
                     /\ \A i, j \in 1..n : i < j <=> from[i] < from[j]
                     /\ \A p \in missing : \E i \in 1..n : from[i] = p
  <1> DEFINE missing == Missing(parents, wanted, said, gen)
             n == Cardinality(missing)
             named == Picked(wanted, missing)
             new == NewEntries(named, said, gen)
             t == parents \o new
  <1>1. missing \in SUBSET (1..Len(wanted))
    BY DEF Missing
  <1>2. AddMissing(parents, wanted, said, gen) = t
    BY DEF AddMissing, Missing, Upto
  <1> HIDE DEF missing
  <1>3. /\ named \in Seq(Refs) /\ n \in Nat /\ Len(named) = n
    BY <1>1, PickedFrom
  <1>4. PICK from \in [1..n -> missing] :
           /\ \A i \in 1..n : named[i] = wanted[from[i]]
           /\ \A i, j \in 1..n : i < j <=> from[i] < from[j]
           /\ \A p \in missing : \E i \in 1..n : from[i] = p
    BY <1>1, PickedFrom
  <1> HIDE DEF n, named
  <1>5. /\ new \in Lists /\ Len(new) = n
        /\ \A i \in 1..n : new[i].controller = Ours /\ new[i].ref = named[i]
    BY <1>3, NewEntriesType
  <1> HIDE DEF new
  <1>6. parents \in Seq(Entries) /\ new \in Seq(Entries) /\ Len(parents) \in Nat
    BY <1>5 DEF Lists
  <1>7. /\ t \in Seq(Entries) /\ Len(t) = Len(parents) + n
        /\ \A i \in 1..Len(t) :
              t[i] = IF i <= Len(parents) THEN parents[i] ELSE new[i - Len(parents)]
    BY <1>5, <1>6, ConcatProperties
  <1> HIDE DEF t
  <1>8. \A i \in 1..Len(parents) : i \in 1..Len(t) /\ t[i] = parents[i]
    BY <1>3, <1>6, <1>7
  <1>9. ASSUME NEW i \in 1..n
        PROVE  Len(parents) + i \in 1..Len(t) /\ t[Len(parents) + i] = new[i]
    <2>1. Len(parents) + i \in 1..Len(t) /\ ~ (Len(parents) + i <= Len(parents))
          /\ (Len(parents) + i) - Len(parents) = i
      BY <1>3, <1>6, <1>7
    <2>2. QED
      BY <1>7, <2>1
  <1>10. \A i \in 1..n : /\ Len(parents) + i \in 1..Len(t)
                         /\ t[Len(parents) + i].controller = Ours
                         /\ t[Len(parents) + i].ref = wanted[from[i]]
    BY <1>4, <1>5, <1>9
  <1>11. t \in Lists
    BY <1>7 DEF Lists
  <1>12. QED
    BY <1>2, <1>3, <1>4, <1>7, <1>8, <1>10, <1>11 DEF n, missing

\* What adding does to a list: one entry per parent stays one, every parent has one
\* then, the entries of others are as often there, and a list that has all stays.
LEMMA AddMissingFacts ==
    ASSUME NEW parents \in Lists, NEW wanted \in Seq(Refs), NEW said \in Outcomes,
           NEW gen \in 0..MaxEdits
    PROVE  LET t == AddMissing(parents, wanted, said, gen)
           IN  /\ t \in Lists
               /\ OneEach(parents) => OneEach(t)
               /\ \A k \in DOMAIN wanted : HasEntry(t, wanted[k])
               /\ \A e \in Entries : e.controller # Ours =>
                     Cardinality(PlacesOf(t, e)) = Cardinality(PlacesOf(parents, e))
               /\ \A i \in DOMAIN t : t[i].controller = Ours =>
                     \/ \E j \in DOMAIN parents : t[i] = parents[j]
                     \/ \E k \in DOMAIN wanted : wanted[k].parent = t[i].ref.parent
               /\ (\A k \in DOMAIN wanted : HasEntry(parents, wanted[k])) => t = parents
  <1> DEFINE t == AddMissing(parents, wanted, said, gen)
             missing == Missing(parents, wanted, said, gen)
             n == Cardinality(missing)
             L == Len(parents)
  <1>1. /\ t \in Lists /\ n \in Nat /\ Len(t) = L + n
        /\ \A i \in 1..L : i \in 1..Len(t) /\ t[i] = parents[i]
    BY AddMissingAt
  <1>2. PICK from \in [1..n -> missing] :
           /\ \A i \in 1..n : /\ L + i \in 1..Len(t)
                              /\ t[L + i].controller = Ours
                              /\ t[L + i].ref = wanted[from[i]]
           /\ \A i, j \in 1..n : i < j <=> from[i] < from[j]
           /\ \A p \in missing : \E i \in 1..n : from[i] = p
    BY AddMissingAt
  <1>3. /\ missing \in SUBSET (1..Len(wanted))
        /\ \A k \in 1..Len(wanted) : k \in missing <=>
              /\ ~ HasEntry(parents, wanted[k])
              /\ \A j \in 1..(k - 1) : wanted[j].parent # wanted[k].parent
    <2>1. DOMAIN wanted = 1..Len(wanted)
      OBVIOUS
    <2>2. \A k \in 1..Len(wanted) : k \in missing <=>
              ~ HasEntry(Upto(parents, wanted, said, gen, k), wanted[k])
      BY <2>1 DEF Missing
    <2>3. missing \in SUBSET (1..Len(wanted))
      BY <2>1 DEF Missing
    <2>4. \A k \in 1..Len(wanted) :
             HasEntry(Upto(parents, wanted, said, gen, k), wanted[k]) <=>
                \/ HasEntry(parents, wanted[k])
                \/ \E j \in 1..(k - 1) : wanted[j].parent = wanted[k].parent
      BY UptoHas
    <2> HIDE DEF missing
    <2>5. QED
      BY <2>2, <2>3, <2>4
  <1>4. /\ L \in Nat /\ DOMAIN parents = 1..L /\ DOMAIN t = 1..Len(t)
        /\ DOMAIN wanted = 1..Len(wanted) /\ Len(wanted) \in Nat
    BY <1>1 DEF Lists
  <1> HIDE DEF t, missing, n, L
  <1>5. \A i \in 1..n : from[i] \in missing /\ from[i] \in 1..Len(wanted)
    BY <1>2, <1>3
  <1>6. ASSUME NEW i \in 1..Len(t), ~ i <= L
        PROVE  i - L \in 1..n /\ L + (i - L) = i
    BY <1>1, <1>4, <1>6
  <1>7. \A i \in 1..Len(t) : i <= L => i \in 1..L /\ t[i] = parents[i]
    BY <1>1, <1>4
  <1>8. ASSUME OneEach(parents),
               NEW i \in 1..Len(t), NEW j \in 1..Len(t), t[i].controller = Ours,
               t[j].controller = Ours, t[i].ref.parent = t[j].ref.parent, i < j
        PROVE  FALSE
    <2>1. CASE j <= L
      <3>1. i \in 1..L /\ j \in 1..L /\ t[i] = parents[i] /\ t[j] = parents[j]
        BY <1>4, <1>7, <1>8, <2>1
      <3>2. i = j
        BY <1>4, <1>8, <3>1 DEF OneEach
      <3>3. QED
        BY <1>8, <3>2
    <2>2. CASE ~ j <= L
      <3>1. j - L \in 1..n /\ t[j].ref = wanted[from[j - L]]
        BY <1>2, <1>6, <2>2
      <3>2. /\ from[j - L] \in 1..Len(wanted) /\ from[j - L] \in missing
        BY <1>5, <3>1
      <3>3. CASE i <= L
        <4>1. i \in 1..L /\ t[i] = parents[i]
          BY <1>7, <3>3
        <4>2. HasEntry(parents, wanted[from[j - L]])
          BY <1>8, <3>1, <4>1, HasEntryAt DEF L
        <4>3. QED
          BY <1>3, <3>2, <4>2
      <3>4. CASE ~ i <= L
        <4>1. i - L \in 1..n /\ t[i].ref = wanted[from[i - L]]
          BY <1>2, <1>6, <3>4
        <4>2. i - L < j - L
          BY <1>4, <1>8
        <4>3. from[i - L] < from[j - L] /\ from[i - L] \in 1..Len(wanted)
          BY <1>2, <1>5, <3>1, <4>1, <4>2
        <4>4. from[i - L] \in 1..(from[j - L] - 1)
          BY <1>4, <3>2, <4>3
        <4>5. wanted[from[i - L]].parent = wanted[from[j - L]].parent
          BY <1>8, <3>1, <4>1
        <4>6. QED
          BY <1>3, <3>2, <4>4, <4>5
      <3>5. QED
        BY <3>3, <3>4
    <2>3. QED
      BY <2>1, <2>2
  <1>9. OneEach(parents) => OneEach(t)
    <2>1. ASSUME OneEach(parents), NEW i \in 1..Len(t), NEW j \in 1..Len(t),
                 t[i].controller = Ours, t[j].controller = Ours,
                 t[i].ref.parent = t[j].ref.parent
          PROVE  i = j
      <3>1. ~ (i < j) /\ ~ (j < i)
        BY <1>8, <2>1
      <3>2. QED
        BY <1>1, <1>4, <3>1
    <2>2. QED
      BY <1>4, <2>1 DEF OneEach
  <1>10. ASSUME NEW k \in 1..Len(wanted) PROVE HasEntry(t, wanted[k])
    <2> DEFINE same == {j \in 1..Len(wanted) : wanted[j].parent = wanted[k].parent}
    <2>1. PICK j \in same : \A i \in same : j <= i
      <3>1. same \in SUBSET (1..Len(wanted)) /\ k \in same
        OBVIOUS
      <3> HIDE DEF same
      <3>2. QED
        BY <1>4, <3>1, LeastPlace
    <2>2. j \in 1..Len(wanted) /\ wanted[j].parent = wanted[k].parent
      BY <2>1
    <2>3. \A i \in 1..(j - 1) : wanted[i].parent # wanted[j].parent
      <3>1. ASSUME NEW i \in 1..(j - 1), wanted[i].parent = wanted[j].parent PROVE FALSE
        <4>1. i \in 1..Len(wanted) /\ ~ j <= i
          BY <1>4, <2>2
        <4>2. i \in same
          BY <2>2, <3>1, <4>1
        <4>3. QED
          BY <2>1, <4>1, <4>2
      <3>2. QED
        BY <3>1
    <2>4. CASE HasEntry(parents, wanted[j])
      <3>1. PICK i \in 1..L : parents[i].controller = Ours
                              /\ parents[i].ref.parent = wanted[j].parent
        BY <2>4, HasEntryAt DEF L
      <3>2. i \in 1..Len(t) /\ t[i] = parents[i]
        BY <1>1
      <3>3. QED
        BY <1>1, <2>2, <3>1, <3>2, HasEntryAt
    <2>5. CASE ~ HasEntry(parents, wanted[j])
      <3>1. j \in missing
        BY <1>3, <2>2, <2>3, <2>5
      <3>2. PICK i \in 1..n : from[i] = j
        BY <1>2, <3>1
      <3>3. /\ L + i \in 1..Len(t) /\ t[L + i].controller = Ours
            /\ t[L + i].ref = wanted[j]
        BY <1>2, <3>2
      <3>4. QED
        BY <1>1, <2>2, <3>3, HasEntryAt
    <2>6. QED
      BY <2>4, <2>5
  <1>11. ASSUME NEW e \in Entries, e.controller # Ours
         PROVE  Cardinality(PlacesOf(t, e)) = Cardinality(PlacesOf(parents, e))
    <2> DEFINE f == [i \in 1..L |-> i]
    <2>1. f \in [1..Len(parents) -> 1..Len(t)] /\ \A i \in 1..L : f[i] = i
      BY <1>1 DEF L
    <2> HIDE DEF f
    <2>2. \A i, j \in 1..Len(parents) : f[i] = f[j] => i = j
      BY <2>1 DEF L
    <2>3. \A i \in 1..Len(parents) : parents[i] = e => t[f[i]] = e
      BY <1>1, <2>1 DEF L
    <2>4. ASSUME NEW q \in 1..Len(t), t[q] = e
          PROVE  \E i \in 1..Len(parents) : f[i] = q /\ parents[i] = e
      <3>1. CASE q <= L
        BY <1>7, <2>1, <2>4, <3>1 DEF L
      <3>2. CASE ~ q <= L
        <4>1. t[q].controller = Ours
          BY <1>2, <1>6, <3>2
        <4>2. QED
          BY <1>11, <2>4, <4>1
      <3>3. QED
        BY <3>1, <3>2
    <2>5. Cardinality(PlacesOf(parents, e)) = Cardinality(PlacesOf(t, e))
      BY <1>1, <2>1, <2>2, <2>3, <2>4, SameCount
    <2>6. QED
      BY <2>5
  <1>12. ASSUME NEW i \in 1..Len(t)
         PROVE  \/ \E j \in 1..L : t[i] = parents[j]
                \/ \E k \in 1..Len(wanted) : wanted[k].parent = t[i].ref.parent
    <2>1. CASE i <= L
      BY <1>7, <2>1
    <2>2. CASE ~ i <= L
      <3>1. i - L \in 1..n /\ t[i].ref = wanted[from[i - L]]
        BY <1>2, <1>6, <2>2
      <3>2. QED
        BY <1>5, <3>1
    <2>3. QED
      BY <2>1, <2>2
  <1>13. ASSUME \A k \in 1..Len(wanted) : HasEntry(parents, wanted[k])
         PROVE  t = parents
    <2>1. missing = {}
      BY <1>3, <1>13
    <2>2. n = 0
      BY <2>1, FS_EmptySet DEF n
    <2>3. Len(t) = L /\ \A i \in 1..L : t[i] = parents[i]
      BY <1>1, <1>4, <2>2
    <2>4. QED
      BY <1>1, <2>3 DEF Lists, L
  <1>14. QED
    BY <1>1, <1>4, <1>9, <1>10, <1>11, <1>12, <1>13 DEF t

----------------------------------------------------------------------------
(* Saying the verdict.                                                     *)

\* What is said changes our entries alone, and none that says it already.
LEMMA SayFacts ==
    ASSUME NEW parents \in Lists, NEW said \in Outcomes, NEW gen \in 0..MaxEdits
    PROVE  LET t == Say(parents, said, gen)
           IN  /\ t \in Lists /\ Len(t) = Len(parents)
               /\ \A i \in 1..Len(parents) :
                     /\ t[i].controller = parents[i].controller /\ t[i].ref = parents[i].ref
                     /\ parents[i].controller # Ours => t[i] = parents[i]
                     /\ parents[i].controller = Ours => t[i].outcome = said /\ t[i].gen = gen
                     /\ parents[i].outcome = said /\ parents[i].gen = gen => t[i] = parents[i]
  <1> DEFINE told(e) == IF e.controller = Ours
                        THEN [e EXCEPT !.outcome = said, !.gen = gen] ELSE e
             t == [i \in 1..Len(parents) |-> told(parents[i])]
  <1>1. DOMAIN parents = 1..Len(parents) /\ Len(parents) \in Nat
        /\ \A i \in 1..Len(parents) : parents[i] \in Entries
    BY EntryFields
  <1>2. Say(parents, said, gen) = t
    BY <1>1 DEF Say
  <1>3. \A e \in Entries :
           /\ told(e) \in Entries
           /\ told(e).controller = e.controller /\ told(e).ref = e.ref
           /\ e.controller # Ours => told(e) = e
           /\ e.controller = Ours => told(e).outcome = said /\ told(e).gen = gen
    BY DEF Entries
  <1>4. ASSUME NEW e \in Entries, e.outcome = said, e.gen = gen PROVE told(e) = e
    BY <1>4 DEF Entries
  <1>5. \A i \in 1..Len(parents) : t[i] = told(parents[i])
    OBVIOUS
  <1> HIDE DEF told
  <1>6. t \in Seq(Entries) /\ Len(t) = Len(parents)
    BY <1>1, <1>3
  <1> HIDE DEF t
  <1>7. QED
    BY <1>1, <1>2, <1>3, <1>4, <1>5, <1>6 DEF Lists

----------------------------------------------------------------------------
(* Sorting.                                                                *)

InSortOrder(parents) == \A i, j \in DOMAIN parents : i < j => SortsBefore(parents, i, j)

\* The order of entries is one, whatever the list.
LEMMA SortOrders ==
    ASSUME NEW parents \in Lists
    PROVE  /\ Orders(SortOrder(parents), 1..Len(parents))
           /\ \A i, j \in 1..Len(parents) :
                 i \in SortOrder(parents)[j] <=> SortsBefore(parents, i, j)
  <1> DEFINE n == Len(parents)
             before == SortOrder(parents)
  <1>1. /\ n \in Nat /\ DOMAIN parents = 1..n
        /\ \A i \in 1..n : parents[i].controller \in Nat /\ parents[i].ref.parent \in Nat
    BY EntryFields
  <1>2. before \in [1..n -> SUBSET (1..n)]
        /\ \A i, j \in 1..n : i \in before[j] <=> SortsBefore(parents, i, j)
    <2>1. before = [i \in 1..n |-> {j \in 1..n : SortsBefore(parents, j, i)}]
      BY <1>1 DEF SortOrder
    <2>2. QED
      BY <2>1
  <1> HIDE DEF n, before
  <1>3. \A i \in 1..n : ~ SortsBefore(parents, i, i)
    BY <1>1 DEF SortsBefore
  <1>4. \A i, j, k \in 1..n :
           SortsBefore(parents, i, j) /\ SortsBefore(parents, j, k) => SortsBefore(parents, i, k)
    BY <1>1 DEF SortsBefore
  <1>5. \A i, j \in 1..n : i # j => SortsBefore(parents, i, j) \/ SortsBefore(parents, j, i)
    BY <1>1 DEF SortsBefore
  <1>6. QED
    BY <1>2, <1>3, <1>4, <1>5 DEF Orders, n, before

\* A sorted list holds the same entries equally often, and is in order.
LEMMA SortedFacts ==
    ASSUME NEW parents \in Lists
    PROVE  LET t == Sorted(parents)
           IN  /\ t \in Lists /\ Len(t) = Len(parents)
               /\ InSortOrder(t)
               /\ OneEach(parents) => OneEach(t)
               /\ \A i \in DOMAIN t : \E j \in DOMAIN parents : t[i] = parents[j]
               /\ \A j \in DOMAIN parents : \E i \in DOMAIN t : t[i] = parents[j]
               /\ \A e \in Entries :
                     Cardinality(PlacesOf(t, e)) = Cardinality(PlacesOf(parents, e))
  <1> DEFINE n == Len(parents)
             order == InOrder(1..n, SortOrder(parents))
             t == [i \in 1..n |-> parents[order[i]]]
  <1>1. /\ n \in Nat /\ DOMAIN parents = 1..n
        /\ \A i \in 1..n : /\ parents[i] \in Entries
                           /\ parents[i].controller \in Nat /\ parents[i].ref.parent \in Nat
    BY EntryFields
  <1>2. Sorted(parents) = t
    BY <1>1 DEF Sorted
  <1>3. IsFiniteSet(1..n) /\ Cardinality(1..n) = n
    <2>1. 1 \in Int /\ n \in Int
      BY <1>1
    <2>2. IsFiniteSet(1..n) /\ Cardinality(1..n) = IF 1 > n THEN 0 ELSE n - 1 + 1
      BY <2>1, FS_Interval
    <2>3. QED
      BY <1>1, <2>2
  <1>4. /\ Orders(SortOrder(parents), 1..n)
        /\ \A i, j \in 1..n : i \in SortOrder(parents)[j] <=> SortsBefore(parents, i, j)
    BY SortOrders
  <1>5. /\ order \in [1..n -> 1..n]
        /\ \A x \in 1..n : order[1 + Rank(SortOrder(parents), x)] = x
        /\ \A x \in 1..n : 1 + Rank(SortOrder(parents), x) \in 1..n
        /\ \A i, j \in 1..n : i < j <=> order[i] \in SortOrder(parents)[order[j]]
    BY <1>3, <1>4, InOrderCounts, Ranks
  <1> HIDE DEF order, n
  <1>6. \A i \in 1..n : order[i] \in 1..n
    BY <1>5
  <1>7. \A i, j \in 1..n : i < j <=> SortsBefore(parents, order[i], order[j])
    BY <1>4, <1>5, <1>6
  <1>8. \A q \in 1..n : \E i \in 1..n : order[i] = q
    BY <1>5
  <1>9. \A i, j \in 1..n : order[i] = order[j] => i = j
    <2>1. ASSUME NEW i \in 1..n, NEW j \in 1..n, order[i] = order[j] PROVE i = j
      <3>1. ~ SortsBefore(parents, order[i], order[i])
        BY <1>1, <1>6 DEF SortsBefore
      <3>2. ~ (i < j) /\ ~ (j < i)
        BY <1>7, <2>1, <3>1
      <3>3. QED
        BY <1>1, <3>2
    <2>2. QED
      BY <2>1
  <1>10. t \in Seq(Entries) /\ Len(t) = n /\ \A i \in 1..n : t[i] = parents[order[i]]
    BY <1>1, <1>6
  <1> HIDE DEF t
  <1>11. t \in Lists /\ DOMAIN t = 1..n
    BY <1>10 DEF Lists
  <1>12. InSortOrder(t)
    <2>1. ASSUME NEW i \in 1..n, NEW j \in 1..n, i < j PROVE SortsBefore(t, i, j)
      <3>1. SortsBefore(parents, order[i], order[j])
        BY <1>7, <2>1
      <3>2. QED
        BY <1>10, <2>1, <3>1 DEF SortsBefore
    <2>2. QED
      BY <1>11, <2>1 DEF InSortOrder
  <1>13. OneEach(parents) => OneEach(t)
    <2>1. ASSUME OneEach(parents), NEW i \in 1..n, NEW j \in 1..n,
                 t[i].controller = Ours, t[j].controller = Ours,
                 t[i].ref.parent = t[j].ref.parent
          PROVE  i = j
      <3>1. order[i] = order[j]
        BY <1>1, <1>6, <1>10, <2>1 DEF OneEach
      <3>2. QED
        BY <1>9, <3>1
    <2>2. QED
      BY <1>11, <2>1 DEF OneEach
  <1>14. ASSUME NEW e \in Entries
         PROVE  Cardinality(PlacesOf(t, e)) = Cardinality(PlacesOf(parents, e))
    <2>1. \A i \in 1..n : t[i] = e => parents[order[i]] = e
      BY <1>10
    <2>2. \A q \in 1..n : parents[q] = e => \E i \in 1..n : order[i] = q /\ t[i] = e
      BY <1>8, <1>10
    <2>3. order \in [1..Len(t) -> 1..Len(parents)] /\ Len(t) = n /\ Len(parents) = n
      BY <1>5, <1>10 DEF n
    <2>4. QED
      BY <1>9, <1>11, <2>1, <2>2, <2>3, SameCount
  <1>15. /\ \A i \in 1..n : \E j \in 1..n : t[i] = parents[j]
         /\ \A j \in 1..n : \E i \in 1..n : t[i] = parents[j]
    <2>1. \A i \in 1..n : \E j \in 1..n : t[i] = parents[j]
      BY <1>6, <1>10
    <2>2. ASSUME NEW j \in 1..n PROVE \E i \in 1..n : t[i] = parents[j]
      <3>1. PICK i \in 1..n : order[i] = j
        BY <1>8
      <3>2. QED
        BY <1>10, <3>1
    <2>3. QED
      BY <2>1, <2>2
  <1>16. QED
    BY <1>1, <1>2, <1>10, <1>11, <1>12, <1>13, <1>14, <1>15 DEF n

\* A list in order is left as it is.
LEMMA SortedStays ==
    ASSUME NEW parents \in Lists, InSortOrder(parents)
    PROVE  Sorted(parents) = parents
  <1> DEFINE n == Len(parents)
  <1>1. /\ n \in Nat /\ DOMAIN parents = 1..n
        /\ \A i \in 1..n : parents[i].controller \in Nat /\ parents[i].ref.parent \in Nat
    BY EntryFields
  <1>2. \A i, j \in 1..n : SortsBefore(parents, i, j) <=> i < j
    <2>1. \A i, j \in 1..n : i < j => SortsBefore(parents, i, j)
      BY <1>1 DEF InSortOrder
    <2>2. \A i, j \in 1..n : SortsBefore(parents, i, j) => ~ SortsBefore(parents, j, i)
      BY <1>1 DEF SortsBefore
    <2>3. \A i \in 1..n : ~ SortsBefore(parents, i, i)
      BY <1>1 DEF SortsBefore
    <2>4. \A i, j \in 1..n : i < j \/ j < i \/ i = j
      BY <1>1
    <2> HIDE DEF n
    <2>5. QED
      BY <2>1, <2>2, <2>3, <2>4
  <1>3. SortOrder(parents) = Ascending(1..n)
    <2>1. SortOrder(parents) = [i \in 1..n |-> {j \in 1..n : SortsBefore(parents, j, i)}]
      BY <1>1 DEF SortOrder
    <2>2. \A i \in 1..n : {j \in 1..n : SortsBefore(parents, j, i)} = {j \in 1..n : j < i}
      BY <1>2
    <2>3. QED
      BY <2>1, <2>2 DEF Ascending
  <1>4. InOrder(1..n, SortOrder(parents)) = [i \in 1..n |-> i]
    BY <1>1, <1>3, InOrderOfNumbers
  <1>5. Sorted(parents) = [i \in 1..n |-> parents[i]]
    BY <1>1, <1>4 DEF Sorted
  <1>6. parents = [i \in 1..n |-> parents[i]]
    BY <1>1 DEF Lists
  <1>7. QED
    BY <1>5, <1>6

----------------------------------------------------------------------------
(* What a pass writes.                                                     *)

\* SetRouteStatus: a list of the right kind, with one entry per parent of ours if
\* the list read has that, with the entries of others as often as before, and with
\* ours current and all in order.
LEMMA Makes ==
    ASSUME NEW copy \in Routes, NEW wanted \in Seq(Refs), NEW said \in Outcomes
    PROVE  LET t == StatusAfter(copy, wanted, said)
           IN  /\ t \in Lists
               /\ OneEach(copy.parents) => OneEach(t)
               /\ \A e \in Entries : e.controller # Ours =>
                     Cardinality(PlacesOf(t, e)) = Cardinality(PlacesOf(copy.parents, e))
               /\ Current(t, wanted, said, copy.gen)
               /\ InSortOrder(t)
  <1> DEFINE parents == copy.parents
             gen == copy.gen
             places == KeptPlaces(parents, wanted)
             kept == Kept(parents, wanted)
             added == AddMissing(kept, wanted, said, gen)
             told == Say(added, said, gen)
             t == Sorted(told)
  <1>1. parents \in Lists /\ gen \in 0..MaxEdits
    BY DEF Routes, Lists
  <1>2. StatusAfter(copy, wanted, said) = t
    BY DEF StatusAfter
  <1>3. /\ kept = Picked(parents, places) /\ places \in SUBSET (1..Len(parents))
        /\ \A i \in 1..Len(parents) : i \in places <=>
              \/ parents[i].controller # Ours
              \/ \E k \in DOMAIN wanted : wanted[k].parent = parents[i].ref.parent
    BY <1>1, KeptAt
  <1> HIDE DEF parents, gen, places, kept
  <1>4. /\ kept \in Lists
        /\ OneEach(parents) => OneEach(kept)
        /\ \A e \in Entries : PlacesOf(parents, e) \subseteq places =>
              Cardinality(PlacesOf(kept, e)) = Cardinality(PlacesOf(parents, e))
    BY <1>1, <1>3, PickedKeeps
  <1>5. ASSUME NEW e \in Entries, e.controller # Ours
        PROVE  PlacesOf(parents, e) \subseteq places
    <2>1. DOMAIN parents = 1..Len(parents)
      BY <1>1, EntryFields
    <2>2. QED
      BY <1>3, <1>5, <2>1 DEF PlacesOf
  <1>6. \A i \in DOMAIN kept : kept[i].controller = Ours =>
           \E k \in DOMAIN wanted : wanted[k].parent = kept[i].ref.parent
    <2>1. ASSUME NEW i \in DOMAIN kept, kept[i].controller = Ours
          PROVE  \E k \in DOMAIN wanted : wanted[k].parent = kept[i].ref.parent
      <3>1. parents \in Seq(Entries) /\ i \in 1..Len(kept)
        BY <1>1, <1>4, <2>1 DEF Lists
      <3>2. \A m \in 1..Len(Picked(parents, places)) :
                \E p \in places : Picked(parents, places)[m] = parents[p]
        BY <1>3, <3>1, PickedElements
      <3>3. PICK p \in places : kept[i] = parents[p]
        BY <1>3, <3>1, <3>2
      <3>4. QED
        BY <1>3, <2>1, <3>3
    <2>2. QED
      BY <2>1
  <1>7. /\ added \in Lists
        /\ OneEach(kept) => OneEach(added)
        /\ \A k \in DOMAIN wanted : HasEntry(added, wanted[k])
        /\ \A e \in Entries : e.controller # Ours =>
              Cardinality(PlacesOf(added, e)) = Cardinality(PlacesOf(kept, e))
        /\ \A i \in DOMAIN added : added[i].controller = Ours =>
              \/ \E j \in DOMAIN kept : added[i] = kept[j]
              \/ \E k \in DOMAIN wanted : wanted[k].parent = added[i].ref.parent
    BY <1>1, <1>4, AddMissingFacts
  <1> HIDE DEF added
  <1>8. /\ told \in Lists /\ Len(told) = Len(added)
        /\ \A i \in 1..Len(added) :
              /\ told[i].controller = added[i].controller /\ told[i].ref = added[i].ref
              /\ added[i].controller # Ours => told[i] = added[i]
              /\ added[i].controller = Ours => told[i].outcome = said /\ told[i].gen = gen
    BY <1>1, <1>7, SayFacts
  <1>9. DOMAIN added = 1..Len(added) /\ DOMAIN told = 1..Len(added)
    BY <1>7, <1>8 DEF Lists
  <1> HIDE DEF told
  <1>10. OneEach(added) => OneEach(told)
    BY <1>8, <1>9 DEF OneEach
  <1>11. ASSUME NEW e \in Entries, e.controller # Ours
         PROVE  PlacesOf(told, e) = PlacesOf(added, e)
    <2>1. \A i \in 1..Len(added) : told[i] = e <=> added[i] = e
      BY <1>8, <1>11
    <2>2. QED
      BY <1>9, <2>1 DEF PlacesOf
  <1>12. Current(told, wanted, said, gen)
    <2>1. ASSUME NEW k \in DOMAIN wanted PROVE HasEntry(told, wanted[k])
      <3>1. PICK i \in 1..Len(added) : added[i].controller = Ours
                                       /\ added[i].ref.parent = wanted[k].parent
        BY <1>7, HasEntryAt
      <3>2. QED
        BY <1>8, <3>1, HasEntryAt
    <2>2. ASSUME NEW i \in 1..Len(added), told[i].controller = Ours
          PROVE  /\ told[i].outcome = said /\ told[i].gen = gen
                 /\ \E k \in DOMAIN wanted : wanted[k].parent = told[i].ref.parent
      <3>1. added[i].controller = Ours /\ told[i].ref = added[i].ref
        BY <1>8, <2>2
      <3>2. \E k \in DOMAIN wanted : wanted[k].parent = added[i].ref.parent
        BY <1>6, <1>7, <1>9, <3>1
      <3>3. QED
        BY <1>8, <3>1, <3>2
    <2>3. QED
      BY <1>9, <2>1, <2>2 DEF Current
  <1>13. /\ t \in Lists /\ Len(t) = Len(told)
         /\ InSortOrder(t)
         /\ OneEach(told) => OneEach(t)
         /\ \A i \in DOMAIN t : \E j \in DOMAIN told : t[i] = told[j]
         /\ \A j \in DOMAIN told : \E i \in DOMAIN t : t[i] = told[j]
         /\ \A e \in Entries :
               Cardinality(PlacesOf(t, e)) = Cardinality(PlacesOf(told, e))
    BY <1>8, SortedFacts
  <1> HIDE DEF t
  <1>14. Current(t, wanted, said, gen)
    <2>1. DOMAIN t = 1..Len(t) /\ DOMAIN told = 1..Len(told)
      BY <1>8, <1>13 DEF Lists
    <2>2. ASSUME NEW k \in DOMAIN wanted PROVE HasEntry(t, wanted[k])
      <3>1. HasEntry(told, wanted[k])
        BY <1>12 DEF Current
      <3>2. PICK j \in 1..Len(told) : told[j].controller = Ours
                                      /\ told[j].ref.parent = wanted[k].parent
        BY <1>8, <3>1, HasEntryAt
      <3>3. PICK i \in 1..Len(t) : t[i] = told[j]
        BY <1>13, <2>1
      <3>4. QED
        BY <1>13, <3>2, <3>3, HasEntryAt
    <2>3. ASSUME NEW i \in DOMAIN t, t[i].controller = Ours
          PROVE  /\ t[i].outcome = said /\ t[i].gen = gen
                 /\ \E k \in DOMAIN wanted : wanted[k].parent = t[i].ref.parent
      <3>1. PICK j \in DOMAIN told : t[i] = told[j]
        BY <1>13
      <3>2. QED
        BY <1>12, <2>3, <3>1 DEF Current
    <2>4. QED
      BY <2>2, <2>3 DEF Current
  <1>15. ASSUME NEW e \in Entries, e.controller # Ours
         PROVE  Cardinality(PlacesOf(t, e)) = Cardinality(PlacesOf(parents, e))
    BY <1>4, <1>5, <1>7, <1>11, <1>13, <1>15
  <1>16. QED
    BY <1>2, <1>4, <1>7, <1>10, <1>13, <1>14, <1>15 DEF parents, gen

\* A list that is current and in order is left as it is.
LEMMA Settled ==
    ASSUME NEW copy \in Routes, NEW wanted \in Seq(Refs), NEW said \in Outcomes,
           Current(copy.parents, wanted, said, copy.gen), InSortOrder(copy.parents)
    PROVE  StatusAfter(copy, wanted, said) = copy.parents
  <1> DEFINE parents == copy.parents
             gen == copy.gen
  <1>1. parents \in Lists /\ gen \in 0..MaxEdits
    BY DEF Routes, Lists
  <1>2. Current(parents, wanted, said, gen) /\ InSortOrder(parents)
    OBVIOUS
  <1>3. StatusAfter(copy, wanted, said)
        = Sorted(Say(AddMissing(Kept(parents, wanted), wanted, said, gen), said, gen))
    BY DEF StatusAfter
  <1> HIDE DEF parents, gen
  <1>4. DOMAIN parents = 1..Len(parents)
    BY <1>1, EntryFields
  <1>5. Kept(parents, wanted) = parents
    <2>1. /\ Kept(parents, wanted) = Picked(parents, KeptPlaces(parents, wanted))
          /\ KeptPlaces(parents, wanted) \in SUBSET (1..Len(parents))
          /\ \A i \in 1..Len(parents) : i \in KeptPlaces(parents, wanted) <=>
                \/ parents[i].controller # Ours
                \/ \E k \in DOMAIN wanted : wanted[k].parent = parents[i].ref.parent
      BY <1>1, KeptAt
    <2>2. \A i \in 1..Len(parents) : i \in KeptPlaces(parents, wanted)
      BY <1>2, <1>4, <2>1 DEF Current
    <2>3. KeptPlaces(parents, wanted) = 1..Len(parents)
      BY <2>1, <2>2
    <2>4. parents \in Seq(Entries)
      BY <1>1 DEF Lists
    <2>5. QED
      BY <2>1, <2>3, <2>4, PickedAll
  <1>6. AddMissing(parents, wanted, said, gen) = parents
    <2>1. \A k \in DOMAIN wanted : HasEntry(parents, wanted[k])
      BY <1>2 DEF Current
    <2>2. QED
      BY <1>1, <2>1, AddMissingFacts
  <1>7. Say(parents, said, gen) = parents
    <2> DEFINE t == Say(parents, said, gen)
    <2>1. /\ t \in Lists /\ Len(t) = Len(parents)
          /\ \A i \in 1..Len(parents) :
                /\ parents[i].controller # Ours => t[i] = parents[i]
                /\ parents[i].outcome = said /\ parents[i].gen = gen => t[i] = parents[i]
      BY <1>1, SayFacts
    <2> HIDE DEF t
    <2>2. \A i \in 1..Len(parents) : t[i] = parents[i]
      BY <1>2, <1>4, <2>1 DEF Current
    <2>3. t = parents
      BY <1>1, <2>1, <2>2 DEF Lists
    <2>4. QED
      BY <2>3 DEF t
  <1>8. Sorted(parents) = parents
    BY <1>1, <1>2, SortedStays
  <1>9. QED
    BY <1>3, <1>5, <1>6, <1>7, <1>8 DEF parents

----------------------------------------------------------------------------
(* The invariant.                                                          *)

Views == [route : Routes, latest : BOOLEAN, wanted : Seq(Refs), said : Outcomes]

\* The copies are from lists a pass or another controller left, and one that is
\* latest is the route.
CopiesHold ==
    /\ OneEach(route.parents)
    /\ OneEach(cache.route.parents)
    /\ cache.latest => cache.route = route
    /\ view # NoView => /\ OneEach(view.route.parents)
                        /\ view.latest => view.route = route

Inv == TypeOK /\ CopiesHold

\* What is known of the parts of the route, the cache and the view.
LEMMA Parts ==
    ASSUME TypeOK
    PROVE  /\ route.refs \in RefLists /\ route.refs \in Seq(Refs)
           /\ route.gen \in 0..MaxEdits /\ route.parents \in Lists
           /\ cache.route \in Routes /\ cache.latest \in BOOLEAN
           /\ cache.route.refs \in Seq(Refs)
           /\ view # NoView => /\ view.route \in Routes /\ view.latest \in BOOLEAN
                               /\ view.wanted \in Seq(Refs) /\ view.said \in Outcomes
           /\ MaxEdits \in Nat /\ edits \in 0..MaxEdits
  <1>1. RefLists \subseteq Seq(Refs) /\ MaxEdits \in Nat
    BY StatusAssumption
  <1>2. \A r \in Routes : r.refs \in RefLists /\ r.gen \in 0..MaxEdits /\ r.parents \in Lists
    BY DEF Routes, Lists
  <1>3. /\ route \in Routes /\ cache \in [route : Routes, latest : BOOLEAN]
        /\ view # NoView => view \in Views /\ edits \in 0..MaxEdits
    BY DEF TypeOK, Views
  <1>4. cache.route \in Routes /\ cache.latest \in BOOLEAN
    BY <1>3
  <1>5. \A v \in Views : /\ v.route \in Routes /\ v.latest \in BOOLEAN
                         /\ v.wanted \in Seq(Refs) /\ v.said \in Outcomes
    BY DEF Views
  <1>6. QED
    BY <1>1, <1>2, <1>3, <1>4, <1>5 DEF TypeOK

\* A route with other parents is a route.
LEMMA WithParents ==
    ASSUME NEW r \in Routes, NEW parents \in Lists
    PROVE  /\ [r EXCEPT !.parents = parents] \in Routes
           /\ [r EXCEPT !.parents = parents].parents = parents
           /\ [r EXCEPT !.parents = parents].refs = r.refs
           /\ [r EXCEPT !.parents = parents].gen = r.gen
  BY DEF Routes, Lists

\* An outdated copy is of the same route.
LEMMA Outdated ==
    ASSUME NEW copy
    PROVE  /\ copy \in [route : Routes, latest : BOOLEAN] =>
                 /\ Outdate(copy) \in [route : Routes, latest : BOOLEAN]
                 /\ Outdate(copy).route = copy.route /\ Outdate(copy).latest = FALSE
           /\ copy \in Views =>
                 /\ Outdate(copy) \in Views
                 /\ Outdate(copy).route = copy.route /\ Outdate(copy).latest = FALSE
  BY DEF Outdate, Views

\* The list a pass would write.
LEMMA WrittenFacts ==
    ASSUME Inv, view # NoView
    PROVE  /\ Written \in Lists /\ OneEach(Written)
           /\ \A e \in Entries : e.controller # Ours =>
                 Cardinality(PlacesOf(Written, e))
                 = Cardinality(PlacesOf(view.route.parents, e))
  <1>1. view.route \in Routes /\ view.wanted \in Seq(Refs) /\ view.said \in Outcomes
    BY Parts DEF Inv
  <1>2. OneEach(view.route.parents)
    BY DEF Inv, CopiesHold
  <1>3. QED
    BY <1>1, <1>2, Makes DEF Written

\* The first list is empty.
LEMMA InitInv == Init => Inv
  <1> SUFFICES ASSUME Init PROVE Inv
    OBVIOUS
  <1>1. MaxEdits \in Nat /\ RefLists \subseteq Seq(Refs)
    BY StatusAssumption
  <1>2. PICK refs \in RefLists : route = [refs |-> refs, gen |-> 0, parents |-> << >>]
    BY DEF Init
  <1>3. route \in Routes /\ route.parents = << >>
    BY <1>1, <1>2 DEF Routes
  <1>4. /\ cache = Copy(route) /\ cache \in [route : Routes, latest : BOOLEAN]
        /\ cache.route = route
    BY <1>3 DEF Init, Copy
  <1>5. TypeOK
    BY <1>1, <1>3, <1>4 DEF Init, TypeOK
  <1>6. OneEach(route.parents)
    BY <1>3 DEF OneEach
  <1>7. QED
    BY <1>4, <1>5, <1>6 DEF Inv, CopiesHold, Init

\* The cache takes over the route.
LEMMA DeliverInv == Inv /\ Deliver => Inv'
  <1> SUFFICES ASSUME Inv, Deliver PROVE Inv'
    OBVIOUS
  <1>1. /\ cache' = Copy(route) /\ UNCHANGED <<route, found, outcome, view, edits>>
        /\ route \in Routes
    BY DEF Deliver, Inv, TypeOK
  <1>2. /\ cache' \in [route : Routes, latest : BOOLEAN] /\ cache'.route = route
    BY <1>1 DEF Copy
  <1>3. TypeOK'
    BY <1>1, <1>2 DEF Inv, TypeOK
  <1>4. CopiesHold'
    BY <1>1, <1>2 DEF Inv, CopiesHold
  <1>5. QED
    BY <1>3, <1>4 DEF Inv

\* A pass starts from the cached copy.
LEMMA ReadInv == Inv /\ Read => Inv'
  <1> SUFFICES ASSUME Inv, Read PROVE Inv'
    OBVIOUS
  <1> DEFINE wanted == VerdictParents(found, cache.route.refs)
  <1>1. /\ view' = [route  |-> cache.route, latest |-> cache.latest,
                    wanted |-> wanted, said |-> outcome]
        /\ UNCHANGED <<route, found, outcome, cache, edits>>
    BY DEF Read
  <1>2. /\ cache.route \in Routes /\ cache.latest \in BOOLEAN
        /\ cache.route.refs \in Seq(Refs) /\ outcome \in Outcomes
    BY Parts DEF Inv, TypeOK
  <1>3. wanted \in Seq(Refs)
    BY <1>2, VerdictType
  <1> HIDE DEF wanted
  <1>4. view' \in Views /\ view'.route = cache.route /\ view'.latest = cache.latest
    BY <1>1, <1>2, <1>3 DEF Views
  <1>5. TypeOK'
    BY <1>1, <1>4 DEF Inv, TypeOK, Views
  <1>6. CopiesHold'
    BY <1>1, <1>4 DEF Inv, CopiesHold
  <1>7. QED
    BY <1>5, <1>6 DEF Inv

\* A pass writes over the list it has read, or not at all.
LEMMA WriteStatusInv == Inv /\ WriteStatus => Inv'
  <1> SUFFICES ASSUME Inv, WriteStatus PROVE Inv'
    OBVIOUS
  <1>1. view # NoView /\ view' = NoView /\ UNCHANGED <<found, outcome, edits>>
    BY DEF WriteStatus
  <1>2. CASE view.latest /\ Written # view.route.parents
    <2>1. route' = [route EXCEPT !.parents = Written] /\ cache' = Outdate(cache)
      BY <1>2 DEF WriteStatus
    <2>2. Written \in Lists /\ OneEach(Written)
      BY <1>1, WrittenFacts
    <2>3. route \in Routes /\ cache \in [route : Routes, latest : BOOLEAN]
      BY DEF Inv, TypeOK
    <2>4. route' \in Routes /\ route'.parents = Written
      BY <2>1, <2>2, <2>3, WithParents
    <2>5. /\ cache' \in [route : Routes, latest : BOOLEAN]
          /\ cache'.route = cache.route /\ cache'.latest = FALSE
      BY <2>1, <2>3, Outdated
    <2>6. TypeOK'
      BY <1>1, <2>4, <2>5 DEF Inv, TypeOK
    <2>7. CopiesHold'
      BY <1>1, <2>2, <2>4, <2>5 DEF Inv, CopiesHold
    <2>8. QED
      BY <2>6, <2>7 DEF Inv
  <1>3. CASE ~ (view.latest /\ Written # view.route.parents)
    <2>1. UNCHANGED <<route, cache>>
      BY <1>3 DEF WriteStatus
    <2>2. TypeOK'
      BY <1>1, <2>1 DEF Inv, TypeOK
    <2>3. CopiesHold'
      BY <1>1, <2>1 DEF Inv, CopiesHold
    <2>4. QED
      BY <2>2, <2>3 DEF Inv
  <1>4. QED
    BY <1>2, <1>3

\* Whoever else writes the route leaves a route with one entry of ours per parent,
\* and outdates every copy.
LEMMA WrittenByOthers ==
    ASSUME Inv, Edited, RouteWritten, UNCHANGED <<found, outcome>>,
           route' \in Routes, OneEach(route.parents')
    PROVE  Inv'
  <1>1. /\ cache' = Outdate(cache)
        /\ view' = IF view = NoView THEN NoView ELSE Outdate(view)
    BY DEF RouteWritten
  <1>2. edits' \in 0..MaxEdits
    <2>1. edits' = edits + 1 /\ edits < MaxEdits /\ edits \in 0..MaxEdits /\ MaxEdits \in Nat
      BY Parts DEF Inv, Edited
    <2>2. QED
      BY <2>1
  <1>3. /\ cache' \in [route : Routes, latest : BOOLEAN]
        /\ cache'.route = cache.route /\ cache'.latest = FALSE
    BY <1>1, Outdated DEF Inv, TypeOK
  <1>4. view' # NoView => /\ view # NoView /\ view' \in Views
                          /\ view'.route = view.route /\ view'.latest = FALSE
    BY <1>1, Outdated DEF Inv, TypeOK, Views
  <1>5. TypeOK'
    BY <1>2, <1>3, <1>4 DEF Inv, TypeOK, Views
  <1>6. CopiesHold'
    BY <1>3, <1>4 DEF Inv, CopiesHold
  <1>7. QED
    BY <1>5, <1>6 DEF Inv

\* A user leaves the status alone.
LEMMA EditRefsInv == Inv /\ EditRefs => Inv'
  <1> SUFFICES ASSUME Inv, EditRefs PROVE Inv'
    OBVIOUS
  <1>1. PICK refs \in RefLists : route' = [route EXCEPT !.refs = refs, !.gen = edits + 1]
    BY DEF EditRefs
  <1>2. edits + 1 \in 0..MaxEdits
    <2>1. edits < MaxEdits /\ edits \in 0..MaxEdits /\ MaxEdits \in Nat
      BY Parts DEF Inv, EditRefs, Edited
    <2>2. QED
      BY <2>1
  <1>3. route \in Routes
    BY DEF Inv, TypeOK
  <1>4. route' \in Routes /\ route'.parents = route.parents
    BY <1>1, <1>2, <1>3 DEF Routes
  <1>5. OneEach(route.parents')
    BY <1>4 DEF Inv, CopiesHold
  <1>6. QED
    BY <1>4, <1>5, WrittenByOthers DEF EditRefs

\* Another controller replaces entries of its own only.
LEMMA WriteOfOtherInv ==
    ASSUME Inv, NEW c \in Others, WriteOfOther(c)
    PROVE  Inv'
  <1> DEFINE parents == route.parents
             places == {i \in DOMAIN parents : parents[i].controller # c}
             rest == Picked(parents, places)
  <1>1. /\ route \in Routes /\ parents \in Lists /\ route.refs \in Seq(Refs)
        /\ route.gen \in 0..MaxEdits /\ OneEach(parents)
    BY Parts DEF Inv, TypeOK, CopiesHold
  <1>2. c \in Controllers /\ c # Ours
    BY DEF Others
  <1>3. rest \in Lists /\ OneEach(rest)
    <2>1. places \in SUBSET (1..Len(parents))
      BY <1>1, EntryFields
    <2> HIDE DEF places, parents
    <2>2. QED
      BY <1>1, <2>1, PickedKeeps
  <1>4. PICK parents1 \in Lists :
           OneEach(parents1) /\ route' = [route EXCEPT !.parents = parents1]
    <2>1. CASE route' = [route EXCEPT !.parents = rest]
      BY <1>3, <2>1
    <2>2. CASE \E ref \in Range(route.refs), said \in Outcomes :
                  route' = [route EXCEPT !.parents = Append(rest,
                      [NewEntry(ref, said, route.gen) EXCEPT !.controller = c])]
      <3>1. PICK ref \in Range(route.refs), said \in Outcomes :
                  route' = [route EXCEPT !.parents = Append(rest,
                      [NewEntry(ref, said, route.gen) EXCEPT !.controller = c])]
        BY <2>2
      <3> DEFINE e == [NewEntry(ref, said, route.gen) EXCEPT !.controller = c]
                 t == Append(rest, e)
      <3>2. ref \in Refs
        BY <1>1 DEF Range
      <3>3. e \in Entries /\ e.controller # Ours
        BY <1>1, <1>2, <3>2 DEF NewEntry, Entries
      <3> HIDE DEF e, rest
      <3>4. /\ t \in Seq(Entries) /\ Len(t) = Len(rest) + 1 /\ Len(rest) \in Nat
            /\ \A i \in 1..Len(rest) : t[i] = rest[i]
            /\ t[Len(rest) + 1] = e
        BY <1>3, <3>3, AppendProperties DEF Lists
      <3> HIDE DEF t
      <3>5. OneEach(t)
        <4>1. \A i \in DOMAIN t : t[i].controller = Ours => i \in DOMAIN rest /\ t[i] = rest[i]
          <5>1. DOMAIN t = 1..(Len(rest) + 1) /\ DOMAIN rest = 1..Len(rest)
            BY <1>3, <3>4 DEF Lists
          <5>2. \A i \in 1..(Len(rest) + 1) : i # Len(rest) + 1 => i \in 1..Len(rest)
            BY <3>4
          <5>3. QED
            BY <3>3, <3>4, <5>1, <5>2
        <4>2. QED
          BY <1>3, <4>1 DEF OneEach
      <3>6. t \in Lists
        BY <3>4 DEF Lists
      <3>7. route' = [route EXCEPT !.parents = t]
        BY <3>1 DEF t, e
      <3>8. QED
        BY <3>5, <3>6, <3>7
    <2>3. QED
      BY <2>1, <2>2 DEF WriteOfOther
  <1>5. route' \in Routes /\ route'.parents = parents1
    BY <1>1, <1>4, WithParents
  <1>6. QED
    BY <1>4, <1>5, WrittenByOthers DEF WriteOfOther

\* What does not touch the route, its copies or what has been read.
LEMMA RouteLeftInv == Inv /\ (EditGateway \/ OutcomeChanges) => Inv'
  <1> SUFFICES ASSUME Inv, EditGateway \/ OutcomeChanges PROVE Inv'
    OBVIOUS
  <1>1. UNCHANGED <<route, cache, view>> /\ Edited
    BY DEF EditGateway, OutcomeChanges
  <1>2. edits' \in 0..MaxEdits
    <2>1. edits' = edits + 1 /\ edits < MaxEdits /\ edits \in 0..MaxEdits /\ MaxEdits \in Nat
      BY <1>1, Parts DEF Inv, Edited
    <2>2. QED
      BY <2>1
  <1>3. found' \in [Gateways -> {"absent", "served", "other"}] /\ outcome' \in Outcomes
    BY DEF EditGateway, OutcomeChanges, Inv, TypeOK
  <1>4. TypeOK'
    BY <1>1, <1>2, <1>3 DEF Inv, TypeOK
  <1>5. CopiesHold'
    BY <1>1 DEF Inv, CopiesHold
  <1>6. QED
    BY <1>4, <1>5 DEF Inv

\* Every step keeps the invariant.
LEMMA NextInv == Inv /\ [Next]_vars => Inv'
  <1> SUFFICES ASSUME Inv, [Next]_vars PROVE Inv'
    OBVIOUS
  <1>1. CASE UNCHANGED vars
    BY <1>1 DEF Inv, TypeOK, CopiesHold, vars
  <1>2. CASE \E c \in Others : WriteOfOther(c)
    BY <1>2, WriteOfOtherInv
  <1>3. QED
    BY <1>1, <1>2, DeliverInv, ReadInv, WriteStatusInv, EditRefsInv, RouteLeftInv DEF Next

\* Hence it holds throughout.
LEMMA Invariance == Spec => []Inv
  BY InitInv, NextInv, PTL DEF Spec

----------------------------------------------------------------------------
(* Theorems.                                                               *)

\* Every variable holds a value of its type: lists stay lists of entries whatever
\* is cut from them, added to them and sorted.
THEOREM Typing == Spec => []TypeOK
  <1>1. Inv => TypeOK
    BY DEF Inv
  <1>2. QED
    BY <1>1, Invariance, PTL

\* A parent never has two entries of ours (status.go:47-57), whatever the spelling
\* of parentRefs, the verdict, the port and the writes of others do in between.
THEOREM OnePerParent == Spec => []OneEntryPerParent
  <1>1. Inv => OneEntryPerParent
    BY DEF Inv, CopiesHold, OneEach, OneEntryPerParent
  <1>2. QED
    BY <1>1, Invariance, PTL

\* A pass over what a pass has written, with the same verdict, has nothing to write
\* (status.go:17-19), whichever Gateways are found and in whatever order others have
\* left the list.
THEOREM Settles == Spec => []WritesSettle
  <1>1. Inv => WritesSettle
    <2> SUFFICES ASSUME Inv,
                        NEW gws \in [Gateways -> {"absent", "served", "other"}],
                        NEW said \in Outcomes
                 PROVE  LET wanted == VerdictParents(gws, route.refs)
                            after == StatusAfter(route, wanted, said)
                        IN  StatusAfter([route EXCEPT !.parents = after], wanted, said)
                            = after
      BY DEF WritesSettle
    <2> DEFINE wanted == VerdictParents(gws, route.refs)
               after == StatusAfter(route, wanted, said)
               next == [route EXCEPT !.parents = after]
    <2>1. route \in Routes /\ route.refs \in Seq(Refs)
      BY Parts DEF Inv, TypeOK
    <2>2. wanted \in Seq(Refs)
      BY <2>1, VerdictType
    <2> HIDE DEF wanted
    <2>3. after \in Lists /\ Current(after, wanted, said, route.gen) /\ InSortOrder(after)
      BY <2>1, <2>2, Makes
    <2> HIDE DEF after
    <2>4. next \in Routes /\ next.parents = after /\ next.gen = route.gen
      BY <2>1, <2>3, WithParents
    <2> HIDE DEF next
    <2>5. StatusAfter(next, wanted, said) = after
      BY <2>2, <2>3, <2>4, Settled
    <2>6. QED
      BY <2>5 DEF next, after, wanted
  <1>2. QED
    BY <1>1, Invariance, PTL

\* A write of a pass loses, adds and changes no entry of another controller
\* (status.go:16-18): what it wrote was made from the list as it is, because a
\* copy that is still the latest is the route.
THEOREM Untouched == Spec => OthersUntouched
  <1>1. ASSUME Inv, [Next]_vars
        PROVE  [WriteStatus =>
                   \A c \in Others : \A e \in Entries :
                      LET count(parents) == Cardinality({i \in DOMAIN parents : parents[i] = e})
                      IN  e.controller = c => count(route'.parents) = count(route.parents)]_vars
    <2> SUFFICES ASSUME WriteStatus, NEW c \in Others, NEW e \in Entries, e.controller = c
                 PROVE  Cardinality({i \in DOMAIN route'.parents : route'.parents[i] = e})
                        = Cardinality({i \in DOMAIN route.parents : route.parents[i] = e})
      OBVIOUS
    <2>1. view # NoView /\ e.controller # Ours
      BY DEF WriteStatus, Others
    <2>2. CASE view.latest /\ Written # view.route.parents
      <3>1. route' = [route EXCEPT !.parents = Written] /\ view.route = route
        BY <1>1, <2>1, <2>2 DEF WriteStatus, Inv, CopiesHold
      <3>2. /\ Written \in Lists
            /\ Cardinality(PlacesOf(Written, e)) = Cardinality(PlacesOf(view.route.parents, e))
        BY <1>1, <2>1, WrittenFacts
      <3>3. route'.parents = Written
        BY <1>1, <3>1, <3>2, WithParents DEF Inv, TypeOK
      <3>4. QED
        BY <3>1, <3>2, <3>3 DEF PlacesOf
    <2>3. CASE ~ (view.latest /\ Written # view.route.parents)
      BY <2>3 DEF WriteStatus
    <2>4. QED
      BY <2>2, <2>3
  <1>2. QED
    BY <1>1, Invariance, PTL DEF Spec, OthersUntouched
=============================================================================
