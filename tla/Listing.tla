------------------------------- MODULE Listing -------------------------------
(***************************************************************************)
(* The paginated listings of the Pangolin client and the prune that acts   *)
(* on one (pangolin/client.go, pruneSection of the publisher).  Publisher  *)
(* takes a listing for one step; here it is one request per page, and the  *)
(* table may change between two of them.                                   *)
(*                                                                         *)
(* Pages are cut from the rows in the order of their niceIds, so a row     *)
(* that appears or disappears shifts every row after it.                   *)
(***************************************************************************)
EXTENDS Naturals, Sequences, FiniteSets, Ordering

CONSTANTS
    NiceIds,     \* as numbers, in the order the listing sorts them
    Owned,       \* those with the gw- prefix
    Wanted,      \* those the blueprint names
    InitialRows, \* the niceIds stored at the start
    PageSize,    \* listPageSize, 100 in the code
    Lapses,      \* what an instance may get wrong about paging: see server
    MaxChanges,  \* bound on rows others create and delete
    MaxFaults,   \* bound on requests that fail
    MaxId        \* bound on the numeric ids

ASSUME ListingAssumption ==
    /\ NiceIds \subseteq Nat /\ IsFiniteSet(NiceIds)
    /\ Owned \subseteq NiceIds /\ Wanted \subseteq Owned /\ InitialRows \subseteq NiceIds
    /\ PageSize \in Nat \ {0}
    /\ Lapses \subseteq {"page ignored", "page left out", "total left out"}
    /\ MaxChanges \in Nat /\ MaxFaults \in Nat
    /\ MaxId \in Nat /\ Cardinality(InitialRows) <= MaxId

VARIABLES
    table,     \* the id of the row stored under a niceId, or 0
    nextId,    \* the next numeric id
    checked,   \* the listing goes through listPages, which checks the total (machines,
               \* users, policies), not one of the three loops that do not (public and
               \* private resources, sites)
    server,    \* what this instance gets wrong: it serves page one whatever page is
               \* asked for, its answers do not say which page they are, or no total
    pc,        \* "idle", "listing", "listed", "deleting"
    page,      \* the page asked for next
    all,       \* the rows listed so far
    stayed,    \* the niceIds stored ever since the listing began
    shrunk,    \* a row disappeared since the listing began
    changes,
    faults

tableVars == <<table, nextId>>
passVars  == <<pc, page, all>>
history   == <<stayed, shrunk>>
instance  == <<checked, server>>
vars == <<table, nextId, checked, server, pc, page, all, stayed, shrunk, changes, faults>>

Row(n)   == [id |-> table[n], niceId |-> n]

\* Faulty variant: a row that is gone is listed all the same.
EverStoredIn(t) == NiceIds

StoredIn(t) == {n \in NiceIds : t[n] # 0}

----------------------------------------------------------------------------
(* The server.                                                             *)

\* The rows in the order of their niceIds.
Rows ==
    LET sorted == InOrder(StoredIn(table), Ascending(StoredIn(table)))
    IN  [i \in 1..Cardinality(StoredIn(table)) |-> Row(sorted[i])]

\* A field that is left out is decoded as 0.
Served == IF "page ignored" \in server THEN 1 ELSE page
Said   == IF "page left out" \in server THEN 0 ELSE Served
Total  == IF "total left out" \in server THEN 0 ELSE Len(Rows)

Smaller(a, b) == IF a < b THEN a ELSE b

Answer == SubSeq(Rows, 1 + Smaller((Served - 1) * PageSize, Len(Rows)),
                 Smaller(Served * PageSize, Len(Rows)))

\* Faulty variant: the id of a deleted row is given out again.
StoreReusing(n) ==
    /\ table' = [table EXCEPT ![n] =
           CHOOSE id \in 1..MaxId : \A m \in NiceIds :
               table[m] # id /\ \A k \in 1..(id - 1) : \E l \in NiceIds : table[l] = k]
    /\ UNCHANGED nextId

Store(n) ==
    /\ table' = [table EXCEPT ![n] = nextId]
    /\ nextId' = nextId + 1

\* A delete names a row by its id; there may be none, or no longer.
Holders(id) == {n \in NiceIds : table[n] = id}

----------------------------------------------------------------------------
(* Others: the dashboard, hand-written blueprints.                         *)

Changed ==
    /\ changes < MaxChanges
    /\ changes' = changes + 1

Create(n) ==
    /\ Changed
    /\ table[n] = 0
    /\ nextId < MaxId
    /\ Store(n)
    /\ UNCHANGED <<instance, passVars, history, faults>>

Disappear(n) ==
    /\ Changed
    /\ table[n] # 0
    /\ table' = [table EXCEPT ![n] = 0]
    /\ stayed' = stayed \ {n}
    /\ shrunk' = TRUE
    /\ UNCHANGED <<nextId, instance, passVars, faults>>

----------------------------------------------------------------------------
(* The client and the prune.                                               *)

\* After an apply, so every row the blueprint names is stored.
BeginListing ==
    /\ pc = "idle"
    /\ Wanted \subseteq StoredIn(table)
    /\ pc' = "listing"
    /\ page' = 1
    /\ all' = << >>
    /\ stayed' = StoredIn(table)
    /\ shrunk' = FALSE
    /\ UNCHANGED <<tableVars, instance, changes, faults>>

\* The apply stores what somebody deleted.
Reapply(n) ==
    /\ pc = "idle"
    /\ n \in Wanted /\ table[n] = 0
    /\ nextId < MaxId
    /\ Store(n)
    /\ UNCHANGED <<instance, passVars, history, changes, faults>>

\* Any error ends the listing, and with it this section's prune.
Abandon ==
    /\ pc' = "idle"
    /\ page' = 1
    /\ all' = << >>

\* Faulty variant: what is asked for and what is answered is not compared.
NeverStalled == FALSE

Stalled == Said # 0 /\ Said # page

\* Faulty variant: any total will do.
TotalNotChecked == FALSE

NoTotal   == checked /\ Len(Answer) > 0 /\ Total = 0

\* Faulty variant: the listing is complete with its first page.
FirstPageOnly == TRUE

Complete  == Len(Answer) = 0 \/ Len(all \o Answer) >= Total

FetchPage ==
    /\ pc = "listing"
    /\ IF Stalled \/ NoTotal
       THEN Abandon
       ELSE /\ all' = all \o Answer
            /\ page' = page + 1
            /\ pc' = IF Complete THEN "listed" ELSE "listing"
    /\ UNCHANGED <<tableVars, instance, history, changes, faults>>

FetchFails ==
    /\ pc = "listing"
    /\ faults < MaxFaults
    /\ faults' = faults + 1
    /\ Abandon
    /\ UNCHANGED <<tableVars, instance, history, changes>>

\* Faulty variant: the prefix is not looked at.
OrphansOfAnyone == Picked(all, {i \in DOMAIN all : all[i].niceId \notin Wanted})

Orphans == Picked(all, {i \in DOMAIN all : all[i].niceId \in Owned \ Wanted})

BeginDeleting ==
    /\ pc = "listed"
    /\ pc' = "deleting"
    /\ all' = Orphans
    /\ UNCHANGED <<tableVars, instance, page, history, changes, faults>>

\* A row that is gone answers 404, which is counted and retried next pass.
DeleteNext ==
    /\ pc = "deleting" /\ all # << >>
    /\ table' = [n \in NiceIds |-> IF n \in Holders(Head(all).id) THEN 0 ELSE table[n]]
    /\ stayed' = stayed \ Holders(Head(all).id)
    /\ all' = Tail(all)
    /\ UNCHANGED <<nextId, instance, pc, page, shrunk, changes, faults>>

DeleteFails ==
    /\ pc = "deleting" /\ all # << >>
    /\ faults < MaxFaults
    /\ faults' = faults + 1
    /\ all' = Tail(all)
    /\ UNCHANGED <<tableVars, instance, pc, page, history, changes>>

Pruned ==
    /\ pc = "deleting" /\ all = << >>
    /\ Abandon
    /\ UNCHANGED <<tableVars, instance, history, changes, faults>>

----------------------------------------------------------------------------
Numbered(names) ==
    [n \in NiceIds |-> IF n \in names THEN 1 + Rank(Ascending(names), n) ELSE 0]

Init ==
    /\ table = Numbered(InitialRows)
    /\ nextId = Cardinality(InitialRows) + 1
    /\ checked \in BOOLEAN
    /\ server \in SUBSET Lapses
    /\ pc = "idle"
    /\ page = 1
    /\ all = << >>
    /\ stayed = {}
    /\ shrunk = FALSE
    /\ changes = 0
    /\ faults = 0

Pass == BeginListing \/ (\E n \in Wanted : Reapply(n)) \/ FetchPage
        \/ BeginDeleting \/ DeleteNext \/ Pruned

Next ==
    \/ Pass
    \/ FetchFails
    \/ DeleteFails
    \/ \E n \in NiceIds : Create(n) \/ Disappear(n)

Spec == Init /\ [][Next]_vars

\* Passes follow each other, at least every resync interval.
FairSpec == Spec /\ WF_vars(Pass)

----------------------------------------------------------------------------
(* Properties.                                                             *)

\* Every variable holds a value of its type.
TypeOK ==
    /\ table \in [NiceIds -> 0..MaxId]
    /\ nextId \in 1..(MaxId + 1)
    /\ checked \in BOOLEAN /\ server \in SUBSET Lapses
    /\ pc \in {"idle", "listing", "listed", "deleting"}
    /\ page \in Nat \ {0}
    /\ all \in Seq([id : 1..MaxId, niceId : NiceIds])
    /\ stayed \subseteq NiceIds
    /\ shrunk \in BOOLEAN
    /\ changes \in 0..MaxChanges
    /\ faults \in 0..MaxFaults

Listed == {all[i].niceId : i \in DOMAIN all}

\* The client tells what this instance gets wrong: it compares the page only where the
\* answer says one, and looks at the total in listPages alone.
Noticed ==
    /\ "page ignored" \in server => "page left out" \notin server
    /\ "total left out" \in server => checked

\* A short listing would make every later name look unknown (client.go:433-434): one
\* that is returned names every row that was there all along, however many rows
\* appeared between its pages, as long as no row disappeared and what the instance
\* gets wrong about paging is what the client tells (client.go:299, 330, 359, 428, 435).
GrowthHidesNothing ==
    Noticed /\ pc = "listed" /\ ~ shrunk => stayed \subseteq Listed

\* A listing is acted upon long after its pages were cut (publisher.go:332): the
\* delete of a listed row never hits another one, neither a wanted nor a foreign
\* row, though rows come and go and may come back.
DeletesOnlyOrphans ==
    [][DeleteNext => \A n \in NiceIds : table[n] # 0 /\ table'[n] = 0 => n \in Owned \ Wanted]_vars

\* Whatever one listing missed or one delete failed at, the passes that follow
\* make up for (publisher.go:333): once others rest, no orphan stays, as long as every
\* page asked for is served and counted.  Whether answers say which page they are does
\* not matter.
OrphansGo ==
    server \subseteq {"page left out"} => <>[](StoredIn(table) \cap Owned \subseteq Wanted)

\* "ListSites reports the sites a blueprint target may name" (client.go:311), and
\* a pass rejects every route whose site it does not report.  This does not hold:
\* a row deleted between two pages moves one that stays out of the listing, and
\* ListSites is one of the loops that take a first page without a total for all.
StayedIsListed == pc = "listed" => stayed \subseteq Listed
=============================================================================
