----------------------------- MODULE RouteStatus -----------------------------
(***************************************************************************)
(* How the status of one HTTPRoute is written (gateway/status.go and       *)
(* Publisher.writeStatus).  status.parents is one list shared by every     *)
(* controller that has something to say about the route: an entry names a  *)
(* parentRef and the controller that wrote it.                             *)
(*                                                                         *)
(* A pass reads the route from a cache that lags, decides, and replaces    *)
(* the whole list by what SetRouteStatus makes of the list it read; the    *)
(* API server refuses that if the route has changed since.  Meanwhile      *)
(* users edit parentRefs, Gateways come and go, and other controllers      *)
(* write their own entries.                                                *)
(***************************************************************************)
EXTENDS Naturals, Sequences, FiniteSets, Functions, Ordering

CONSTANTS
    Parents,       \* what refKey tells apart, as numbers in the order of the keys
    Ports,         \* the port of a parentRef, which refKey leaves out
    Controllers,   \* controllerNames, as numbers in their order
    Ours,          \* the one of this controller
    GatewayOf,     \* the Gateway a parent is (a listener of), or NotGateway
    Gateways,
    NotGateway,    \* a parent of another kind, such as a Service of a mesh
    RefLists,      \* the parentRefs users may write
    Outcomes,      \* what a verdict may say
    NoView,        \* nothing read
    MaxEdits       \* bound on the edits of users and other controllers

Refs    == [parent : Parents, port : Ports]
Entries == [controller : Controllers, ref : Refs, outcome : Outcomes, gen : 0..MaxEdits]

ASSUME StatusAssumption ==
    /\ Parents \subseteq Nat /\ Controllers \subseteq Nat /\ Ours \in Controllers
    /\ NotGateway \notin Gateways
    /\ GatewayOf \in [Parents -> Gateways \cup {NotGateway}]
    /\ RefLists \subseteq Seq(Refs)
    /\ MaxEdits \in Nat

VARIABLES
    route,     \* the route in the API server: parentRefs, generation, status.parents
    found,     \* each Gateway as the caches have it: "absent", "served" or "other"
    outcome,   \* what a pass would now conclude about the route
    cache,     \* the cached copy of the route, and whether it is the latest
    view,      \* what the pass under way has read, or NoView
    edits

vars == <<route, found, outcome, cache, view, edits>>

Routes == [refs : RefLists, gen : 0..MaxEdits, parents : Seq(Entries)]

\* A copy is latest until the route is written again: resourceVersion.
Copy(r) == [route |-> r, latest |-> TRUE]
Outdate(copy) == [copy EXCEPT !.latest = FALSE]

Others == Controllers \ {Ours}

----------------------------------------------------------------------------
(* The verdict: the parents to report on and what to say.                  *)

\* A parentRef of another kind refers to no Gateway.
Found(gws, ref) ==
    GatewayOf[ref.parent] # NotGateway /\ gws[GatewayOf[ref.parent]] # "absent"

ServedParents(gws, refs) ==
    Picked(refs, {i \in DOMAIN refs :
        Found(gws, refs[i]) /\ gws[GatewayOf[refs[i].parent]] = "served"})

\* No parentRef resolves, though at least one is for a Gateway.
HasOnlyUnresolvableParents(gws, refs) ==
    /\ \E ref \in Range(refs) : GatewayOf[ref.parent] # NotGateway
    /\ \A ref \in Range(refs) : ~ Found(gws, ref)

\* The parents a verdict lists: those that are served, or every one of a route
\* whose Gateways are all missing.  None means no verdict.
VerdictParents(gws, refs) ==
    IF HasOnlyUnresolvableParents(gws, refs) THEN refs ELSE ServedParents(gws, refs)

----------------------------------------------------------------------------
(* SetRouteStatus.                                                         *)

OurEntries(parents) == Picked(parents, {i \in DOMAIN parents : parents[i].controller = Ours})

\* Faulty variant: entries are never dropped.
KeepAll(parents, wanted) == parents

\* Entries of other controllers stay, and those of ours the verdict still names.
Kept(parents, wanted) ==
    Picked(parents, {i \in DOMAIN parents :
        \/ parents[i].controller # Ours
        \/ \E ref \in Range(wanted) : ref.parent = parents[i].ref.parent})

\* Faulty variant: parentRefs are compared whole, port included.
HasExactEntry(parents, ref) ==
    \E e \in Range(parents) : e.controller = Ours /\ e.ref = ref

HasEntry(parents, ref) ==
    \E e \in Range(parents) : e.controller = Ours /\ e.ref.parent = ref.parent

NewEntry(ref, said, gen) ==
    [controller |-> Ours, ref |-> ref, outcome |-> said, gen |-> gen]

NewEntries(refs, said, gen) == [i \in DOMAIN refs |-> NewEntry(refs[i], said, gen)]

\* Faulty variant: every parent gets a new entry.
AddEvery(parents, wanted, said, gen) == parents \o NewEntries(wanted, said, gen)

\* A parent without an entry, in the list or added so far, gets one at the end.
AddMissing(parents, wanted, said, gen) ==
    LET upto(i) == parents \o NewEntries(SubSeq(wanted, 1, i - 1), said, gen)
        missing == {i \in DOMAIN wanted : ~ HasEntry(upto(i), wanted[i])}
    IN  parents \o NewEntries(Picked(wanted, missing), said, gen)

\* Faulty variant: the generation to come is said to have been seen.
SayAhead(parents, said, gen) ==
    [i \in DOMAIN parents |->
        IF parents[i].controller = Ours
        THEN [parents[i] EXCEPT !.outcome = said, !.gen = gen + 1] ELSE parents[i]]

\* Our entries say what the verdict says.
Say(parents, said, gen) ==
    [i \in DOMAIN parents |->
        IF parents[i].controller = Ours
        THEN [parents[i] EXCEPT !.outcome = said, !.gen = gen] ELSE parents[i]]

\* By controllerName and then by key; entries equal in both keep their order.
SortsBefore(parents, i, j) ==
    LET a == parents[i]
        b == parents[j]
    IN  \/ a.controller < b.controller
        \/ a.controller = b.controller /\ a.ref.parent < b.ref.parent
        \/ a.controller = b.controller /\ a.ref.parent = b.ref.parent /\ i < j

SortOrder(parents) ==
    [i \in DOMAIN parents |-> {j \in DOMAIN parents : SortsBefore(parents, j, i)}]

Sorted(parents) ==
    LET order == InOrder(DOMAIN parents, SortOrder(parents))
    IN  [n \in DOMAIN parents |-> parents[order[n]]]

\* The list a pass leaves; it writes only when this is not the list it read.
StatusAfter(copy, wanted, said) ==
    Sorted(Say(AddMissing(Kept(copy.parents, wanted), wanted, said, copy.gen),
               said, copy.gen))

----------------------------------------------------------------------------
(* A pass, as far as this route is concerned.                              *)

Deliver ==
    /\ ~ cache.latest
    /\ cache' = Copy(route)
    /\ UNCHANGED <<route, found, outcome, view, edits>>

\* The route, and with it the verdict, is read once, from the cache.
Read ==
    /\ view = NoView
    /\ view' = [route  |-> cache.route, latest |-> cache.latest,
                wanted |-> VerdictParents(found, cache.route.refs), said |-> outcome]
    /\ UNCHANGED <<route, found, outcome, cache, edits>>

Written == StatusAfter(view.route, view.wanted, view.said)

\* Faulty variant: the update does not carry a resourceVersion.
WriteRegardless ==
    /\ view # NoView
    /\ IF Written # view.route.parents
       THEN /\ route' = [route EXCEPT !.parents = Written]
            /\ cache' = Outdate(cache)
       ELSE UNCHANGED <<route, cache>>
    /\ view' = NoView
    /\ UNCHANGED <<found, outcome, edits>>

\* A conflict leaves the status as it is; the pass fails and another follows.
WriteStatus ==
    /\ view # NoView
    /\ IF view.latest /\ Written # view.route.parents
       THEN /\ route' = [route EXCEPT !.parents = Written]
            /\ cache' = Outdate(cache)
       ELSE UNCHANGED <<route, cache>>
    /\ view' = NoView
    /\ UNCHANGED <<found, outcome, edits>>

----------------------------------------------------------------------------
(* Everybody else.                                                         *)

Edited ==
    /\ edits < MaxEdits
    /\ edits' = edits + 1

RouteWritten ==
    /\ cache' = Outdate(cache)
    /\ view' = IF view = NoView THEN NoView ELSE Outdate(view)

EditRefs ==
    /\ Edited
    /\ \E refs \in RefLists \ {route.refs} :
           route' = [route EXCEPT !.refs = refs, !.gen = edits + 1]
    /\ RouteWritten
    /\ UNCHANGED <<found, outcome>>

\* Another controller replaces its own entries by one, or drops them.
WriteOfOther(c) ==
    /\ Edited
    /\ LET rest == Picked(route.parents,
                          {i \in DOMAIN route.parents : route.parents[i].controller # c})
       IN  \/ \E ref \in Range(route.refs), said \in Outcomes :
                  route' = [route EXCEPT !.parents = Append(rest,
                      [NewEntry(ref, said, route.gen) EXCEPT !.controller = c])]
           \/ rest # route.parents /\ route' = [route EXCEPT !.parents = rest]
    /\ RouteWritten
    /\ UNCHANGED <<found, outcome>>

\* A Gateway is created, deleted, or moved to a class of another controller.
EditGateway ==
    /\ Edited
    /\ \E g \in Gateways, state \in {"absent", "served", "other"} :
           found[g] # state /\ found' = [found EXCEPT ![g] = state]
    /\ UNCHANGED <<route, outcome, cache, view>>

\* What decides about the route outside it: its backend, a collision, the apply.
OutcomeChanges ==
    /\ Edited
    /\ outcome' \in Outcomes \ {outcome}
    /\ UNCHANGED <<route, found, cache, view>>

----------------------------------------------------------------------------
Init ==
    /\ \E refs \in RefLists : route = [refs |-> refs, gen |-> 0, parents |-> << >>]
    /\ found = [g \in Gateways |-> "served"]
    /\ outcome \in Outcomes
    /\ cache = Copy(route)
    /\ view = NoView
    /\ edits = 0

Next ==
    \/ Deliver
    \/ Read
    \/ WriteStatus
    \/ EditRefs
    \/ \E c \in Others : WriteOfOther(c)
    \/ EditGateway
    \/ OutcomeChanges

Spec == Init /\ [][Next]_vars

\* The informer delivers, and an edit, a failed write or the resync is followed
\* by another pass.
FairSpec == Spec /\ WF_vars(Deliver) /\ WF_vars(Read) /\ WF_vars(WriteStatus)

----------------------------------------------------------------------------
(* Properties.                                                             *)

\* Every variable holds a value of its type.
TypeOK ==
    /\ route \in Routes
    /\ found \in [Gateways -> {"absent", "served", "other"}]
    /\ outcome \in Outcomes
    /\ cache \in [route : Routes, latest : BOOLEAN]
    /\ view # NoView => view \in [route : Routes, latest : BOOLEAN,
                                  wanted : Seq(Refs), said : Outcomes]
    /\ edits \in 0..MaxEdits

\* A controller must touch only its own entries (status.go:16-18): whatever the
\* pass read and whoever wrote since, a write of the pass loses, adds and changes
\* no entry of another controller.
OthersUntouched ==
    [][WriteStatus =>
         \A c \in Others : \A e \in Entries :
            LET count(parents) == Cardinality({i \in DOMAIN parents : parents[i] = e})
            IN  e.controller = c => count(route'.parents) = count(route.parents)]_vars

\* Writing unchanged status would loop the controller against itself
\* (status.go:17-19): a pass over what a pass has just written, with the same
\* verdict, finds nothing to write, whatever order others left the list in.
WritesSettle ==
    \A wanted \in {VerdictParents(gws, route.refs) :
                       gws \in [Gateways -> {"absent", "served", "other"}]},
       said \in Outcomes :
        LET after == StatusAfter(route, wanted, said)
        IN  StatusAfter([route EXCEPT !.parents = after], wanted, said) = after

\* Entries are found again by their key (status.go:47-57): however often spelling,
\* parents and verdict change, a parent never has two entries of ours.
OneEntryPerParent ==
    \A i, j \in DOMAIN route.parents :
        LET a == route.parents[i]
            b == route.parents[j]
        IN  a.controller = Ours /\ b.controller = Ours /\ a.ref.parent = b.ref.parent
            => i = j

\* The entries of ours are those of the parents a pass would report, and say
\* what it would say, of the current generation.
StatusCurrent ==
    LET ours == Range(OurEntries(route.parents))
        wanted == Range(VerdictParents(found, route.refs))
    IN  /\ {e.ref.parent : e \in ours} = {ref.parent : ref \in wanted}
        /\ \A e \in ours : e.outcome = outcome /\ e.gen = route.gen

\* Once the others rest, the status becomes current and stays so
\* (publisher.go:349-369): a route that is no longer served loses its entries.
StatusFollows == <>[]StatusCurrent

\* "ours survive only while the route still names that parent" (status.go:33-34).
\* This does not hold: a parent is the same whatever its port.
SurvivorsAreNamed ==
    <>[](\A e \in Range(OurEntries(route.parents)) : e.ref \in Range(route.refs))

\* "ParentRefs lists only the served parents" (render.go:121): no entry of ours
\* is about a parent that is not even a Gateway.  This does not hold: a route none
\* of whose Gateways is found is reported on every parent.
OnlyGatewaysReported ==
    \A e \in Range(OurEntries(route.parents)) : GatewayOf[e.ref.parent] # NotGateway
=============================================================================
