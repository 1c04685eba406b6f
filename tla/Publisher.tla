------------------------------ MODULE Publisher ------------------------------
(***************************************************************************)
(* The reconcile loop of the controller (src/internal/controller):         *)
(* one work-queue key for the whole cluster, one pass at a time.  A pass   *)
(* reads the five kinds from informer caches, renders, applies the         *)
(* blueprint, prunes what it no longer names and writes statuses.          *)
(*                                                                         *)
(* Around it: the API server whose objects users edit, informer caches     *)
(* that lag behind it kind by kind, the work queue and its timer, and the  *)
(* Pangolin organisation, reached by requests that can fail before or      *)
(* after they took effect, or take effect long after the client gave up.   *)
(***************************************************************************)
EXTENDS Rendering

CONSTANTS
    SpecsOf,        \* what users may make of each object: specs, or Absent
    InitialSpecs,   \* what each object may be at the start
    InitialOrgs,    \* the organisations the controller may find
    DryRun,         \* the --dry-run flag
    MaxEdits,       \* bound on the edits users make
    Faults,         \* the kinds of fault that may happen
    MaxFaults       \* bound on the faults that happen

FaultKinds == {"read", "sites", "apply", "list", "delete", "late", "drift", "crash"}

ASSUME SpecsAssumption ==
    /\ SpecsOf \in [Objects -> SUBSET (Specs \cup {Absent})]
    /\ InitialSpecs \in [Objects -> SUBSET (Specs \cup {Absent})]
    /\ InitialOrgs \subseteq Docs
    /\ Absent \notin Specs

ASSUME BoundsAssumption ==
    /\ DryRun \in BOOLEAN
    /\ MaxEdits \in Nat /\ MaxFaults \in Nat
    /\ Faults \subseteq FaultKinds

VARIABLES
    cluster,     \* the API server: each object's current copy, or Absent
    edits,       \* how many edits users have made
    cache,       \* the informer caches
    queued,      \* the one key is in the work queue, or will be re-added at Done
    timer,       \* a delayed re-add is pending: a resync or a rate-limited retry
    pc,          \* where the pass is; "idle" between passes, "down" after a crash
    view,        \* what this pass has read of the cluster
    known,       \* the site names that pass the renderer's check in this pass
    section,     \* the section being pruned
    orphans,     \* the listed rows of that section this pass still has to delete
    unwritten,   \* the objects whose status this pass still has to write
    publishErr,  \* the apply of this pass returned an error
    failed,      \* a later step of this pass returned an error
    org,         \* the rows Pangolin stores
    sites,       \* the sites that exist in Pangolin
    late,        \* a request given up on that may still take effect
    faults       \* how many faults have happened

clusterVars == <<cluster, edits>>
queueVars   == <<queued, timer>>
pruneVars   == <<section, orphans>>
passVars    == <<view, known, section, orphans, unwritten, publishErr, failed>>
orgVars     == <<org, sites, late>>
vars == <<cluster, edits, cache, queued, timer, pc, view, known, section,
          orphans, unwritten, publishErr, failed, org, sites, late, faults>>

Kinds == {"classes", "gateways", "routes", "resources", "policies"}

ObjectsOf(kind) ==
    CASE kind = "classes"   -> Classes
      [] kind = "gateways"  -> Gateways
      [] kind = "routes"    -> Routes
      [] kind = "resources" -> PrivateResources
      [] kind = "policies"  -> Policies

\* The order in which a pass lists the kinds, and later writes their statuses.
AfterRead == [classes  |-> "gateways",  gateways  |-> "routes",
              routes   |-> "resources", resources |-> "policies",
              policies |-> "sites"]

AfterSection == [public |-> "private", private |-> "policy", policy |-> "policy"]

States   == {"Unknown", "Programmed", "NotAccepted", "PublishFailed", "DryRun"}
Statuses == [state : States, ver : 0..MaxEdits, key : BOOLEAN]
NoStatus == [state |-> "Unknown", ver |-> 0, key |-> FALSE]

\* born orders objects by creation; ver moves with every change of spec or
\* annotations, which is what the watch predicates look at.
Copies == [spec : Specs, born : 0..MaxEdits, ver : 0..MaxEdits, status : Statuses]
Views  == [Objects -> Copies \cup {Absent}]
NoView == [o \in Objects |-> Absent]

\* A blueprint the controller may send names only its own keys.
OwnedDocs == {doc \in Docs : \A s \in Sections, k \in ForeignKeys : doc[s][k] = NoRow}

NoRequest == [op |-> "none"]
Requests  == {NoRequest}
             \cup [op : {"apply"}, doc : OwnedDocs]
             \cup [op : {"delete"}, section : Sections, key : OwnedKeys]

Locations == {"down", "idle", "sites", "credentials", "apply", "list",
              "delete", "status"} \cup Kinds

CanFail(f) == f \in Faults /\ faults < MaxFaults
Fault(f)   == CanFail(f) /\ faults' = faults + 1

----------------------------------------------------------------------------
(* Users and the API server.                                               *)

Created(spec) == [spec |-> spec, born |-> edits + 1, ver |-> edits + 1,
                  status |-> NoStatus]

Updated(copy, spec) == [copy EXCEPT !.spec = spec, !.ver = edits + 1]

\* Create, update or delete one object; there are no finalizers.
Edit(o) ==
    /\ edits < MaxEdits
    /\ edits' = edits + 1
    /\ \E spec \in SpecsOf[o] :
           \/ /\ cluster[o] = Absent /\ spec # Absent
              /\ cluster' = [cluster EXCEPT ![o] = Created(spec)]
           \/ /\ cluster[o] # Absent /\ spec \notin {Absent, cluster[o].spec}
              /\ cluster' = [cluster EXCEPT ![o] = Updated(cluster[o], spec)]
           \/ /\ cluster[o] # Absent /\ spec = Absent
              /\ cluster' = [cluster EXCEPT ![o] = Absent]
    /\ UNCHANGED <<cache, pc, faults, queueVars, passVars, orgVars>>

----------------------------------------------------------------------------
(* Informers and the work queue.                                           *)

\* What the predicates compare: a status-only update is not an event.
Version(copy) == IF copy = Absent THEN << >> ELSE <<copy.born, copy.ver>>

\* Faulty variant: an event that arrives during a pass is dropped.
DeliverWhenIdle(kind) ==
    /\ pc # "down"
    /\ \E o \in ObjectsOf(kind) : cache[o] # cluster[o]
    /\ cache' = [o \in Objects |->
                    IF o \in ObjectsOf(kind) THEN cluster[o] ELSE cache[o]]
    /\ queued' = (queued \/ pc = "idle")
    /\ UNCHANGED <<timer, pc, faults, clusterVars, passVars, orgVars>>

Deliver(kind) ==
    /\ pc # "down"
    /\ \E o \in ObjectsOf(kind) : cache[o] # cluster[o]
    /\ cache' = [o \in Objects |->
                    IF o \in ObjectsOf(kind) THEN cluster[o] ELSE cache[o]]
    /\ queued' = (queued \/ \E o \in ObjectsOf(kind) :
                                Version(cache[o]) # Version(cluster[o]))
    /\ UNCHANGED <<timer, pc, faults, clusterVars, passVars, orgVars>>

TimerFires ==
    /\ timer
    /\ timer' = FALSE
    /\ queued' = TRUE
    /\ UNCHANGED <<cache, pc, faults, clusterVars, passVars, orgVars>>

Begin ==
    /\ pc = "idle"
    /\ queued
    /\ queued' = FALSE
    /\ pc' = "classes"
    /\ UNCHANGED <<timer, cache, faults, clusterVars, passVars, orgVars>>

----------------------------------------------------------------------------
(* Reading and rendering.                                                  *)

\* The locals of a pass go out of scope when it returns.
ForgetPass ==
    /\ view' = NoView
    /\ known' = {}
    /\ section' = "public"
    /\ orphans' = {}
    /\ unwritten' = {}
    /\ publishErr' = FALSE
    /\ failed' = FALSE

\* Faulty variant: only an error re-adds the key.
ReturnWithoutResync ==
    /\ pc' = "idle"
    /\ timer' = (timer \/ pc # "status" \/ publishErr \/ failed)
    /\ ForgetPass
    /\ UNCHANGED <<queued, cache, clusterVars, orgVars>>

\* Success asks for a resync, an error for a rate-limited retry: both re-add
\* the key later.
Return ==
    /\ pc' = "idle"
    /\ timer' = TRUE
    /\ ForgetPass
    /\ UNCHANGED <<queued, cache, clusterVars, orgVars>>

Read(kind) ==
    /\ pc = kind
    /\ view' = [o \in Objects |-> IF o \in ObjectsOf(kind) THEN cache[o] ELSE view[o]]
    /\ pc' = AfterRead[kind]
    /\ UNCHANGED <<known, pruneVars, unwritten, publishErr, failed,
                   cache, faults, clusterVars, queueVars, orgVars>>

\* A listing of the cluster, or the resolution of credentials or CAs, that
\* fails ends the pass before anything was written.
AbortRead ==
    /\ pc \in Kinds \cup {"credentials"}
    /\ Fault("read")
    /\ Return

\* Without a listing every site name passes.
ListSites ==
    /\ pc = "sites"
    /\ \/ known' = sites /\ UNCHANGED faults
       \/ known' = Sites /\ Fault("sites")
    /\ pc' = "credentials"
    /\ UNCHANGED <<view, pruneVars, unwritten, publishErr, failed,
                   cache, clusterVars, queueVars, orgVars>>

ResolveCredentials ==
    /\ pc = "credentials"
    /\ pc' = "apply"
    /\ UNCHANGED <<cache, faults, clusterVars, queueVars, passVars, orgVars>>

Document == Blueprint(view, known)

----------------------------------------------------------------------------
(* Statuses.  Which state an object's conditions describe, from the pass's *)
(* verdict and the outcome of its apply.                                   *)

\* Faulty variant: the outcome of the apply is not looked at.
OutcomeOfVerdict(o, err) ==
    IF o \in Published(view, known) THEN "Programmed" ELSE "NotAccepted"

\* What the apply made of everything that was in the document.
ApplyOutcome(err) ==
    IF err THEN "PublishFailed" ELSE IF DryRun THEN "DryRun" ELSE "Programmed"

Outcome(o, err) ==
    IF o \in Published(view, known) THEN ApplyOutcome(err) ELSE "NotAccepted"

\* Empty once rejected, the key after a successful apply, and as it was after
\* a failed one.
KeyAfter(o, err) ==
    /\ o \in Published(view, known)
    /\ err => view[o].status.key

\* A route without a verdict loses the controller's entries.
RouteStatusAfter(r, err) ==
    IF r \in ServedRoutes(view) \cup UnresolvableRoutes(view)
    THEN [state |-> Outcome(r, err), ver |-> view[r].ver, key |-> FALSE]
    ELSE NoStatus

ResourceStatusAfter(o, err) ==
    [state |-> Outcome(o, err), ver |-> view[o].ver, key |-> KeyAfter(o, err)]

StatusAfter(o, err) ==
    IF o \in Routes THEN RouteStatusAfter(o, err)
    ELSE IF o \in Claimants THEN ResourceStatusAfter(o, err)
    ELSE IF o \in ServedClasses(view) \cup ServedGateways(view)
    THEN [state |-> "Programmed", ver |-> view[o].ver, key |-> FALSE]
    ELSE view[o].status

\* Only what changed is written.
Outdated(err) == {o \in Present(view, Objects) : StatusAfter(o, err) # view[o].status}

StartStatuses(err) ==
    /\ pc' = "status"
    /\ unwritten' = Outdated(err)

----------------------------------------------------------------------------
(* The apply.                                                              *)

\* Reads always reach Pangolin; changes are answered by the dry-run client.
ChangesReach == ~ DryRun

ApplySucceeds ==
    /\ publishErr' = FALSE
    /\ pc' = "list"
    /\ UNCHANGED unwritten

\* Faulty variant: the prune runs after a failed apply too.
ApplyFailsButPrunes ==
    /\ publishErr' = TRUE
    /\ pc' = "list"
    /\ UNCHANGED unwritten

ApplyFails ==
    /\ publishErr' = TRUE
    /\ StartStatuses(TRUE)

\* The request is answered: 201, or refused with nothing changed.
ApplyAnswered ==
    /\ IF ChangesReach => ~ Refuses(org, Document, sites)
       THEN ApplySucceeds ELSE ApplyFails
    /\ org' = IF ChangesReach THEN Applied(org, Document, sites) ELSE org
    /\ UNCHANGED <<faults, late>>

\* No answer, or an error in transport, whether or not it took effect.
ApplyLost ==
    /\ ChangesReach
    /\ Fault("apply")
    /\ ApplyFails
    /\ org' \in {org, Applied(org, Document, sites)}
    /\ UNCHANGED late

\* The client's 30 s are over and the request is still under way.
ApplyTimesOut ==
    /\ ChangesReach
    /\ late = NoRequest
    /\ Fault("late")
    /\ ApplyFails
    /\ late' = [op |-> "apply", doc |-> Document]
    /\ UNCHANGED org

Apply ==
    /\ pc = "apply"
    /\ ApplyAnswered \/ ApplyLost \/ ApplyTimesOut
    /\ UNCHANGED <<view, known, pruneVars, failed, sites, cache, clusterVars, queueVars>>

----------------------------------------------------------------------------
(* The prune, after a successful apply only.                               *)

LastSection == IF Licensed THEN "policy" ELSE "private"

\* On to the next section's listing, or to the statuses after the last one.
NextSection ==
    IF section = LastSection
    THEN /\ StartStatuses(FALSE)
         /\ UNCHANGED section
    ELSE /\ section' = AfterSection[section]
         /\ pc' = "list"
         /\ UNCHANGED unwritten

\* Faulty variant: foreign rows are not skipped.
OrphanedByAnyone ==
    {k \in Keys : Stored(org, section, k) /\ ~ Stored(Document, section, k)}

\* Owned rows the blueprint does not name in this section.
Orphaned ==
    {k \in OwnedKeys : Stored(org, section, k) /\ ~ Stored(Document, section, k)}

ListSection ==
    /\ pc = "list"
    /\ orphans' = Orphaned
    /\ pc' = "delete"
    /\ UNCHANGED <<view, known, section, unwritten, publishErr, failed,
                   cache, faults, clusterVars, queueVars, orgVars>>

\* A listing that fails skips its section.
SkipSection ==
    /\ pc = "list"
    /\ Fault("list")
    /\ failed' = TRUE
    /\ NextSection
    /\ UNCHANGED <<view, known, orphans, publishErr, cache, clusterVars,
                   queueVars, orgVars>>

\* A late delete names a row id: once that row is gone it can delete nothing.
VoidLate ==
    late' = IF late.op = "delete" /\ ~ Stored(org', late.section, late.key)
            THEN NoRequest ELSE late

\* Faulty variant: a failed delete is never reported.
DeleteTolerated == UNCHANGED failed

\* A delete that is refused or fails does not stop the prune; only a policy's
\* does not fail the pass.
DeleteFails == failed' = (failed \/ section # "policy")

DeleteAnswered(k) ==
    /\ UNCHANGED faults
    /\ IF ChangesReach
       THEN /\ org' = Deleted(org, section, k)
            /\ VoidLate
            /\ IF DeleteRefused(org, section, k) THEN DeleteFails ELSE UNCHANGED failed
       ELSE UNCHANGED <<org, late, failed>>

DeleteLost(k) ==
    /\ ChangesReach
    /\ Fault("delete")
    /\ DeleteFails
    /\ \/ UNCHANGED <<org, late>>
       \/ org' = Deleted(org, section, k) /\ VoidLate

DeleteTimesOut(k) ==
    /\ ChangesReach
    /\ late = NoRequest
    /\ Stored(org, section, k)
    /\ Fault("late")
    /\ DeleteFails
    /\ late' = [op |-> "delete", section |-> section, key |-> k]
    /\ UNCHANGED org

DeleteOrphan ==
    /\ pc = "delete"
    /\ \E k \in orphans :
           /\ orphans' = orphans \ {k}
           /\ DeleteAnswered(k) \/ DeleteLost(k) \/ DeleteTimesOut(k)
    /\ UNCHANGED <<pc, view, known, section, unwritten, publishErr, sites,
                   cache, clusterVars, queueVars>>

SectionPruned ==
    /\ pc = "delete"
    /\ orphans = {}
    /\ NextSection
    /\ UNCHANGED <<view, known, orphans, publishErr, failed, cache, faults,
                   clusterVars, queueVars, orgVars>>

----------------------------------------------------------------------------
(* Writing statuses.                                                       *)

StatusOrder == [classes |-> 1, gateways |-> 2, routes |-> 0, resources |-> 3,
                policies |-> 4]

FirstUnwritten ==
    {o \in unwritten :
        \A k, l \in Kinds : \A p \in unwritten :
            o \in ObjectsOf(k) /\ p \in ObjectsOf(l) => StatusOrder[k] <= StatusOrder[l]}

\* Optimistic concurrency: an object that is no longer what the pass read is
\* not overwritten, and the conflict fails the pass.
WriteStatus ==
    /\ pc = "status"
    /\ \E o \in FirstUnwritten :
           /\ unwritten' = unwritten \ {o}
           /\ IF cluster[o] = view[o]
              THEN /\ cluster' = [cluster EXCEPT ![o].status = StatusAfter(o, publishErr)]
                   /\ UNCHANGED failed
              ELSE /\ failed' = TRUE
                   /\ UNCHANGED cluster
    /\ UNCHANGED <<edits, pc, view, known, pruneVars, publishErr, cache, faults,
                   queueVars, orgVars>>

Finish ==
    /\ pc = "status"
    /\ unwritten = {}
    /\ Return
    /\ UNCHANGED faults

----------------------------------------------------------------------------
(* Faults outside the pass.                                                *)

\* A crash, or a lost leader lease: queue, timer, caches and locals are gone.
Crash ==
    /\ pc # "down"
    /\ Fault("crash")
    /\ pc' = "down"
    /\ queued' = FALSE
    /\ timer' = FALSE
    /\ cache' = NoView
    /\ ForgetPass
    /\ UNCHANGED <<clusterVars, orgVars>>

\* Faulty variant: nothing is queued for the objects found at the start.
RestartSilently ==
    /\ pc = "down"
    /\ pc' = "idle"
    /\ cache' = cluster
    /\ UNCHANGED <<queued, timer, faults, clusterVars, passVars, orgVars>>

\* The caches are filled before the first pass, one create event per object.
Restart ==
    /\ pc = "down"
    /\ pc' = "idle"
    /\ cache' = cluster
    /\ queued' = (Present(cluster, Objects) # {})
    /\ UNCHANGED <<timer, faults, clusterVars, passVars, orgVars>>

LateLands ==
    /\ late # NoRequest
    /\ org' = IF late.op = "apply" THEN Applied(org, late.doc, sites)
              ELSE Deleted(org, late.section, late.key)
    /\ late' = NoRequest
    /\ UNCHANGED <<cache, pc, faults, sites, clusterVars, queueVars, passVars>>

\* Somebody deletes a row, or a site, in Pangolin itself.
Drift ==
    /\ Fault("drift")
    /\ \/ /\ \E s \in Sections, k \in Keys :
                 /\ ~ DeleteRefused(org, s, k)
                 /\ org' = Without(org, s, k)
          /\ VoidLate
          /\ UNCHANGED sites
       \/ /\ \E gone \in sites : sites' = sites \ {gone}
          /\ UNCHANGED <<org, late>>
    /\ UNCHANGED <<cache, pc, clusterVars, queueVars, passVars>>

----------------------------------------------------------------------------
Starting(spec) == IF spec = Absent THEN Absent
                  ELSE [spec |-> spec, born |-> 0, ver |-> 0, status |-> NoStatus]

Init ==
    /\ \E spec \in [Objects -> UNION {InitialSpecs[o] : o \in Objects}] :
           /\ \A o \in Objects : spec[o] \in InitialSpecs[o]
           /\ cluster = [o \in Objects |-> Starting(spec[o])]
    /\ edits = 0
    /\ cache = cluster
    /\ queued = (Present(cluster, Objects) # {})
    /\ timer = FALSE
    /\ pc = "idle"
    /\ view = NoView
    /\ known = {}
    /\ section = "public"
    /\ orphans = {}
    /\ unwritten = {}
    /\ publishErr = FALSE
    /\ failed = FALSE
    /\ org \in InitialOrgs
    /\ sites = Sites
    /\ late = NoRequest
    /\ faults = 0

\* The steps a running controller takes by itself.
Pass ==
    \/ Begin
    \/ \E kind \in Kinds : Read(kind)
    \/ ListSites
    \/ ResolveCredentials
    \/ Apply
    \/ ListSection
    \/ DeleteOrphan
    \/ SectionPruned
    \/ WriteStatus
    \/ Finish

Next ==
    \/ \E o \in Objects : Edit(o)
    \/ \E kind \in Kinds : Deliver(kind)
    \/ TimerFires
    \/ Pass
    \/ AbortRead
    \/ SkipSection
    \/ Crash
    \/ Restart
    \/ LateLands
    \/ Drift

Spec == Init /\ [][Next]_vars

\* A controller that is up keeps going, its informers and its timer too, and a
\* crashed one is restarted.  Nothing is assumed of users, faults or a request
\* that was given up on.
Fairness ==
    /\ WF_vars(Pass)
    /\ \A kind \in Kinds : WF_vars(Deliver(kind))
    /\ WF_vars(TimerFires)
    /\ WF_vars(Restart)

FairSpec == Spec /\ Fairness

----------------------------------------------------------------------------
(* Properties.                                                             *)

\* Every variable holds a value of its type; in particular a pass never holds a
\* row without the gw- prefix for deletion (publisher.go:325).
TypeOK ==
    /\ cluster \in Views /\ cache \in Views /\ view \in Views
    /\ edits \in 0..MaxEdits
    /\ queued \in BOOLEAN /\ timer \in BOOLEAN
    /\ pc \in Locations
    /\ known \subseteq Sites
    /\ section \in Sections
    /\ orphans \subseteq OwnedKeys
    /\ unwritten \subseteq Objects
    /\ publishErr \in BOOLEAN /\ failed \in BOOLEAN
    /\ org \in Docs
    /\ sites \subseteq Sites
    /\ late \in Requests
    /\ faults \in 0..MaxFaults

\* The kinds a pass has already listed.
AlreadyRead ==
    CASE pc \in {"down", "idle", "classes"} -> {}
      [] pc = "gateways"  -> {"classes"}
      [] pc = "routes"    -> {"classes", "gateways"}
      [] pc = "resources" -> {"classes", "gateways", "routes"}
      [] pc = "policies"  -> {"classes", "gateways", "routes", "resources"}
      [] OTHER            -> Kinds

\* No wakeup is lost (publisher.go, SetupWithManager and Reconcile): whenever an
\* object this pass has already read has since changed in the cache, another
\* pass is queued; and an idle controller that has nothing queued and no timer
\* running is one that has never seen an object.
NoLostWakeup ==
    /\ \A kind \in AlreadyRead : \A o \in ObjectsOf(kind) :
           Version(view[o]) # Version(cache[o]) => queued
    /\ pc = "idle" /\ ~ queued /\ ~ timer => cache = NoView

\* Neither an effect that arrives late nor a hand in the dashboard disturbs what
\* the controller did.
Undisturbed == Faults \cap {"late", "drift"} = {} /\ ~ DryRun

\* Replacement before removal (publisher.go:199-201): for as long as a pass may
\* delete rows, every row of its own blueprint is stored as the blueprint says,
\* so renaming an object never leaves a moment without a row.
ReplacedBeforePruned ==
    Undisturbed /\ pc \in {"list", "delete"} =>
        \A s \in Sections, k \in Keys :
            Stored(Document, s, k) => org[s][k] = Document[s][k]

\* Policies go last (publisher.go:295-297): when the policies are pruned and no
\* step of the pass failed, no row of the controller's own still names one of
\* the policies about to be deleted.
PolicyPruneUnblocked ==
    Undisturbed /\ pc = "delete" /\ section = "policy" /\ ~ failed =>
        \A p \in orphans, k \in OwnedKeys :
            Stored(org, "public", k) => org["public"][k].policy # p

\* The renderer mirrors what Pangolin refuses (render.go:299, policy.go:42): a
\* document whose sites were checked is one that an organisation without rows
\* would accept, whatever the objects in the cluster are.
DocumentAcceptable ==
    pc = "apply" /\ known \subseteq sites => ~ Refuses(EmptyDoc, Document, sites)

\* What a hand-written blueprint maintains is never touched (publisher.go:281):
\* neither a step of a pass nor a request landing late changes a row without
\* the gw- prefix.
ForeignRowsUntouched ==
    [][Pass \/ LateLands =>
          \A s \in Sections, k \in ForeignKeys : org'[s][k] = org[s][k]]_vars

\* Programmed is told only of what is live (publisher.go:476): when a status is
\* written that says Programmed, the row of the copy it describes is stored.
ProgrammedOnlyWhenLive ==
    [][Undisturbed =>
         \A o \in Claimants :
            /\ cluster[o] # Absent /\ cluster'[o] # Absent
            /\ cluster'[o].status # cluster[o].status
            /\ cluster'[o].status.state = "Programmed"
            => org[SectionOf(cluster, o)][KeyOf[o]] = RowOf(cluster, o)]_vars

\* status.resourceKey is the niceId the resource has in Pangolin, while it is
\* published (privateresource_types.go:110), and after a failed apply a live one
\* keeps its own (publisher.go:452): whenever a status is written that carries a
\* key, a row is stored under it.  This does not hold: a dry run sets keys, and a
\* key kept after a failed apply may be one whose row is gone.
KeyNamesRow ==
    [][\A o \in PrivateResources \cup Policies :
            /\ cluster[o] # Absent /\ cluster'[o] # Absent
            /\ cluster'[o].status # cluster[o].status
            /\ cluster'[o].status.key
            => Stored(org, SectionOf(cluster, o), KeyOf[o])]_vars

\* The organisation holds exactly what the cluster asks for, and every status
\* says so.
Wanted == Blueprint(cluster, sites)

PrunedSections == IF Licensed THEN Sections ELSE Sections \ {"policy"}

Converged ==
    /\ \A s \in PrunedSections, k \in OwnedKeys : org[s][k] = Wanted[s][k]
    /\ \A o \in Present(cluster, Claimants) :
           /\ cluster[o].status.state = "Programmed" <=> o \in Published(cluster, sites)
           /\ o \notin Routes => (cluster[o].status.key <=> o \in Published(cluster, sites))

\* Whatever fails, once users and faults have come to rest the controller makes
\* the organisation, the statuses and the keys in them agree with the cluster, and
\* they stay so (publisher.go:36-39 and 219-223).
Converges == <>[]Converged

\* A deleted object is simply absent from the next render, which is what removes
\* it (README.md:31): a row nothing asks for any more is eventually gone for good.
OrphansRemoved ==
    \A s \in PrunedSections, k \in OwnedKeys :
        <>[](~ Stored(Wanted, s, k)) => <>[](~ Stored(org, s, k))
=============================================================================
