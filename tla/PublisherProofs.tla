--------------------------- MODULE PublisherProofs ---------------------------
(***************************************************************************)
(* Theorems about Publisher, for every cluster, every bound and every set  *)
(* of faults.                                                              *)
(***************************************************************************)
EXTENDS PublisherRefinement, WellFoundedInduction, TLAPS

USE DEF Sections, OwnedKeys

----------------------------------------------------------------------------
(* The organisation and the blueprint.                                     *)

\* A merge, and so an apply, yields an organisation.
LEMMA AppliedType ==
    ASSUME NEW o \in Docs, NEW d \in Docs, NEW known_sites
    PROVE  /\ Merged(o, d) \in Docs
           /\ Applied(o, d, known_sites) \in Docs
  BY DEF Merged, Applied, Docs, Tables, Stored

\* So does a delete.
LEMMA DeletedType ==
    ASSUME NEW o \in Docs, NEW s \in Sections, NEW k \in Keys
    PROVE  /\ Without(o, s, k) \in Docs
           /\ Deleted(o, s, k) \in Docs
  BY DEF Without, Deleted, Docs, Tables

\* A delete of an owned row leaves foreign rows alone.
LEMMA DeletedForeign ==
    ASSUME NEW o \in Docs, NEW s \in Sections, NEW k \in OwnedKeys,
           NEW t \in Sections, NEW j \in ForeignKeys
    PROVE  Deleted(o, s, k)[t][j] = o[t][j]
  BY KeysAssumption DEF Deleted, Without, Docs, Tables

\* An apply of a document without foreign keys leaves foreign rows alone.
LEMMA AppliedForeign ==
    ASSUME NEW o \in Docs, NEW d \in OwnedDocs, NEW known_sites,
           NEW s \in Sections, NEW k \in ForeignKeys
    PROVE  Applied(o, d, known_sites)[s][k] = o[s][k]
  BY KeysAssumption DEF Applied, Merged, OwnedDocs, Docs, Tables, Stored

\* Only objects the pass has read are published.
LEMMA PublishedPresent ==
    ASSUME NEW v, NEW names
    PROVE  /\ Published(v, names) \subseteq Present(v, Claimants)
           /\ AcceptedPolicies(v) \subseteq Present(v, Policies)
  <1>1. \A C : Winners(v, C) \subseteq C
    BY DEF Winners
  <1>2. AcceptedPolicies(v) \subseteq Present(v, Policies)
    BY <1>1 DEF AcceptedPolicies, ValidPolicies, Present
  <1>3. Candidates(v, names) \subseteq Present(v, Routes \cup PrivateResources)
    BY DEF Candidates, ValidRoutes, ValidResources, ServedRoutes, Present
  <1>4. QED
    BY <1>1, <1>2, <1>3 DEF Published, Claimants, Present

\* A published object yields a row under an owned key.
LEMMA RowType ==
    ASSUME NEW v \in Views, NEW names, NEW o \in Published(v, names)
    PROVE  RowOf(v, o) \in Rows /\ KeyOf[o] \in OwnedKeys
  <1>1. o \in Claimants /\ v[o] # Absent
    BY PublishedPresent DEF Present
  <1>2. v[o].spec \in Specs
    BY <1>1 DEF Views, Copies, Claimants, Objects
  <1>3. KeyOf[o] \in OwnedKeys
    BY <1>1, KeyOfAssumption
  <1>4. v[o].spec.policy # None => KeyOf[v[o].spec.policy] \in Keys
    BY <1>2, KeyOfAssumption DEF Specs, Claimants
  <1>5. QED
    BY <1>2, <1>3, <1>4 DEF RowOf, Rows, Specs

\* The blueprint is a document that names owned keys only.
LEMMA BlueprintType ==
    ASSUME NEW v \in Views, NEW names
    PROVE  Blueprint(v, names) \in OwnedDocs
  <1>1. \A o \in Published(v, names) : RowOf(v, o) \in Rows /\ KeyOf[o] \in OwnedKeys
    BY RowType
  <1>2. ASSUME NEW s \in Sections, NEW k \in Keys
        PROVE  /\ Blueprint(v, names)[s][k] \in Rows \cup {NoRow}
               /\ k \in ForeignKeys => Blueprint(v, names)[s][k] = NoRow
    <2> DEFINE claim == {o \in Published(v, names) : KeyOf[o] = k /\ SectionOf(v, o) = s}
    <2>1. Blueprint(v, names)[s][k] =
             IF claim = {} THEN NoRow ELSE RowOf(v, CHOOSE o \in claim : TRUE)
      BY DEF Blueprint
    <2>2. claim # {} => (CHOOSE o \in claim : TRUE) \in claim
      OBVIOUS
    <2>3. claim # {} => k \notin ForeignKeys
      BY <1>1
    <2>4. QED
      BY <1>1, <2>1, <2>2, <2>3
  <1>3. Blueprint(v, names) \in Docs
    BY <1>2 DEF Docs, Tables, Blueprint
  <1>4. QED
    BY <1>2, <1>3, KeysAssumption DEF OwnedDocs

----------------------------------------------------------------------------
(* Type correctness.                                                       *)

\* The status a pass computes for an object it has read.
LEMMA StatusAfterType ==
    ASSUME TypeOK, NEW o \in Objects, view[o] # Absent, NEW err \in BOOLEAN
    PROVE  StatusAfter(o, err) \in Statuses
  <1>1. view[o] \in Copies
    BY DEF TypeOK, Views
  <1>2. Outcome(o, err) \in States
    BY DEF Outcome, ApplyOutcome, States
  <1>3. KeyAfter(o, err) \in BOOLEAN
    BY <1>1 DEF KeyAfter, Copies, Statuses
  <1>4. NoStatus \in Statuses
    BY BoundsAssumption DEF NoStatus, Statuses, States
  <1>5. QED
    BY <1>1, <1>2, <1>3, <1>4
    DEF StatusAfter, RouteStatusAfter, ResourceStatusAfter, Statuses, Copies, States

\* What ends a pass leaves the pass's own variables typed.
LEMMA ForgetPassType ==
    ASSUME ForgetPass
    PROVE  /\ view' \in Views /\ known' \subseteq Sites /\ section' \in Sections
           /\ orphans' \subseteq OwnedKeys /\ unwritten' \subseteq Objects
           /\ publishErr' \in BOOLEAN /\ failed' \in BOOLEAN
  BY DEF ForgetPass, NoView, Views

\* So does the choice of the objects whose status is to be written.
LEMMA StartStatusesType ==
    ASSUME NEW err, StartStatuses(err)
    PROVE  pc' \in Locations /\ unwritten' \subseteq Objects
  BY DEF StartStatuses, Outdated, Present, Locations

\* A pass goes on to another section or to the statuses.
LEMMA NextSectionType ==
    ASSUME TypeOK, NextSection
    PROVE  pc' \in Locations /\ unwritten' \subseteq Objects /\ section' \in Sections
  <1>1. CASE section = LastSection
    BY <1>1, StartStatusesType DEF NextSection, TypeOK
  <1>2. CASE section # LastSection
    <2>1. AfterSection[section] \in Sections
      BY DEF AfterSection, TypeOK
    <2>2. QED
      BY <1>2, <2>1 DEF NextSection, TypeOK, Locations
  <1>3. QED
    BY <1>1, <1>2

\* The initial states are typed.
LEMMA InitType == Init => TypeOK
  <1> SUFFICES ASSUME Init PROVE TypeOK
    OBVIOUS
  <1>1. cluster \in Views
    <2>1. PICK spec \in [Objects -> UNION {InitialSpecs[o] : o \in Objects}] :
              /\ \A o \in Objects : spec[o] \in InitialSpecs[o]
              /\ cluster = [o \in Objects |-> Starting(spec[o])]
      BY DEF Init
    <2>2. \A o \in Objects : spec[o] \in Specs \cup {Absent}
      BY <2>1, SpecsAssumption
    <2>3. NoStatus \in Statuses /\ 0 \in 0..MaxEdits
      BY BoundsAssumption DEF NoStatus, Statuses, States
    <2>4. \A o \in Objects : Starting(spec[o]) \in Copies \cup {Absent}
      BY <2>2, <2>3 DEF Starting, Copies
    <2>5. QED
      BY <2>1, <2>4 DEF Views
  <1>2. NoView \in Views
    BY DEF NoView, Views
  <1>3. org \in Docs
    BY SpecsAssumption DEF Init
  <1>4. edits \in 0..MaxEdits /\ faults \in 0..MaxFaults
    BY BoundsAssumption DEF Init
  <1>5. queued \in BOOLEAN /\ timer \in BOOLEAN /\ publishErr \in BOOLEAN /\ failed \in BOOLEAN
    BY Zenon DEF Init
  <1>6. late \in Requests /\ pc \in Locations /\ section \in Sections
    BY DEF Init, Requests, Locations
  <1>7. QED
    BY <1>1, <1>2, <1>3, <1>4, <1>5, <1>6 DEF Init, TypeOK

\* Users write objects of the right shape.
LEMMA EditType ==
    ASSUME TypeOK, NEW o \in Objects, Edit(o)
    PROVE  TypeOK'
  <1>1. edits' \in 0..MaxEdits /\ edits + 1 \in 0..MaxEdits
    BY BoundsAssumption DEF TypeOK, Edit
  <1>2. NoStatus \in Statuses
    BY BoundsAssumption DEF NoStatus, Statuses, States
  <1>3. \A spec \in Specs : Created(spec) \in Copies
    BY <1>1, <1>2 DEF Created, Copies
  <1>4. \A spec \in Specs : cluster[o] # Absent => Updated(cluster[o], spec) \in Copies
    BY <1>1 DEF Updated, Copies, TypeOK, Views
  <1>5. SpecsOf[o] \subseteq Specs \cup {Absent}
    BY SpecsAssumption
  <1>6. cluster' \in Views
    BY <1>3, <1>4, <1>5 DEF Edit, TypeOK, Views
  <1>7. QED
    BY <1>1, <1>6 DEF Edit, TypeOK, queueVars, passVars, orgVars

\* Only objects the pass has read get a status, and only in its last phase.
\* Without it TypeOK is not inductive: the status of an absent copy has no type.
PassLocals ==
    /\ unwritten \subseteq Present(view, Objects)
    /\ pc # "status" => unwritten = {}

\* Every step keeps the types.
LEMMA NextType == TypeOK /\ PassLocals /\ [Next]_vars => TypeOK'
  <1> SUFFICES ASSUME TypeOK, PassLocals, [Next]_vars PROVE TypeOK'
    OBVIOUS
  <1> USE DEF clusterVars, queueVars, pruneVars, passVars, orgVars
  <1>1. ASSUME NEW o \in Objects, Edit(o) PROVE TypeOK'
    BY <1>1, EditType
  <1>2. ASSUME NEW kind \in Kinds, Deliver(kind) PROVE TypeOK'
    BY <1>2 DEF Deliver, TypeOK, Views
  <1>3. CASE TimerFires
    BY <1>3 DEF TimerFires, TypeOK
  <1>4. CASE Begin
    BY <1>4 DEF Begin, TypeOK, Locations, Kinds
  <1>5. ASSUME NEW kind \in Kinds, Read(kind) PROVE TypeOK'
    BY <1>5 DEF Read, TypeOK, Views, Locations, Kinds, AfterRead
  <1>6. CASE ListSites
    BY <1>6, BoundsAssumption DEF ListSites, Fault, CanFail, TypeOK, Locations
  <1>7. CASE ResolveCredentials
    BY <1>7 DEF ResolveCredentials, TypeOK, Locations
  <1>8. CASE Apply
    <2>1. Document \in OwnedDocs
      BY BlueprintType DEF Document, TypeOK
    <2>2. Applied(org, Document, sites) \in Docs
      BY <2>1, AppliedType DEF TypeOK, OwnedDocs
    <2>3. ApplySucceeds \/ ApplyFails =>
              pc' \in Locations /\ unwritten' \subseteq Objects /\ publishErr' \in BOOLEAN
      BY StartStatusesType DEF ApplySucceeds, ApplyFails, TypeOK, Locations
    <2>4. ApplyAnswered \/ ApplyLost \/ ApplyTimesOut => ApplySucceeds \/ ApplyFails
      BY DEF ApplyAnswered, ApplyLost, ApplyTimesOut
    <2>5. ApplyAnswered \/ ApplyLost \/ ApplyTimesOut =>
              org' \in Docs /\ late' \in Requests /\ faults' \in 0..MaxFaults
      BY <2>1, <2>2, BoundsAssumption
      DEF ApplyAnswered, ApplyLost, ApplyTimesOut, Fault, CanFail, TypeOK, Requests
    <2>6. QED
      BY <1>8, <2>3, <2>4, <2>5 DEF Apply, TypeOK
  <1>9. CASE ListSection
    BY <1>9 DEF ListSection, Orphaned, TypeOK, Locations
  <1>10. CASE DeleteOrphan
    <2>1. PICK k \in orphans :
              /\ orphans' = orphans \ {k}
              /\ DeleteAnswered(k) \/ DeleteLost(k) \/ DeleteTimesOut(k)
      BY <1>10 DEF DeleteOrphan
    <2>2. k \in OwnedKeys
      BY DEF TypeOK
    <2>3. Deleted(org, section, k) \in Docs
      BY <2>2, DeletedType DEF TypeOK
    <2>4. VoidLate => late' \in Requests
      BY DEF VoidLate, TypeOK, Requests
    <2>5. org' \in Docs /\ late' \in Requests
      BY <2>1, <2>2, <2>3, <2>4
      DEF DeleteAnswered, DeleteLost, DeleteTimesOut, TypeOK, Requests
    <2>6. failed' \in BOOLEAN
      BY <2>1, Zenon
      DEF DeleteAnswered, DeleteLost, DeleteTimesOut, DeleteFails, TypeOK
    <2>7. faults' \in 0..MaxFaults
      BY <2>1, BoundsAssumption
      DEF DeleteAnswered, DeleteLost, DeleteTimesOut, Fault, CanFail, TypeOK
    <2>8. QED
      BY <1>10, <2>1, <2>5, <2>6, <2>7 DEF DeleteOrphan, TypeOK
  <1>11. CASE SectionPruned
    BY <1>11, NextSectionType DEF SectionPruned, TypeOK
  <1>12. CASE WriteStatus
    <2>1. PICK o \in FirstUnwritten :
              /\ unwritten' = unwritten \ {o}
              /\ IF cluster[o] = view[o]
                 THEN /\ cluster' = [cluster EXCEPT ![o].status = StatusAfter(o, publishErr)]
                      /\ UNCHANGED failed
                 ELSE failed' = TRUE /\ UNCHANGED cluster
      BY <1>12 DEF WriteStatus
    <2>2. o \in Objects
      BY DEF FirstUnwritten, TypeOK
    <2>3. cluster' \in Views
      <3>1. CASE cluster[o] = view[o] /\ view[o] # Absent
        BY <2>1, <2>2, <3>1, StatusAfterType DEF TypeOK, Views, Copies
      <3>2. CASE cluster[o] # view[o]
        BY <2>1, <3>2 DEF TypeOK
      <3>3. view[o] # Absent
        BY DEF FirstUnwritten, PassLocals, Present
      <3>4. QED
        BY <3>1, <3>2, <3>3
    <2>4. QED
      BY <1>12, <2>1, <2>3 DEF WriteStatus, TypeOK
  <1>13. CASE Finish
    BY <1>13, ForgetPassType DEF Finish, Return, TypeOK, Locations
  <1>14. CASE AbortRead
    BY <1>14, ForgetPassType, BoundsAssumption
    DEF AbortRead, Return, Fault, CanFail, TypeOK, Locations
  <1>15. CASE SkipSection
    <2>1. faults' \in 0..MaxFaults
      BY <1>15, BoundsAssumption DEF SkipSection, Fault, CanFail, TypeOK
    <2>2. QED
      BY <1>15, <2>1, NextSectionType DEF SkipSection, TypeOK
  <1>16. CASE Crash
    <2>1. faults' \in 0..MaxFaults
      BY <1>16, BoundsAssumption DEF Crash, Fault, CanFail, TypeOK
    <2>2. cache' \in Views /\ pc' \in Locations
      BY <1>16 DEF Crash, NoView, Views, Locations
    <2>3. QED
      BY <1>16, <2>1, <2>2, ForgetPassType DEF Crash, TypeOK
  <1>17. CASE Restart
    BY <1>17 DEF Restart, TypeOK, Locations
  <1>18. CASE LateLands
    <2>1. late \in Requests \ {NoRequest}
      BY <1>18 DEF LateLands, TypeOK
    <2>2. CASE late.op = "apply"
      BY <1>18, <2>1, <2>2, AppliedType
      DEF LateLands, TypeOK, Requests, NoRequest, OwnedDocs
    <2>3. CASE late.op = "delete"
      BY <1>18, <2>1, <2>3, DeletedType DEF LateLands, TypeOK, Requests, NoRequest
    <2>4. QED
      BY <2>1, <2>2, <2>3 DEF Requests, NoRequest
  <1>19. CASE Drift
    <2>1. VoidLate => late' \in Requests
      BY DEF VoidLate, TypeOK, Requests
    <2>2. org' \in Docs /\ late' \in Requests /\ sites' \subseteq Sites
      BY <1>19, <2>1, DeletedType DEF Drift, TypeOK
    <2>3. QED
      BY <1>19, <2>2, BoundsAssumption DEF Drift, Fault, CanFail, TypeOK
  <1>20. CASE UNCHANGED vars
    BY <1>20 DEF vars, TypeOK
  <1>21. QED
    BY <1>1, <1>2, <1>3, <1>4, <1>5, <1>6, <1>7, <1>8, <1>9, <1>10, <1>11, <1>12,
       <1>13, <1>14, <1>15, <1>16, <1>17, <1>18, <1>19, <1>20 DEF Next, Pass

\* Every step keeps what TypeOK rests on.
LEMMA NextLocals == TypeOK /\ PassLocals /\ [Next]_vars => PassLocals'
  <1> SUFFICES ASSUME TypeOK, PassLocals, [Next]_vars PROVE PassLocals'
    OBVIOUS
  <1> USE DEF clusterVars, queueVars, pruneVars, passVars, orgVars
  <1>1. ASSUME UNCHANGED <<pc, view, unwritten>> PROVE PassLocals'
    BY <1>1 DEF PassLocals, Present
  <1>2. ASSUME unwritten' = {} PROVE PassLocals'
    BY <1>2 DEF PassLocals, Present
  <1>3. ASSUME NEW err, StartStatuses(err), view' = view PROVE PassLocals'
    BY <1>3 DEF PassLocals, StartStatuses, Outdated, Present
  <1>4. ForgetPass => unwritten' = {}
    BY DEF ForgetPass
  <1>5. ASSUME pc # "status", NextSection, view' = view PROVE PassLocals'
    BY <1>2, <1>3, <1>5 DEF NextSection, PassLocals
  <1>6. CASE \/ \E o \in Objects : Edit(o)
             \/ \E kind \in Kinds : Deliver(kind)
             \/ TimerFires \/ LateLands \/ Drift \/ DeleteOrphan \/ UNCHANGED vars
    BY <1>1, <1>6 DEF Edit, Deliver, TimerFires, LateLands, Drift, DeleteOrphan, vars
  <1>7. CASE \/ Begin \/ (\E kind \in Kinds : Read(kind)) \/ ListSites
             \/ ResolveCredentials \/ ListSection \/ Restart
    BY <1>2, <1>7
    DEF Begin, Read, ListSites, ResolveCredentials, ListSection, Restart, PassLocals, Kinds
  <1>8. CASE Apply
    BY <1>2, <1>3, <1>8
    DEF Apply, ApplyAnswered, ApplyLost, ApplyTimesOut, ApplySucceeds, ApplyFails, PassLocals
  <1>9. CASE SectionPruned \/ SkipSection
    BY <1>5, <1>9 DEF SectionPruned, SkipSection
  <1>10. CASE WriteStatus
    BY <1>10 DEF WriteStatus, PassLocals, Present
  <1>11. CASE Finish \/ AbortRead \/ Crash
    BY <1>2, <1>4, <1>11 DEF Finish, AbortRead, Return, Crash
  <1>12. QED
    BY <1>6, <1>7, <1>8, <1>9, <1>10, <1>11 DEF Next, Pass

\* Every variable holds a value of its type, and a pass never holds a row without
\* the gw- prefix for deletion (pruneSection, publisher.go:325).
THEOREM Typing == Spec => []TypeOK
  <1>1. Init => PassLocals
    BY DEF Init, PassLocals, Present
  <1>2. QED
    BY <1>1, InitType, NextType, NextLocals, PTL DEF Spec

----------------------------------------------------------------------------
(* What a hand-written blueprint maintains.                                *)

\* A step of a pass, or a request landing late, touches owned rows only.
LEMMA StepForeign ==
    ASSUME TypeOK, Pass \/ LateLands, NEW s \in Sections, NEW k \in ForeignKeys
    PROVE  org'[s][k] = org[s][k]
  <1> USE DEF clusterVars, queueVars, pruneVars, passVars, orgVars
  <1>1. ASSUME NEW j \in OwnedKeys, NEW t \in Sections
        PROVE  Deleted(org, t, j)[s][k] = org[s][k]
    BY DeletedForeign DEF TypeOK
  <1>2. CASE Apply
    <2>1. Applied(org, Document, sites)[s][k] = org[s][k]
      BY AppliedForeign, BlueprintType DEF Document, TypeOK
    <2>2. QED
      BY <1>2, <2>1 DEF Apply, ApplyAnswered, ApplyLost, ApplyTimesOut
  <1>3. CASE DeleteOrphan
    BY <1>1, <1>3 DEF DeleteOrphan, DeleteAnswered, DeleteLost, DeleteTimesOut, TypeOK
  <1>4. CASE LateLands
    <2>1. late.op = "apply" => late.doc \in OwnedDocs
      BY <1>4 DEF LateLands, TypeOK, Requests, NoRequest
    <2>2. late.op # "apply" => late.section \in Sections /\ late.key \in OwnedKeys
      BY <1>4 DEF LateLands, TypeOK, Requests, NoRequest
    <2>3. QED
      BY <1>1, <1>4, <2>1, <2>2, AppliedForeign DEF LateLands, TypeOK
  <1>5. CASE \/ Begin \/ (\E kind \in Kinds : Read(kind)) \/ ListSites
             \/ ResolveCredentials \/ ListSection \/ SectionPruned
             \/ WriteStatus \/ Finish
    BY <1>5 DEF Begin, Read, ListSites, ResolveCredentials, ListSection, SectionPruned,
                WriteStatus, Finish, Return
  <1>6. QED
    BY <1>2, <1>3, <1>4, <1>5 DEF Pass

\* No step of a pass and no late request changes a row without the gw- prefix
\* (publisher.go:281).
THEOREM ForeignRows == Spec => ForeignRowsUntouched
  <1>1. TypeOK /\ [Next]_vars =>
           [Pass \/ LateLands =>
               \A s \in Sections, k \in ForeignKeys : org'[s][k] = org[s][k]]_vars
    BY StepForeign
  <1>2. QED
    BY <1>1, Typing, PTL DEF Spec, ForeignRowsUntouched
----------------------------------------------------------------------------
(* Wakeups.                                                                *)

\* An object that exists has a version, an absent one none.
LEMMA VersionOfAbsent ==
    ASSUME NEW copy
    PROVE  Version(copy) = Version(Absent) => copy = Absent
  BY DEF Version

\* Nothing has been seen before the first pass.
LEMMA WakeupInit == Init => NoLostWakeup
  <1> SUFFICES ASSUME Init PROVE NoLostWakeup
    OBVIOUS
  <1>1. AlreadyRead = {}
    BY DEF Init, AlreadyRead
  <1>2. ~ queued => cache = NoView
    <2>1. cluster \in [Objects -> Copies \cup {Absent}]
      BY InitType DEF TypeOK, Views
    <2>2. QED
      BY <2>1 DEF Init, Present, NoView
  <1>3. QED
    BY <1>1, <1>2 DEF NoLostWakeup

\* What the pass has read, event by event and read by read.
LEMMA WakeupStep == TypeOK /\ NoLostWakeup /\ [Next]_vars => NoLostWakeup'
  <1> SUFFICES ASSUME TypeOK, NoLostWakeup, [Next]_vars PROVE NoLostWakeup'
    OBVIOUS
  <1> USE DEF clusterVars, queueVars, pruneVars, passVars, orgVars
  <1> DEFINE Seen == \A kind \in AlreadyRead : \A o \in ObjectsOf(kind) :
                         Version(view[o]) # Version(cache[o]) => queued
             Awake == pc = "idle" /\ ~ queued /\ ~ timer => cache = NoView
  <1>1. Seen /\ Awake
    BY DEF NoLostWakeup
  <1>2. Seen' /\ Awake' => NoLostWakeup'
    BY DEF NoLostWakeup
  <1> HIDE DEF Seen, Awake
  \* The pass has not read anything, or nothing it has not already judged.
  <1>3. ASSUME AlreadyRead' \subseteq AlreadyRead, UNCHANGED <<view, cache, queued>>
        PROVE  Seen'
    BY <1>1, <1>3 DEF Seen, Version
  <1>4. ASSUME AlreadyRead' = {} PROVE Seen'
    BY <1>4 DEF Seen
  <1>5. ASSUME UNCHANGED pc PROVE AlreadyRead' = AlreadyRead
    BY <1>5 DEF AlreadyRead
  <1>6. ASSUME pc \notin Kinds \cup {"idle", "down"} PROVE AlreadyRead = Kinds
    BY <1>6 DEF AlreadyRead, Kinds
  <1>7. AlreadyRead' \subseteq Kinds
    BY DEF AlreadyRead, Kinds
  <1>8. ASSUME pc' # "idle" PROVE Awake'
    BY <1>8 DEF Awake
  <1>9. ASSUME NEW kind \in Kinds, Deliver(kind) PROVE NoLostWakeup'
    <2>1. AlreadyRead' = AlreadyRead
      BY <1>5, <1>9 DEF Deliver
    <2>2. ObjectsOf(kind) \subseteq Objects /\ \A l \in Kinds : ObjectsOf(l) \subseteq Objects
      BY DEF ObjectsOf, Objects, Kinds
    <2>3. \A o \in Objects : cache'[o] = IF o \in ObjectsOf(kind) THEN cluster[o] ELSE cache[o]
      BY <1>9 DEF Deliver
    <2>4. \A o \in Objects : Version(cache'[o]) # Version(cache[o]) => queued'
      BY <1>9, <2>3 DEF Deliver
    <2>5. queued => queued'
      BY <1>9 DEF Deliver
    <2>6. Seen'
      <3> SUFFICES ASSUME NEW l \in AlreadyRead, NEW o \in ObjectsOf(l),
                          Version(view[o]) # Version(cache'[o])
                   PROVE  queued'
        BY <1>9, <2>1 DEF Seen, Version, Deliver
      <3>1. o \in Objects
        BY <1>7, <2>1, <2>2
      <3>2. CASE Version(cache'[o]) # Version(cache[o])
        BY <2>4, <3>1, <3>2
      <3>3. CASE Version(cache'[o]) = Version(cache[o])
        BY <1>1, <2>5, <3>3 DEF Seen
      <3>4. QED
        BY <3>2, <3>3
    <2>7. Awake'
      <3> SUFFICES ASSUME pc = "idle", ~ timer, ~ queued' PROVE cache' = NoView
        BY <1>9 DEF Awake, Deliver
      <3>1. cache = NoView
        BY <1>1, <2>5 DEF Awake
      <3>2. \A o \in Objects : cache[o] = Absent
        BY <3>1 DEF NoView
      <3>3. \A o \in Objects : cache'[o] = Absent
        BY <2>4, <3>2, VersionOfAbsent
      <3>4. QED
        BY <1>9, <3>3 DEF Deliver, NoView
    <2>8. QED
      BY <1>2, <2>6, <2>7
  <1>10. CASE TimerFires
    BY <1>10 DEF TimerFires, NoLostWakeup
  <1>11. CASE Begin
    BY <1>2, <1>4, <1>8, <1>11 DEF Begin, AlreadyRead
  <1>12. ASSUME NEW kind \in Kinds, Read(kind) PROVE NoLostWakeup'
    <2>1. AlreadyRead' \subseteq AlreadyRead \cup {kind}
      BY <1>12 DEF Read, AlreadyRead, AfterRead, Kinds
    <2>2. \A l \in Kinds : ObjectsOf(l) \subseteq Objects
      BY DEF ObjectsOf, Objects, Kinds
    <2>3. \A o \in Objects : view'[o] = IF o \in ObjectsOf(kind) THEN cache[o] ELSE view[o]
      BY <1>12 DEF Read
    <2>4. Seen'
      <3> SUFFICES ASSUME NEW l \in AlreadyRead', NEW o \in ObjectsOf(l),
                          Version(view'[o]) # Version(cache[o])
                   PROVE  queued
        BY <1>12 DEF Seen, Version, Read
      <3>1. o \in Objects
        BY <1>7, <2>2
      <3>2. o \notin ObjectsOf(kind) /\ view'[o] = view[o]
        BY <2>3, <3>1
      <3>3. l \in AlreadyRead
        BY <2>1, <3>2
      <3>4. QED
        BY <1>1, <3>2, <3>3 DEF Seen
    <2>5. pc' # "idle"
      BY <1>12 DEF Read, AfterRead, Kinds
    <2>6. QED
      BY <1>2, <1>8, <2>4, <2>5
  <1>13. CASE AbortRead \/ Finish
    BY <1>2, <1>4, <1>13 DEF AbortRead, Finish, Return, AlreadyRead, Awake
  <1>14. CASE Crash
    BY <1>2, <1>4, <1>8, <1>14 DEF Crash, AlreadyRead
  <1>15. CASE Restart
    <2>1. AlreadyRead' = {}
      BY <1>15 DEF Restart, AlreadyRead
    <2>2. ~ queued' => cache' = NoView
      BY <1>15 DEF Restart, Present, NoView, TypeOK, Views
    <2>3. QED
      BY <1>2, <1>4, <2>1, <2>2 DEF Awake
  <1>16. CASE \/ ListSites \/ ResolveCredentials \/ Apply \/ ListSection
              \/ SkipSection \/ SectionPruned
    <2>1. pc \notin Kinds \cup {"idle", "down"} /\ UNCHANGED <<view, cache, queued>>
      BY <1>16 DEF ListSites, ResolveCredentials, Apply, ListSection, SkipSection,
                   SectionPruned, Kinds
    <2>2. pc' # "idle"
      BY <1>16 DEF ListSites, ResolveCredentials, Apply, ApplyAnswered, ApplyLost,
                   ApplyTimesOut, ApplySucceeds, ApplyFails, ListSection, SkipSection,
                   SectionPruned, NextSection, StartStatuses
    <2>3. QED
      BY <1>2, <1>3, <1>6, <1>7, <1>8, <2>1, <2>2
  <1>17. CASE \/ \E o \in Objects : Edit(o)
              \/ DeleteOrphan \/ WriteStatus \/ LateLands \/ Drift \/ UNCHANGED vars
    <2>1. UNCHANGED <<pc, view, cache, queued, timer>>
      BY <1>17 DEF Edit, DeleteOrphan, WriteStatus, LateLands, Drift, vars
    <2>2. QED
      BY <1>1, <1>2, <1>3, <1>5, <2>1 DEF Awake
  <1>18. QED
    BY <1>9, <1>10, <1>11, <1>12, <1>13, <1>14, <1>15, <1>16, <1>17 DEF Next, Pass

\* No wakeup is lost, however events, passes, timers, crashes and restarts
\* interleave (SetupWithManager and Reconcile, publisher.go:66).
THEOREM NoWakeupLost == Spec => []NoLostWakeup
  <1>1. QED
    BY WakeupInit, WakeupStep, Typing, PTL DEF Spec
----------------------------------------------------------------------------
(* Replacement before removal.                                             *)

\* Every row of the pass's blueprint is stored as the blueprint says.
AllReplaced == \A s \in Sections, k \in Keys :
                   Stored(Document, s, k) => org[s][k] = Document[s][k]

\* The inductive form of ReplacedBeforePruned: nothing is under way that could
\* land later, and nothing about to be deleted is in the blueprint.
PruneInv ==
    Undisturbed =>
        /\ late = NoRequest
        /\ pc \in {"list", "delete"} => AllReplaced
        /\ pc = "delete" => \A k \in orphans : ~ Stored(Document, section, k)

\* An accepted apply stores every row of its document.
LEMMA AppliedStores ==
    ASSUME NEW o \in Docs, NEW d \in Docs, NEW known_sites, ~ Refuses(o, d, known_sites),
           NEW s \in Sections, NEW k \in Keys, Stored(d, s, k)
    PROVE  Applied(o, d, known_sites)[s][k] = d[s][k]
  BY DEF Applied, Merged

\* A delete changes at most the row it names.
LEMMA DeletedElsewhere ==
    ASSUME NEW o \in Docs, NEW s \in Sections, NEW k \in Keys,
           NEW t \in Sections, NEW j \in Keys, t # s \/ j # k
    PROVE  Deleted(o, s, k)[t][j] = o[t][j]
  BY DEF Deleted, Without, Docs, Tables

\* No step lets go of the blueprint while rows may be deleted.
LEMMA PruneStep == TypeOK /\ PruneInv /\ [Next]_vars => PruneInv'
  <1> SUFFICES ASSUME TypeOK, PruneInv, [Next]_vars, Undisturbed PROVE PruneInv'
    BY DEF PruneInv, Undisturbed
  <1> USE DEF clusterVars, queueVars, pruneVars, passVars, orgVars
  <1>1. late = NoRequest
    BY DEF PruneInv
  <1>2. ~ DryRun /\ ~ CanFail("late") /\ ~ CanFail("drift")
    BY DEF Undisturbed, CanFail
  <1>3. ASSUME UNCHANGED <<view, known>> PROVE Document' = Document
    BY <1>3 DEF Document
  \* Steps that leave the pass where it is, or outside the prune.
  <1>4. ASSUME UNCHANGED <<pc, view, known, section, orphans, org, late>> PROVE PruneInv'
    BY <1>3, <1>4 DEF PruneInv, AllReplaced, Stored
  <1>5. ASSUME pc' \notin {"list", "delete"}, late' = late PROVE PruneInv'
    BY <1>1, <1>5 DEF PruneInv
  <1>6. CASE \/ \E o \in Objects : Edit(o)
             \/ \E kind \in Kinds : Deliver(kind)
             \/ TimerFires \/ WriteStatus \/ UNCHANGED vars
    BY <1>4, <1>6 DEF Edit, Deliver, TimerFires, WriteStatus, vars
  <1>7. CASE \/ Begin \/ (\E kind \in Kinds : Read(kind)) \/ ListSites
             \/ ResolveCredentials \/ Finish \/ AbortRead \/ Crash \/ Restart
    BY <1>5, <1>7
    DEF Begin, Read, ListSites, ResolveCredentials, Finish, AbortRead, Return, Crash,
        Restart, AfterRead, Kinds
  <1>8. CASE Apply
    <2>1. Document' = Document
      BY <1>3, <1>8 DEF Apply
    <2>2. late' = late
      BY <1>2, <1>8 DEF Apply, ApplyAnswered, ApplyLost, ApplyTimesOut, Fault
    <2>3. CASE pc' # "list"
      BY <1>5, <1>8, <2>2, <2>3
      DEF Apply, ApplyAnswered, ApplyLost, ApplyTimesOut, ApplySucceeds, ApplyFails,
          StartStatuses
    <2>4. CASE pc' = "list"
      <3>1. ~ Refuses(org, Document, sites) /\ org' = Applied(org, Document, sites)
        BY <1>2, <1>8, <2>4
        DEF Apply, ApplyAnswered, ApplyLost, ApplyTimesOut, ApplyFails, StartStatuses,
            ChangesReach
      <3>2. org \in Docs /\ Document \in Docs
        BY BlueprintType DEF TypeOK, OwnedDocs, Document
      <3>3. \A s \in Sections, k \in Keys :
                Stored(Document, s, k) => org'[s][k] = Document[s][k]
        BY <3>1, <3>2, AppliedStores
      <3>4. AllReplaced'
        BY <2>1, <3>3 DEF AllReplaced, Stored
      <3>5. QED
        BY <1>1, <2>2, <2>4, <3>4 DEF PruneInv
    <2>5. QED
      BY <2>3, <2>4
  <1>9. CASE ListSection
    <2>1. Document' = Document /\ AllReplaced /\ pc' = "delete" /\ orphans' = Orphaned
          /\ UNCHANGED <<section, org, late>>
      BY <1>3, <1>9 DEF ListSection, PruneInv
    <2>2. \A k \in orphans' : ~ Stored(Document, section, k)
      BY <2>1 DEF Orphaned
    <2>3. QED
      BY <1>1, <2>1, <2>2 DEF PruneInv, AllReplaced, Stored
  <1>10. CASE SkipSection \/ SectionPruned
    <2>1. Document' = Document /\ AllReplaced /\ UNCHANGED <<org, late>>
      BY <1>3, <1>10 DEF SkipSection, SectionPruned, PruneInv
    <2>2. pc' # "delete"
      BY <1>10 DEF SkipSection, SectionPruned, NextSection, StartStatuses
    <2>3. QED
      BY <1>1, <2>1, <2>2 DEF PruneInv, AllReplaced, Stored
  <1>11. CASE DeleteOrphan
    <2>1. PICK k \in orphans :
              /\ orphans' = orphans \ {k}
              /\ DeleteAnswered(k) \/ DeleteLost(k) \/ DeleteTimesOut(k)
      BY <1>11 DEF DeleteOrphan
    <2>2. Document' = Document /\ UNCHANGED <<pc, section>> /\ pc = "delete"
      BY <1>3, <1>11 DEF DeleteOrphan
    <2>3. ~ DeleteTimesOut(k)
      BY <1>2 DEF DeleteTimesOut, Fault
    <2>4. org' \in {org, Deleted(org, section, k)}
      BY <2>1, <2>3 DEF DeleteAnswered, DeleteLost
    <2>5. late' = NoRequest
      BY <1>1, <2>1, <2>3 DEF DeleteAnswered, DeleteLost, VoidLate
    <2>6. AllReplaced /\ ~ Stored(Document, section, k)
      BY <2>2 DEF PruneInv
    <2>7. k \in Keys /\ section \in Sections /\ org \in Docs
      BY DEF TypeOK
    <2>8. ASSUME NEW s \in Sections, NEW j \in Keys, Stored(Document, s, j)
          PROVE  org'[s][j] = Document[s][j]
      <3>1. s # section \/ j # k
        BY <2>6, <2>8
      <3>2. Deleted(org, section, k)[s][j] = org[s][j]
        BY <2>7, <3>1, DeletedElsewhere
      <3>3. QED
        BY <2>4, <2>6, <2>8, <3>2 DEF AllReplaced
    <2>9. AllReplaced'
      BY <2>2, <2>8 DEF AllReplaced, Stored
    <2>10. QED
      BY <2>1, <2>2, <2>5, <2>9 DEF PruneInv, Stored
  <1>12. CASE LateLands \/ Drift
    BY <1>1, <1>2, <1>12 DEF LateLands, Drift, Fault
  <1>13. QED
    BY <1>6, <1>7, <1>8, <1>9, <1>10, <1>11, <1>12 DEF Next, Pass

\* While a pass may delete rows, its own blueprint is stored in full, whatever
\* fails in the pass (publisher.go:199-201).
THEOREM Replacement == Spec => []ReplacedBeforePruned
  <1>1. Init => PruneInv
    BY DEF Init, PruneInv
  <1>2. PruneInv => ReplacedBeforePruned
    BY DEF PruneInv, ReplacedBeforePruned, AllReplaced
  <1>3. QED
    BY <1>1, <1>2, PruneStep, Typing, PTL DEF Spec
----------------------------------------------------------------------------
(* Policies go last.                                                       *)

\* A policy that a public row of the blueprint names is in the blueprint.
LEMMA NamedPolicyStored ==
    ASSUME NEW v \in Views, NEW names, NEW k \in Keys,
           Stored(Blueprint(v, names), "public", k),
           Blueprint(v, names)["public"][k].policy # None
    PROVE  Stored(Blueprint(v, names), "policy", Blueprint(v, names)["public"][k].policy)
  <1> DEFINE doc == Blueprint(v, names)
             claim(s, j) == {o \in Published(v, names) : KeyOf[o] = j /\ SectionOf(v, o) = s}
             holder(s, j) == CHOOSE o \in claim(s, j) : TRUE
  <1>1. \A s \in Sections, j \in Keys :
            doc[s][j] = IF claim(s, j) = {} THEN NoRow ELSE RowOf(v, holder(s, j))
    BY DEF Blueprint
  <1>2. \A s, j : claim(s, j) # {} => holder(s, j) \in claim(s, j)
    OBVIOUS
  <1> HIDE DEF holder, doc
  <1>3. claim("public", k) # {} /\ doc["public"][k] = RowOf(v, holder("public", k))
    BY <1>1 DEF Stored, doc
  <1>4. PICK r \in claim("public", k) : doc["public"][k] = RowOf(v, r)
    BY <1>2, <1>3
  <1>5. r \in Routes /\ r \notin Policies /\ r \notin PrivateResources
    BY <1>4, PublishedPresent DEF SectionOf, Claimants, Present
  <1>6. v[r].spec.policy # None /\ doc["public"][k].policy = KeyOf[v[r].spec.policy]
    BY <1>4, <1>5 DEF RowOf, doc
  <1>7. v[r].spec.policy \in AcceptedPolicies(v)
    <2>1. r \in Candidates(v, names)
      BY <1>4, <1>5, PublishedPresent DEF Published, Winners, Present
    <2>2. r \in ValidRoutes(v, names)
      BY <1>5, <2>1 DEF Candidates, ValidResources, Present
    <2>3. QED
      BY <1>6, <2>2 DEF ValidRoutes, PolicyAllowed
  <1> DEFINE q == v[r].spec.policy
  <1>8. q \in Policies /\ q \in Published(v, names) /\ SectionOf(v, q) = "policy"
    BY <1>7, PublishedPresent DEF Published, Present, SectionOf
  <1>9. KeyOf[q] \in Keys
    BY <1>8, KeyOfAssumption DEF Claimants
  <1>10. q \in claim("policy", KeyOf[q])
    BY <1>8
  <1>11. doc["policy"][KeyOf[q]] = RowOf(v, holder("policy", KeyOf[q]))
    BY <1>1, <1>9, <1>10
  <1>12. RowOf(v, holder("policy", KeyOf[q])) # NoRow
    <2>1. holder("policy", KeyOf[q]) \in Published(v, names)
      BY <1>2, <1>10
    <2>2. QED
      BY <2>1, RowType, NoRowAssumption
  <1>13. QED
    BY <1>6, <1>11, <1>12 DEF Stored, doc
\* No public row of the controller's own is outside the blueprint.
PublicPruned == \A k \in OwnedKeys :
                    Stored(org, "public", k) => Stored(Document, "public", k)

\* The inductive form of PolicyPruneUnblocked: the public section is pruned
\* first, and a pass that has not failed has left nothing of it behind.
PolicyInv ==
    /\ pc \notin {"list", "delete", "status"} => section = "public"
    /\ Undisturbed /\ pc \in {"list", "delete"} /\ ~ failed =>
          /\ section # "public" => PublicPruned
          /\ pc = "delete" /\ section = "public" =>
                \A k \in OwnedKeys :
                    Stored(org, "public", k) /\ ~ Stored(Document, "public", k)
                        => k \in orphans

\* No step skips a section before the policies without being seen to fail.
LEMMA PolicyStep == TypeOK /\ PruneInv /\ PolicyInv /\ [Next]_vars => PolicyInv'
  <1> SUFFICES ASSUME TypeOK, PruneInv, PolicyInv, [Next]_vars PROVE PolicyInv'
    OBVIOUS
  <1> USE DEF clusterVars, queueVars, pruneVars, passVars, orgVars
  <1>1. ASSUME UNCHANGED <<view, known>> PROVE Document' = Document
    BY <1>1 DEF Document
  \* Steps that leave the pass where it is, or outside the prune.
  <1>2. ASSUME UNCHANGED <<pc, view, known, section, orphans, failed, org>> PROVE PolicyInv'
    BY <1>1, <1>2 DEF PolicyInv, PublicPruned, Stored
  <1>3. ASSUME pc' \notin {"list", "delete"}, section' = "public" PROVE PolicyInv'
    BY <1>3 DEF PolicyInv
  <1>4. CASE \/ \E o \in Objects : Edit(o)
             \/ \E kind \in Kinds : Deliver(kind)
             \/ TimerFires \/ UNCHANGED vars
    BY <1>2, <1>4 DEF Edit, Deliver, TimerFires, vars
  <1>5. CASE \/ Begin \/ (\E kind \in Kinds : Read(kind)) \/ ListSites
             \/ ResolveCredentials \/ Finish \/ AbortRead \/ Crash \/ Restart
    <2>1. pc' \notin {"list", "delete"}
      BY <1>5
      DEF Begin, Read, ListSites, ResolveCredentials, Finish, AbortRead, Return, Crash,
          Restart, AfterRead, Kinds
    <2>2. section' = "public"
      BY <1>5
      DEF Begin, Read, ListSites, ResolveCredentials, Finish, AbortRead, Return, Crash,
          Restart, Kinds, ForgetPass, PolicyInv
    <2>3. QED
      BY <1>3, <2>1, <2>2
  <1>6. CASE Apply
    <2>1. section' = "public" /\ pc' # "delete"
      BY <1>6 DEF Apply, ApplyAnswered, ApplyLost, ApplyTimesOut, ApplySucceeds, ApplyFails,
                  StartStatuses, PolicyInv
    <2>2. QED
      BY <2>1 DEF PolicyInv
  <1>7. CASE WriteStatus
    BY <1>7 DEF WriteStatus, PolicyInv
  <1>8. CASE ListSection
    <2>1. Document' = Document /\ pc = "list" /\ pc' = "delete" /\ orphans' = Orphaned
          /\ UNCHANGED <<section, org, failed>>
      BY <1>1, <1>8 DEF ListSection
    <2>2. section = "public" => \A k \in OwnedKeys :
              Stored(org, "public", k) /\ ~ Stored(Document, "public", k) => k \in orphans'
      BY <2>1 DEF Orphaned
    <2>3. QED
      BY <2>1, <2>2 DEF PolicyInv, PublicPruned, Stored
  <1>9. CASE SkipSection
    <2>1. failed' = TRUE /\ pc' \in {"list", "status"}
      BY <1>9 DEF SkipSection, NextSection, StartStatuses
    <2>2. QED
      BY <2>1 DEF PolicyInv
  <1>10. CASE SectionPruned
    <2>1. Document' = Document /\ pc = "delete" /\ pc' \in {"list", "status"} /\ orphans = {}
          /\ UNCHANGED <<org, failed>>
      BY <1>1, <1>10 DEF SectionPruned, NextSection, StartStatuses
    <2>2. Undisturbed /\ ~ failed => PublicPruned
      BY <2>1 DEF PolicyInv, PublicPruned, TypeOK
    <2>3. QED
      BY <2>1, <2>2 DEF PolicyInv, PublicPruned, Stored
  <1>11. CASE DeleteOrphan
    <2> SUFFICES ASSUME Undisturbed, ~ failed'
                 PROVE  /\ section' # "public" => PublicPruned'
                        /\ pc' = "delete" /\ section' = "public" =>
                              \A k \in OwnedKeys :
                                  Stored(org', "public", k) /\ ~ Stored(Document', "public", k)
                                      => k \in orphans'
      BY <1>11 DEF PolicyInv, DeleteOrphan
    <2>1. PICK k \in orphans :
              /\ orphans' = orphans \ {k}
              /\ DeleteAnswered(k) \/ DeleteLost(k) \/ DeleteTimesOut(k)
      BY <1>11 DEF DeleteOrphan
    <2>2. Document' = Document /\ UNCHANGED <<pc, section>> /\ pc = "delete"
      BY <1>1, <1>11 DEF DeleteOrphan
    <2>3. ~ DeleteTimesOut(k)
      BY DEF DeleteTimesOut, Fault, CanFail, Undisturbed
    <2>4. org' \in {org, Deleted(org, section, k)}
      BY <2>1, <2>3 DEF DeleteAnswered, DeleteLost
    <2>5. k \in Keys /\ section \in Sections /\ org \in Docs
      BY DEF TypeOK
    <2>6. CASE section # "public"
      <3>1. ~ failed
        BY <2>1, <2>3, <2>6 DEF DeleteAnswered, DeleteLost, DeleteFails
      <3>2. PublicPruned
        BY <2>2, <2>6, <3>1 DEF PolicyInv
      <3>3. \A j \in Keys : Deleted(org, section, k)["public"][j] = org["public"][j]
        BY <2>5, <2>6, DeletedElsewhere
      <3>4. QED
        BY <2>2, <2>4, <2>6, <3>2, <3>3 DEF PublicPruned, Stored
    <2>7. CASE section = "public"
      <3>1. ~ failed
        BY <2>1, <2>3, Zenon DEF DeleteAnswered, DeleteLost, DeleteFails
      <3>2. \A j \in OwnedKeys :
                Stored(org, "public", j) /\ ~ Stored(Document, "public", j) => j \in orphans
        BY <2>2, <2>7, <3>1 DEF PolicyInv
      <3>3. \A j \in Keys : j # k => Deleted(org, section, k)["public"][j] = org["public"][j]
        BY <2>5, DeletedElsewhere
      <3>4. ~ Stored(org', "public", k)
        <4>1. ~ Stored(Deleted(org, section, k), "public", k)
          BY <2>5, <2>7 DEF Deleted, DeleteRefused, Without, Stored, Docs, Tables
        <4>2. ~ DeleteLost(k)
          BY <2>7 DEF DeleteLost, DeleteFails
        <4>3. org' = Deleted(org, section, k)
          BY <2>1, <2>3, <4>2 DEF DeleteAnswered, ChangesReach, Undisturbed
        <4>4. QED
          BY <4>1, <4>3
      <3>5. QED
        BY <2>1, <2>2, <2>4, <2>7, <3>2, <3>3, <3>4 DEF Stored
    <2>8. QED
      BY <2>6, <2>7
  <1>12. CASE LateLands \/ Drift
    <2>1. ~ Undisturbed
      BY <1>12 DEF LateLands, Drift, Fault, CanFail, Undisturbed, PruneInv
    <2>2. UNCHANGED <<pc, section>>
      BY <1>12 DEF LateLands, Drift
    <2>3. Undisturbed' = Undisturbed
      BY DEF Undisturbed
    <2>4. QED
      BY <2>1, <2>2, <2>3 DEF PolicyInv
  <1>13. QED
    BY <1>4, <1>5, <1>6, <1>7, <1>8, <1>9, <1>10, <1>11, <1>12 DEF Next, Pass

\* When the policies are pruned after a pass without failures, no row of the
\* controller's own names a policy about to be deleted (publisher.go:295-297).
THEOREM PoliciesLast == Spec => []PolicyPruneUnblocked
  <1>1. Init => PruneInv /\ PolicyInv
    BY DEF Init, PruneInv, PolicyInv
  <1>2. TypeOK /\ PruneInv /\ PolicyInv => PolicyPruneUnblocked
    <2> SUFFICES ASSUME TypeOK, PruneInv, PolicyInv, Undisturbed, pc = "delete",
                        section = "policy", ~ failed,
                        NEW p \in orphans, NEW k \in OwnedKeys, Stored(org, "public", k)
                 PROVE  org["public"][k].policy # p
      BY DEF PolicyPruneUnblocked
    <2>1. Stored(Document, "public", k)
      BY DEF PolicyInv, PublicPruned
    <2>2. org["public"][k] = Document["public"][k]
      BY <2>1 DEF PruneInv, AllReplaced
    <2>3. ~ Stored(Document, "policy", p)
      BY DEF PruneInv
    <2>4. p # None
      BY EmptyAssumption DEF TypeOK
    <2>5. Document["public"][k].policy # None =>
              Stored(Document, "policy", Document["public"][k].policy)
      BY <2>1, NamedPolicyStored DEF Document, TypeOK
    <2>6. QED
      BY <2>2, <2>3, <2>4, <2>5
  <1>3. QED
    BY <1>1, <1>2, PruneStep, PolicyStep, Typing, PTL DEF Spec

----------------------------------------------------------------------------
(* Claims are awarded oldest first.                                        *)

\* A set of numbers has a least one.
LEMMA Least ==
    ASSUME NEW S \in SUBSET Nat, S # {}
    PROVE  \E n \in S : \A m \in S : n <= m
  <1> DEFINE R == OpToRel(<, Nat)
  <1>1. IsWellFoundedOn(R, Nat)
    BY NatLessThanWellFounded
  <1>2. \A x, y \in Nat : x < y => <<x, y>> \in R
    BY DEF OpToRel
  <1> HIDE DEF R
  <1>3. PICK x \in S : \A y \in S : ~ (<<y, x>> \in R)
    BY <1>1, WFMin
  <1>4. ASSUME NEW m \in S, ~ x <= m PROVE FALSE
    <2>1. m < x /\ m \in Nat /\ x \in Nat
      BY <1>4
    <2>2. QED
      BY <1>2, <1>3, <2>1
  <1>5. QED
    BY <1>4

\* Among claimants there is an oldest: creation times are compared first, and
\* namespace, name and kind tell apart what was created at the same time.
LEMMA Oldest ==
    ASSUME NEW v \in Views, NEW S \in SUBSET Present(v, Claimants), S # {}
    PROVE  \E o \in S : \A p \in S : ~ Older(v, p, o)
  <1>1. \A o \in S : v[o].born \in Nat /\ Rank[o] \in Nat
    <2>1. \A o \in S : o \in Claimants /\ o \in Objects /\ v[o] # Absent
      BY DEF Present, Claimants, Objects
    <2>2. \A o \in S : v[o] \in Copies
      BY <2>1 DEF Views
    <2>3. QED
      BY <2>1, <2>2, RankAssumption, BoundsAssumption DEF Copies
  <1> DEFINE births == {v[o].born : o \in S}
  <1>2. PICK b \in births : \A c \in births : b <= c
    <2>1. births \in SUBSET Nat /\ births # {}
      BY <1>1
    <2> HIDE DEF births
    <2>2. QED
      BY <2>1, Least
  <1> DEFINE first == {o \in S : v[o].born = b}
             ranks == {Rank[o] : o \in first}
  <1>3. PICK r \in ranks : \A q \in ranks : r <= q
    <2>1. ranks \in SUBSET Nat /\ ranks # {}
      BY <1>1, <1>2
    <2> HIDE DEF ranks
    <2>2. QED
      BY <2>1, Least
  <1>4. PICK o \in first : Rank[o] = r
    OBVIOUS
  <1>5. ASSUME NEW p \in S, Older(v, p, o) PROVE FALSE
    <2>1. b <= v[p].born /\ v[o].born = b
      BY <1>2, <1>4
    <2>2. v[p].born = b /\ Rank[p] < Rank[o]
      BY <1>1, <1>5, <2>1 DEF Older
    <2>3. Rank[o] <= Rank[p]
      BY <1>3, <1>4, <2>2
    <2>4. QED
      BY <1>1, <2>2, <2>3
  <1>6. QED
    BY <1>5

\* Age orders claimants, and no two are equally old.
LEMMA OlderOrders ==
    ASSUME NEW v \in Views,
           NEW a \in Present(v, Claimants), NEW b \in Present(v, Claimants),
           NEW c \in Present(v, Claimants)
    PROVE  /\ ~ Older(v, a, a)
           /\ Older(v, a, b) /\ Older(v, b, c) => Older(v, a, c)
           /\ a # b => Older(v, a, b) \/ Older(v, b, a)
  <1>1. \A o \in Present(v, Claimants) : o \in Claimants /\ v[o] \in Copies
    BY DEF Views, Present, Claimants, Objects
  <1>2. \A o \in Present(v, Claimants) : v[o].born \in Nat /\ Rank[o] \in Nat
    BY <1>1, RankAssumption, BoundsAssumption DEF Copies
  <1>3. a # b => Rank[a] # Rank[b]
    BY <1>1, RankAssumption
  <1>4. QED
    BY <1>2, <1>3 DEF Older

\* What decides whether x wins: the older ones it contends with.
Rivals(v, C, x) == {p \in C : Older(v, p, x) /\ Contend(v, p, x)}

\* W holds the winners among the claims of D, which leaves out nobody older.
Decides(v, C, D, W) ==
    /\ W \subseteq D /\ D \subseteq C
    /\ \A x \in D, p \in C : Older(v, p, x) => p \in D
    /\ \A x \in D : x \in W <=> Rivals(v, C, x) \cap W = {}

\* Two decisions agree wherever both decide.
LEMMA DecisionsAgree ==
    ASSUME NEW v \in Views, NEW C \in SUBSET Present(v, Claimants),
           NEW D, NEW W, Decides(v, C, D, W), NEW E, NEW U, Decides(v, C, E, U)
    PROVE  \A x \in D \cap E : x \in W <=> x \in U
  <1> DEFINE Torn == {x \in D \cap E : ~ (x \in W <=> x \in U)}
  <1> SUFFICES ASSUME Torn # {} PROVE FALSE
    OBVIOUS
  <1>1. Torn \in SUBSET Present(v, Claimants)
    BY DEF Decides
  <1>2. PICK x \in Torn : \A p \in Torn : ~ Older(v, p, x)
    <2> HIDE DEF Torn
    <2>1. QED
      BY <1>1, Oldest
  <1>3. \A p \in Rivals(v, C, x) : p \in D \cap E /\ (p \in W <=> p \in U)
    BY <1>2 DEF Decides, Rivals
  <1>4. QED
    BY <1>2, <1>3 DEF Decides

\* There is a decision on all claims.
LEMMA DecisionExists ==
    ASSUME NEW v \in Views, NEW C \in SUBSET Present(v, Claimants)
    PROVE  \E W : Decides(v, C, C, W)
  <1> DEFINE Decided == {x \in C : \E D, W : Decides(v, C, D, W) /\ x \in D}
             Won     == {x \in C : \E D, W : Decides(v, C, D, W) /\ x \in W}
  <1>1. ASSUME NEW D, NEW W, Decides(v, C, D, W), NEW x \in D
        PROVE  x \in Decided /\ (x \in W <=> x \in Won)
    <2>1. x \in C
      BY <1>1 DEF Decides
    <2>2. ASSUME NEW E, NEW U, Decides(v, C, E, U), x \in U PROVE x \in W
      <3>1. x \in E
        BY <2>2 DEF Decides
      <3>2. QED
        BY <1>1, <2>2, <3>1, DecisionsAgree
    <2>3. QED
      BY <1>1, <2>1, <2>2
  <1>2. Decides(v, C, Decided, Won)
    <2>1. Won \subseteq Decided
      BY DEF Decides
    <2>2. ASSUME NEW x \in Decided
          PROVE  /\ \A p \in C : Older(v, p, x) => p \in Decided
                 /\ x \in Won <=> Rivals(v, C, x) \cap Won = {}
      <3>1. PICK D, W : Decides(v, C, D, W) /\ x \in D
        OBVIOUS
      <3>2. \A p \in D : p \in Decided /\ (p \in W <=> p \in Won)
        BY <1>1, <3>1
      <3>3. \A p \in C : Older(v, p, x) => p \in D
        BY <3>1 DEF Decides
      <3> HIDE DEF Decided, Won
      <3>4. Rivals(v, C, x) \cap W = {} <=> Rivals(v, C, x) \cap Won = {}
        BY <3>2, <3>3 DEF Rivals
      <3>5. x \in W <=> Rivals(v, C, x) \cap W = {}
        BY <3>1 DEF Decides
      <3>6. QED
        BY <3>1, <3>2, <3>3, <3>4, <3>5
    <2> HIDE DEF Won
    <2>3. QED
      BY <2>1, <2>2 DEF Decides
  <1> DEFINE Missing == C \ Decided
  <1>3. Missing = {}
    <2> SUFFICES ASSUME Missing # {} PROVE FALSE
      OBVIOUS
    <2> HIDE DEF Decided, Won
    <2>1. PICK m \in Missing : \A p \in Missing : ~ Older(v, p, m)
      BY Oldest
    <2> DEFINE D == Decided \cup {m}
               W == Won \cup (IF Rivals(v, C, m) \cap Won = {} THEN {m} ELSE {})
    <2>2. m \notin Won /\ ~ Older(v, m, m)
      BY <1>2, <2>1, OlderOrders DEF Decides
    <2>3. \A x \in D, p \in C : Older(v, p, x) => p \in Decided
      BY <1>2, <2>1 DEF Decides
    <2>4. \A x \in D : Rivals(v, C, x) \cap W = Rivals(v, C, x) \cap Won
      <3>1. \A x \in D : m \notin Rivals(v, C, x)
        BY <2>1, <2>3 DEF Rivals
      <3>2. QED
        BY <3>1
    <2>5. \A x \in Decided : x \in W <=> x \in Won
      BY <2>1
    <2>6. Decides(v, C, D, W)
      <3>1. \A x \in D : x \in W <=> Rivals(v, C, x) \cap Won = {}
        BY <1>2, <2>2, <2>5 DEF Decides
      <3>2. W \subseteq D /\ D \subseteq C
        BY <1>2, <2>1 DEF Decides
      <3> HIDE DEF D, W
      <3>3. Decided \subseteq D
        BY DEF D
      <3>4. QED
        BY <2>3, <2>4, <3>1, <3>2, <3>3 DEF Decides
    <2>7. m \in Decided
      BY <1>1, <2>6
    <2>8. QED
      BY <2>1, <2>7
  <1>4. Decided = C
    BY <1>3
  <1>5. QED
    BY <1>2, <1>4

\* So the recursion of Winners is well-defined: exactly those win that no older
\* winner contends with.
LEMMA WinnersDecide ==
    ASSUME NEW v \in Views, NEW C \in SUBSET Present(v, Claimants)
    PROVE  Decides(v, C, C, Winners(v, C))
  <1> DEFINE Step(f) == [o \in C |->
                 \A p \in C : Older(v, p, o) /\ Contend(v, p, o) => ~ f[p]]
             wins == CHOOSE f : f = Step(f)
  <1>1. \E f : f = Step(f)
    <2>1. PICK W : Decides(v, C, C, W)
      BY DecisionExists
    <2> DEFINE f == [o \in C |-> o \in W]
    <2>2. ASSUME NEW o \in C
          PROVE  o \in W <=> \A p \in C : Older(v, p, o) /\ Contend(v, p, o) => p \notin W
      BY <2>1 DEF Decides, Rivals
    <2>3. \A p \in C : f[p] <=> p \in W
      OBVIOUS
    <2> DEFINE g == f
    <2> HIDE DEF g
    <2>4. \A o \in C : (o \in W) = (\A p \in C : Older(v, p, o) /\ Contend(v, p, o) => ~ g[p])
      <3> SUFFICES ASSUME NEW o \in C
                   PROVE  (o \in W) = (\A p \in C : Older(v, p, o) /\ Contend(v, p, o) => ~ g[p])
        OBVIOUS
      <3>1. \A p \in C : g[p] <=> p \in W
        BY <2>3 DEF g
      <3>2. o \in W <=> \A p \in C : Older(v, p, o) /\ Contend(v, p, o) => ~ g[p]
        BY <2>2, <3>1
      <3>3. CASE o \in W
        <4>1. (o \in W) = TRUE
              /\ (\A p \in C : Older(v, p, o) /\ Contend(v, p, o) => ~ g[p]) = TRUE
          BY <3>2, <3>3
        <4>2. QED
          BY <4>1, Zenon
      <3>4. CASE o \notin W
        <4>1. (o \in W) = FALSE
              /\ (\A p \in C : Older(v, p, o) /\ Contend(v, p, o) => ~ g[p]) = FALSE
          BY <3>2, <3>4
        <4>2. QED
          BY <4>1, Zenon
      <3>5. QED
        BY <3>3, <3>4
    <2>5. f = Step(g)
      BY <2>4, Zenon
    <2>6. f = Step(f)
      BY <2>5 DEF g
    <2>7. QED
      BY <2>6
  <1>2. wins = Step(wins)
    BY <1>1
  <1>3. Winners(v, C) = {o \in C : wins[o]}
    BY DEF Winners
  <1> HIDE DEF wins
  <1>4. \A o \in C : wins[o] <=>
            \A p \in C : Older(v, p, o) /\ Contend(v, p, o) => ~ wins[p]
    BY <1>2
  <1>5. QED
    BY <1>3, <1>4 DEF Decides, Rivals

\* No two winners contend with each other.
LEMMA WinnersApart ==
    ASSUME NEW v \in Views, NEW C \in SUBSET Present(v, Claimants),
           NEW a \in Winners(v, C), NEW b \in Winners(v, C), a # b
    PROVE  ~ Contend(v, a, b)
  <1>1. a \in C /\ b \in C
    BY DEF Winners
  <1>2. Older(v, a, b) \/ Older(v, b, a)
    BY <1>1, OlderOrders
  <1>3. Contend(v, a, b) => Contend(v, b, a)
    BY DEF Contend
  <1>4. QED
    BY <1>1, <1>2, <1>3, WinnersDecide DEF Decides, Rivals

\* Every row of a blueprint is that of a published object, which stands under its own
\* key in its own section.
LEMMA RowHolder ==
    ASSUME NEW v \in Views, NEW names, NEW s \in Sections, NEW k \in Keys,
           Stored(Blueprint(v, names), s, k)
    PROVE  \E o \in Published(v, names) :
               /\ KeyOf[o] = k /\ SectionOf(v, o) = s
               /\ Blueprint(v, names)[s][k] = RowOf(v, o)
  <1> DEFINE claim == {o \in Published(v, names) : KeyOf[o] = k /\ SectionOf(v, o) = s}
             holder == CHOOSE o \in claim : TRUE
  <1>1. Blueprint(v, names)[s][k] = IF claim = {} THEN NoRow ELSE RowOf(v, holder)
    BY DEF Blueprint
  <1>2. claim # {}
    BY <1>1 DEF Stored
  <1>3. holder \in claim
    BY <1>2
  <1>4. QED
    BY <1>1, <1>2, <1>3

\* The candidates are objects the pass has read, and so are the valid policies.
LEMMA CandidatesPresent ==
    ASSUME NEW v, NEW names
    PROVE  /\ Candidates(v, names) \in SUBSET Present(v, Claimants)
           /\ ValidPolicies(v) \in SUBSET Present(v, Claimants)
  BY DEF Candidates, ValidRoutes, ValidResources, ServedRoutes, ValidPolicies, Present, Claimants

\* What is published outside the policy section has won among the candidates.
LEMMA PublishedCandidate ==
    ASSUME NEW v, NEW names, NEW o \in Published(v, names), SectionOf(v, o) # "policy"
    PROVE  /\ o \in Winners(v, Candidates(v, names))
           /\ o \in Routes \cup PrivateResources /\ o \notin Policies
           /\ v[o].spec.site \in names
  <1>1. o \notin Policies
    BY DEF SectionOf
  <1>2. o \in Winners(v, Candidates(v, names))
    BY <1>1, PublishedPresent DEF Published, Present
  <1>3. QED
    BY <1>1, <1>2
    DEF Winners, Candidates, ValidRoutes, ValidResources, ServedRoutes, Present

\* No two published objects of a section have the same key or the same name.
LEMMA PublishedApart ==
    ASSUME NEW v \in Views, NEW names,
           NEW a \in Published(v, names), NEW b \in Published(v, names), a # b,
           SectionOf(v, a) = SectionOf(v, b)
    PROVE  ~ Contend(v, a, b)
  <1>1. CASE SectionOf(v, a) # "policy"
    BY <1>1, PublishedCandidate, CandidatesPresent, WinnersApart
  <1>2. CASE SectionOf(v, a) = "policy"
    <2>1. ASSUME NEW o \in Published(v, names), SectionOf(v, o) = "policy",
                 o \in Candidates(v, names)
          PROVE  FALSE
      <3>1. o \in Present(v, Routes \cup PrivateResources)
        BY <2>1 DEF Candidates, ValidRoutes, ValidResources, ServedRoutes, Present
      <3>2. o \notin Policies
        BY <3>1, KindsAssumption DEF Present
      <3>3. o \in Routes /\ o \in Objects /\ v[o] # Absent
        BY <2>1, <3>1, <3>2 DEF SectionOf, Present, Objects
      <3>4. v[o].spec.visibility \in {"public", "private"}
        BY <3>3 DEF Views, Copies, Specs
      <3>5. QED
        BY <2>1, <3>2, <3>3, <3>4 DEF SectionOf
    <2>2. a \in AcceptedPolicies(v) /\ b \in AcceptedPolicies(v)
      BY <1>2, <2>1 DEF Published, Winners
    <2>3. QED
      BY <2>2, CandidatesPresent, WinnersApart DEF AcceptedPolicies
  <1>3. QED
    BY <1>1, <1>2

----------------------------------------------------------------------------
(* What Pangolin is sent.                                                  *)

\* A blueprint whose sites exist is refused for nothing it says itself.
LEMMA BlueprintAcceptable ==
    ASSUME NEW v \in Views, NEW names, NEW present, names \subseteq present
    PROVE  ~ Refuses(EmptyDoc, Blueprint(v, names), present)
  <1> DEFINE doc == Blueprint(v, names)
  <1>1. \A s \in Sections, k \in Keys : ~ Stored(EmptyDoc, s, k)
    BY DEF EmptyDoc, Stored
  <1>2. ASSUME NEW s \in Sections, NEW j \in Keys, NEW k \in Keys, j # k,
               Stored(doc, s, j), Stored(doc, s, k)
        PROVE  /\ doc[s][j].host # None => doc[s][j].host # doc[s][k].host
               /\ doc[s][j].alias # None => doc[s][j].alias # doc[s][k].alias
    <2>1. PICK a \in Published(v, names) :
              KeyOf[a] = j /\ SectionOf(v, a) = s /\ doc[s][j] = RowOf(v, a)
      BY <1>2, RowHolder
    <2>2. PICK b \in Published(v, names) :
              KeyOf[b] = k /\ SectionOf(v, b) = s /\ doc[s][k] = RowOf(v, b)
      BY <1>2, RowHolder
    <2>3. ~ Contend(v, a, b)
      BY <1>2, <2>1, <2>2, PublishedApart
    <2>4. v[a].spec.name = None \/ v[a].spec.name # v[b].spec.name
      BY <2>1, <2>2, <2>3 DEF Contend
    <2> HIDE DEF doc
    <2>5. /\ doc[s][j].host \in {None, v[a].spec.name} /\ doc[s][j].alias \in {None, v[a].spec.name}
          /\ doc[s][k].host \in {None, v[b].spec.name} /\ doc[s][k].alias \in {None, v[b].spec.name}
      BY <2>1, <2>2 DEF RowOf
    <2>6. QED
      BY <2>4, <2>5
  <1>3. ~ DuplicateHost(doc)
    BY <1>2 DEF DuplicateHost
  <1>4. ~ MissingPolicy(EmptyDoc, doc)
    BY NamedPolicyStored DEF MissingPolicy
  <1>5. ~ UnknownSite(doc, present)
    <2> SUFFICES ASSUME NEW s \in {"public", "private"}, NEW k \in Keys, Stored(doc, s, k)
                 PROVE  doc[s][k].site \in present \cup {None}
      BY DEF UnknownSite
    <2>1. PICK o \in Published(v, names) : SectionOf(v, o) = s /\ doc[s][k] = RowOf(v, o)
      BY RowHolder
    <2>2. v[o].spec.site \in names /\ o \notin Policies
      BY <2>1, PublishedCandidate
    <2>3. QED
      BY <2>1, <2>2 DEF RowOf
  <1>6. ~ AliasTaken(EmptyDoc, doc)
    BY <1>1, <1>2 DEF AliasTaken, AliasOwners
  <1>7. QED
    BY <1>3, <1>4, <1>5, <1>6 DEF Refuses

\* Whatever is in the cluster, the renderer sends no document that an organisation
\* without rows would refuse, if the sites it has checked still exist
\* (render.go:299, policy.go:42).
THEOREM Acceptable == Spec => []DocumentAcceptable
  <1>1. TypeOK => DocumentAcceptable
    BY BlueprintAcceptable DEF TypeOK, DocumentAcceptable, Document
  <1>2. QED
    BY <1>1, Typing, PTL

----------------------------------------------------------------------------
(* What statuses tell.                                                     *)

\* A published object has its row in the blueprint, and nobody else's is there.
LEMMA PublishedRow ==
    ASSUME NEW v \in Views, NEW names, NEW o \in Published(v, names)
    PROVE  /\ SectionOf(v, o) \in Sections /\ KeyOf[o] \in Keys
           /\ Stored(Blueprint(v, names), SectionOf(v, o), KeyOf[o])
           /\ Blueprint(v, names)[SectionOf(v, o)][KeyOf[o]] = RowOf(v, o)
  <1> DEFINE s == SectionOf(v, o)
             k == KeyOf[o]
             claim == {p \in Published(v, names) : KeyOf[p] = k /\ SectionOf(v, p) = s}
             holder == CHOOSE p \in claim : TRUE
  <1>1. o \in Claimants /\ o \in Objects /\ v[o] # Absent
    BY PublishedPresent DEF Present, Claimants, Objects
  <1>2. s \in Sections
    <2>1. v[o].spec.visibility \in {"public", "private"}
      BY <1>1 DEF Views, Copies, Specs
    <2>2. QED
      BY <2>1 DEF SectionOf
  <1>3. k \in Keys
    BY RowType
  <1>4. \A p \in claim : p = o
    BY PublishedApart DEF Contend
  <1>5. o \in claim
    OBVIOUS
  <1>6. holder = o
    BY <1>4, <1>5
  <1>7. Blueprint(v, names)[s][k] = IF claim = {} THEN NoRow ELSE RowOf(v, holder)
    BY <1>2, <1>3 DEF Blueprint
  <1>8. Blueprint(v, names)[s][k] = RowOf(v, o)
    BY <1>5, <1>6, <1>7
  <1>9. QED
    BY <1>2, <1>3, <1>8, RowType, NoRowAssumption DEF Stored

\* While statuses are written after a successful apply, the blueprint is stored.
StatusInv == Undisturbed /\ pc = "status" /\ ~ publishErr => AllReplaced

\* No step takes away what a status is about to say.
LEMMA StatusStep == TypeOK /\ PruneInv /\ StatusInv /\ [Next]_vars => StatusInv'
  <1> SUFFICES ASSUME TypeOK, PruneInv, StatusInv, [Next]_vars,
                      Undisturbed, pc' = "status", ~ publishErr'
               PROVE  AllReplaced'
    BY DEF StatusInv, Undisturbed
  <1> USE DEF clusterVars, queueVars, pruneVars, passVars, orgVars
  <1>1. ASSUME AllReplaced, UNCHANGED <<view, known, org>> PROVE AllReplaced'
    BY <1>1 DEF AllReplaced, Document, Stored
  <1>2. CASE SkipSection \/ SectionPruned
    <2>1. AllReplaced /\ UNCHANGED <<view, known, org>>
      BY <1>2 DEF SkipSection, SectionPruned, PruneInv
    <2>2. QED
      BY <1>1, <2>1
  <1>3. CASE UNCHANGED <<pc, publishErr, view, known, org>>
    BY <1>1, <1>3 DEF StatusInv
  <1>4. ~ Apply
    BY DEF Apply, ApplyAnswered, ApplyLost, ApplyTimesOut, ApplySucceeds, ApplyFails,
           StartStatuses
  <1>5. ~ LateLands /\ ~ Drift
    BY DEF LateLands, Drift, Fault, CanFail, Undisturbed, PruneInv
  <1>6. QED
    BY <1>2, <1>3, <1>4, <1>5
    DEF Next, Pass, Edit, Deliver, TimerFires, Begin, Read, AfterRead, Kinds, ListSites,
        ResolveCredentials, ListSection, DeleteOrphan, WriteStatus, Finish, AbortRead,
        Return, Crash, Restart, vars

\* Only the last phase of a pass writes statuses.
LEMMA StatusWritten ==
    ASSUME TypeOK, PassLocals, [Next]_vars, NEW o \in Objects,
           cluster[o] # Absent, cluster'[o] # Absent, cluster'[o].status # cluster[o].status
    PROVE  /\ pc = "status" /\ cluster[o] = view[o]
           /\ cluster'[o].status = StatusAfter(o, publishErr)
  <1> USE DEF clusterVars, queueVars, pruneVars, passVars, orgVars
  <1>1. ASSUME NEW p \in Objects, Edit(p) PROVE FALSE
    <2>1. \A spec : Updated(cluster[o], spec).status = cluster[o].status
      BY DEF Updated, TypeOK, Views, Copies
    <2>2. cluster'[o] = cluster[o] \/ \E spec : cluster'[o] = Updated(cluster[o], spec)
      BY <1>1 DEF Edit, TypeOK, Views
    <2>3. QED
      BY <2>1, <2>2
  <1>2. WriteStatus
    BY <1>1
    DEF Next, Pass, Deliver, TimerFires, Begin, Read, ListSites, ResolveCredentials, Apply,
        ListSection, DeleteOrphan, SectionPruned, SkipSection, Finish, AbortRead, Return,
        Crash, Restart, LateLands, Drift, vars
  <1>3. PICK p \in FirstUnwritten :
            /\ cluster[p] = view[p]
            /\ cluster' = [cluster EXCEPT ![p].status = StatusAfter(p, publishErr)]
    BY <1>2 DEF WriteStatus
  <1>4. p = o
    BY <1>3 DEF TypeOK, Views
  <1>5. cluster[o] \in Copies
    BY DEF TypeOK, Views
  <1>6. QED
    BY <1>2, <1>3, <1>4, <1>5 DEF WriteStatus, TypeOK, Views, Copies

\* A status that says Programmed is that of an object whose row is stored as its spec,
\* in the copy the status is written to, says (publisher.go:476).
THEOREM LiveWhenProgrammed == Spec => ProgrammedOnlyWhenLive
  <1>1. TypeOK /\ PassLocals /\ StatusInv /\ [Next]_vars =>
          [Undisturbed =>
             \A o \in Claimants :
                /\ cluster[o] # Absent /\ cluster'[o] # Absent
                /\ cluster'[o].status # cluster[o].status
                /\ cluster'[o].status.state = "Programmed"
                => org[SectionOf(cluster, o)][KeyOf[o]] = RowOf(cluster, o)]_vars
    <2> SUFFICES ASSUME TypeOK, PassLocals, StatusInv, [Next]_vars, Undisturbed,
                        NEW o \in Claimants,
                        cluster[o] # Absent, cluster'[o] # Absent,
                        cluster'[o].status # cluster[o].status,
                        cluster'[o].status.state = "Programmed"
                 PROVE  org[SectionOf(cluster, o)][KeyOf[o]] = RowOf(cluster, o)
      OBVIOUS
    <2>1. /\ pc = "status" /\ cluster[o] = view[o]
          /\ StatusAfter(o, publishErr).state = "Programmed"
      BY StatusWritten DEF Claimants, Objects
    <2>2. Outcome(o, publishErr) = "Programmed"
      BY <2>1 DEF StatusAfter, RouteStatusAfter, ResourceStatusAfter, NoStatus
    <2>3. o \in Published(view, known) /\ ~ publishErr
      BY <2>2 DEF Outcome, ApplyOutcome
    <2>4. AllReplaced
      BY <2>1, <2>3 DEF StatusInv
    <2>5. /\ SectionOf(view, o) \in Sections /\ KeyOf[o] \in Keys
          /\ Stored(Document, SectionOf(view, o), KeyOf[o])
          /\ Document[SectionOf(view, o)][KeyOf[o]] = RowOf(view, o)
      BY <2>3, PublishedRow DEF Document, TypeOK
    <2>6. org[SectionOf(view, o)][KeyOf[o]] = RowOf(view, o)
      BY <2>4, <2>5 DEF AllReplaced
    <2>7. SectionOf(view, o) = SectionOf(cluster, o) /\ RowOf(view, o) = RowOf(cluster, o)
      BY <2>1 DEF SectionOf, RowOf
    <2>8. QED
      BY <2>6, <2>7
  <1>2. Init => PassLocals /\ PruneInv /\ StatusInv
    BY DEF Init, PassLocals, PruneInv, StatusInv
  <1>3. QED
    BY <1>1, <1>2, NextLocals, PruneStep, StatusStep, Typing, PTL
    DEF Spec, ProgrammedOnlyWhenLive

----------------------------------------------------------------------------
(* The operators that Publisher and DesiredState both take from            *)
(* PangolinOrg.                                                            *)

\* Both take the same organisation: they differ in nothing but names.
LEMMA SameOrganisation ==
    ASSUME NEW o, NEW d, NEW s, NEW k
    PROVE  /\ Promised!Sections = Sections
           /\ Promised!OwnedKeys = OwnedKeys
           /\ Promised!Stored(o, s, k) <=> Stored(o, s, k)
           /\ Promised!Merged(o, d) = Merged(o, d)
           /\ Promised!Without(o, s, k) = Without(o, s, k)
           /\ Promised!Docs = Docs
  <1>1. Promised!Sections = Sections /\ Promised!OwnedKeys = OwnedKeys
    BY Zenon DEF Promised!Sections, Sections, Promised!OwnedKeys, OwnedKeys
  <1>2. \A e, t, j : Promised!Stored(e, t, j) <=> Stored(e, t, j)
    BY DEF Promised!Stored, Stored
  <1>3. Promised!Merged(o, d) = Merged(o, d)
    BY <1>1, <1>2, Zenon DEF Promised!Merged, Merged
  <1>4. Promised!Without(o, s, k) = Without(o, s, k)
    BY Zenon DEF Promised!Without, Without
  <1>5. Promised!Docs = Docs
    BY <1>1, Zenon DEF Promised!Docs, Docs, Promised!Tables, Tables, Promised!Rows, Rows
  <1>6. QED
    BY <1>1, <1>2, <1>3, <1>4, <1>5

----------------------------------------------------------------------------
(* What a pass is about to delete.                                         *)

\* The rows a pass holds for deletion are not in its own blueprint, whatever others
\* do to the organisation in the meantime: both were computed from the same view.
OrphansUnnamed == pc = "delete" => \A k \in orphans : ~ Stored(Document, section, k)

\* Every step keeps that: a listing chooses them, a delete only removes some.
LEMMA UnnamedStep == OrphansUnnamed /\ [Next]_vars => OrphansUnnamed'
  <1> SUFFICES ASSUME OrphansUnnamed, [Next]_vars, pc' = "delete"
               PROVE  \A k \in orphans' : ~ Stored(Document', section', k)
    BY DEF OrphansUnnamed, Stored
  <1> USE DEF clusterVars, queueVars, pruneVars, passVars, orgVars
  <1>1. ASSUME UNCHANGED <<view, known>> PROVE Document' = Document
    BY <1>1 DEF Document
  <1>2. CASE ListSection
    BY <1>1, <1>2 DEF ListSection, Orphaned
  <1>3. CASE DeleteOrphan
    BY <1>1, <1>3 DEF DeleteOrphan, OrphansUnnamed
  <1>4. CASE UNCHANGED <<pc, view, known, section, orphans>>
    BY <1>1, <1>4 DEF OrphansUnnamed
  <1>5. QED
    BY <1>2, <1>3, <1>4
    DEF Next, Pass, Edit, Deliver, TimerFires, Begin, Read, AfterRead, Kinds, ListSites,
        ResolveCredentials, Apply, ApplyAnswered, ApplyLost, ApplyTimesOut, ApplySucceeds,
        ApplyFails, StartStatuses, SectionPruned, SkipSection, NextSection, WriteStatus,
        Finish, AbortRead, Return, Crash, Restart, LateLands, Drift, vars

----------------------------------------------------------------------------
(* The refinement, step by step.                                           *)

\* An organisation with no offer is where the promise starts.
LEMMA InitPromised == Init => Promised!Init
  BY SpecsAssumption, SameOrganisation DEF Init, Promised!Init, Offering

\* A document is offered under the keys of the controller's own.
LEMMA DocumentOffered ==
    ASSUME TypeOK
    PROVE  /\ Document \in Docs /\ Document # NoDoc
           /\ Promised!Owned(Document)
  <1>1. Document \in OwnedDocs
    BY BlueprintType DEF Document, TypeOK
  <1>2. QED
    BY <1>1, NoDocAssumption, SameOrganisation DEF OwnedDocs, Promised!Owned, Stored

\* A step outside the apply and the prune that leaves the organisation alone is no
\* step of the promise.
LEMMA NothingPromised ==
    ASSUME ~ Offering, ~ Offering', UNCHANGED org
    PROVE  UNCHANGED Promised!promiseVars
  BY Zenon DEF Promised!promiseVars

\* Nor is one that stays in the apply or in the prune.
LEMMA SamePromise ==
    ASSUME UNCHANGED <<view, known, org>>, Offering' = Offering,
           (pc' = "apply") <=> (pc = "apply")
    PROVE  UNCHANGED Promised!promiseVars
  <1>1. Document' = Document
    BY DEF Document
  <1>2. QED
    BY <1>1, Zenon DEF Promised!promiseVars

\* The pass leaves the prune, is refused, or dies.
LEMMA PromiseWithdrawn ==
    ASSUME ~ Offering', UNCHANGED org
    PROVE  Promised!Promise
  BY Zenon DEF Promised!Promise, Promised!Withdraw

\* An apply takes the offer or leaves the organisation as it is.
LEMMA ApplyPromised ==
    ASSUME TypeOK, Apply
    PROVE  Promised!Promise \/ UNCHANGED Promised!promiseVars
  <1>1. pc = "apply" /\ pc' \in {"list", "status"} /\ UNCHANGED <<view, known>>
    BY DEF Apply, ApplyAnswered, ApplyLost, ApplyTimesOut, ApplySucceeds, ApplyFails,
           StartStatuses
  <1>2. CASE ~ ChangesReach
    <2>1. UNCHANGED org /\ ~ Offering /\ ~ Offering'
      BY <1>2 DEF Apply, ApplyAnswered, ApplyLost, ApplyTimesOut, Offering, ChangesReach
    <2>2. QED
      BY <2>1, NothingPromised
  <1>3. CASE ChangesReach /\ UNCHANGED org /\ pc' = "status"
    BY <1>3, PromiseWithdrawn DEF Offering
  <1>4. CASE ChangesReach /\ org' = Merged(org, Document)
    <2>1. Document' = Document /\ Offering /\ Document # NoDoc /\ ~ DryRun
      BY <1>1, <1>4, DocumentOffered DEF Document, Offering, ChangesReach
    <2>2. org' = Promised!Merged(org, Document)
      BY <1>4, SameOrganisation
    <2>3. CASE pc' = "list"
      <3>1. Offering' /\ pc' # "apply"
        BY <1>4, <2>3 DEF Offering, ChangesReach
      <3>2. Promised!Take
        BY <1>1, <2>1, <2>2, <3>1, Zenon DEF Promised!Take
      <3>3. QED
        BY <3>2 DEF Promised!Promise
    <2>4. CASE pc' = "status"
      <3>1. ~ Offering'
        BY <2>4 DEF Offering
      <3>2. Promised!Take
        BY <1>1, <2>1, <2>2, <3>1, Zenon DEF Promised!Take
      <3>3. QED
        BY <3>2 DEF Promised!Promise
    <2>5. QED
      BY <1>1, <2>3, <2>4
  <1>5. ChangesReach =>
            \/ UNCHANGED org /\ pc' = "status"
            \/ org' = Merged(org, Document)
    BY DEF Apply, ApplyAnswered, ApplyLost, ApplyTimesOut, ApplySucceeds, ApplyFails,
           StartStatuses, Applied
  <1>6. QED
    BY <1>2, <1>3, <1>4, <1>5

\* A delete is one the document in force allows.
LEMMA DeletePromised ==
    ASSUME TypeOK, OrphansUnnamed, DeleteOrphan
    PROVE  Promised!Promise \/ UNCHANGED Promised!promiseVars
  <1>1. PICK k \in orphans : DeleteAnswered(k) \/ DeleteLost(k) \/ DeleteTimesOut(k)
    BY DEF DeleteOrphan
  <1>2. pc = "delete" /\ UNCHANGED <<pc, view, known, section>> /\ Offering' = Offering
    BY DEF DeleteOrphan, Offering, ChangesReach
  <1>3. org' = org \/ (ChangesReach /\ org' = Without(org, section, k))
    BY <1>1 DEF DeleteAnswered, DeleteLost, DeleteTimesOut, Deleted
  <1>4. CASE UNCHANGED org
    BY <1>2, <1>4, SamePromise
  <1>5. CASE ChangesReach /\ org' = Without(org, section, k)
    <2>1. Document' = Document /\ Offering
      BY <1>2, <1>5 DEF Document, Offering
    <2>2. k \in Promised!OwnedKeys /\ section \in Promised!Sections
      BY SameOrganisation DEF TypeOK
    <2>3. ~ Promised!Stored(Document, section, k)
      BY <1>2, SameOrganisation DEF OrphansUnnamed
    <2>4. org' = Promised!Without(org, section, k)
      BY <1>5, SameOrganisation
    <2>5. Promised!Remove
      BY <1>2, <2>1, <2>2, <2>3, <2>4, Zenon DEF Promised!Remove
    <2>6. QED
      BY <2>5 DEF Promised!Promise
  <1>6. QED
    BY <1>3, <1>4, <1>5

\* Every step of Publisher is a step of the promise, or none.
LEMMA StepPromised ==
    TypeOK /\ OrphansUnnamed /\ [Next]_vars =>
        [Promised!Promise \/ LateLands \/ Drift]_(Promised!promiseVars)
  <1> SUFFICES ASSUME TypeOK, OrphansUnnamed, [Next]_vars,
                      ~ LateLands, ~ Drift
               PROVE  Promised!Promise \/ UNCHANGED Promised!promiseVars
    OBVIOUS
  <1> USE DEF clusterVars, queueVars, pruneVars, passVars, orgVars
  <1>1. CASE Apply
    BY <1>1, ApplyPromised
  <1>2. CASE DeleteOrphan
    BY <1>2, DeletePromised
  <1>3. CASE ResolveCredentials
    <2>1. pc = "credentials" /\ pc' = "apply" /\ UNCHANGED <<view, known, org>>
      BY <1>3 DEF ResolveCredentials
    <2>2. Document' = Document /\ ~ Offering /\ Document # NoDoc /\ Promised!Owned(Document)
      BY <2>1, DocumentOffered DEF Document, Offering
    <2>3. CASE ChangesReach
      <3>1. Offering'
        BY <2>1, <2>3 DEF Offering, ChangesReach
      <3>2. Promised!Offer
        BY <2>1, <2>2, <3>1, Zenon DEF Promised!Offer
      <3>3. QED
        BY <3>2 DEF Promised!Promise
    <2>4. CASE ~ ChangesReach
      BY <2>1, <2>2, <2>4, NothingPromised DEF Offering, ChangesReach
    <2>5. QED
      BY <2>3, <2>4
  <1>4. CASE ListSection
    <2>1. UNCHANGED <<view, known, org>> /\ pc = "list" /\ pc' = "delete"
      BY <1>4 DEF ListSection
    <2>2. Offering' = Offering
      BY <2>1 DEF Offering, ChangesReach
    <2>3. QED
      BY <2>1, <2>2, SamePromise
  <1>5. CASE SkipSection \/ SectionPruned
    <2>1. UNCHANGED <<view, known, org>> /\ pc \in {"list", "delete"} /\ pc' \in {"list", "status"}
      BY <1>5 DEF SkipSection, SectionPruned, NextSection, StartStatuses
    <2>2. CASE pc' = "list"
      <3>1. Offering' = Offering
        BY <2>1, <2>2 DEF Offering, ChangesReach
      <3>2. QED
        BY <2>1, <2>2, <3>1, SamePromise
    <2>3. CASE pc' = "status"
      BY <2>1, <2>3, PromiseWithdrawn DEF Offering
    <2>4. QED
      BY <2>1, <2>2, <2>3
  <1>6. CASE Crash \/ Restart \/ AbortRead \/ Finish
    <2>1. UNCHANGED org /\ pc' \in {"idle", "down"}
      BY <1>6 DEF Crash, Restart, AbortRead, Finish, Return
    <2>2. QED
      BY <2>1, PromiseWithdrawn DEF Offering
  <1>7. CASE Begin \/ (\E kind \in Kinds : Read(kind)) \/ ListSites
    <2>1. UNCHANGED org /\ pc' \notin {"apply", "list", "delete"}
      BY <1>7 DEF Begin, Read, AfterRead, Kinds, ListSites
    <2>2. QED
      BY <2>1, PromiseWithdrawn DEF Offering
  <1>8. CASE UNCHANGED <<pc, view, known, org>>
    <2>1. Offering' = Offering
      BY <1>8 DEF Offering, ChangesReach
    <2>2. QED
      BY <1>8, <2>1, SamePromise
  <1>9. QED
    BY <1>1, <1>2, <1>3, <1>4, <1>5, <1>6, <1>7, <1>8
    DEF Next, Pass, Edit, Deliver, TimerFires, WriteStatus, vars

\* Whatever the cluster, the bounds and the faults: Pangolin takes a document as a
\* whole, and a row goes only under a document taken in the same pass that does not
\* name it (publisher.go:174-211 and 281-347).
THEOREM Refinement == Spec => KeepsPromise
  <1>1. Init => Promised!Init /\ OrphansUnnamed
    BY InitPromised DEF Init, OrphansUnnamed
  <1>2. QED
    BY <1>1, UnnamedStep, StepPromised, Typing, PTL DEF Spec, KeepsPromise
=============================================================================
