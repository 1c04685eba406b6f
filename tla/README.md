# Pangolin Gateway, specified

TLA+ models of the Kubernetes controller in `src/`, checked with TLC on small
clusters, and theorems about them checked with TLAPS for every cluster.

The controller watches GatewayClasses, Gateways, HTTPRoutes, PrivateResources and
ResourcePolicies. Whenever one changes, one pass reads all of them, renders one
document (the *blueprint*), applies it to a Pangolin organisation over HTTP,
deletes the rows it owns that the document no longer names, and writes statuses.

## 1. The system

| Part | Source | State | Operations |
|---|---|---|---|
| Watches and queue | `publisher.go` `SetupWithManager`, controller-runtime | informer caches, one queued key, one delayed re-add | event, re-add, restart |
| Publisher | `internal/controller/publisher.go` | locals of one pass | list kinds, list sites, resolve credentials, apply, prune, write statuses |
| Renderer | `internal/gateway/*.go` | none: a function of one view | who is served, verdicts, collisions, blueprint |
| Pangolin client | `internal/pangolin/client.go`, `dryrun.go` | none | apply, list (paged), delete, 30 s time-out |
| Pangolin organisation | outside; `test/pangolinfake/fake.go` describes it | three tables of rows keyed by niceId, sites | additive transactional apply, delete |
| Statuses | `api/v1alpha1`, `gateway/status.go` | conditions, `resourceKey`, `policyKey` | update under optimistic concurrency |
| Basic auth Secrets | `controller/basicauth.go` | Secrets owned by routes | create, reuse |
| mTLS | `controller/mtls.go` | none | read CAs, confirm after the apply |
| Metrics, flags, generated code | `metrics.go`, `cmd/main.go`, `zz_generated` | | |

Interaction: users write to the API server; caches follow it, each kind by
itself; an event puts the single key in the queue; one worker runs passes one
after the other; a pass talks to Pangolin in separate requests and writes
statuses back to the API server from copies it read at the start. Nothing is
stored between passes but those statuses and Pangolin's rows.

What makes it hard: a pass reads five caches that are not of one moment;
everything it does later rests on that view while the cluster moves on; the
apply is all or nothing and one bad object spoils it for all; the prune deletes;
each request may fail, may have taken effect all the same, or may take effect
minutes later; other people keep rows in the same organisation; a restart loses
everything but what is in the API server and Pangolin.

What makes each part correct:

* *Queue*: no change is ever left without a later pass.
* *Publisher*: replace before removing, remove only what is owned and orphaned,
  policies last, say `Programmed` only of what is live, retry what failed.
* *Renderer*: what it accepts together, Pangolin accepts.
* *Route statuses*: everybody's entries survive, the list settles, it follows the
  verdict.
* *Listings*: what stays is listed, what is deleted is an orphan, every orphan goes.
* *Credentials and CAs*: a route is published with its own or not at all; what is
  reported active is active.
* *Together*: the organisation comes to hold what the cluster asks for, and the
  statuses say so.

`PROJECT.json` lists every component, the hazards with their lines, the runs,
the mutants and the source lines each definition stands for.

## 2. The modules

```
PangolinOrg ---------- DesiredState      the promise to the organisation
   |                        :
Rendering                   :            from a view of the cluster to a document
   |                        :
Publisher                   :            API server, caches, queue, passes, faults
   |   |   |   \            :
   |   |   |    PublisherRefinement      Publisher implements DesiredState
   |   |   |             \
   |   |   |        PublisherProofs      theorems about both (TLAPS)
   |   PublisherAudit                    + history of what was asked for all along
   |       |             \
MCPublisher MCPublisherAudit MCPublisherRefinement    small clusters for TLC

One module for each step that Publisher takes in one, with what surrounds it:

RouteStatus  <- MCRouteStatus     status.parents, written by several controllers
Listing                           paged listings and the deletes that rest on one
BasicAuthSecret                   a route, its Secret and its row across rebirths
MtlsVerify   <- MCMtlsVerify      CAs: found, sent, dropped or taken, checked
Access       <- MCAccess          annotations of a route against what is in force
Admission    <- MCAdmission       which objects are let into the document

RouteStatusProofs, ListingProofs, BasicAuthSecretProofs, MtlsVerifyProofs,
AccessProofs, AdmissionProofs     theorems about each (TLAPS)

Ordering                          sorting and filtering, for RouteStatus and Listing
OrderingProofs                    what these operators return (TLAPS)
```

**PangolinOrg** describes what the fake server of the test suite does. A row keeps
the four fields an apply can be refused for: site, full-domain, alias, policy.
`Refuses` collects the refusals, `Applied` is the transaction (a refused document
changes nothing, an accepted one is merged in), `Deleted` the delete with the
refusal for a policy in use.

**Rendering** is `RenderAll`. A *view* maps each object to its copy or `Absent`.
`ServedRoutes`, `PolicyAllowed`, `ValidRoutes`, `ValidResources`, `ValidPolicies`
are the checks, `Winners` the award of keys and names to the oldest claimant
(a recursive function, since a loser claims nothing), `Blueprint` the document.

**Publisher** has one action per step of `Reconcile`:

| `pc` | Action | Code |
|---|---|---|
| `idle` | `Begin` | the worker takes the key |
| a kind | `Read(kind)`, `AbortRead` | the five `List` calls |
| `sites` | `ListSites` | with the failure that switches the check off |
| `credentials` | `ResolveCredentials`, `AbortRead` | grantees, basic auth, CAs |
| `apply` | `Apply` = `ApplyAnswered`, `ApplyLost`, `ApplyTimesOut` | render and `ApplyBlueprint` |
| `list` | `ListSection`, `SkipSection` | listing of one section |
| `delete` | `DeleteOrphan`, `SectionPruned` | the loop of `pruneSection` |
| `status` | `WriteStatus`, `Finish` | `writeStatus`, `writeResourceStatus`, `writePolicyStatus`, return |
| `down` | `Restart` | caches filled, one event per object |

and around it `Edit` (users), `Deliver(kind)` (an informer catches up; the
predicates decide whether it queues the key), `TimerFires`, `Crash`, `LateLands`
(a request given up on takes effect), `Drift` (the dashboard). Each fault has a
kind; a run allows a set of kinds and at most `MaxFaults` faults.

The modules below replace a step of `Publisher` by what happens inside it.
Each has its own passes, faults and surroundings, and leaves out what its question
does not touch.

**DesiredState** is what the controller promises the organisation: a document of
owned keys is taken as a whole or not at all (`Take`, known or unknown to the
controller); rows go only while a document that was taken is in force, only owned
ones, only those it does not name (`Remove`); a dry run changes nothing.
**PublisherRefinement** maps `Publisher` to it: the offer is the document of the pass
from its rendering to its last delete, and it is in force from the apply on. Late
requests and the dashboard are not the controller's promise and may come in between.

**PublisherAudit** adds what the cluster asked for in every state so far, for
`PruneSparesClaimed`.

**RouteStatus** is `SetRouteStatus` and `writeStatus`: `status.parents` as a sequence,
the copy a pass read and whether it is still the latest, the parents a verdict lists
(`VerdictParents`), and `StatusAfter` = keep, add, say, sort in the order of the code.
The loop that appends is in closed form (`AddMissing`): a reference is looked for in the
list as it is once the references before it have their entry.
Gateways come, go and change hands, parentRefs change, other controllers write.

**Listing** is one request per page (`FetchPage`), with both endings the code has,
chosen at the start (`checked`): `listPages`, which lists machines, users and policies,
refuses rows without a total; the loops of public resources, private resources and sites
do not. What the instance gets wrong is a set (`Lapses`): it may ignore the page
parameter, leave the page out of its answers, leave the total out, or several of these at
once. The code compares the page asked for with the page answered unless the answer
has none (`Stalled`). Between requests rows appear and disappear; then the orphans are deleted by the
numeric id they were listed with, which may by then be no row or another's.

**BasicAuthSecret** follows one route name through several births. `Read`, `Get`,
`Create`, `Apply`, `Prune` are the steps of a pass; users rotate or occupy the Secret;
cache and garbage collector lag. A password remembers for which birth it was made.
A restart may switch the dry run on or off.

**MtlsVerify** follows a pass through `resolveMTLS`, the apply and `verifyMTLS`, one
request a step. A PEM is the sequence of its blocks; `trusted` is what Pangolin stores
under a name, in an enterprise build, or leaves as it is in an open-source one.

**Access** is one route against the rows it has had: `Fits` are the checks on its
annotations and on the policy it names, `PublicResource` and `PrivateResource` what
is rendered, `MergedPublic` what Pangolin makes of it field by field: some are cleared
first, some replaced, some kept when left out. An open-source build (`enterprise` is
FALSE) drops the CAs; a private route with grants Pangolin refuses is rejected
(`GrantsFit`), unless the listing of users failed (`ReadUnlisted`), and then Pangolin
refuses the document (`ApplyRefused`).

**Admission** puts the controller's checks on a private resource or policy (`Fits`)
beside those of Pangolin (`PangolinTakes`), with the listings of sites, users and
machines that the former rest on. The organisation also holds what no listing tells
(`Unseen`): the registered base domains, and the places its databases know.

**Ordering** has the loops over slices that both of these need: `Picked(s, places)`, the
elements of a sequence at some places, and `InOrder(S, before)`, a finite set sorted.
They are written with cardinalities instead of `SelectSeq` and folds so that they can be
reasoned about: of a recursive definition TLAPS can prove nothing for every input.

Definitions marked *faulty variant* are not used by the specification: each is
how one definition would look with a plausible bug, kept to show that a property
would notice it (`PROJECT.json`, `mutants`).

### What is abstracted

* In `Rendering` every check on an object alone is `spec.ok`; what those checks are is
  the business of `Access` and `Admission`. One parent, one name, one site per object; private
  resources are of mode host with an alias. Names are compared as they are, so
  the difference of case is not modelled.
* `born` and `ver` of a copy are numbers of edits: creation times never tie
  between objects edited in a run, only between those there from the start, where
  `Rank` decides. `ver` moves with annotations too, so a status may be written
  once more than in the code, with the same content.
* A status is one state, the version it speaks of and whether it carries a key.
  A conflict is a copy that is no longer the one that was read.
* An informer takes over everything it lags behind on for its kind in one step.
* In `Publisher`, listing machines and users and confirming mTLS have no effect, and
  resolving credentials and CAs only matters where it aborts the pass; `Admission`,
  `BasicAuthSecret` and `MtlsVerify` take them up.
* `Licensed` is both the flag of the controller and what Pangolin has.
* Every object has a site; a missing `--default-site` is not modelled.
* `RouteStatus`: the conditions of an entry are one outcome and its generation; keys
  and controller names are numbers in their order. An edit of another controller
  replaces or drops its own entries.
* `Listing`: one table, though a prune lists three, and no answer that contradicts
  itself. A listing is sorted by niceId, as the fake server does it.
* `BasicAuthSecret` and `MtlsVerify`: a document given up on does not land after later
  passes. `Publisher` has that (`LateLands`), and there an old document overwrites a new
  one until the next pass; the same would happen to passwords and CAs.
* `BasicAuthSecret`: one name, which a Secret can always have. Users delete a Secret,
  empty it or take the name; nobody writes another password into a Secret of the
  controller's, which would be published as it is. `retired` is a history
  variable, forgotten when the password is no longer published.
* `MtlsVerify`: certificates are their fingerprints; the dry run is left out, since it
  skips the check. `meddled` is a history variable.
* `Access`: a lock (basic auth, PIN, whitelist, rules, CAs) is on or off, whatever its
  value; `Blank` and `Bad` are the annotations that are there but empty, and those
  that cannot be read. What a list grants is a set of names. The build does not
  change while the controller runs. What Pangolin makes of the admin role or of unknown
  users on a *public* resource is nowhere in the repository; the lists are taken as sent.
* `Admission`: the refusal of a users list that resolves to nothing is that of 1.22
  (docs/private-resources.md:135-137); later releases may take it. One object, on a licensed controller; a word is of a kind (`ipv4`,
  `domain`, `wildcard`...), and a port that is no number is 0.

## 3. What TLC checks

Bounds are small and named in each `.cfg`: `MaxEdits` edits by users, `MaxFaults`
faults, `MaxMeddles` or `MaxChanges` changes by others, one or two objects of the kinds
a run is about. Two edits are the smallest number that lets something change during
a pass and change again or be joined by a rival; passes themselves are unbounded, so a
run covers every way the edits and faults fall into any number of passes. A hand-made
row is in every section throughout.

| Run | Checks | Instance |
|---|---|---|
| `Routes` | `TypeOK`, `NoLostWakeup`, `ReplacedBeforePruned`, `DocumentAcceptable`, `ProgrammedOnlyWhenLive` | a route that goes public, private or away, a rival for its hostname that can also sit at another site, a Gateway that may go; apply, list or delete fails once |
| `Policies` | `PolicyPruneUnblocked`, `DocumentAcceptable` | a route naming one of two policies that come and go; list or delete fails once |
| `Convergence` | `NoLostWakeup`, `ForeignRowsUntouched`, `KeepsPromise`, `Converges` | a private resource that moves between sites, comes and goes, a class that stays; two edits, one fault of any kind |
| `RouteStatus` | `TypeOK`, `WritesSettle`, `OneEntryPerParent`, `OthersUntouched`, `StatusFollows` | two Gateways, a parent with two ports, a Service, a controller sorted before and one after; two edits |
| `Listing` | `TypeOK`, `GrowthHidesNothing`, `DeletesOnlyOrphans`, `OrphansGo` | five rows and a sixth that may come, on pages of two; three changes, two faults; both endings, every set of lapses |
| `BasicAuth` | `TypeOK`, `OwnPassword`, `ChangesOnlyByRotation`, `OpenOnlyWhenAsked`, `SettlesOnOwnSecret`, `DryRunWritesNothing` | two births, five edits, two faults, with and without dry run |
| `Mtls` | `TypeOK`, `NeverFailsTheApply`, `AcceptedMeansActive`, `NeverOpenUnasked`, `Settles` | two routes and a CA object they may share, three certificates where two fit, both builds; an edit, a meddling, a fault |
| `Access` | `TypeOK`, `ProtectedAsAsked`, `NothingIgnored`, `Settles` | six sorts of route, every annotation edited, twice; both builds; a grant, a fault; a user, and a name that is none |
| `Admission` | `TypeOK`, `OneObjectFailsNoDocument`, `PartlyResolvedIsPublished`, `DocumentsAreTaken` | every destination, alias, field and port about the ends of its range, names of two users, two machines, two sites, domains and places that come and go twice; names that fit and that do not; a listing that fails |

Each of these passes. In words:

* `NoLostWakeup`: if something the running pass has read is outdated in the cache,
  another pass is queued; an idle controller with nothing queued and no timer has
  never seen an object.
* `ReplacedBeforePruned`: while rows may be deleted the pass's own document is
  stored in full. Assumes nobody interferes (`Undisturbed`: no late request, no
  dashboard), since the code cannot know.
* `PolicyPruneUnblocked`: when policies are pruned after a pass without failures,
  none of the controller's rows names one of them.
* `DocumentAcceptable`: a rendered document whose sites are still what was listed
  is one an empty organisation accepts.
* `ForeignRowsUntouched`: rows without `gw-` change by other hands only.
* `ProgrammedOnlyWhenLive`: a status that says `Programmed` is written only while
  exactly that row is stored.
* `Converges`: eventually and for good, owned rows equal what the cluster asks
  for, exactly the published objects say `Programmed`, and exactly those carry a key.
* `KeepsPromise`: `Publisher` implements `DesiredState`, whatever fails or crashes
  inside a pass and whatever comes between its steps from outside.
* `OthersUntouched`: a status write loses, adds or changes no entry of another
  controller. `OneEntryPerParent`: ours never has two for a parent. `WritesSettle`: a
  second write of the same verdict is no write, or the controller would wake itself
  up for ever. `StatusFollows`: entries come to say what holds, and go with their
  parent.
* `GrowthHidesNothing`: if no row disappeared during a listing that counts as
  complete, every row that was there throughout is in it, provided that the client can
  tell what the instance gets wrong (`Noticed`): a page that is ignored shows in the page
  answered, a missing total only where it is looked for. `DeletesOnlyOrphans`: what a
  prune deletes is owned and unnamed, though ids are some requests old. `OrphansGo`: every orphan goes for good, if
  the instance serves the page asked for and a total.
* `OwnPassword`: the password in Pangolin was made for the very birth of the route
  that is published. `ChangesOnlyByRotation`: it is replaced only after somebody took
  it from the Secret. `OpenOnlyWhenAsked`: no row without one for a route that, as read,
  asked for protection. `SettlesOnOwnSecret`: the row comes to hold what the Secret
  does.
* `NeverFailsTheApply`: no CA object makes Pangolin refuse the document.
  `AcceptedMeansActive`: accepted implies trusted, unless somebody meddled since the
  apply. `NeverOpenUnasked`: CAs disappear only from routes that ask for none.
  `Settles`: sets and statuses come to agree with annotations and CA objects, in an
  open-source build by saying `MtlsNotApplied`.
* `ProtectedAsAsked`: after an apply exactly the locks the route asks for are in force,
  whatever it or its policy asked for before; on an open-source build, all of them but
  CAs (docs/mtls.md:20-24), which is what `MtlsVerify` has the status say.
  `NothingIgnored`: whatever an accepted route says takes effect, with that exception. `Settles` (Access): it does so in the end, on the side,
  public or private, the route belongs to.
* `OneObjectFailsNoDocument`: an object let in by a pass whose listings were complete
  and are still true is one Pangolin takes, unless it is for one of three reasons the
  controller does not look into (`Foreseen`): an unregistered base domain, a place no
  database knows, a default name that is too long. `PartlyResolvedIsPublished`: one Pangolin
  takes is let in although some of its names do not resolve. `DocumentsAreTaken`: with
  the organisation at rest and none of the three, documents are.

**Why the bounds are enough.** A listing needs three pages for a row to move across
both a page that is read and one that is not, and a change before and after it;
six ids on pages of two give that. A Secret needs two births for an owner that is not
the route, and five edits to delete, create, rotate, annotate and take the name. CAs need three
certificates with a limit of two to be too many, equal, disjoint and overlapping.
An edit of annotations changes one of them, so two take a route from one lock or
policy to another. `MaxFaults = 1` means one fault at any point of any pass.

**Fairness** (`FairSpec`): the single worker goes on with a pass, each informer
delivers, the timer fires, a crashed controller is restarted. That is what the
manager, client-go and the Deployment do. Nothing is assumed of users, of faults
or of requests given up on: one of those may never land, and `Converges` holds
either way. The smaller modules assume the same in brief: weak fairness of `Pass`, that
is one pass after the other as the resync of every return brings about, of the
informer, and in `BasicAuthSecret` of the garbage collector. The number of faults is bounded because no controller converges
under faults that never end. Two things `Converges` depends on are left out of its instance because each has a
run of its own that shows how it fails: a second resource that takes over an alias
(`AliasHandover`), and a cluster without any object (`DeletedWhileDown`), hence the
class that stays. It has no policy either, so it says nothing of a policy delete that
fails, which no status and no error tells. `Converges` holds of that as well: in
`Policies` with `FairSpec`, `SpecsOf <- LeavingSpecs`, `Policies = {"staff"}` and
`Faults = {"delete"}`, one name and one site (312,000 states, two edits).

### Where code and documentation part

Three runs end in a counterexample; each checks one sentence of the repository.

* `AliasHandover`: delete a private resource and give its alias to another before
  the next pass. The apply is refused because the old row still holds the alias,
  the old row is pruned only after an apply that succeeds, so both wait for ever,
  and every other change with them.
* `TornRead`: the Gateways are read, then a Gateway is created and a route moved to
  it, then the routes are read. The pass sees a route without a Gateway and deletes
  its row, although the route was served in every state of the cluster
  (`PruneSparesClaimed`). The next pass puts the row back.
* `DeletedWhileDown`: the last object is deleted while the controller is down. No
  event starts a pass after the restart, so its row stays until some object is
  created.

Smaller ones have no run of their own. TLC finds each when the property is added to
the configuration named, with the change named:

| Property | Configuration | What happens |
|---|---|---|
| `KeyNamesRow` | `Convergence`, `DryRun = TRUE` | a dry run fills `status.resourceKey` of resources that are not in Pangolin |
| `KeyNamesRow` | `Convergence`, `FlappingSpecs`, `FlappingInitially`, `Classes = {}` | a resource turns invalid and is pruned, the write of that status conflicts because the resource was corrected, and the next apply fails: the status is written with the key it had, which names no row |
| `SurvivorsAreNamed` | `RouteStatus` | entries are found by a key without the port: a parentRef that gets another port keeps the entry that names the old one |
| `OnlyGatewaysReported` (invariant) | `RouteStatus` | a route whose Gateways are all missing is reported on every parent it names, a mesh Service included |
| `StayedIsListed` (invariant) | `Listing` | pages go by number: a row deleted between two requests pulls one that stays out of the listing; if that is a site, the objects that name it are rejected and pruned until the next pass. Nor does it hold without any deletion, where the loop takes a first page without a total for all there is (sites and both resources), or an instance ignores the page and does not say which it answers with |
| `MismatchFlips` | `Mtls` | the check after the apply asks for a superset: a CA somebody added goes unnoticed |
| `BothListsSent` | `Access` | an empty list is left out of the document, so naming roles alone does not revoke the users granted in the dashboard |
| `AnythingIsCaught` | `Admission`, `Objects <- Website`, `Orgs <- HomeOnly` | "anything Pangolin would reject is caught here" (`privateresource.go:90-91`): a website of members under a base domain nobody registered is let in and the document of everybody refused, as docs/private-resources.md:173-175 admits |
| `AnythingIsCaught` | `Admission` | "every check it runs is repeated here" (`policy.go:144-145`): not those of countries, networks and regions, as README.md:285-290 admits, nor that of the length of a name, and namespace and name of a policy together may be longer than Pangolin takes |
| `GrantsOnlyPrivate` | `Access` | "`roles` and `users` on a public route are likewise rejected" (README.md:547-549): they are published as `sso-roles` and `sso-users`, which is what README.md:159-162 says |

## 4. What is proved

Every safety property of the passing runs, invariant or action property, is a theorem
for all values of the constants, and so is the refinement. A property checked by a run
on a small instance and stated by a theorem has the same definition in both.

| Module | Theorem | States |
|---|---|---|
| `PublisherProofs` | `Typing` | `Spec => []TypeOK` |
| | `ForeignRows` | `Spec => ForeignRowsUntouched` |
| | `NoWakeupLost` | `Spec => []NoLostWakeup` |
| | `Replacement` | `Spec => []ReplacedBeforePruned` |
| | `PoliciesLast` | `Spec => []PolicyPruneUnblocked` |
| | `Acceptable` | `Spec => []DocumentAcceptable` |
| | `LiveWhenProgrammed` | `Spec => ProgrammedOnlyWhenLive` |
| | `Refinement` | `Spec => KeepsPromise` |
| `RouteStatusProofs` | `Typing`, `OnePerParent`, `Settles`, `Untouched` | `TypeOK`, `OneEntryPerParent`, `WritesSettle`, `OthersUntouched` |
| `ListingProofs` | `Typing`, `GrowthIsHarmless`, `DeletesAreApt` | `TypeOK`, `GrowthHidesNothing`, `DeletesOnlyOrphans` |
| `BasicAuthSecretProofs` | `Typing`, `PasswordIsOwn`, `RotationOnly`, `NeverOpen`, `DryRunIsDry` | `TypeOK`, `OwnPassword`, `ChangesOnlyByRotation`, `OpenOnlyWhenAsked`, `DryRunWritesNothing` |
| `MtlsVerifyProofs` | `Typing`, `ApplySpared`, `AcceptedIsActive`, `NeverOpen` | `TypeOK`, `NeverFailsTheApply`, `AcceptedMeansActive`, `NeverOpenUnasked` |
| `AccessProofs` | `Typing`, `Protection`, `AllHeeded` | `TypeOK`, `ProtectedAsAsked`, `NothingIgnored` |
| `AdmissionProofs` | `Typing`, `NoDocumentFails`, `PartlyResolved` | `TypeOK`, `OneObjectFailsNoDocument`, `PartlyResolvedIsPublished` |

No theorem has a condition of its own: where the code is weaker than its surroundings,
the property names the exception (`Noticed` in `Listing`, `Foreseen` in `Admission`,
`Understood` in `Access`, `Undisturbed` in `Publisher`). `Listing`, `Admission` and
`Access` have the excepted cases among the states of their runs, and section 3 says what
happens in them.

### Assumptions

The named `ASSUME`s of the modules, which TLC evaluates in every run:

* `Publisher`: foreign keys are keys and no object's `KeyOf` is foreign, ranks are
  distinct, kinds are pairwise disjoint, `NoRow`, `None`, `Absent` are none of the values
  they stand beside, bounds are naturals.
* `RouteStatus`: keys and controller names are numbers, parentRefs are sequences of
  references.
* `Listing`: `Lapses` are three words; names are finitely many numbers, the first rows fit in the ids.
* `BasicAuthSecret`, `MtlsVerify`, `Access`: the values for "nothing there", "refused",
  "blank" and "unreadable" are none of the ordinary ones.
* `Admission`: objects have the fields of the two kinds, and there is a default site,
  without which the controller does not start (`cmd/main.go:55`). `Access`: users are
  among the names annotations may grant to, and a shared policy has no basic auth and no
  CAs.

### The arguments

**Publisher.** `Typing` needs `PassLocals` beside it: the objects whose status is still
to be written are ones the pass has read, and there are none before the last phase.
`ForeignRows` follows from the types: a document names owned keys only, and so does
whatever a pass or a late request deletes. `NoLostWakeup` is inductive given the types: a
delivery queues the key exactly when a version changes, a read can only bring the
view closer to the cache, a return sets the timer and a restart queues whatever
exists. `Replacement` goes through `PruneInv`: while undisturbed nothing is on its
way that could land later, the document is stored whenever rows may be deleted, and
no row held for deletion is in the document. `PoliciesLast` goes through `PolicyInv`,
the phase order of the prune: in a pass that has not failed, the public rows outside
the document are those still held for deletion, and none once another section is
reached. `LiveWhenProgrammed` adds `StatusInv`: after an apply that succeeded, the
document is stored until the last status is written.

`Acceptable` is about the renderer alone. `Winners` awards a key and a name to the oldest
claimant, and a claimant that loses claims nothing, so the definition refers to itself
for every older object. `Oldest` shows that any set of claimants has an oldest one. From
that, two decisions of the claims agree (`DecisionsAgree`: consider the oldest claimant they
differ on) and one on all of them exists (`DecisionExists`: consider the oldest that none
reaches), so the recursion has a value and `Winners` is it (`WinnersDecide`); two
winners never share a name (`WinnersApart`). With the checks on policies and sites, no
reason to refuse is left.

`Refinement` shows that the first state has no offer, and that each action is `Take`,
`Remove`, `Withdraw`, a step of the surroundings or a stutter of `DesiredState`. What
makes deletes steps of the promise is `OrphansUnnamed`: rows held for deletion are not in
the document of the pass, since both come from the same view.

**RouteStatus.** `Makes` says what `SetRouteStatus` returns from any list: entries of
others as often as before, one entry per parent if there was one, ours current, all in
order. `Settled` says that it leaves a list that is current and in order alone;
the two give `WritesSettle`. For the rest, the invariant adds `CopiesHold`: the cached
list and the one a pass has read have one entry per parent too, and a copy that is the
latest *is* the route. The latter is optimistic concurrency, and without it
`OthersUntouched` fails (mutant `WriteRegardless`).

**Listing.** `ListedOrAhead` is why growth hides nothing: a row that was there all along
is listed or its place is behind the pages fetched, and rows that appear only move it
further back. `EndsInFull`: the listing ends when the places are used up.
For the deletes, `IdsAreOnce` and `ListedIdsHold`: an id once listed is that of the same
name or of none, since ids are not given again.

**BasicAuthSecret.** `PassLocals` (a pass that read a protected route applies it with an
answer or not at all), `MadeForOwner` (a password in a Secret was made for its owner, what
a pass holds for the route it read) and `KeptOrRetired` (a password that is published or
about to be is in the Secret, or somebody took it out) are inductive together.

**MtlsVerify.** `Validated` (what was not refused fits the limit), `EmptyAsAsked`
(a set is empty only if no source is named) and `AcceptedSoFar` (which verdicts a pass
will still call accepted at each step) are inductive with the types.

**Access, Admission.** The invariants say little more than what a pass holds was read:
`SentAsRead`, and `ToldTrue`, that listings are true while the organisation is at rest.
The work is in comparing two sets of rules: that every annotation reaches the row through
the merge of Pangolin, field by field, and that whatever passes the controller's
checks passes Pangolin's.

### Only model-checked

* Liveness, which is beyond the prover: `Converges`, `StatusFollows`, `OrphansGo`,
  `SettlesOnOwnSecret`, `DocumentsAreTaken`, `Settles` in `MtlsVerify` and in `Access`.
* What the three violation runs and the table of section 3 refute.

## 5. What is not modelled, and the plan

Not modelled:

* metrics, logs, messages of conditions: nothing depends on them;
* flags and manager set-up, generated code, charts, CI, the test harness;
* hostname syntax, path matches, filters, backends, and the syntax of single rules,
  PINs, e-mail addresses and durations: each is one verdict of a value, since only
  whether it is refused matters, and text is out of TLC's reach;
* the checks Pangolin makes of a public resource's targets, all of them fields the
  renderer fills in itself;
* the dry run of `MtlsVerify` (no check is made) and of `Access` (nothing is applied).
  `BasicAuth` runs with it; `Publisher` has it, and the theorems hold with and without
  it, but its runs have `DryRun = FALSE`.

Still to be proved, in this order:

1. The safety half of `Converges`: once nobody interferes and nothing fails, a pass that
   has read the cluster as it is leaves exactly the rows that are asked for
   (`OrphansUnnamed` and `Replacement` are its parts).
2. That the modules below `Publisher` refine the step they stand for: a pass of
   `BasicAuthSecret` and of `MtlsVerify` is `ResolveCredentials` with its two outcomes,
   a pass of `Listing` is `ListSection`.
3. The surroundings: that `Applied` keeps what `Refuses` guards (no alias or host twice in
   the organisation), so that a document refused today is refused for a row that
   is there.
