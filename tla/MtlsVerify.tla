------------------------------ MODULE MtlsVerify ------------------------------
(***************************************************************************)
(* Client certificate authorities: where a route's CAs come from           *)
(* (controller/mtls.go, gateway/mtls.go), how Pangolin takes them          *)
(* (pangolinfake), and how the controller finds out afterwards whether     *)
(* they took effect.  An open-source build of Pangolin drops the field and *)
(* answers as if nothing were wrong, so a successful apply says nothing.   *)
(*                                                                         *)
(* Routes are read once in a pass, CA objects one by one without a cache,  *)
(* and nobody watches them: a change of one is found by a later pass.      *)
(* A PEM value is the sequence of its blocks.                              *)
(***************************************************************************)
EXTENDS Naturals, FiniteSets, Sequences, Functions

CONSTANTS
    Routes,
    Certs,        \* certificates, told apart by fingerprint
    Key, Bad,     \* blocks that are a private key, or no certificate Pangolin can parse
    Objects,      \* Secrets and ConfigMaps that may hold a CA
    Pems,         \* the PEM values users write
    Wishes,       \* the sets of sources a route may name: objects and inline PEMs
    MaxPerRoute,  \* maxMtlsCertificates
    Builds,       \* "enterprise" and "opensource": what Pangolin may be
    Missing,      \* an object that does not exist, or has no CA key
    Refused,      \* a CA set that cannot be had
    MaxEdits,     \* bound on what users do in the cluster
    MaxMeddles,   \* bound on what others do in Pangolin
    MaxFaults     \* bound on what fails

ASSUME MtlsAssumption ==
    /\ Key \notin Certs /\ Bad \notin Certs /\ Key # Bad
    /\ Missing \notin Pems /\ Refused \notin Pems
    /\ Pems \subseteq Seq(Certs \cup {Key, Bad})
    /\ Wishes \subseteq SUBSET (Objects \cup Pems) /\ {} \in Wishes
    /\ MaxPerRoute \in Nat \ {0}
    /\ Builds \subseteq {"enterprise", "opensource"}
    /\ MaxEdits \in Nat /\ MaxMeddles \in Nat /\ MaxFaults \in Nat

VARIABLES
    wish,      \* the sources each route's annotations name
    content,   \* what each object holds
    build,     \* the build Pangolin runs
    rows,      \* the routes that have a public resource
    trusted,   \* the CAs Pangolin stores under each route's name
    status,    \* the state each route's Accepted condition shows
    pc,        \* "idle", "resolve", "apply", "list", "check", "prune" or "status"
    view,      \* the wishes this pass has read
    todo,      \* the routes still to be resolved, or to be checked
    resolved,  \* the CAs found for each route: a PEM, Refused
    verdict,   \* the state each route is going to show
    meddled,   \* whether others changed Pangolin since the apply
    edits, meddles, faults

cluster  == <<wish, content>>
pangolin == <<build, rows, trusted>>
pass     == <<view, todo, resolved, verdict>>
vars     == <<cluster, pangolin, status, pc, pass, meddled, edits, meddles, faults>>

States == {"Unknown", "Accepted", "UnsupportedValue", "PublishFailed", "MtlsNotApplied"}

----------------------------------------------------------------------------
(* What a source holds.                                                    *)

\* Faulty variant: certificates are looked at but not counted.
NotCounted(pem) == IF Range(pem) \subseteq Certs /\ pem # <<>> THEN pem ELSE Refused

\* Each certificate counts, also one that is there twice.
ValidatedCA(pem) ==
    IF /\ Range(pem) \subseteq Certs
       /\ Len(pem) \in 1..MaxPerRoute
    THEN pem ELSE Refused

\* Faulty variant: only a value in an annotation is validated.
ResolvedAsHeld(sources) ==
    IF sources = {} THEN <<>>
    ELSE IF Cardinality(sources) > 1 THEN Refused
    ELSE LET source == CHOOSE s \in sources : TRUE
         IN  IF source \notin Objects THEN ValidatedCA(source)
             ELSE IF content[source] = Missing THEN Refused
             ELSE content[source]

\* A route names one source at most; one that names none has the empty set.
ResolvedFrom(sources) ==
    IF sources = {} THEN <<>>
    ELSE IF Cardinality(sources) > 1 THEN Refused
    ELSE LET source == CHOOSE s \in sources : TRUE
         IN  IF source \notin Objects THEN ValidatedCA(source)
             ELSE IF content[source] = Missing THEN Refused
             ELSE ValidatedCA(content[source])

----------------------------------------------------------------------------
(* A pass.                                                                 *)

Requested(r) == view[r] # {}

\* A pass that ends early leaves nothing behind but what it wrote.
Abort ==
    /\ pc' = "idle"
    /\ todo' = {}
    /\ view' = [r \in Routes |-> {}]
    /\ resolved' = [r \in Routes |-> <<>>]
    /\ verdict' = [r \in Routes |-> "Unknown"]

Read ==
    /\ pc = "idle"
    /\ view' = wish
    /\ todo' = {r \in Routes : wish[r] # {}}
    /\ pc' = "resolve"
    /\ UNCHANGED <<cluster, pangolin, status, resolved, verdict, meddled,
                   edits, meddles, faults>>

\* One route's source is read.
Resolve(r) ==
    /\ pc = "resolve" /\ r \in todo
    /\ resolved' = [resolved EXCEPT ![r] = ResolvedFrom(view[r])]
    /\ todo' = todo \ {r}
    /\ UNCHANGED <<cluster, pangolin, status, pc, view, verdict, meddled,
                   edits, meddles, faults>>

\* Faulty variant: a route whose CAs cannot be had is published without them.
PublishedOpenly(r) == TRUE

Published(r) == resolved[r] # Refused

Render ==
    /\ pc = "resolve" /\ todo = {}
    /\ verdict' = [r \in Routes |-> IF Published(r) THEN "Accepted" ELSE "UnsupportedValue"]
    /\ pc' = "apply"
    /\ UNCHANGED <<cluster, pangolin, status, view, todo, resolved, meddled,
                   edits, meddles, faults>>

\* What the document says of a route: Pangolin keeps one certificate of a kind.
Sent(r) == IF resolved[r] = Refused THEN {} ELSE Range(resolved[r])

DocumentRefused ==
    /\ build = "enterprise"
    /\ \E r \in Routes :
           /\ Published(r)
           /\ ~ (Sent(r) \subseteq Certs) \/ Cardinality(Sent(r)) > MaxPerRoute

\* Faulty variant: only routes that ask for CAs say anything about them.
SentWhenAsked ==
    /\ rows' = rows \cup {r \in Routes : Published(r)}
    /\ trusted' = [r \in Routes |->
           IF Published(r) /\ Requested(r) /\ build = "enterprise" THEN Sent(r) ELSE trusted[r]]

\* The set becomes what was sent, empty ones included; the open-source build
\* does not see it.
TakeDocument ==
    /\ rows' = rows \cup {r \in Routes : Published(r)}
    /\ trusted' = [r \in Routes |->
           IF Published(r) /\ build = "enterprise" THEN Sent(r) ELSE trusted[r]]

MarkPublishFailed ==
    /\ verdict' = [r \in Routes |->
           IF verdict[r] = "Accepted" THEN "PublishFailed" ELSE verdict[r]]
    /\ pc' = "status"

Apply ==
    /\ pc = "apply"
    /\ meddled' = FALSE
    /\ \/ DocumentRefused /\ MarkPublishFailed /\ UNCHANGED <<rows, trusted>>
       \/ ~ DocumentRefused /\ TakeDocument /\ pc' = "list" /\ UNCHANGED verdict
    /\ UNCHANGED <<cluster, build, status, view, todo, resolved, edits, meddles, faults>>

\* The request fails, having taken effect or not.
ApplyFails ==
    /\ pc = "apply"
    /\ faults < MaxFaults /\ faults' = faults + 1
    /\ UNCHANGED <<rows, trusted>> \/ (~ DocumentRefused /\ TakeDocument)
    /\ MarkPublishFailed
    /\ UNCHANGED <<cluster, build, status, view, todo, resolved, meddled, edits, meddles>>

Wanted == {r \in Routes : verdict[r] = "Accepted" /\ Sent(r) # {}}

MarkNotApplied(rs) ==
    verdict' = [r \in Routes |-> IF r \in rs THEN "MtlsNotApplied" ELSE verdict[r]]

\* The resources are listed once; a route that is not among them is not confirmed.
List ==
    /\ pc = "list"
    /\ todo' = Wanted \cap rows
    /\ MarkNotApplied(Wanted \ rows)
    /\ pc' = "check"
    /\ UNCHANGED <<cluster, pangolin, status, view, resolved, meddled,
                   edits, meddles, faults>>

ListFails ==
    /\ pc = "list" /\ Wanted # {}
    /\ faults < MaxFaults /\ faults' = faults + 1
    /\ MarkNotApplied(Wanted)
    /\ pc' = "prune"
    /\ UNCHANGED <<cluster, pangolin, status, view, todo, resolved, meddled,
                   edits, meddles>>

\* Faulty variant: any one of the CAs will do.
CoversSome(r) == Sent(r) \cap trusted[r] # {}

Covers(r) == Sent(r) \subseteq trusted[r]

\* One route's certificates are read back.
Check(r) ==
    /\ pc = "check" /\ r \in todo
    /\ MarkNotApplied(IF r \in rows /\ Covers(r) THEN {} ELSE {r})
    /\ todo' = todo \ {r}
    /\ UNCHANGED <<cluster, pangolin, status, pc, view, resolved, meddled,
                   edits, meddles, faults>>

CheckFails(r) ==
    /\ pc = "check" /\ r \in todo
    /\ faults < MaxFaults /\ faults' = faults + 1
    /\ MarkNotApplied({r})
    /\ todo' = todo \ {r}
    /\ UNCHANGED <<cluster, pangolin, status, pc, view, resolved, meddled,
                   edits, meddles>>

Checked ==
    /\ pc = "check" /\ todo = {}
    /\ pc' = "prune"
    /\ UNCHANGED <<cluster, pangolin, status, pass, meddled, edits, meddles, faults>>

\* Routes that were not rendered go; their certificates stay behind their name.
Prune ==
    /\ pc = "prune"
    /\ rows' = {r \in rows : Published(r)}
    /\ pc' = "status"
    /\ UNCHANGED <<cluster, build, trusted, status, pass, meddled, edits, meddles, faults>>

WriteStatus ==
    /\ pc = "status"
    /\ status' = verdict
    /\ Abort
    /\ UNCHANGED <<cluster, pangolin, meddled, edits, meddles, faults>>

\* A CA that cannot be read, a status that cannot be written, a crash.
PassFails ==
    /\ pc # "idle"
    /\ faults < MaxFaults /\ faults' = faults + 1
    /\ Abort
    /\ UNCHANGED <<cluster, pangolin, status, meddled, edits, meddles>>

----------------------------------------------------------------------------
(* Users, and whoever else has the keys to Pangolin.                       *)

Edit ==
    /\ edits < MaxEdits /\ edits' = edits + 1
    /\ \/ \E r \in Routes, w \in Wishes :
              w # wish[r] /\ wish' = [wish EXCEPT ![r] = w] /\ UNCHANGED content
       \/ \E o \in Objects, p \in Pems \cup {Missing} :
              p # content[o] /\ content' = [content EXCEPT ![o] = p] /\ UNCHANGED wish
    /\ UNCHANGED <<pangolin, status, pc, pass, meddled, meddles, faults>>

\* Someone edits a set in the dashboard, deletes a resource, or installs the
\* other build.
Meddle ==
    /\ meddles < MaxMeddles /\ meddles' = meddles + 1
    /\ meddled' = TRUE
    /\ \/ \E r \in rows, cs \in SUBSET Certs :
              /\ build = "enterprise" /\ cs # trusted[r]
              /\ trusted' = [trusted EXCEPT ![r] = cs]
              /\ UNCHANGED <<build, rows>>
       \/ \E r \in rows : rows' = rows \ {r} /\ UNCHANGED <<build, trusted>>
       \/ \E b \in Builds : b # build /\ build' = b /\ UNCHANGED <<rows, trusted>>
    /\ UNCHANGED <<cluster, status, pc, pass, edits, faults>>

----------------------------------------------------------------------------
Init ==
    /\ wish \in [Routes -> Wishes]
    /\ content \in [Objects -> Pems \cup {Missing}]
    /\ build \in Builds
    /\ rows = {} /\ trusted = [r \in Routes |-> {}]
    /\ status = [r \in Routes |-> "Unknown"]
    /\ pc = "idle"
    /\ view = [r \in Routes |-> {}] /\ todo = {}
    /\ resolved = [r \in Routes |-> <<>>]
    /\ verdict = [r \in Routes |-> "Unknown"]
    /\ meddled = FALSE
    /\ edits = 0 /\ meddles = 0 /\ faults = 0

Pass ==
    \/ Read
    \/ \E r \in Routes : Resolve(r) \/ Check(r)
    \/ Render
    \/ Apply
    \/ List
    \/ Checked
    \/ Prune
    \/ WriteStatus

Next ==
    \/ Pass
    \/ ApplyFails
    \/ ListFails
    \/ \E r \in Routes : CheckFails(r)
    \/ PassFails
    \/ Edit
    \/ Meddle

Spec == Init /\ [][Next]_vars

\* One pass after the other, at least every resync interval.
FairSpec == Spec /\ WF_vars(Pass)

----------------------------------------------------------------------------
(* Properties.                                                             *)

\* CA values without a private key or a certificate nobody can parse in them.
CAs == {p \in Pems : Range(p) \subseteq Certs}

\* Every variable holds a value of its type: a pass holds no CA value, wherever it
\* comes from, that has anything but certificates in it.
TypeOK ==
    /\ wish \in [Routes -> Wishes] /\ view \in [Routes -> Wishes]
    /\ content \in [Objects -> Pems \cup {Missing}]
    /\ build \in Builds
    /\ rows \subseteq Routes /\ trusted \in [Routes -> SUBSET Certs]
    /\ status \in [Routes -> States] /\ verdict \in [Routes -> States]
    /\ pc \in {"idle", "resolve", "apply", "list", "check", "prune", "status"}
    /\ todo \subseteq Routes
    /\ resolved \in [Routes -> CAs \cup {<<>>, Refused}]
    /\ meddled \in BOOLEAN
    /\ edits \in 0..MaxEdits /\ meddles \in 0..MaxMeddles /\ faults \in 0..MaxFaults

\* "so a bad CA is caught before the transactional apply" (mtls.go:133-135): no
\* route's CA, whatever an object came to hold, fails the others' document.
NeverFailsTheApply == pc = "apply" => ~ DocumentRefused

\* "the control is never reported active when it is not" (mtls.go:173-175): when
\* a route that asked for CAs is reported accepted, Pangolin has a resource for
\* it and trusts the CAs found for it in this pass, unless someone else has had
\* a hand in it since the apply.
AcceptedMeansActive ==
    [][\A r \in Routes :
          (WriteStatus /\ Requested(r) /\ status'[r] = "Accepted" /\ ~ meddled)
              => /\ r \in rows
                 /\ resolved[r] # Refused
                 /\ Range(resolved[r]) \subseteq trusted[r]]_vars

\* A route is never published open for want of its CA (mtls.go:32-34): the pass
\* brings up a resource, or takes CAs from one, only as the annotations say.
NeverOpenUnasked ==
    [][\A r \in Routes :
          (/\ pc = "apply" /\ build = "enterprise" /\ UNCHANGED meddles
           /\ r \in rows' \ rows \/ trusted'[r] # trusted[r])
              => (trusted'[r] = {} <=> view[r] = {})]_vars

\* What a route that asks for a CA set, or none, comes to in the end.
Agrees(r) ==
    LET found == ResolvedFrom(wish[r])
    IN  IF found = Refused THEN r \notin rows /\ status[r] = "UnsupportedValue"
        ELSE /\ r \in rows
             /\ build = "enterprise" => trusted[r] = Range(found)
             /\ status[r] = IF Range(found) \subseteq trusted[r] THEN "Accepted"
                            ELSE "MtlsNotApplied"

\* "Removing the annotation therefore clears Pangolin's set on the next pass"
\* (docs/mtls.md:45-46), and so with every change of an annotation or of a CA
\* nobody watches: once all rests, sets and statuses are those asked for, or the
\* status says that they are not.
Settles == <>[](\A r \in Routes : Agrees(r))

\* "A set that is empty, mismatched, or unreadable flips that route alone to
\* MtlsNotApplied" (mtls.go:172-173): an accepted route's set is the one sent.
\* This does not hold: a set with more CAs passes.
MismatchFlips ==
    [][\A r \in Routes : Check(r) /\ verdict'[r] = "Accepted" => trusted[r] = Sent(r)]_vars
=============================================================================
