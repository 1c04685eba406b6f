-------------------------------- MODULE Access --------------------------------
(***************************************************************************)
(* Who gets through a published route, and how its target is checked: what *)
(* one route's annotations say (gateway/render.go, visibility.go,          *)
(* policy.go, pincode.go, emailwhitelist.go, rules.go, healthcheck.go),    *)
(* what its entry in the document says, and what Pangolin makes of it,     *)
(* setting by setting: some are replaced by every apply, some are left as  *)
(* they are when the entry does not name them (pangolin/blueprint.go).     *)
(* So what is in force may depend on documents long gone, and that is what *)
(* this module is about.  How passes and documents go wrong otherwise is   *)
(* the business of Publisher.                                              *)
(*                                                                         *)
(* An annotation is None when it is absent; Blank is present and says      *)
(* nothing, Bad is a value the code refuses.                               *)
(***************************************************************************)
EXTENDS Naturals

CONSTANTS
    Grantees,     \* names of roles and users that annotations may grant access to
    Members,      \* those that are users of the organisation
    None, Blank, Bad,
    Starts,       \* the annotations a route is created with
    Licensed,     \* the --pangolin-licensed flag
    PolicyLocks,  \* the locks the policy has
    MaxEdits,     \* bound on what users do in the cluster
    MaxMeddles,   \* bound on what is granted in the dashboard
    MaxFaults     \* bound on what fails

\* What may stand in the way besides sign-in.
Locks == {"basic-auth", "pincode", "email-whitelist", "access-rules", "mtls"}

\* The lists of names an annotation may hold; "" is an empty entry.
Lists == {None, Blank} \cup {{g} : g \in Grantees} \cup {Grantees, Grantees \cup {""}}

Values ==
    [visibility |-> {None, "private", Bad},
     policy     |-> {None, "policy"},
     sso        |-> {None, "false", Bad},
     roles      |-> Lists,
     users      |-> Lists,
     mode       |-> {None, "http", "tcp", Bad},
     path       |-> {None, "set", Bad},
     status     |-> {None, "set", Bad},
     interval   |-> {None, "set", Bad},
     locks      |-> [Locks -> {None, Blank, "on", Bad}]]

Names == DOMAIN Values

\* What a shared policy may have (blueprint.go:140-162).
LocksOfPolicies == {"pincode", "email-whitelist", "access-rules"}

IsAnnotations(a) == DOMAIN a = Names /\ \A n \in Names : a[n] \in Values[n]

Checks == [mode : {"http", "tcp"}, path : {"set", "empty"},
           status : {"set", "default"}, interval : {"set", "default"}]

\* What is written out, and what the three values stand for is none of it.
Words == {"private", "policy", "false", "http", "tcp", "set", "on", "empty", "default"}

ASSUME AccessAssumption ==
    /\ None # Blank /\ None # Bad /\ Blank # Bad
    /\ \A v \in {None, Blank, Bad} :
           v \notin Words \cup Checks /\ \A gs \in SUBSET (Grantees \cup {""}) : v # gs
    /\ \A a \in Starts : IsAnnotations(a)
    /\ Licensed \in BOOLEAN /\ PolicyLocks \subseteq LocksOfPolicies
    /\ Members \subseteq Grantees
    /\ MaxEdits \in Nat /\ MaxMeddles \in Nat /\ MaxFaults \in Nat

VARIABLES
    ann,       \* the route's annotations
    policyOk,  \* whether the policy it may name exists and is accepted
    enterprise, \* whether Pangolin is an Enterprise build, or the open-source one
    public,    \* the route's row among the public resources, or None
    private,   \* its row among the private ones, or None
    pc,        \* "idle", "apply" or "prune"
    view,      \* the annotations this pass has read, or None
    sent,      \* the entry it has rendered for them, or None
    edits, meddles, faults

vars == <<ann, policyOk, enterprise, public, private, pc, view, sent, edits, meddles, faults>>

Said(v) == v \notin {None, Blank}

----------------------------------------------------------------------------
(* The healthcheck.                                                        *)

HttpOnly == {"path", "status"}

\* A check without a switch, or with settings its mode does not read, is refused.
CheckFits(a) ==
    /\ a.mode # Bad
    /\ IF a.mode = None /\ a.path = None THEN a.status = None /\ a.interval = None
       ELSE /\ a.interval # Bad
            /\ IF a.mode = "tcp" THEN \A c \in HttpOnly : a[c] = None
               ELSE a.path = "set" /\ a.status # Bad

\* Faulty variant: what is not annotated is not sent.
NotDefaulted(v) == v

\* Every column is sent, with its default where the route says nothing.
Defaulted(v) == IF v = None THEN "default" ELSE v

CheckOf(a) ==
    IF a.mode = None /\ a.path = None THEN None
    ELSE [mode     |-> IF a.mode = None THEN "http" ELSE a.mode,
          path     |-> IF a.mode = "tcp" THEN "empty" ELSE a.path,
          status   |-> Defaulted(a.status),
          interval |-> Defaulted(a.interval)]

\* Pangolin skips a column the document leaves out.
CheckMerged(old, new) ==
    IF new = None \/ old = None THEN new
    ELSE [c \in DOMAIN new |-> IF new[c] = None THEN old[c] ELSE new[c]]

----------------------------------------------------------------------------
(* What a route may say.                                                   *)

ListFits(l) == l # Blank /\ (l # None => "" \notin l)

\* A public route without a policy; without sign-in there is nobody to grant
\* anything to.
InlineFits(a) ==
    /\ a.sso # Bad
    /\ a.sso = "false" => a.roles = None /\ a.users = None
    /\ ListFits(a.roles) /\ ListFits(a.users)
    /\ \A k \in Locks : a.locks[k] # Bad

\* Faulty variant: only sign-in and grants conflict with a policy.
FewConflicts(a) == Said(a.sso) \/ Said(a.roles) \/ Said(a.users)

\* The policy alone decides, so nothing that has a say of its own may stand by it.
Conflicts(a) ==
    \/ Said(a.sso) \/ Said(a.roles) \/ Said(a.users)
    \/ \E k \in Locks : Said(a.locks[k])

PolicyFits(a) == Licensed /\ ~ Conflicts(a) /\ policyOk

PublicFits(a) ==
    /\ IF a.policy = None THEN InlineFits(a) ELSE PolicyFits(a)
    /\ CheckFits(a)

\* The admin role reaches every private resource anyway; and a list of users of whom
\* the listing names none fails the apply for everyone.
GrantsFit(a, known) ==
    /\ ListFits(a.roles) /\ ListFits(a.users)
    /\ a.roles # None => "Admin" \notin a.roles
    /\ a.users # None => a.users \cap known # {}

\* Faulty variant: the grants are read, and not compared with anything.
PrivateFitsUnchecked(a, known) ==
    /\ a.sso = None /\ \A k \in Locks : a.locks[k] = None
    /\ a.policy = None
    /\ a.mode = None /\ a.path = None /\ a.status = None /\ a.interval = None
    /\ ListFits(a.roles) /\ ListFits(a.users)

\* A private resource has no auth block, no targets and no rules: an annotation
\* about any of them is refused, were it blank.
PrivateFits(a, known) ==
    /\ a.sso = None /\ \A k \in Locks : a.locks[k] = None
    /\ a.policy = None
    /\ a.mode = None /\ a.path = None /\ a.status = None /\ a.interval = None
    /\ GrantsFit(a, known)

Fits(a, known) ==
    IF a.visibility = "private" THEN PrivateFits(a, known)
    ELSE a.visibility = None /\ PublicFits(a)

----------------------------------------------------------------------------
(* The entry, and what Pangolin makes of it.                               *)

\* The keys an entry names are those it is authoritative for.
OnLocks(a) == {k \in Locks : a.locks[k] = "on"}

\* Faulty variant: with a policy no auth block is sent at all.
PublicWithoutAuth(a) ==
    [policy |-> a.policy,
     sso    |-> a.policy = None /\ a.sso # "false",
     roles  |-> IF a.policy = None THEN a.roles ELSE None,
     users  |-> IF a.policy = None THEN a.users ELSE None,
     locks  |-> IF a.policy = None THEN OnLocks(a) ELSE {},
     names  |-> IF a.policy = None THEN {"mtls", "access-rules"} ELSE {"access-rules"},
     check  |-> CheckOf(a)]

\* Names: the locks that an apply leaves alone unless the entry names them.  A
\* list nobody annotated is left out.
PublicResource(a) ==
    [policy |-> a.policy,
     sso    |-> a.policy = None /\ a.sso # "false",
     roles  |-> IF a.policy = None THEN a.roles ELSE None,
     users  |-> IF a.policy = None THEN a.users ELSE None,
     locks  |-> IF a.policy = None THEN OnLocks(a) ELSE {},
     names  |-> {"mtls", "access-rules"},
     check  |-> CheckOf(a)]

PrivateResource(a) ==
    [roles |-> IF a.roles = None THEN {} ELSE a.roles,
     users |-> IF a.users = None THEN {} ELSE a.users]

\* Basic auth, PIN and whitelist are cleared before they are read back; CAs and
\* rules are left alone by an entry that does not name them.
Cleared == {"basic-auth", "pincode", "email-whitelist"}

NewRow == [policy |-> None, sso |-> TRUE, roles |-> {}, users |-> {}, locks |-> {},
           check |-> None]

\* The open-source build drops the mtls block of an entry without a word.
Understood == IF enterprise THEN Locks ELSE Locks \ {"mtls"}

MergedPublic(row, e) ==
    LET old == IF row = None THEN NewRow ELSE row
        Listed(stored, list) == IF list = None THEN stored ELSE list
    IN  [policy |-> e.policy,
         sso    |-> e.sso,
         roles  |-> Listed(old.roles, e.roles),
         users  |-> Listed(old.users, e.users),
         locks  |-> (e.locks \cap Understood)
                        \cup (old.locks \ (Cleared \cup (e.names \cap Understood))),
         check  |-> CheckMerged(old.check, e.check)]

\* All grants are replaced; a user the organisation does not have is dropped.
MergedPrivate(e) == [roles |-> e.roles, users |-> e.users \cap Members]

----------------------------------------------------------------------------
(* A pass, as far as this route goes.                                      *)

Entry(known) ==
    IF Fits(ann, known)
    THEN [private |-> ann.visibility = "private",
          entry   |-> IF ann.visibility = "private" THEN PrivateResource(ann)
                      ELSE PublicResource(ann)]
    ELSE None

Done ==
    /\ pc' = "idle"
    /\ view' = None /\ sent' = None

Render(known) ==
    /\ pc = "idle"
    /\ view' = ann
    /\ sent' = Entry(known)
    /\ pc' = "apply"
    /\ UNCHANGED <<ann, policyOk, enterprise, public, private, edits, meddles>>

Read == Render(Members) /\ UNCHANGED faults

\* Where users cannot be listed everyone passes for known.
ReadUnlisted ==
    /\ faults < MaxFaults /\ faults' = faults + 1
    /\ Render(Grantees)

\* Whether Pangolin takes the document, as far as this entry goes.
Taken ==
    sent # None /\ sent.private =>
        /\ "Admin" \notin sent.entry.roles
        /\ sent.entry.users # {} => sent.entry.users \cap Members # {}

TakeEntry ==
    IF sent = None THEN UNCHANGED <<public, private>>
    ELSE IF sent.private THEN private' = MergedPrivate(sent.entry) /\ UNCHANGED public
    ELSE public' = MergedPublic(public, sent.entry) /\ UNCHANGED private

Apply ==
    /\ pc = "apply" /\ Taken
    /\ TakeEntry
    /\ pc' = "prune"
    /\ UNCHANGED <<ann, policyOk, enterprise, view, sent, edits, meddles, faults>>

\* A refused document changes nothing and ends the pass.
ApplyRefused ==
    /\ pc = "apply" /\ ~ Taken
    /\ Done
    /\ UNCHANGED <<ann, policyOk, enterprise, public, private, edits, meddles, faults>>

\* The sections are separate: a row the document does not have goes from each.
Prune ==
    /\ pc = "prune"
    /\ public' = IF sent = None \/ sent.private THEN None ELSE public
    /\ private' = IF sent = None \/ ~ sent.private THEN None ELSE private
    /\ Done
    /\ UNCHANGED <<ann, policyOk, enterprise, edits, meddles, faults>>

\* The apply fails, or the prune of either section, or the controller does.
PassFails ==
    /\ pc # "idle"
    /\ faults < MaxFaults /\ faults' = faults + 1
    /\ \/ UNCHANGED <<public, private>>
       \/ pc = "apply" /\ Taken /\ TakeEntry
       \/ /\ pc = "prune" /\ (sent # None => sent.private)
          /\ public' = None /\ UNCHANGED private
       \/ /\ pc = "prune" /\ (sent # None => ~ sent.private)
          /\ private' = None /\ UNCHANGED public
    /\ Done
    /\ UNCHANGED <<ann, policyOk, enterprise, edits, meddles>>

----------------------------------------------------------------------------
(* Users edit annotations one at a time, and the dashboard.                *)

Edited == edits < MaxEdits /\ edits' = edits + 1

Annotate ==
    /\ Edited
    /\ \/ \E n \in Names \ {"locks"} :
              \E v \in Values[n] : v # ann[n] /\ ann' = [ann EXCEPT ![n] = v]
       \/ \E k \in Locks, v \in {None, Blank, "on", Bad} :
              v # ann.locks[k] /\ ann' = [ann EXCEPT !.locks[k] = v]
    /\ UNCHANGED <<policyOk, enterprise, public, private, pc, view, sent, meddles, faults>>

EditPolicy ==
    /\ Edited
    /\ policyOk' = ~ policyOk
    /\ UNCHANGED <<ann, enterprise, public, private, pc, view, sent, meddles, faults>>

\* Someone grants or revokes access in the dashboard.
Meddle ==
    /\ meddles < MaxMeddles /\ meddles' = meddles + 1
    /\ \E list \in {"roles", "users"} :
       \E gs \in SUBSET (IF list = "users" THEN Members ELSE Grantees) :
           \/ /\ public # None
              /\ public' = [public EXCEPT ![list] = gs] /\ UNCHANGED private
           \/ /\ private # None
              /\ private' = [private EXCEPT ![list] = gs] /\ UNCHANGED public
    /\ UNCHANGED <<ann, policyOk, enterprise, pc, view, sent, edits, faults>>

----------------------------------------------------------------------------
Init ==
    /\ ann \in Starts
    /\ policyOk \in BOOLEAN /\ enterprise \in BOOLEAN
    /\ public = None /\ private = None
    /\ pc = "idle" /\ view = None /\ sent = None
    /\ edits = 0 /\ meddles = 0 /\ faults = 0

Pass == Read \/ Apply \/ ApplyRefused \/ Prune

Next ==
    \/ Pass
    \/ ReadUnlisted
    \/ PassFails
    \/ Annotate
    \/ EditPolicy
    \/ Meddle

Spec == Init /\ [][Next]_vars

\* One pass after the other, at least every resync interval.
FairSpec == Spec /\ WF_vars(Pass)
----------------------------------------------------------------------------
(* Properties.                                                             *)

Grants == SUBSET Grantees

\* Every variable holds a value of its type; no column of a check is left open, and
\* a row holds no lock its Pangolin does not know.
TypeOK ==
    /\ IsAnnotations(ann)
    /\ view # None => IsAnnotations(view)
    /\ policyOk \in BOOLEAN /\ enterprise \in BOOLEAN
    /\ public # None => public \in
           [policy : {None, "policy"}, sso : BOOLEAN, roles : Grants, users : Grants,
            locks : SUBSET Understood, check : Checks \cup {None}]
    /\ private # None => private \in [roles : Grants, users : SUBSET Members]
    /\ pc \in {"idle", "apply", "prune"}
    /\ edits \in 0..MaxEdits /\ meddles \in 0..MaxMeddles /\ faults \in 0..MaxFaults

\* What stands between the internet and the service.  Under a policy sign-in,
\* whitelist and rules are the policy's; PIN and basic auth are the resource's
\* where the policy has none, and CAs are always the resource's (policy.go:75-77).
InForce(row) ==
    IF row.policy = None
    THEN [signIn |-> IF row.sso THEN "on" ELSE "off", locks |-> row.locks]
    ELSE [signIn |-> "policy",
          locks  |-> PolicyLocks \cup (row.locks \cap {"basic-auth", "pincode", "mtls"})]

\* What a route asks for, as far as this Pangolin can do it: the open-source build has
\* no CAs to offer, which the route's status says (MtlsVerify).
Asked(a) ==
    IF a.policy = None
    THEN [signIn |-> IF a.sso = "false" THEN "off" ELSE "on",
          locks  |-> OnLocks(a) \cap Understood]
    ELSE [signIn |-> "policy", locks |-> PolicyLocks]

PublishesPublicly == pc = "apply" /\ pc' = "prune" /\ sent # None /\ ~ sent.private

\* A route is protected as it says, neither less nor by something it said before
\* (blueprint.go:86-90, policy.go:75-77): whatever went before, an apply brings in
\* force just what the annotations ask for, on an open-source build all but the CAs.
ProtectedAsAsked ==
    [][PublishesPublicly => InForce(public') = Asked(view)]_vars

\* Ignoring an annotation "would publish something other than what the route
\* says" (visibility.go:73-75): all that a published route says is in force, each
\* lock but CAs on an open-source build, each setting of its check, and every list of
\* people, which is worth something only where people sign in on the resource itself.
NothingIgnored ==
    [][PublishesPublicly =>
          /\ OnLocks(view) \ InForce(public').locks
                 \subseteq IF enterprise THEN {} ELSE {"mtls"}
          /\ \A list \in {"roles", "users"} : Said(view[list]) =>
                 /\ InForce(public').signIn = "on"
                 /\ public'[list] = view[list]
          /\ \A c \in {"mode", "path", "status", "interval"} : view[c] # None =>
                 public'.check # None /\ public'.check[c] = view[c]]_vars

\* Where the route belongs, and how.
Agrees ==
    IF ~ Fits(ann, Members) THEN public = None /\ private = None
    ELSE IF ann.visibility = "private"
         THEN public = None /\ private = MergedPrivate(PrivateResource(ann))
    ELSE /\ private = None /\ public # None
         /\ InForce(public) = Asked(ann)
         /\ public.check = CheckOf(ann)
         /\ \A list \in {"roles", "users"} : Said(ann[list]) => public[list] = ann[list]

\* "Removing an annotation restores its default on the next pass"
\* (README.md:238), a route that changes sides leaves the side it was on, and
\* one that is refused leaves both; grants of the dashboard on a private resource
\* last until the next pass (docs/private-resources.md:115-116); and grants Pangolin
\* would refuse the document for keep no route from it but their own.
Settles == <>[]Agrees

\* "roles and users on a public route are likewise rejected" (README.md:547-549).
\* This does not hold: they become sso-roles and sso-users (render.go:524-582), as
\* README.md:159-162 has it.
GrantsOnlyPrivate ==
    [][PublishesPublicly => ~ Said(view.roles) /\ ~ Said(view.users)]_vars

\* "Annotating either one hands that resource's access list to Git: both lists
\* are then sent in full" (README.md:166-167).  This does not hold: an empty list
\* is left out of the document.
BothListsSent ==
    [][PublishesPublicly /\ (Said(view.roles) \/ Said(view.users)) =>
          \A list \in {"roles", "users"} :
              public'[list] = IF Said(view[list]) THEN view[list] ELSE {}]_vars
=============================================================================
