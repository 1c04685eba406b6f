------------------------------ MODULE Rendering ------------------------------
(***************************************************************************)
(* The pure half of the controller: from one view of the cluster's objects *)
(* to the blueprint Pangolin should hold and a verdict for every object    *)
(* (RenderAll and what it calls, src/internal/gateway).                    *)
(*                                                                         *)
(* A view maps every object to its copy or to Absent.  What the renderer   *)
(* checks on an object alone (hostnames, rules, filters, annotations, port *)
(* lists) is the boolean spec.ok; for a GatewayClass it says that          *)
(* spec.controllerName names this controller.                              *)
(***************************************************************************)
EXTENDS PangolinOrg, Naturals

CONSTANTS
    Classes, Gateways, Routes, PrivateResources, Policies,  \* objects by kind
    KeyOf,      \* the niceId formed from an object's kind, namespace and name
    Rank,       \* the order of (namespace, name, kind), for equal ages
    Absent,     \* the copy of an object that does not exist
    Licensed    \* the --pangolin-licensed flag

Objects == Classes \cup Gateways \cup Routes \cup PrivateResources \cup Policies

\* The objects that claim a blueprint entry.
Claimants == Routes \cup PrivateResources \cup Policies

Specs == [ok         : BOOLEAN,
          parent     : Objects \cup {None},   \* a route's Gateway, a Gateway's class
          visibility : {"public", "private"}, \* a route's section
          policy     : Policies \cup {None},  \* the ResourcePolicy a route names
          name       : Names \cup {None},     \* hostname or alias
          site       : Sites \cup {None}]

ASSUME KeyOfAssumption == KeyOf \in [Claimants -> OwnedKeys]

ASSUME RankAssumption ==
    /\ Rank \in [Claimants -> Nat]
    /\ \A a, b \in Claimants : Rank[a] = Rank[b] => a = b

ASSUME LicensedAssumption == Licensed \in BOOLEAN

ASSUME KindsAssumption ==
    /\ Classes \cap (Gateways \cup Claimants) = {}
    /\ Gateways \cap Claimants = {}
    /\ Routes \cap (PrivateResources \cup Policies) = {}
    /\ PrivateResources \cap Policies = {}
    /\ None \notin Objects
    /\ Absent # None

Present(view, K) == {o \in K : view[o] # Absent}

----------------------------------------------------------------------------
(* Which routes are this controller's.                                     *)

ServedClasses(view) == {c \in Present(view, Classes) : view[c].spec.ok}

ServedGateways(view) ==
    {g \in Present(view, Gateways) : view[g].spec.parent \in ServedClasses(view)}

ServedRoutes(view) ==
    {r \in Present(view, Routes) : view[r].spec.parent \in ServedGateways(view)}

\* Routes that name a Gateway which does not exist: reported, though no one
\* serves them.
UnresolvableRoutes(view) ==
    {r \in Present(view, Routes) :
        view[r].spec.parent \in Gateways \ Present(view, Gateways)}

----------------------------------------------------------------------------
(* Collisions.  Claims are awarded oldest first; an object that loses one  *)
(* of its claims is rejected and claims nothing.                           *)

Older(view, a, b) ==
    \/ view[a].born < view[b].born
    \/ view[a].born = view[b].born /\ Rank[a] < Rank[b]

SectionOf(view, o) ==
    IF o \in Policies THEN "policy"
    ELSE IF o \in PrivateResources THEN "private"
    ELSE view[o].spec.visibility

\* Faulty variant: hostnames are not compared.
ContendKeyOnly(view, a, b) == KeyOf[a] = KeyOf[b]

\* Keys span both resource sections; hostnames and aliases are per section.
Contend(view, a, b) ==
    \/ KeyOf[a] = KeyOf[b]
    \/ /\ SectionOf(view, a) = SectionOf(view, b)
       /\ view[a].spec.name # None
       /\ view[a].spec.name = view[b].spec.name

Winners(view, candidates) ==
    LET wins[o \in candidates] ==
            \A p \in candidates :
                Older(view, p, o) /\ Contend(view, p, o) => ~ wins[p]
    IN  {o \in candidates : wins[o]}

\* Unlicensed, every policy is refused.
ValidPolicies(view) ==
    IF Licensed THEN {p \in Present(view, Policies) : view[p].spec.ok} ELSE {}

AcceptedPolicies(view) == Winners(view, ValidPolicies(view))

----------------------------------------------------------------------------
(* Verdicts and the blueprint.  known is the set of site names that pass   *)
(* the site check; every name passes when the sites could not be listed.   *)

\* Faulty variant: a policy only has to be named.
PolicyNamed(view, r) ==
    view[r].spec.policy = None \/ view[r].spec.visibility = "public"

\* A policy is for public routes only, and has to be an accepted one.
PolicyAllowed(view, r) ==
    \/ view[r].spec.policy = None
    \/ /\ view[r].spec.visibility = "public"
       /\ view[r].spec.policy \in AcceptedPolicies(view)

ValidRoutes(view, known) ==
    {r \in ServedRoutes(view) :
        view[r].spec.ok /\ view[r].spec.site \in known /\ PolicyAllowed(view, r)}

ValidResources(view, known) ==
    {o \in Present(view, PrivateResources) :
        view[o].spec.ok /\ view[o].spec.site \in known}

\* Routes and private resources contend with each other for keys and names.
Candidates(view, known) == ValidRoutes(view, known) \cup ValidResources(view, known)

Published(view, known) ==
    Winners(view, Candidates(view, known)) \cup AcceptedPolicies(view)

RowOf(view, o) ==
    LET spec == view[o].spec
    IN  [site   |-> IF o \in Policies THEN None ELSE spec.site,
         host   |-> IF o \in Routes THEN spec.name ELSE None,
         alias  |-> IF o \in PrivateResources THEN spec.name ELSE None,
         policy |-> IF o \in Routes /\ spec.policy # None
                    THEN KeyOf[spec.policy] ELSE None]

Blueprint(view, known) ==
    LET published == Published(view, known)
        claim(s, k) == {o \in published : KeyOf[o] = k /\ SectionOf(view, o) = s}
    IN  [s \in Sections |->
            [k \in Keys |->
                IF claim(s, k) = {} THEN NoRow
                ELSE RowOf(view, CHOOSE o \in claim(s, k) : TRUE)]]
=============================================================================
