--------------------------- MODULE AdmissionProofs ---------------------------
(***************************************************************************)
(* Theorems about Admission, for any object, any organisation and any      *)
(* number of changes and failing listings.                                 *)
(***************************************************************************)
EXTENDS Admission, TLAPS

----------------------------------------------------------------------------
(* The inductive invariant.                                                *)

\* What a pass was told of the organisation is so until the organisation changes.
ToldTrue == ~ stale => \A l \in Listings : listed[l] # Unlisted => listed[l] = org[l]

ListedDomain == listed = [l \in Listings |-> listed[l]]

Inv == object \in Objects /\ TypeOK /\ ListedDomain /\ ToldTrue

\* It holds before the first pass.
LEMMA InitInv == Init => Inv
  <1> SUFFICES ASSUME Init PROVE Inv
    OBVIOUS
  <1>1. changes \in 0..MaxChanges /\ faults \in 0..MaxFaults
    <2>1. MaxChanges \in Nat /\ MaxFaults \in Nat
      BY AdmissionAssumption
    <2>2. QED
      BY <2>1 DEF Init
  <1>2. ListedDomain /\ \A l \in Listings : listed[l] = Unlisted
    BY DEF Init, ListedDomain, NothingListed
  <1>3. QED
    BY <1>1, <1>2 DEF Init, Inv, TypeOK, ToldTrue

\* Every step keeps it: only a listing tells a pass something, and all it tells is so.
LEMMA NextInv == Inv /\ [Next]_vars => Inv'
  <1> SUFFICES ASSUME Inv, [Next]_vars PROVE Inv'
    OBVIOUS
  <1>0. MaxChanges \in Nat /\ MaxFaults \in Nat
    BY AdmissionAssumption
  <1> USE <1>0 DEF Inv, TypeOK, ListedDomain, ToldTrue
  <1>1. CASE Read
    <2>1. listed' = [l \in Listings |-> Unlisted] /\ "sites" \in Listings
      BY <1>1 DEF Read, NothingListed, Listings
    <2>2. QED
      BY <1>1, <2>1 DEF Read
  <1>2. ASSUME NEW l \in Listings, List(l) PROVE Inv'
    <2>1. After(l) \in Listings \cup {"idle", "apply"}
      BY DEF After, Listings
    <2>2. QED
      BY <1>2, <2>1 DEF List
  <1>3. ASSUME NEW l \in Listings, ListFails(l) PROVE Inv'
    <2>1. After(l) \in Listings \cup {"idle", "apply"}
      BY DEF After, Listings
    <2>2. QED
      BY <1>3, <2>1 DEF ListFails
  <1>4. CASE Apply
    BY <1>4 DEF Apply
  <1>5. CASE Change
    BY <1>5 DEF Change
  <1>6. CASE UNCHANGED vars
    BY <1>6 DEF vars
  <1>7. QED
    BY <1>1, <1>2, <1>3, <1>4, <1>5, <1>6 DEF Next, Pass

\* Hence it holds throughout.
LEMMA Invariance == Spec => []Inv
  BY InitInv, NextInv, PTL DEF Spec

\* Every variable holds a value of its type; no listing is made up.
THEOREM Typing == Spec => []TypeOK
  <1>1. Inv => TypeOK
    BY DEF Inv
  <1>2. QED
    BY <1>1, Invariance, PTL

----------------------------------------------------------------------------
(* The controller's checks and Pangolin's.                                 *)

\* A well-informed pass knows which sites, and which of the users and machines the
\* object names, exist.
LEMMA ListedAsIs ==
    ASSUME Inv, WellInformed, object.kind = "private"
    PROVE  /\ listed.sites = org.sites /\ listed.sites # Unlisted
           /\ object.users # {} => listed.users = org.users /\ listed.users # Unlisted
           /\ object.machines # {} => listed.machines = org.machines /\ listed.machines # Unlisted
  BY DEF Inv, ToldTrue, WellInformed, Wants, Listings

\* What the controller lets in of PrivateResources, Pangolin takes.
LEMMA ResourceTaken ==
    ASSUME Inv, WellInformed, object \in PrivateResources, Foreseen(object),
           ResourceFits(object, listed)
    PROVE  PangolinTakesResource(object)
  <1> DEFINE o == object
  <1>1. o.kind = "private"
    BY DEF PrivateResources
  <1>2. o.mode \in {"host", "cidr", "http"} /\ o.destination # ""
    BY DEF ResourceFits, ModeFits, HostFits, IsIP, IsHostname, IsCIDR
  <1>3. o.alias # "" => IsAlias(o.alias)
    BY DEF ResourceFits, ModeFits, HostFits, FieldsSet, NetworkFields
  <1>4. ASSUME NEW ports \in {o.tcpPorts, o.udpPorts}, NEW i \in DOMAIN ports
        PROVE  ports[i][1] >= 1 /\ ports[i][2] <= MaxPort /\ ports[i][1] <= ports[i][2]
    <2>1. ports \in Seq(Nat \X Nat)
      BY DEF PrivateResources, Ports
    <2>2. ports[i][1] \in Nat /\ ports[i][2] \in Nat
      BY <2>1
    <2>3. RangesFit(ports)
      <3>1. CASE o.mode = "http"
        <4>1. o.tcpPorts = <<>> /\ o.udpPorts = <<>>
          BY <3>1 DEF ResourceFits, ModeFits, FieldsSet, NetworkFields
        <4>2. QED
          BY <4>1 DEF RangesFit
      <3>2. CASE o.mode # "http"
        BY <3>2 DEF ResourceFits, ModeFits
      <3>3. QED
        BY <3>1, <3>2
    <2>4. ports[i][1] \in 1..MaxPort /\ ports[i][2] \in 1..MaxPort /\ ports[i][1] <= ports[i][2]
      BY <2>3 DEF RangesFit, Port
    <2>5. MaxPort \in Nat
      BY DEF MaxPort
    <2>6. QED
      BY <2>2, <2>4, <2>5
  <1>5. /\ o.mode = "host" =>
              \/ IsIP(o.destination)
              \/ IsHostname(o.destination) /\ o.alias # "" /\ IsHostname(o.alias)
        /\ o.mode = "cidr" => IsCIDR(o.destination)
    BY DEF ResourceFits, ModeFits, HostFits
  <1>6. SitesOf(o) \ {""} \subseteq org.sites
    BY <1>1, ListedAsIs DEF ResourceFits, SitesFit
  <1>7. /\ "Admin" \notin o.roles
        /\ o.users # {} => o.users \cap org.users # {}
        /\ o.machines # {} => o.machines \cap org.machines # {}
    BY <1>1, ListedAsIs DEF ResourceFits, GrantsFit, SomeResolve
  <1>8. o.mode = "http" => o.fullDomain \in org.domains
    BY <1>1 DEF Foreseen
  <1>9. QED
    BY <1>2, <1>3, <1>4, <1>5, <1>6, <1>7, <1>8 DEF PangolinTakesResource

\* What the controller lets in of ResourcePolicies, Pangolin takes.
LEMMA PolicyTaken ==
    ASSUME object \in ResourcePolicies, Foreseen(object), PolicyFits(object)
    PROVE  PangolinTakesPolicy(object)
  <1>0. NameLength(object) <= MaxName /\ object.rules \cap PlaceRules \subseteq org.places
    BY DEF Foreseen, ResourcePolicies
  <1>1. NameLength(object) \in 1..MaxName
    <2>1. object.fullName \in Nat /\ object.fullName # 0
      BY DEF ResourcePolicies
    <2>2. MaxName \in Nat /\ MaxName # 0
      BY DEF MaxName
    <2>3. NameLength(object) \in Nat /\ NameLength(object) # 0
      BY <2>1, <2>2 DEF NameLength
    <2>4. QED
      BY <1>0, <2>2, <2>3
  <1>2. QED
    BY <1>0, <1>1 DEF PolicyFits, PangolinTakesPolicy

\* "One bad value would unpublish every other route" (README.md:285-287): of every
\* object of either kind, whatever its fields, what a well-informed pass lets in is taken,
\* unless the organisation lacks its domain or the places of its rules, or its name is
\* too long.
THEOREM NoDocumentFails == Spec => OneObjectFailsNoDocument
  <1>1. Inv /\ [Next]_vars =>
          [Apply /\ WellInformed /\ Foreseen(object) => outcome' = "taken"]_vars
    <2> SUFFICES ASSUME Inv, Apply, WellInformed, Foreseen(object), Fits(object, listed)
                 PROVE  PangolinTakes(object)
      BY DEF Apply, Admitted
    <2>1. object \in PrivateResources \cup ResourcePolicies
      BY AdmissionAssumption DEF Inv
    <2>2. CASE object \in PrivateResources
      <3>1. object.kind = "private"
        BY <2>2 DEF PrivateResources
      <3>2. QED
        BY <2>2, <3>1, ResourceTaken DEF Fits, PangolinTakes
    <2>3. CASE object \in ResourcePolicies
      <3>1. object.kind = "policy"
        BY <2>3 DEF ResourcePolicies
      <3>2. QED
        BY <2>3, <3>1, PolicyTaken DEF Fits, PangolinTakes
    <2>4. QED
      BY <2>1, <2>2, <2>3
  <1>2. QED
    BY <1>1, Invariance, PTL DEF Spec, OneObjectFailsNoDocument

\* A private resource that Pangolin takes for some of its users and machines is let in
\* (docs/private-resources.md:141-143).
THEOREM PartlyResolved == Spec => PartlyResolvedIsPublished
  <1>1. Inv /\ [Next]_vars =>
          [(/\ Apply /\ WellInformed
            /\ object.kind = "private" /\ ModeFits(object) /\ PangolinTakes(object)
            /\ "" \notin object.sites \cup object.roles \cup object.users \cup object.machines)
              => Admitted]_vars
    <2> SUFFICES ASSUME Inv, WellInformed, object.kind = "private", ModeFits(object),
                        PangolinTakesResource(object),
                        "" \notin object.sites \cup object.roles \cup object.users
                                  \cup object.machines
                 PROVE  ResourceFits(object, listed)
      BY DEF PangolinTakes, Admitted, Fits
    <2>1. SitesFit(object, listed)
      <3>1. "" \notin SitesOf(object)
        BY AdmissionAssumption DEF SitesOf
      <3>2. QED
        BY <3>1, ListedAsIs DEF SitesFit, PangolinTakesResource
    <2>2. GrantsFit(object, listed)
      BY ListedAsIs DEF GrantsFit, SomeResolve, PangolinTakesResource
    <2>3. QED
      BY <2>1, <2>2 DEF ResourceFits
  <1>2. QED
    BY <1>1, Invariance, PTL DEF Spec, PartlyResolvedIsPublished
=============================================================================
