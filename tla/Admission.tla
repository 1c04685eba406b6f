------------------------------- MODULE Admission -------------------------------
(***************************************************************************)
(* What is let into the document.  Pangolin refuses a whole document for   *)
(* one entry it dislikes, so the controller repeats its checks on every    *)
(* PrivateResource and ResourcePolicy first (gateway/privateresource.go,   *)
(* policy.go).  The checks of pangolinfake stand for Pangolin's own.       *)
(* Some only the organisation can answer: its sites, users and machine     *)
(* clients are listed before the render, and change meanwhile; a listing   *)
(* that fails leaves its check out.  And some nobody can answer before the *)
(* apply: which base domains are registered, and which countries, networks *)
(* and regions the databases behind Pangolin know.                         *)
(*                                                                         *)
(* One object at a time, with an organisation around it.  A name or a      *)
(* value is the kind of thing it is, a port list the sequence of its       *)
(* ranges.                                                                 *)
(***************************************************************************)
EXTENDS Naturals, Sequences, Functions

CONSTANTS
    Objects,      \* the objects considered
    Orgs,         \* what the organisation may hold
    Unlisted,     \* a listing that was not made, or failed
    DefaultSite,  \* the --default-site flag
    MaxChanges,   \* bound on changes of the organisation
    MaxFaults     \* bound on listings that fail

Listings == {"sites", "users", "machines"}

\* What no listing tells: the hostnames under a registered base domain, and the values
\* of rules about places that the databases know.
Unseen == {"domains", "places"}

Ports == Seq(Nat \X Nat)

\* What the API server lets through of the two kinds, and of the fields that matter.
PrivateResources ==
    [kind : {"private"}, mode : STRING, destination : STRING, alias : STRING,
     fullDomain : STRING, tcpPorts : Ports, udpPorts : Ports, switches : SUBSET STRING,
     sites : SUBSET STRING, roles : SUBSET STRING, users : SUBSET STRING,
     machines : SUBSET STRING]

\* fullName is the length of namespace and name with a slash between.
ResourcePolicies ==
    [kind : {"policy"}, displayName : STRING, fullName : Nat \ {0}, sso : BOOLEAN,
     roles : SUBSET STRING, users : SUBSET STRING, pincode : STRING,
     whitelist : SUBSET STRING, rules : SUBSET STRING]

\* The controller does not start without a default site.
ASSUME AdmissionAssumption ==
    /\ Objects \subseteq PrivateResources \cup ResourcePolicies
    /\ Orgs \subseteq [Listings \cup Unseen -> SUBSET STRING]
    /\ DefaultSite \in STRING \ {""}
    /\ MaxChanges \in Nat /\ MaxFaults \in Nat

VARIABLES
    object,    \* the object, which stays what it is
    org,       \* what the organisation holds
    listed,    \* what it was told of the organisation
    pc,        \* "idle", a listing that is due, or "apply"
    stale,     \* whether the organisation changed since the pass began
    outcome,   \* what became of the last document: "none", "taken" or "refused"
    changes, faults

vars == <<object, org, listed, pc, stale, outcome, changes, faults>>

----------------------------------------------------------------------------
(* Kinds of words: IPv4 and IPv6 addresses, CIDR blocks, names with dots,  *)
(* with a wildcard, without dots, and anything else.                       *)

IsIP(w)       == w \in {"ipv4", "ipv6"}
IsCIDR(w)     == w = "cidr"
\* An IPv4 address reads as a name, too.
IsHostname(w) == w \in {"ipv4", "domain", "label"}
IsAlias(w)    == w \in {"ipv4", "domain", "wildcard"}

MaxPort == 65535
Port(n) == n \in 1..MaxPort

\* Faulty variant: the end of a range is only compared with its start.
RangesFitLoosely(ports) ==
    \A i \in DOMAIN ports : Port(ports[i][1]) /\ ports[i][1] <= ports[i][2]

\* Both ends are ports, and in order.  An entry that is no number is a 0.
RangesFit(ports) ==
    \A i \in DOMAIN ports :
        Port(ports[i][1]) /\ Port(ports[i][2]) /\ ports[i][1] <= ports[i][2]

----------------------------------------------------------------------------
(* What the controller lets in.                                            *)

\* The fields that mean something in one mode only.
HttpFields    == {"fullDomain", "ssl", "scheme", "destinationPort"}
NetworkFields == {"tcpPorts", "udpPorts", "disableIcmp", "alias"}

FieldsSet(o) ==
    o.switches
    \cup {f \in {"fullDomain", "alias"} : o[f] # ""}
    \cup {f \in {"tcpPorts", "udpPorts"} : o[f] # <<>>}

\* Faulty variant: a hostname takes any alias.
HostFitsLoosely(o) ==
    /\ IsIP(o.destination) \/ IsHostname(o.destination)
    /\ o.alias # "" => IsAlias(o.alias)
    /\ ~ IsIP(o.destination) => o.alias # ""

\* A name as destination needs an alias, and one without a wildcard.
HostFits(o) ==
    /\ IsIP(o.destination) \/ IsHostname(o.destination)
    /\ o.alias # "" => IsAlias(o.alias)
    /\ ~ IsIP(o.destination) => o.alias # "" /\ IsHostname(o.alias)

ModeFits(o) ==
    \/ /\ o.mode \in {"host", "cidr"}
       /\ FieldsSet(o) \cap HttpFields = {}
       /\ IF o.mode = "host" THEN HostFits(o) ELSE IsCIDR(o.destination) /\ o.alias = ""
       /\ RangesFit(o.tcpPorts) /\ RangesFit(o.udpPorts)
    \/ /\ o.mode = "http"
       /\ FieldsSet(o) \cap NetworkFields = {}
       /\ IsHostname(o.fullDomain)
       /\ IsIP(o.destination) \/ IsHostname(o.destination)
       /\ "destinationPort" \in o.switches

\* Faulty variants: one unknown name is too many; no name is looked up.
AllResolve(names, known)  == known = Unlisted \/ names \subseteq known
NobodyLooks(names, known) == TRUE

\* A list some of whose names resolve will do.
SomeResolve(names, known) ==
    known = Unlisted \/ names = {} \/ names \cap known # {}

GrantsFit(o, known) ==
    /\ "" \notin o.roles \cup o.users \cup o.machines
    /\ "Admin" \notin o.roles
    /\ SomeResolve(o.users, known.users)
    /\ SomeResolve(o.machines, known.machines)

SitesOf(o) == IF o.sites = {} THEN {DefaultSite} ELSE o.sites

\* Faulty variant: the default site is believed to be there.
SitesFitUnlessDefault(o, known) ==
    /\ "" \notin o.sites
    /\ known.sites = Unlisted \/ o.sites \subseteq known.sites

\* Every site must be there, the one an object has by default as well.
SitesFit(o, known) ==
    /\ "" \notin o.sites
    /\ known.sites = Unlisted \/ SitesOf(o) \subseteq known.sites

ResourceFits(o, known) == SitesFit(o, known) /\ ModeFits(o) /\ GrantsFit(o, known)

\* Faulty variant: Admin may be named.
PolicyFitsWithAdmin(o) ==
    /\ o.displayName # "blank"
    /\ ~ o.sso => o.roles = {} /\ o.users = {}
    /\ "" \notin o.roles \cup o.users
    /\ o.pincode \in {"", "sixDigits"}
    /\ o.whitelist \subseteq {"email", "wildcard"}
    /\ "junk" \notin o.rules

\* Sign-in off grants nobody anything; each entry has the form Pangolin asks for.
PolicyFits(o) ==
    /\ o.displayName # "blank"
    /\ ~ o.sso => o.roles = {} /\ o.users = {}
    /\ "" \notin o.roles \cup o.users
    /\ "Admin" \notin o.roles
    /\ o.pincode \in {"", "sixDigits"}
    /\ o.whitelist \subseteq {"email", "wildcard"}
    /\ "junk" \notin o.rules

Fits(o, known) == IF o.kind = "policy" THEN PolicyFits(o) ELSE ResourceFits(o, known)

----------------------------------------------------------------------------
(* What Pangolin refuses.                                                  *)

MaxName == 255

\* Rules that match where a visitor comes from, which Pangolin looks up.
PlaceRules == {"country", "asn", "region"}

\* A display name has at most MaxName characters, the API server sees to that;
\* it defaults to namespace and name.
NameLength(o) == IF o.displayName = "" THEN o.fullName ELSE MaxName

PangolinTakesResource(o) ==
    /\ o.mode \in {"host", "cidr", "http"}
    /\ o.destination # ""
    /\ "Admin" \notin o.roles
    /\ o.alias # "" => IsAlias(o.alias)
    /\ \A ports \in {o.tcpPorts, o.udpPorts} : \A i \in DOMAIN ports :
           ports[i][1] >= 1 /\ ports[i][2] <= MaxPort /\ ports[i][1] <= ports[i][2]
    /\ o.mode = "host" =>
           \/ IsIP(o.destination)
           \/ IsHostname(o.destination) /\ o.alias # "" /\ IsHostname(o.alias)
    /\ o.mode = "cidr" => IsCIDR(o.destination)
    /\ o.mode = "http" => o.fullDomain \in org.domains
    /\ SitesOf(o) \ {""} \subseteq org.sites
    /\ o.users # {} => o.users \cap org.users # {}
    /\ o.machines # {} => o.machines \cap org.machines # {}

PangolinTakesPolicy(o) ==
    /\ NameLength(o) \in 1..MaxName
    /\ o.pincode # "" => o.pincode = "sixDigits"
    /\ "Admin" \notin o.roles
    /\ o.whitelist \subseteq {"email", "wildcard"}
    /\ "junk" \notin o.rules
    /\ o.rules \cap PlaceRules \subseteq org.places

PangolinTakes(o) ==
    IF o.kind = "policy" THEN PangolinTakesPolicy(o) ELSE PangolinTakesResource(o)

----------------------------------------------------------------------------
(* A pass.                                                                 *)

\* Faulty variant: a map nobody filled is taken for an empty one.
NobodyListed == [l \in Listings |-> {}]

NothingListed == [l \in Listings |-> Unlisted]

Read ==
    /\ pc = "idle"
    /\ listed' = NothingListed
    /\ stale' = FALSE
    /\ pc' = "sites"
    /\ UNCHANGED <<object, org, outcome, changes, faults>>

After(l) == CASE l = "sites" -> "machines" [] l = "machines" -> "users" [] l = "users" -> "apply"

\* Users and machines are listed only while something names one.
Wants(l) == l = "sites" \/ (object.kind = "private" /\ object[l] # {})

\* One listing, which is skipped when nobody needs it, or fails.
List(l) ==
    /\ pc = l
    /\ listed' = [listed EXCEPT ![l] = IF Wants(l) THEN org[l] ELSE Unlisted]
    /\ pc' = After(l)
    /\ UNCHANGED <<object, org, stale, outcome, changes, faults>>

ListFails(l) ==
    /\ pc = l /\ Wants(l)
    /\ faults < MaxFaults /\ faults' = faults + 1
    /\ pc' = After(l)
    /\ UNCHANGED <<object, org, listed, stale, outcome, changes>>

Admitted == Fits(object, listed)

\* An object that is not let in leaves the document as good as it was.
Apply ==
    /\ pc = "apply"
    /\ outcome' = IF Admitted /\ ~ PangolinTakes(object) THEN "refused" ELSE "taken"
    /\ pc' = "idle"
    /\ UNCHANGED <<object, org, listed, stale, changes, faults>>

Change ==
    /\ changes < MaxChanges /\ changes' = changes + 1
    /\ \E o \in Orgs \ {org} : org' = o
    /\ stale' = TRUE
    /\ UNCHANGED <<object, listed, pc, outcome, faults>>

Init ==
    /\ object \in Objects
    /\ org \in Orgs
    /\ listed = NothingListed
    /\ pc = "idle"
    /\ stale = FALSE /\ outcome = "none"
    /\ changes = 0 /\ faults = 0

Pass == Read \/ Apply \/ \E l \in Listings : List(l)

Next == Pass \/ Change \/ \E l \in Listings : ListFails(l)

Spec == Init /\ [][Next]_vars

\* One pass after the other, at least every resync interval.
FairSpec == Spec /\ WF_vars(Pass)

----------------------------------------------------------------------------
(* Properties.                                                             *)

\* Every variable holds a value of its type; no listing is made up.
TypeOK ==
    /\ org \in Orgs
    /\ \A l \in Listings : listed[l] = Unlisted \/ \E o \in Orgs : listed[l] = o[l]
    /\ pc \in Listings \cup {"idle", "apply"}
    /\ stale \in BOOLEAN /\ outcome \in {"none", "taken", "refused"}
    /\ changes \in 0..MaxChanges /\ faults \in 0..MaxFaults

\* What the pass knows of the organisation is all it wanted, and still true.
WellInformed == ~ stale /\ \A l \in Listings : Wants(l) => listed[l] # Unlisted

\* What the controller cannot know, or does not look at, is as it should be: the base
\* domain is registered (docs/private-resources.md:173-175), the places are known
\* (README.md:285-290), and the namespace and name of a policy without a display name
\* fit into a name of Pangolin's.
Foreseen(o) ==
    IF o.kind = "policy"
    THEN NameLength(o) <= MaxName /\ o.rules \cap PlaceRules \subseteq org.places
    ELSE o.mode = "http" => o.fullDomain \in org.domains

\* "An apply is all or nothing: one bad value would unpublish every other route"
\* (README.md:285-287), so what Pangolin would refuse is caught before
\* (privateresource.go:90-91, policy.go:144-145): a pass that is well informed has no
\* object let in for which the whole document is refused, but for what was not to be
\* foreseen.
OneObjectFailsNoDocument ==
    [][Apply /\ WellInformed /\ Foreseen(object) => outcome' = "taken"]_vars

\* "Anything Pangolin would reject is caught here" (privateresource.go:90-91), without
\* the exceptions.  This does not hold.
AnythingIsCaught == [][Apply /\ WellInformed => outcome' = "taken"]_vars

\* A list that "resolves only in part is published, since rejecting it would
\* revoke access for every name that does resolve" (docs/private-resources.md:141-143):
\* users and machines that come and go keep no resource out that would be taken
\* for some of its names.
PartlyResolvedIsPublished ==
    [][(/\ Apply /\ WellInformed
        /\ object.kind = "private" /\ ModeFits(object) /\ PangolinTakes(object)
        /\ "" \notin object.sites \cup object.roles \cup object.users \cup object.machines)
          => Admitted]_vars

\* A site, user or machine that went between its listing and the apply costs that
\* pass only (publisher.go:119-122, 225-227): once the organisation rests and
\* answers, a document with nothing unforeseen in it is taken.
DocumentsAreTaken == <>[](Foreseen(object) => outcome = "taken")
=============================================================================
