---------------------------- MODULE PangolinOrg ----------------------------
(***************************************************************************)
(* The Pangolin organisation the controller publishes into, as the fake    *)
(* server of the test suite (src/test/pangolinfake/fake.go) and the client *)
(* (src/internal/pangolin) describe it: three tables of rows addressed by  *)
(* niceId, an additive and transactional blueprint apply, and deletes.     *)
(*                                                                         *)
(* A row keeps only the fields some request is refused for: the site it is *)
(* reached through, the full-domain or alias it answers to, and the shared *)
(* policy it names.  Everything else Pangolin stores is opaque to the      *)
(* controller.                                                             *)
(***************************************************************************)
CONSTANTS
    Keys,         \* every niceId: the ones the controller forms and foreign ones
    ForeignKeys,  \* the niceIds without the gw- prefix
    Names,        \* hostnames and aliases
    Sites,        \* every site name an object may carry
    None,         \* the empty value of an optional field
    NoRow         \* "no row stored under this niceId"

ASSUME KeysAssumption == ForeignKeys \subseteq Keys

ASSUME EmptyAssumption == /\ None \notin Names \cup Sites \cup Keys

Sections == {"public", "private", "policy"}

\* Faulty variant: the gw- prefix is not looked at.
AllKeys == Keys

\* The niceIds with the gw- prefix.
OwnedKeys == Keys \ ForeignKeys

Rows == [site   : Sites \cup {None},
         host   : Names \cup {None},
         alias  : Names \cup {None},
         policy : Keys \cup {None}]

ASSUME NoRowAssumption == NoRow \notin Rows

\* A table of the organisation, and equally one section of a blueprint.
Tables == [Keys -> Rows \cup {NoRow}]
Docs   == [Sections -> Tables]

EmptyDoc == [s \in Sections |-> [k \in Keys |-> NoRow]]

Stored(org, s, k) == org[s][k] # NoRow

----------------------------------------------------------------------------
(* What an apply is refused for.  Each throws inside the one transaction,  *)
(* so a refused document changes nothing.                                  *)

\* full-domain is unique within each section of the document.
DuplicateHost(doc) ==
    \E s \in Sections : \E j, k \in Keys :
        /\ j # k
        /\ Stored(doc, s, j) /\ Stored(doc, s, k)
        /\ doc[s][j].host # None
        /\ doc[s][j].host = doc[s][k].host

UnknownSite(doc, sites) ==
    \E s \in {"public", "private"}, k \in Keys :
        Stored(doc, s, k) /\ doc[s][k].site \notin sites \cup {None}

\* A resource names a policy that is neither in the document nor stored.
MissingPolicy(org, doc) ==
    \E k \in Keys :
        /\ Stored(doc, "public", k)
        /\ LET p == doc["public"][k].policy
           IN  p # None /\ ~ Stored(doc, "policy", p) /\ ~ Stored(org, "policy", p)

\* The private resource, in the document or stored and not in it, that already
\* holds the alias the document gives to k.
AliasOwners(org, doc, k) ==
    {j \in Keys \ {k} :
        LET holder == IF Stored(doc, "private", j) THEN doc ELSE org
        IN  /\ Stored(holder, "private", j)
            /\ holder["private"][j].alias = doc["private"][k].alias}

AliasTaken(org, doc) ==
    \E k \in Keys :
        /\ Stored(doc, "private", k)
        /\ doc["private"][k].alias # None
        /\ AliasOwners(org, doc, k) # {}

Refuses(org, doc, sites) ==
    \/ DuplicateHost(doc)
    \/ MissingPolicy(org, doc)
    \/ UnknownSite(doc, sites)
    \/ AliasTaken(org, doc)

----------------------------------------------------------------------------
(* What a request does.                                                    *)

\* Additive: a row the document does not name stays as it is.
Merged(org, doc) ==
    [s \in Sections |->
        [k \in Keys |-> IF Stored(doc, s, k) THEN doc[s][k] ELSE org[s][k]]]

\* The organisation after an apply that reaches it.
Applied(org, doc, sites) ==
    IF Refuses(org, doc, sites) THEN org ELSE Merged(org, doc)

\* A policy a stored public resource still names is not deleted.
PolicyInUse(org, p) ==
    \E k \in Keys : Stored(org, "public", k) /\ org["public"][k].policy = p

DeleteRefused(org, s, k) ==
    \/ ~ Stored(org, s, k)
    \/ s = "policy" /\ PolicyInUse(org, k)

Without(org, s, k) == [org EXCEPT ![s][k] = NoRow]

\* The organisation after a delete that reaches it.
Deleted(org, s, k) == IF DeleteRefused(org, s, k) THEN org ELSE Without(org, s, k)
=============================================================================
