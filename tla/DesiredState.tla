---------------------------- MODULE DesiredState ----------------------------
(***************************************************************************)
(* What the controller promises the organisation, without the mechanism    *)
(* that keeps it: a document is taken as a whole or not at all; rows are   *)
(* removed only while a document that was taken is in force, only rows the *)
(* document does not name, and only rows with the gw- prefix; and with     *)
(* --dry-run nothing changes at all.                                       *)
(*                                                                         *)
(* Publisher is shown to implement this in PublisherRefinement.            *)
(***************************************************************************)
EXTENDS PangolinOrg

CONSTANTS
    ReadOnly,   \* the --dry-run flag
    NoDoc       \* no document is offered

VARIABLES
    org,        \* the rows Pangolin stores
    offer,      \* the document offered to Pangolin, or NoDoc
    inForce     \* the offer was taken, and has not been withdrawn since

promiseVars == <<org, offer, inForce>>

Owned(doc) == \A s \in Sections, k \in ForeignKeys : ~ Stored(doc, s, k)

\* The next document; it names only keys of the controller's own.
Offer ==
    /\ offer = NoDoc
    /\ offer' # NoDoc /\ Owned(offer')
    /\ UNCHANGED <<org, inForce>>

\* The document is taken, all of it; whether the controller learns of it or not.
Take ==
    /\ ~ ReadOnly
    /\ offer # NoDoc /\ ~ inForce
    /\ org' = Merged(org, offer)
    /\ \/ inForce' /\ UNCHANGED offer
       \/ ~ inForce' /\ offer' = NoDoc

\* A row goes that the document in force does not name.
Remove ==
    /\ inForce
    /\ \E s \in Sections, k \in OwnedKeys :
           /\ ~ Stored(offer, s, k)
           /\ org' = Without(org, s, k)
    /\ UNCHANGED <<offer, inForce>>

\* The document is refused, the pass is over, or the controller died.
Withdraw ==
    /\ offer' = NoDoc
    /\ ~ inForce'
    /\ UNCHANGED org

Promise == Offer \/ Take \/ Remove \/ Withdraw

Init == org \in Docs /\ offer = NoDoc /\ ~ inForce

Spec == Init /\ [][Promise]_promiseVars
=============================================================================
