------------------------ MODULE PublisherRefinement -------------------------
(***************************************************************************)
(* The passes of Publisher, with everything that may go wrong inside one,  *)
(* implement DesiredState.  What arrives after the client gave up on it    *)
(* and hands in the dashboard are not the controller's to promise; they    *)
(* may come between any two steps of the promise.                          *)
(***************************************************************************)
EXTENDS Publisher

CONSTANT NoDoc   \* no document is offered

ASSUME NoDocAssumption == NoDoc \notin Docs

\* A pass offers its document from the moment it is rendered to the last row it
\* prunes; answered by the dry-run client it is offered to nobody.
Offering == ChangesReach /\ pc \in {"apply", "list", "delete"}

Promised == INSTANCE DesiredState WITH
    ReadOnly <- DryRun,
    offer    <- IF Offering THEN Document ELSE NoDoc,
    inForce  <- Offering /\ pc # "apply"

\* A pass keeps the promises of DesiredState (publisher.go:174-211 and 281-347):
\* Pangolin takes a document as a whole, and a row is deleted only under a
\* document that was taken in the same pass and does not name it, whatever
\* fails or crashes on the way.
KeepsPromise ==
    /\ Promised!Init
    /\ [][Promised!Promise \/ LateLands \/ Drift]_(Promised!promiseVars)
=============================================================================
