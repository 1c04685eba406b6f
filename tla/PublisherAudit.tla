--------------------------- MODULE PublisherAudit ---------------------------
(***************************************************************************)
(* Publisher with a history of what the cluster asked for: the cells of    *)
(* the blueprint that every state of the cluster so far has wanted.  A row *)
(* in such a cell was never orphaned, whichever moment one looks at.       *)
(***************************************************************************)
EXTENDS Publisher

VARIABLE steady

auditVars == <<vars, steady>>

WantedCells(doc) ==
    {c \in Sections \X Keys : Stored(doc, c[1], c[2])}

AuditInit ==
    /\ Init
    /\ steady = WantedCells(Wanted)

AuditNext ==
    /\ Next
    /\ steady' = steady \cap WantedCells(Wanted')

AuditSpec == AuditInit /\ [][AuditNext]_auditVars

\* The prune removes resources that no route claims any more (publisher.go:281):
\* a pass never deletes a row the cluster has asked for all along.
PruneSparesClaimed ==
    [][DeleteOrphan =>
          \A c \in steady : Stored(org, c[1], c[2]) => Stored(org', c[1], c[2])]_auditVars
=============================================================================
