----------------------- MODULE MCPublisherRefinement ------------------------
(* PublisherRefinement on the instances of MCPublisher. *)
EXTENDS MCPublisher, PublisherRefinement
=============================================================================
