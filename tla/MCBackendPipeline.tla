------------------------- MODULE MCBackendPipeline -------------------------
(* BackendPipeline on small instances for TLC *)
EXTENDS BackendPipeline, TLC

\* Slots are chosen with CHOOSE and are not symmetric.
Symmetric == Permutations(Replicas)
=============================================================================
