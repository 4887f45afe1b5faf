--------------------------- MODULE MCSyncResource ---------------------------
(* SyncResource with a source of two row groups: enough for a pass to be      *)
(* interrupted between batches and for an artifact to mix versions.          *)
EXTENDS SyncResource, TLC

Symmetry == Permutations(Versions) \cup Permutations(Destinations)
=============================================================================
