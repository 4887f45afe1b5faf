--------------------------- MODULE MCContentCache ---------------------------
(* ContentCache with two keys that may hold the same payload.                *)
EXTENDS ContentCache, TLC

Symmetry == Permutations(Clients) \cup Permutations(Keys) \cup Permutations(Payloads)
=============================================================================
