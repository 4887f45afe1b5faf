--------------------------- MODULE MCOAuthRefresh ---------------------------
(* OAuthRefresh with two calls on one event loop and a third on another      *)
(* thread: the least that replaces a lock in use and overlaps two requests.  *)
EXTENDS OAuthRefresh, TLC

CONSTANTS a1, a2, b1, LoopA, LoopB

ThreadOf == (a1 :> LoopA) @@ (a2 :> LoopA) @@ (b1 :> LoopB)
=============================================================================
