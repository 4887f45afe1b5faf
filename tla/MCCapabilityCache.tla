------------------------- MODULE MCCapabilityCache -------------------------
(* CapabilityCache with two threads, two tasks that share an event loop or    *)
(* not, and one request whose answer is recorded.                             *)
EXTENDS CapabilityCache, TLC

CONSTANTS a1, a2

OneLoopOrTwo == {a1 :> "main" @@ a2 :> other : other \in {"main", "side"}}
=============================================================================
