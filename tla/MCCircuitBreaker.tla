-------------------------- MODULE MCCircuitBreaker --------------------------
(* CircuitBreaker with one dispatch of each style on the same circuit.        *)
EXTENDS CircuitBreaker

OneOfEach == [c \in Callers |-> c]
=============================================================================
