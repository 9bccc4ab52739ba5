-------------------------- MODULE MCCircuitBreaker --------------------------
(* CircuitBreaker with three concurrent lookups of two attempts each, a      *)
(* threshold of two and three faults.                                        *)
EXTENDS CircuitBreaker

CONSTANTS r1, r2, r3

MCCallers == {r1, r2, r3}

=============================================================================
