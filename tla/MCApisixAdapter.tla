-------------------------- MODULE MCApisixAdapter ---------------------------
(* ApisixAdapter with two requests worth chaining and a probe, one retry and *)
(* one fault.                                                                *)
EXTENDS ApisixAdapter

CONSTANTS r1, r2, probe

MCRequests == {r1, r2, probe}
MCNoise == {probe}

=============================================================================
