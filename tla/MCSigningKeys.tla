--------------------------- MODULE MCSigningKeys ----------------------------
(* SigningKeys with two replicas of either service, four keys and two        *)
(* faults.                                                                   *)
EXTENDS SigningKeys

CONSTANTS r1, r2

MCReplicas == {r1, r2}

=============================================================================
