----------------------- MODULE MCCitizenVerification ------------------------
(* CitizenVerification with one grant, two revoke requests, one query under  *)
(* the grant and two handlers; requests of a kind are interchangeable.       *)
EXTENDS CitizenVerification, TLC

CONSTANTS g1, v1, v2, q1, h1, h2

MCGrants == {g1}
MCRevokers == {v1, v2}
MCQueries == {q1}
MCRef == [q \in {q1} |-> g1]
MCCovered == {q1}
MCHandlers == {h1, h2}
MCNiraStatuses == {"mismatch", "deceased"}
MCSymmetry == Permutations(MCRevokers) \union Permutations(MCHandlers)

=============================================================================
