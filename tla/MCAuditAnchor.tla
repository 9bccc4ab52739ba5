--------------------------- MODULE MCAuditAnchor ----------------------------
(* AuditAnchor with two appenders, two events of which one has a time the    *)
(* database truncates, no time of its own and a correlation id it spells     *)
(* anew, pages of one row, one fault and two jobs (one where nothing depends *)
(* on a second).  The trees of AuditMerkle grow to five leaves before the    *)
(* first append, so that a run is the sum of both state spaces and not       *)
(* their product.                                                            *)
EXTENDS AuditAnchor, AuditMerkle

CONSTANTS a1, a2, e1, e2, j1, j2

MCAppenders == {a1, a2}
MCEvents == {e1, e2}
MCSubMicro == {e2}
MCRespelled == {e2}
MCOther == {e1}
MCUntimed == {e2}
MCOneJob == {j1}
MCJobs == {j1, j2}

MCInit == AnchorInit /\ MerkleInit

MCSpec ==
    /\ MCInit
    /\ [][\/ AddLeaf /\ UNCHANGED allVars
          \/ /\ Len(leafHexes) = MaxLeaves
             /\ AnchorNext
             /\ UNCHANGED leafHexes]_<<allVars, leafHexes>>
    /\ AnchorFairness

=============================================================================
