-------------------------- MODULE MCAuditPipeline ---------------------------
(* AuditPipeline with two events on one partition (offsets are committed per *)
(* partition), which the chain's schema may refuse.                          *)
EXTENDS AuditPipeline

CONSTANTS w1, w2, p1, e1, e2

MCWorkers == {w1, w2}
MCPartitions == {p1}
MCPartitionOf == [e \in {e1, e2} |-> p1]
MCPoison == {e2}

=============================================================================
