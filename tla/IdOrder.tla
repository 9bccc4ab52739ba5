------------------------------ MODULE IdOrder -------------------------------
(***************************************************************************)
(* SELECT ... ORDER BY id ASC and LIMIT, as the stores of the repository   *)
(* use them.                                                               *)
(***************************************************************************)
EXTENDS Naturals, Sequences, FiniteSets

\* The place of an id among some ids, counting from 1.
Rank(ids, n) == Cardinality({m \in ids : m <= n})

\* ORDER BY id ASC.
Ascending(ids) ==
    [i \in 1 .. Cardinality(ids) |-> CHOOSE n \in ids : Rank(ids, n) = i]

\* LIMIT n.
FirstOf(rows, n) == SubSeq(rows, 1, IF Len(rows) < n THEN Len(rows) ELSE n)

=============================================================================
