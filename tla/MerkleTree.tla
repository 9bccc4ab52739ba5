----------------------------- MODULE MerkleTree -----------------------------
(***************************************************************************)
(* The Merkle tree of pkg/platform/audit/merkle.go: root, inclusion proofs *)
(* and their verification, as functions of the list of leaves.  SHA-256 is *)
(* taken to be collision-free, so the hash of a leaf (32 bytes) and of two *)
(* nodes (64 bytes) are the tuples <<leaf>> and <<left, right>>.           *)
(***************************************************************************)
EXTENDS Naturals, Sequences

Hash(leaf) == <<leaf>>
Combine(left, right) == <<left, right>>

\* nextLevel: pairs, the odd tail with itself; and without the odd tail.
NextLevel_DropTail(level) ==
    [i \in 1 .. Len(level) \div 2 |-> Combine(level[2 * i - 1], level[2 * i])]

NextLevel(level) ==
    [i \in 1 .. (Len(level) + 1) \div 2 |->
        LET left == level[2 * i - 1]
        IN  Combine(left, IF 2 * i <= Len(level) THEN level[2 * i] ELSE left)]

\* The levels of the loop of ComputeMerkleRoot, from the leaves (0) upwards; the
\* last ones repeat once a level is a single node.
Levels(s) ==
    LET level[k \in 0 .. Len(s)] ==
            IF k = 0 THEN [i \in DOMAIN s |-> Hash(s[i])]
            ELSE LET below == level[k - 1]
                 IN  IF Len(below) > 1 THEN NextLevel(below) ELSE below
    IN  level

ComputeMerkleRoot(s) == Levels(s)[Len(s)][1]

\* The sibling of the node at a 0-based index, on an odd tail the node itself; and
\* with the tail's sibling its neighbour.
Sibling_Left(level, idx) ==
    IF idx % 2 = 0 /\ idx + 1 < Len(level) THEN level[idx + 2] ELSE level[idx]

Sibling(level, idx) ==
    IF idx % 2 = 1 THEN level[idx]
    ELSE IF idx + 1 < Len(level) THEN level[idx + 2]
    ELSE level[idx + 1]

\* The loop stops at the first level of a single node.
Depth(level) ==
    CHOOSE d \in DOMAIN level : /\ Len(level[d]) = 1
                                /\ \A k \in 0 .. d - 1 : Len(level[k]) > 1

\* idx on each level up to a depth.
Indices(i, depth) ==
    LET idx[k \in 0 .. depth] == IF k = 0 THEN i ELSE idx[k - 1] \div 2
    IN  idx

\* The proof for the 0-based index i of a leaf: the sibling on each level.
BuildInclusionProof(s, i) ==
    LET level == Levels(s)
        idx == Indices(i, Depth(level))
    IN  [k \in 1 .. Depth(level) |->
            [Side |-> IF idx[k - 1] % 2 = 0 THEN "R" ELSE "L",
             Hash |-> Sibling(level[k - 1], idx[k - 1])]]

\* cur after each step of the loop of VerifyInclusionProof.
Currents(leaf, steps) ==
    LET cur[k \in 0 .. Len(steps)] ==
            IF k = 0 THEN Hash(leaf)
            ELSE IF steps[k].Side = "L" THEN Combine(steps[k].Hash, cur[k - 1])
            ELSE Combine(cur[k - 1], steps[k].Hash)
    IN  cur

VerifyInclusionProof(leaf, steps, root) ==
    root = Currents(leaf, steps)[Len(steps)]

-----------------------------------------------------------------------------
(* The tree the header of the file describes, top-down.                    *)

\* The leaves below a node of each height up to n.
Widths(n) ==
    LET width[h \in 0 .. n] == IF h = 0 THEN 1 ELSE 2 * width[h - 1]
    IN  width

\* The reference: node i of height h is the hash of the subtree over the leaves from
\* i * 2^h on, where a missing right subtree is a copy of the left one.
Subtrees(s) ==
    LET width == Widths(Len(s))
        tree[h \in 0 .. Len(s)] ==
            [i \in {k \in 0 .. Len(s) - 1 : k * width[h] < Len(s)} |->
                IF h = 0 THEN Hash(s[i + 1])
                ELSE LET left == tree[h - 1][2 * i]
                     IN  Combine(left, IF (2 * i + 1) * width[h - 1] < Len(s)
                                       THEN tree[h - 1][2 * i + 1] ELSE left)]
    IN  tree

\* The least height with room for n leaves.
HeightOf(n) ==
    CHOOSE h \in 0 .. n : /\ n <= Widths(n)[h]
                          /\ \A k \in 0 .. h - 1 : Widths(n)[k] < n

=============================================================================
