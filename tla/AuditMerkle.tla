---------------------------- MODULE AuditMerkle -----------------------------
(***************************************************************************)
(* The trees of MerkleTree over the leaves of a growing range.  As the     *)
(* hashes of a chain differ, the leaves are 1, 2, ..., n for every n up to *)
(* a bound.                                                                *)
(***************************************************************************)
EXTENDS MerkleTree, SequencesExt

CONSTANT MaxLeaves      \* bound on the leaves of the trees compared

ASSUME MaxLeavesAssumption == MaxLeaves \in Nat

VARIABLE leafHexes      \* the leaves of a range so far, oldest first

EntryHashes == 1 .. MaxLeaves

MerkleInit == leafHexes = << >>

\* One more row in the range.
AddLeaf ==
    /\ Len(leafHexes) < MaxLeaves
    /\ leafHexes' = Append(leafHexes, Len(leafHexes) + 1)

MerkleSpec == MerkleInit /\ [][AddLeaf]_leafHexes

-----------------------------------------------------------------------------
(* Properties.                                                             *)

\* The distinct leaves of other ranges.
LeafLists == {s \in UNION {[1 .. n -> EntryHashes] : n \in EntryHashes} : IsInjective(s)}

\* The bottom-up loop of ComputeMerkleRoot builds the tree the file's header
\* describes top-down, whatever the number of leaves.
RootIsTheTree ==
    [][AddLeaf =>
          ComputeMerkleRoot(leafHexes')
              = Subtrees(leafHexes')[HeightOf(Len(leafHexes'))][0]]_leafHexes

\* The proof built for a position verifies against the root for the leaf at that
\* position and for no other entry hash, after every new leaf.
ProofFitsItsLeafOnly ==
    [][AddLeaf =>
          \A i \in DOMAIN leafHexes', h \in EntryHashes :
              VerifyInclusionProof(h, BuildInclusionProof(leafHexes', i - 1),
                                   ComputeMerkleRoot(leafHexes'))
                  <=> h = leafHexes'[i]]_leafHexes

\* "The root commits to every leaf": although the odd tail is duplicated, no other
\* list of distinct leaves, of equal length or not, has the same root.  The
\* anchors of AuditAnchor are compared by their leaves for this.
RootBindsLeaves ==
    [][AddLeaf =>
          \A s \in LeafLists :
              ComputeMerkleRoot(s) = ComputeMerkleRoot(leafHexes') => s = leafHexes']_leafHexes

=============================================================================
