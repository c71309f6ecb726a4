------------------------- MODULE MCArtifactRegistry -------------------------
(* Instances of ArtifactRegistry for TLC. *)
EXTENDS ArtifactRegistry, TLC

(* Chunk values, inodes, tokens and offers are interchangeable. *)
RegistrySymmetry ==
    Permutations(Chunks) \cup Permutations(Inodes) \cup Permutations(Tokens)
        \cup Permutations(Offers)
=============================================================================
