---------------------------- MODULE MCBoxPublish ----------------------------
(* Instances of BoxPublish for TLC. *)
EXTENDS BoxPublish, TLC

NoLimit == -1
Symmetry == Permutations(Callers) \cup Permutations(Versions)
QuotaSymmetry == Permutations(Boxes) \cup Permutations(Callers) \cup Permutations(Versions)

=============================================================================
