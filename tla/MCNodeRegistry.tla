--------------------------- MODULE MCNodeRegistry ---------------------------
(* Instances of NodeRegistry for TLC. *)
EXTENDS NodeRegistry, TLC

CONSTANTS n1, n2, n3, n4, l1, l2, l3, l4, f1

MCNodes == {n1, n2, n3}
MCFourNodes == {n1, n2, n3, n4}
MCLocals == {l1, l2, l3}
MCTwoLocals == {l1, l2}
MCFourLocals == {l1, l2, l3, l4}
MCFields == {f1}

Symmetry == Permutations(MCNodes) \cup Permutations(MCLocals)
SymmetryFour == Permutations(MCFourNodes) \cup Permutations(MCFourLocals)
=============================================================================
