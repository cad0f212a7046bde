-------------------------------- MODULE MCLeaf -------------------------------
(* TLC instances of Leaf and LeafScan.                                      *)
EXTENDS LeafScan, TLC

Symmetry == Permutations(Threads)

==============================================================================
