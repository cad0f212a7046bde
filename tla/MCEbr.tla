-------------------------------- MODULE MCEbr --------------------------------
(* TLC instances of Ebr.                                                    *)
EXTENDS Ebr, TLC

Symmetry == Permutations(Collectors)

==============================================================================
