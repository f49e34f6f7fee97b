---------------------------- MODULE MCReactorBuf ----------------------------
(* ReactorBuf with two sizes of block, of which one is on hand each.       *)
EXTENDS ReactorBuf, TLC

OneEach == <<2, 4>>
Perms == Permutations(Owner)
=============================================================================
