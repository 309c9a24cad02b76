------------------------------- MODULE MCXa -------------------------------
(* Instances of Xa for TLC. *)
EXTENDS Xa, TLC

CONSTANTS k1, k2

TwoConns == {k1, k2}

Symmetry == Permutations(TwoConns)

=============================================================================
