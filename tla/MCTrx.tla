------------------------------- MODULE MCTrx -------------------------------
(* Instances of Trx for TLC. *)
EXTENDS Trx, TLC

Symmetry == Permutations(Conns)
=============================================================================
