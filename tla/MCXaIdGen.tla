----------------------------- MODULE MCXaIdGen -----------------------------
(* An instance of XaIdGen for TLC: 4 seconds, at most 4 ids in each. *)
EXTENDS XaIdGen
=============================================================================
