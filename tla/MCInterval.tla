----------------------------- MODULE MCInterval -----------------------------
(* Interval for TLC.  Three timer identities let two activations overlap     *)
(* (after stop() and start() in the middle of a callback) while a third      *)
(* timer is armed.                                                           *)
EXTENDS Interval
=============================================================================
