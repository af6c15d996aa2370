----------------------------- MODULE MCJobSync -----------------------------
(* Instances of JobSync for TLC. *)
EXTENDS JobSync, TLC
=============================================================================
