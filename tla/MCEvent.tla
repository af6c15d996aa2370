------------------------------- MODULE MCEvent -------------------------------
(* Instances of Event for TLC. *)
EXTENDS Event, TLC

CONSTANTS t1, t2, l1, l2, w1

(* A synchronous listener with two tags, one without tag, a waiting job. *)
Tags == (l1 :> {t1, t2}) @@ (l2 :> {}) @@ (w1 :> {t1})
=============================================================================
