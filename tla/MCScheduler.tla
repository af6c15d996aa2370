---------------------------- MODULE MCScheduler ----------------------------
(* Instances of Scheduler for TLC. *)
EXTENDS Scheduler, TLC

(* No property of these runs tells one job, or one tag, from another. *)
Symmetry == Permutations(Job) \cup Permutations(Tag)

=============================================================================
