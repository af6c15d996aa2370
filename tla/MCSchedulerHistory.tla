------------------------- MODULE MCSchedulerHistory -------------------------
(* Instances of SchedulerHistory for TLC. *)
EXTENDS SchedulerHistory, TLC

(* No invariant of these runs tells one job, or one tag, from another. *)
Symmetry == Permutations(Job) \cup Permutations(Tag)

=============================================================================
