---------------------------- MODULE MCThreadPool ----------------------------
(* Instances of ThreadPool for TLC. *)
EXTENDS ThreadPool, TLC

CONSTANTS Bounded, Bound  \* the locks with a limit, and that limit

Limit == [l \in Lock |-> IF l \in Bounded THEN Bound ELSE 0]

(* No property tells one task, or one thread, from another. *)
Symmetry == Permutations(Task) \cup Permutations(Thread)

=============================================================================
