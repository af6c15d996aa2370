-------------------------------- MODULE Lists --------------------------------
(***************************************************************************)
(* The lists of the C++ code (std::list, std::deque, std::vector) as the   *)
(* models use them.                                                        *)
(***************************************************************************)
EXTENDS Integers, Sequences

SeqExt == INSTANCE SequencesExt

Elements(q) == {q[i] : i \in DOMAIN q}

Distinct(q) == \A i, j \in DOMAIN q : q[i] = q[j] => i = j

(* Where x is in q, and q without it: x is in q once at most. *)
Position(q, x) == CHOOSE i \in DOMAIN q : q[i] = x
Without(q, x) == IF x \in Elements(q) THEN SeqExt!RemoveAt(q, Position(q, x)) ELSE q

(* q without the elements of S, the others in their order. *)
WithoutAll(q, S) ==
  LET kept[n \in 0..Len(q)] ==
        IF n = 0 THEN << >>
        ELSE IF q[n] \in S THEN kept[n - 1] ELSE Append(kept[n - 1], q[n])
  IN kept[Len(q)]
=============================================================================
