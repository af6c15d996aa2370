------------------------------ MODULE TokenPool ------------------------------
(***************************************************************************)
(* What a semaphore promises to the jobs of urbiscript: tokens that are    *)
(* free, held, or on their way to the job that has waited longest.  A job  *)
(* may stop waiting, or give its token back, at any time, for whatever     *)
(* reason; a token that is given back goes to the first of the waiting     *)
(* jobs.                                                                   *)
(***************************************************************************)
EXTENDS Naturals, Sequences

CONSTANTS Job, Initial

VARIABLES
  free,     \* how many tokens nobody has
  holders,  \* the jobs that have a token
  queue     \* the jobs that wait for one, the first first

vars == <<free, holders, queue>>

Init == free = Initial /\ holders = {} /\ queue = << >>

(* The jobs of H hold a token, and there is one more to give. *)
Give(H) ==
  IF queue = << >>
  THEN free' = free + 1 /\ holders' = H /\ UNCHANGED queue
  ELSE holders' = H \cup {Head(queue)} /\ queue' = Tail(queue) /\ UNCHANGED free

Waiting(j) == \E i \in DOMAIN queue : queue[i] = j

Take(j) ==
  /\ j \notin holders /\ ~Waiting(j) /\ free > 0
  /\ free' = free - 1 /\ holders' = holders \cup {j} /\ UNCHANGED queue

Wait(j) ==
  /\ j \notin holders /\ ~Waiting(j) /\ free = 0
  /\ queue' = Append(queue, j) /\ UNCHANGED <<free, holders>>

GiveBack(j) == j \in holders /\ Give(holders \ {j})

GiveUp(j) ==
  /\ \E i \in DOMAIN queue :
       /\ queue[i] = j
       /\ queue' = SubSeq(queue, 1, i - 1) \o SubSeq(queue, i + 1, Len(queue))
  /\ UNCHANGED <<free, holders>>

(* A token is made by a release without acquire. *)
Make == Give(holders)

Next == Make \/ \E j \in Job : Take(j) \/ Wait(j) \/ GiveBack(j) \/ GiveUp(j)

Spec == Init /\ [][Next]_vars
=============================================================================
