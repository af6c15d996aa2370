----------------------------- MODULE TaskQueue -----------------------------
(***************************************************************************)
(* What libport::ThreadPool promises to the callers of queueTask: tasks    *)
(* without a lock run in any order and in parallel; the tasks of one lock  *)
(* run one at a time, in the order they were queued; only a lock with a    *)
(* limit ever drops a task.                                                *)
(***************************************************************************)
EXTENDS Integers, Sequences, FiniteSets

CONSTANTS Task, Lock, NoLock, MaxSize

VARIABLES
  lockOf,    \* the lock of each task, NoLock before it is queued
  submitted, \* the tasks that queueTask was called with
  serial,    \* for each lock, its tasks that have not started, oldest first
  free,      \* the tasks without a lock that have not started
  running,   \* the tasks whose function is being executed
  dropped    \* the tasks that will never be executed

tqVars == <<lockOf, submitted, serial, free, running, dropped>>

TQInit ==
  /\ lockOf = [k \in Task |-> NoLock] /\ submitted = {}
  /\ serial = [l \in Lock |-> << >>] /\ free = {}
  /\ running = {} /\ dropped = {}

Submit(k, l) ==
  /\ k \notin submitted
  /\ submitted' = submitted \cup {k}
  /\ lockOf' = [lockOf EXCEPT ![k] = l]
  /\ UNCHANGED running

(* The tasks of l that are running or have not started. *)
Load(l) == Len(serial[l]) + Cardinality({k \in running : lockOf[k] = l})

(* A lock with a limit holds at most MaxSize tasks, the running one included. *)
Accept(k, l) ==
  /\ Submit(k, l) /\ UNCHANGED dropped
  /\ IF l = NoLock
     THEN free' = free \cup {k} /\ UNCHANGED serial
     ELSE /\ MaxSize[l] # 0 => Load(l) < MaxSize[l]
          /\ serial' = [serial EXCEPT ![l] = Append(@, k)]
          /\ UNCHANGED free

(* A task may be dropped one short of the limit: the lock counts as busy for *)
(* a moment after each task.                                                 *)
Drop(k, l) ==
  /\ Submit(k, l) /\ l # NoLock /\ MaxSize[l] # 0
  /\ Load(l) >= MaxSize[l] - 1
  /\ dropped' = dropped \cup {k}
  /\ UNCHANGED <<serial, free>>

StartFree(k) ==
  /\ k \in free
  /\ free' = free \ {k} /\ running' = running \cup {k}
  /\ UNCHANGED <<lockOf, submitted, serial, dropped>>

StartSerial(l) ==
  /\ serial[l] # << >>
  /\ \A k \in running : lockOf[k] # l
  /\ running' = running \cup {Head(serial[l])}
  /\ serial' = [serial EXCEPT ![l] = Tail(@)]
  /\ UNCHANGED <<lockOf, submitted, free, dropped>>

Complete(k) ==
  /\ k \in running
  /\ running' = running \ {k}
  /\ UNCHANGED <<lockOf, submitted, serial, free, dropped>>

TQNext ==
  \/ \E k \in Task, l \in Lock \cup {NoLock} : Accept(k, l) \/ Drop(k, l)
  \/ \E k \in Task : StartFree(k) \/ Complete(k)
  \/ \E l \in Lock : StartSerial(l)

TQSpec == TQInit /\ [][TQNext]_tqVars

=============================================================================
