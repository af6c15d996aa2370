------------------------------- MODULE JobSync -------------------------------
(***************************************************************************)
(* The synchronisation objects of urbiscript: one Semaphore, used through  *)
(* criticalSection or through a Mutex tag, and one Barrier                 *)
(* (src/object/semaphore.cc, src/object/barrier.cc, share/urbi/mutex.u),   *)
(* with the exceptions that stop or end the jobs blocked in them.          *)
(*                                                                         *)
(* Jobs are the coroutines of Scheduler.  Of a job this module keeps where *)
(* it is blocked, its pending exception and what freezes it: the scheduler *)
(* resumes a job that has a pending exception, or that is not frozen and   *)
(* does not join another job.  The jobs are not side-effect free: yield    *)
(* gives the processor back.                                               *)
(***************************************************************************)
EXTENDS Integers, Sequences, FiniteSets, Lists

CONSTANTS
  Job,      \* the jobs that use the semaphore and the barrier
  NoJob,    \* no job is running
  Initial,  \* the argument of Semaphore.new
  MaxTotal  \* bound: the tokens in the system, however many releases

ASSUME NoJobAssumption == NoJob \notin Job
ASSUME InitialAssumption == Initial \in Nat /\ MaxTotal \in Nat

VARIABLES
  current,   \* Scheduler::current_job_
  at,        \* where each job is, see Place
  inside,    \* the jobs in the body of criticalSection, or of the mutex tag
  exc,       \* pending_exception_ of each job
  sem,       \* the Semaphore, and the jobs whose frozen_ flag is set
  waiters,   \* Barrier::value_
  tagFrozen, \* the jobs one of whose tags is frozen
  total      \* history: Initial plus the releases that nobody acquired for

vars == <<current, at, inside, exc, sem, waiters, tagFrozen, total>>

(* "ready": in its program.  "acquire": in the yield of Semaphore::acquire. *)
(* "wait": in the yield_until_terminated of Barrier::wait.  "dead": zombie. *)
Place == {"ready", "acquire", "wait", "dead"}

(* StopException, TerminateException, BarrierException.                    *)
Exception == {"none", "stop", "terminate", "barrier"}

(* Types. *)
TypeOK ==
  /\ current \in Job \cup {NoJob}
  /\ at \in [Job -> Place]
  /\ inside \subseteq Job
  /\ exc \in [Job -> Exception]
  /\ sem \in [value : Int, queue : Seq(Job), frozen : SUBSET Job]
  /\ waiters \in Seq(Job)
  /\ tagFrozen \subseteq Job
  /\ total \in Nat

Init ==
  /\ current = NoJob
  /\ at = [j \in Job |-> "ready"] /\ inside = {}
  /\ exc = [j \in Job |-> "none"]
  /\ sem = [value |-> Initial, queue |-> << >>, frozen |-> {}]
  /\ waiters = << >> /\ tagFrozen = {}
  /\ total = Initial

-----------------------------------------------------------------------------
(* Semaphore *)

(* Mutant of ReleaseAndForward: a token goes to the last waiter.           *)
ForwardToLast(s, forward) ==
  IF s.value + 1 <= 0 /\ forward
  THEN [value |-> s.value + 1, queue |-> SubSeq(s.queue, 1, Len(s.queue) - 1),
        frozen |-> s.frozen \ {s.queue[Len(s.queue)]}]
  ELSE [s EXCEPT !.value = @ + 1]

(* Semaphore::release_and_forward: a token goes to the front waiter.       *)
ReleaseAndForward(s, forward) ==
  IF s.value + 1 <= 0 /\ forward
  THEN [value |-> s.value + 1, queue |-> Tail(s.queue),
        frozen |-> s.frozen \ {Head(s.queue)}]
  ELSE [s EXCEPT !.value = @ + 1]

(* Mutant of AbortAcquire: the token the job had received is not forwarded. *)
AbortWithoutForward(s, j) ==
  IF j \in s.frozen
  THEN [ReleaseAndForward(s, FALSE) EXCEPT
          !.queue = Without(@, j), !.frozen = @ \ {j}]
  ELSE ReleaseAndForward(s, FALSE)

(* Mutant of AbortAcquire: frozen() is asked, the tags count too.          *)
AbortAskingTags(s, j) ==
  IF j \in s.frozen \cup tagFrozen
  THEN [ReleaseAndForward(s, FALSE) EXCEPT
          !.queue = Without(@, j), !.frozen = @ \ {j}]
  ELSE ReleaseAndForward(s, TRUE)

(* The catch clause of acquire: a job still frozen by the semaphore leaves  *)
(* the queue; a job that a release had unfrozen forwards the token.         *)
AbortAcquire(s, j) ==
  IF j \in s.frozen
  THEN [ReleaseAndForward(s, FALSE) EXCEPT
          !.queue = Without(@, j), !.frozen = @ \ {j}]
  ELSE ReleaseAndForward(s, TRUE)

(* Mutant of LeaveScope: the mutex is unlocked whether or not it was locked. *)
LeaveScopeAlways(s, j) == ReleaseAndForward(s, TRUE)

(* The scope of j is left: the Finally of criticalSection, or onLeave of the *)
(* mutex, which looks at $mutexRelease, gives the token back.               *)
LeaveScope(s, j) == IF j \in inside THEN ReleaseAndForward(s, TRUE) ELSE s

Running(j) == current = j
Others == <<waiters, tagFrozen>>

(* criticalSection, or onEnter of the mutex: acquire.  A job that must wait *)
(* is queued, freezes itself and yields.                                    *)
Acquire(j) ==
  /\ Running(j) /\ j \notin inside
  /\ IF sem.value - 1 < 0
     THEN /\ sem' = [value |-> sem.value - 1, queue |-> Append(sem.queue, j),
                     frozen |-> sem.frozen \cup {j}]
          /\ at' = [at EXCEPT ![j] = "acquire"]
          /\ current' = NoJob
          /\ UNCHANGED inside
     ELSE /\ sem' = [sem EXCEPT !.value = @ - 1]
          /\ inside' = inside \cup {j}
          /\ UNCHANGED <<at, current>>
  /\ UNCHANGED <<exc, Others, total>>

(* The body ends, and the job gives the token back. *)
Leave(j) ==
  /\ Running(j) /\ j \in inside
  /\ sem' = LeaveScope(sem, j)
  /\ inside' = inside \ {j}
  /\ UNCHANGED <<current, at, exc, Others, total>>

(* Semaphore.release called by a job that acquired nothing: a producer.    *)
Release(j) ==
  /\ Running(j) /\ total < MaxTotal
  /\ sem' = ReleaseAndForward(sem, TRUE)
  /\ total' = total + 1
  /\ UNCHANGED <<current, at, inside, exc, Others>>

-----------------------------------------------------------------------------
(* Barrier *)

(* Barrier::wait: enrol, and join nothing.                                 *)
BarrierWait(j) ==
  /\ Running(j)
  /\ waiters' = Append(waiters, j)
  /\ at' = [at EXCEPT ![j] = "wait"]
  /\ current' = NoJob
  /\ UNCHANGED <<inside, exc, sem, tagFrozen, total>>

(* Mutant of Signal: pop_front before the use of front().                  *)
SignalNext(j) ==
  /\ Running(j) /\ Len(waiters) > 1
  /\ exc' = [exc EXCEPT ![waiters[2]] = "barrier"]
  /\ waiters' = Tail(waiters)
  /\ UNCHANGED <<current, at, inside, sem, tagFrozen, total>>

(* async_throw of a BarrierException: whatever was pending is replaced.    *)
Signal(j) ==
  /\ Running(j) /\ waiters # << >>
  /\ exc' = [exc EXCEPT ![Head(waiters)] = "barrier"]
  /\ waiters' = Tail(waiters)
  /\ UNCHANGED <<current, at, inside, sem, tagFrozen, total>>

SignalAll(j) ==
  /\ Running(j) /\ waiters # << >>
  /\ exc' = [x \in Job |-> IF x \in Elements(waiters) THEN "barrier" ELSE exc[x]]
  /\ waiters' = << >>
  /\ UNCHANGED <<current, at, inside, sem, tagFrozen, total>>

-----------------------------------------------------------------------------
(* What the rest of the program does to a job *)

Yield(j) ==
  /\ Running(j) /\ current' = NoJob
  /\ UNCHANGED <<at, inside, exc, sem, Others, total>>

(* A tag around all that k does is stopped: register_stopped_tag.  A second *)
(* stop changes nothing, a job about to terminate is left alone.            *)
Stop(j, k) ==
  /\ Running(j) /\ k # j /\ at[k] # "dead"
  /\ exc[k] \notin {"stop", "terminate"}
  /\ exc' = [exc EXCEPT ![k] = "stop"]
  /\ UNCHANGED <<current, at, inside, sem, Others, total>>

Terminate(j, k) ==
  /\ Running(j) /\ k # j /\ at[k] # "dead" /\ exc[k] # "terminate"
  /\ exc' = [exc EXCEPT ![k] = "terminate"]
  /\ UNCHANGED <<current, at, inside, sem, Others, total>>

(* A tag that k has is frozen; it is unfrozen, by a job or by the server's  *)
(* thread between two jobs.                                                 *)
Freeze(j, k) ==
  /\ Running(j) /\ at[k] # "dead" /\ k \notin tagFrozen
  /\ tagFrozen' = tagFrozen \cup {k}
  /\ UNCHANGED <<current, at, inside, exc, sem, waiters, total>>

Unfreeze(k) ==
  /\ k \in tagFrozen
  /\ tagFrozen' = tagFrozen \ {k}
  /\ UNCHANGED <<current, at, inside, exc, sem, waiters, total>>

-----------------------------------------------------------------------------
(* resume_scheduler, when the scheduler switches back to j.                *)

Frozen(j) == j \in sem.frozen \cup tagFrozen

(* No exception: the job is not frozen.  From acquire it comes back with    *)
(* the token that a release gave it.                                        *)
Resume(j) ==
  /\ current = NoJob /\ exc[j] = "none" /\ ~Frozen(j)
  /\ at[j] \in {"ready", "acquire"}
  /\ current' = j
  /\ inside' = IF at[j] = "acquire" THEN inside \cup {j} ELSE inside
  /\ at' = [at EXCEPT ![j] = "ready"]
  /\ UNCHANGED <<exc, sem, Others, total>>

(* The BarrierException ends wait() normally.                              *)
ResumeSignalled(j) ==
  /\ current = NoJob /\ exc[j] = "barrier" /\ at[j] = "wait"
  /\ current' = j
  /\ at' = [at EXCEPT ![j] = "ready"]
  /\ exc' = [exc EXCEPT ![j] = "none"]
  /\ UNCHANGED <<inside, sem, Others, total>>

(* Mutant of WaitersWithout: wait() lets the exception through.            *)
WaitersKept(j) == waiters

(* erase_if in the catch clause of Barrier::wait.                          *)
WaitersWithout(j) == Without(waiters, j)

(* Any other exception goes through acquire or wait, then out of the body.  *)
(* A StopException ends there, any other one ends the job.                  *)
ResumeThrow(j) ==
  /\ current = NoJob /\ at[j] # "dead"
  /\ exc[j] # "none" /\ ~(exc[j] = "barrier" /\ at[j] = "wait")
  /\ sem' = LeaveScope(IF at[j] = "acquire" THEN AbortAcquire(sem, j) ELSE sem, j)
  /\ waiters' = IF at[j] = "wait" THEN WaitersWithout(j) ELSE waiters
  /\ inside' = inside \ {j}
  /\ IF exc[j] = "stop"
     THEN current' = j /\ at' = [at EXCEPT ![j] = "ready"] /\ UNCHANGED tagFrozen
     ELSE /\ current' = NoJob /\ at' = [at EXCEPT ![j] = "dead"]
          /\ tagFrozen' = tagFrozen \ {j}
  /\ exc' = [exc EXCEPT ![j] = "none"]
  /\ UNCHANGED total

(* The scheduler starts j again. *)
Schedule(j) == Resume(j) \/ ResumeSignalled(j) \/ ResumeThrow(j)

Next ==
  \E j \in Job :
    \/ Acquire(j) \/ Leave(j) \/ Release(j)
    \/ BarrierWait(j) \/ Signal(j) \/ SignalAll(j)
    \/ Yield(j) \/ Unfreeze(j)
    \/ Schedule(j)
    \/ \E k \in Job : Stop(j, k) \/ Terminate(j, k) \/ Freeze(j, k)

Spec == Init /\ [][Next]_vars

(* Every round of the scheduler starts each job that may run (NoStarvation  *)
(* of SchedulerHistory), a job yields sooner or later, and so does the body *)
(* of a critical section end when its job keeps running.                    *)
Fairness ==
  \A j \in Job : WF_vars(Yield(j)) /\ SF_vars(Leave(j)) /\ SF_vars(Schedule(j))

FairSpec == Spec /\ Fairness

-----------------------------------------------------------------------------
(* Properties *)

(* The jobs that a release unfroze and that have not run since. *)
Granted == {j \in Job : at[j] = "acquire" /\ j \notin sem.frozen}

(* The jobs that have a token. *)
Holders == inside \cup Granted

(* Semaphore: no token is lost and none is made up, whatever stops, ends or *)
(* freezes the jobs that wait for one, hold one, or were just given one.    *)
TokensConserved ==
  sem.value = total - Cardinality(Holders) - Len(sem.queue)

(* Semaphore: the queue holds the jobs that the semaphore keeps frozen, each *)
(* once, all of them blocked in acquire, and only while no token is free.   *)
QueueIsExact ==
  /\ Elements(sem.queue) = sem.frozen
  /\ Cardinality(sem.frozen) = Len(sem.queue)
  /\ \A j \in sem.frozen : at[j] = "acquire"
  /\ sem.queue # << >> => sem.value = -Len(sem.queue)

(* Semaphore: it implements TokenPool.  Whatever ends, stops or freezes the   *)
(* jobs, a token given back goes to the job that has waited longest, and a   *)
(* job that gives up takes no token with it.                                *)
Pool == INSTANCE TokenPool WITH
          free <- IF sem.value > 0 THEN sem.value ELSE 0,
          holders <- Holders,
          queue <- sem.queue
ImplementsTokenPool == Pool!Spec

(* Barrier: the list holds no job that left wait, and a BarrierException is  *)
(* only ever pending on a job that is still in wait to catch it.            *)
SignalsReachWaiters ==
  \A j \in Job : j \in Elements(waiters) \/ exc[j] = "barrier" => at[j] = "wait"

(* Barrier: a job blocked in wait is in the list, or has been thrown an      *)
(* exception that takes it out: no signal can miss it.                      *)
WaitersCanBeWoken ==
  \A j \in Job : at[j] = "wait" => j \in Elements(waiters) \/ exc[j] # "none"

(* The invariant these follow from.  Well(s): the list of a semaphore holds   *)
(* the jobs it froze, each once, and as many as its value says.             *)
Well(s) ==
  /\ Elements(s.queue) = s.frozen /\ Distinct(s.queue)
  /\ Len(s.queue) = IF s.value < 0 THEN -s.value ELSE 0

SemaphoreInv ==
  /\ Well(sem)
  /\ \A j \in sem.frozen : at[j] = "acquire"
  /\ \A j \in inside : at[j] # "acquire"
  /\ IsFiniteSet(Holders)
  /\ total = sem.value + Cardinality(Holders) + Len(sem.queue)

BarrierInv ==
  /\ Distinct(waiters) /\ SignalsReachWaiters /\ WaitersCanBeWoken
  /\ \A j \in Elements(waiters) : exc[j] # "barrier"

SyncInv ==
  /\ TypeOK /\ SemaphoreInv /\ BarrierInv
  /\ current # NoJob => at[current] = "ready"

(* Semaphore: if from some time on no tag is frozen, and no job stays blocked *)
(* in the barrier, a job does not stay blocked in acquire.                  *)
AcquireIsServed ==
  <>[](tagFrozen = {}) /\ (\A j \in Job : []<>(at[j] # "wait"))
  => \A j \in Job : (at[j] = "acquire") ~> (at[j] # "acquire")
=============================================================================
