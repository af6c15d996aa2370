----------------------------- MODULE ThreadPool -----------------------------
(***************************************************************************)
(* libport::ThreadPool, which executes the asynchronous callbacks of the   *)
(* UObjects.  Callers of queueTask and the threads of the pool run         *)
(* concurrently; what lock_ protects is one step, except where it matters  *)
(* that something else is not protected: the hand-off of a task to a       *)
(* thread (sem++), the state_ of a task, and maxThreads_, that resize      *)
(* writes without the lock and the tests on it read twice.                 *)
(***************************************************************************)
EXTENDS Integers, Sequences, FiniteSets, Lists

CONSTANTS
  Task,       \* the tasks that may be queued, each once
  Lock,       \* the TaskLock objects
  Thread,     \* the threads that may be created: as many as tasks
  NoTask, NoLock,
  MaxSize,    \* TaskLock::maxSize of each lock, 0 for no limit
  InitMax,    \* the argument of the constructor
  Limits,     \* the values resize is called with
  InitLocked  \* what nLockedTasks_ may hold in a new pool

ASSUME PoolAssumption ==
  /\ NoTask \notin Task /\ NoLock \notin Lock /\ IsFiniteSet(Thread)
  /\ MaxSize \in [Lock -> Nat]
  /\ InitMax \in Nat /\ Limits \subseteq Nat /\ InitLocked \subseteq Nat

VARIABLES
  state,       \* TaskHandle::state_
  lockOf,      \* TaskHandle::taskLock
  submitted,   \* the tasks queueTask was called with
  queue,       \* queue_
  nLocked,     \* nLockedTasks_
  threads,     \* threads_
  idle,        \* idleThreads_
  maxThreads,  \* maxThreads_
  registered,  \* TaskLock::registered
  waiting,     \* TaskLock::waitingTasks
  th,          \* the Thread objects, see ThreadRecord
  caller       \* the call of queueTask that holds lock_, see Caller

shared == <<queue, nLocked, threads, idle>>
locks == <<registered, waiting>>
vars == <<state, lockOf, submitted, shared, maxThreads, locks, th, caller>>

TaskState == {"none", "QUEUED", "RUNNING", "FINISHED", "EXCEPTION", "DROPPED"}

(* "waiting": in sem--.  "loop": at the top of the loop, not waiting.        *)
(* "fetch": holds lock_, has compared threads_.size() and maxThreads_.       *)
(* "start": has a currentTask.  "running": in taskFunc.                      *)
ThreadRecord ==
  [pc : {"unborn", "waiting", "loop", "fetch", "start", "running", "dead"},
   sem : Nat,
   currentTask : Task \cup {NoTask},
   taskLock : Lock \cup {NoLock},
   many : BOOLEAN] \* the result of threads_.size() > maxThreads_

NewThread == [pc |-> "unborn", sem |-> 0, currentTask |-> NoTask,
              taskLock |-> NoLock, many |-> FALSE]

(* step "reread": about to read maxThreads_ again; "end": the task has been  *)
(* placed, registered and state_ are still to be set.                        *)
Caller == [task : Task \cup {NoTask}, step : {"none", "reread", "end"}]
NoCaller == [task |-> NoTask, step |-> "none"]

LockFree == caller = NoCaller /\ \A t \in Thread : th[t].pc # "fetch"

Init ==
  /\ state = [k \in Task |-> "none"] /\ lockOf = [k \in Task |-> NoLock]
  /\ submitted = {}
  /\ queue = << >> /\ nLocked \in InitLocked /\ threads = {} /\ idle = << >>
  /\ maxThreads = InitMax
  /\ registered = [l \in Lock |-> FALSE] /\ waiting = [l \in Lock |-> << >>]
  /\ th = [t \in Thread |-> NewThread] /\ caller = NoCaller

-----------------------------------------------------------------------------
(* queueTask *)

Called(k, l) ==
  /\ LockFree /\ k \notin submitted
  /\ submitted' = submitted \cup {k}
  /\ lockOf' = [lockOf EXCEPT ![k] = l]
  /\ UNCHANGED maxThreads

(* Mutant of Full: the running task is not counted. *)
FullLate(l) == MaxSize[l] # 0 /\ Len(waiting[l]) >= MaxSize[l]

Full(l) == MaxSize[l] # 0 /\ Len(waiting[l]) >= MaxSize[l] - 1

(* The lock is registered and its list full. *)
DropTask(k, l) ==
  /\ Called(k, l) /\ l # NoLock /\ registered[l] /\ Full(l)
  /\ state' = [state EXCEPT ![k] = "DROPPED"]
  /\ UNCHANGED <<shared, locks, th, caller>>

(* Mutant of EnqueueLocked: the task is not counted. *)
EnqueueLockedUncounted(k, l) ==
  /\ Called(k, l) /\ l # NoLock /\ registered[l] /\ ~Full(l)
  /\ waiting' = [waiting EXCEPT ![l] = Append(@, k)]
  /\ caller' = [task |-> k, step |-> "end"]
  /\ UNCHANGED <<state, shared, registered, th>>

(* A thread handles the tasks of the lock already, or will. *)
EnqueueLocked(k, l) ==
  /\ Called(k, l) /\ l # NoLock /\ registered[l] /\ ~Full(l)
  /\ waiting' = [waiting EXCEPT ![l] = Append(@, k)]
  /\ nLocked' = nLocked + 1
  /\ caller' = [task |-> k, step |-> "end"]
  /\ UNCHANGED <<state, queue, threads, idle, registered, th>>

Unregistered(l) == ~(l # NoLock /\ registered[l])

(* The task is given to the thread t, which does not need lock_ to run it. *)
HandOff(t, k) ==
  th' = [th EXCEPT ![t] = [@ EXCEPT !.pc = "waiting", !.currentTask = k,
                                       !.sem = th[t].sem + 1]]

EnqueueIdle(k, l) ==
  /\ Called(k, l) /\ Unregistered(l) /\ idle # << >>
  /\ idle' = SubSeq(idle, 1, Len(idle) - 1)
  /\ HandOff(idle[Len(idle)], k)
  /\ caller' = [task |-> k, step |-> "end"]
  /\ UNCHANGED <<state, queue, nLocked, threads, locks>>

(* A new thread starts in the "waiting" state. *)
Spawn(t, k) ==
  /\ th[t].pc = "unborn"
  /\ threads' = threads \cup {t}
  /\ HandOff(t, k)
  /\ caller' = [task |-> k, step |-> "end"]

EnqueueSpawn(k, l) ==
  /\ Called(k, l) /\ Unregistered(l) /\ idle = << >>
  /\ Cardinality(threads) < maxThreads
  /\ \E t \in Thread : Spawn(t, k)
  /\ UNCHANGED <<state, queue, nLocked, idle, locks>>

(* Mutant of EnqueueTest: the limit is tested before the idle threads. *)
EnqueueTestFirst(k, l) ==
  /\ Called(k, l) /\ Unregistered(l)
  /\ Cardinality(threads) >= maxThreads
  /\ caller' = [task |-> k, step |-> "reread"]
  /\ UNCHANGED <<state, shared, locks, th>>

(* The first test on maxThreads_ has failed, the second one comes. *)
EnqueueTest(k, l) ==
  /\ Called(k, l) /\ Unregistered(l) /\ idle = << >>
  /\ Cardinality(threads) >= maxThreads
  /\ caller' = [task |-> k, step |-> "reread"]
  /\ UNCHANGED <<state, shared, locks, th>>

EnqueueReread ==
  LET k == caller.task
  IN /\ caller.step = "reread"
     /\ \/ /\ maxThreads = 0
           /\ \E t \in Thread : Spawn(t, k)
           /\ UNCHANGED queue
        \/ /\ maxThreads # 0
           /\ queue' = Append(queue, k)
           /\ caller' = [task |-> k, step |-> "end"]
           /\ UNCHANGED <<threads, th>>
     /\ UNCHANGED <<state, lockOf, submitted, nLocked, idle, maxThreads, locks>>

(* Mutant of QueueTaskEnd: the lock is not registered. *)
QueueTaskEndUnregistered ==
  /\ caller.step = "end"
  /\ state' = [state EXCEPT ![caller.task] = "QUEUED"]
  /\ caller' = NoCaller
  /\ UNCHANGED <<lockOf, submitted, shared, maxThreads, locks, th>>

(* The lock of k, if any, is registered; k is QUEUED; lock_ is released.     *)
QueueTaskEnd ==
  LET k == caller.task
  IN /\ caller.step = "end"
     /\ registered' = [l \in Lock |-> registered[l] \/ lockOf[k] = l]
     /\ state' = [state EXCEPT ![k] = "QUEUED"]
     /\ caller' = NoCaller
     /\ UNCHANGED <<lockOf, submitted, shared, maxThreads, waiting, th>>

Resize(n) ==
  /\ n # maxThreads
  /\ maxThreads' = n
  /\ UNCHANGED <<state, lockOf, submitted, shared, locks, th, caller>>

-----------------------------------------------------------------------------
(* threadLoop *)

Wake(t) ==
  /\ th[t].pc = "waiting" /\ th[t].sem > 0
  /\ th' = [th EXCEPT ![t] = [@ EXCEPT !.pc = "start", !.sem = th[t].sem - 1]]
  /\ UNCHANGED <<state, lockOf, submitted, shared, maxThreads, locks, caller>>

Looping(t) == th[t].pc = "loop" /\ LockFree

(* Mutant of Deregister: the list is not looked at. *)
DeregisterAtOnce(t) ==
  LET l == th[t].taskLock
  IN /\ Looping(t) /\ l # NoLock
     /\ registered' = [registered EXCEPT ![l] = FALSE]
     /\ th' = [th EXCEPT ![t].taskLock = NoLock]
     /\ UNCHANGED <<state, lockOf, submitted, shared, maxThreads, waiting, caller>>

(* No more tasks of the lock: deregister it. *)
Deregister(t) ==
  LET l == th[t].taskLock
  IN /\ Looping(t) /\ l # NoLock /\ waiting[l] = << >>
     /\ registered' = [registered EXCEPT ![l] = FALSE]
     /\ th' = [th EXCEPT ![t].taskLock = NoLock]
     /\ UNCHANGED <<state, lockOf, submitted, shared, maxThreads, waiting, caller>>

TakeLocked(t) ==
  LET l == th[t].taskLock
  IN /\ Looping(t) /\ l # NoLock /\ waiting[l] # << >>
     /\ th' = [th EXCEPT ![t] = [@ EXCEPT !.pc = "start",
                                          !.currentTask = Head(waiting[l])]]
     /\ waiting' = [waiting EXCEPT ![l] = Tail(@)]
     /\ nLocked' = nLocked - 1
     /\ UNCHANGED <<state, lockOf, submitted, queue, threads, idle, maxThreads,
                    registered, caller>>

(* lock_ is taken to fetch a task; the first read of maxThreads_. *)
Fetch(t) ==
  /\ Looping(t) /\ th[t].taskLock = NoLock
  /\ th' = [th EXCEPT ![t] = [@ EXCEPT !.pc = "fetch",
                                       !.many = Cardinality(threads) > maxThreads]]
  /\ UNCHANGED <<state, lockOf, submitted, shared, maxThreads, locks, caller>>

Excess(t) == th[t].many /\ maxThreads # 0

ThreadDies(t) ==
  /\ th[t].pc = "fetch" /\ Excess(t)
  /\ threads' = threads \ {t}
  /\ th' = [th EXCEPT ![t] = [@ EXCEPT !.pc = "dead", !.many = FALSE]]
  /\ UNCHANGED <<state, lockOf, submitted, queue, nLocked, idle, maxThreads, locks, caller>>

BecomeIdle(t) ==
  /\ th[t].pc = "fetch" /\ ~Excess(t) /\ queue = << >>
  /\ idle' = Append(idle, t)
  /\ th' = [th EXCEPT ![t] = [@ EXCEPT !.pc = "waiting", !.many = FALSE]]
  /\ UNCHANGED <<state, lockOf, submitted, queue, nLocked, threads, maxThreads, locks, caller>>

(* Mutant of TakeQueued: the last task is taken, the first one removed. *)
TakeQueuedLast(t) ==
  /\ th[t].pc = "fetch" /\ ~Excess(t) /\ queue # << >>
  /\ LET k == queue[Len(queue)]
     IN th' = [th EXCEPT ![t] = [@ EXCEPT !.pc = "start", !.many = FALSE,
                                   !.currentTask = k, !.taskLock = lockOf[k]]]
  /\ queue' = Tail(queue)
  /\ UNCHANGED <<state, lockOf, submitted, nLocked, threads, idle, maxThreads, locks, caller>>

TakeQueued(t) ==
  /\ th[t].pc = "fetch" /\ ~Excess(t) /\ queue # << >>
  /\ LET k == Head(queue)
     IN th' = [th EXCEPT ![t] = [@ EXCEPT !.pc = "start", !.many = FALSE,
                                   !.currentTask = k, !.taskLock = lockOf[k]]]
  /\ queue' = Tail(queue)
  /\ UNCHANGED <<state, lockOf, submitted, nLocked, threads, idle, maxThreads, locks, caller>>

StartTask(t) ==
  /\ th[t].pc = "start"
  /\ state' = [state EXCEPT ![th[t].currentTask] = "RUNNING"]
  /\ th' = [th EXCEPT ![t].pc = "running"]
  /\ UNCHANGED <<lockOf, submitted, shared, maxThreads, locks, caller>>

(* taskFunc returns or throws. *)
EndTask(t, s) ==
  LET k == th[t].currentTask
  IN /\ th[t].pc = "running"
     /\ state' = [state EXCEPT ![k] = s]
     /\ th' = [th EXCEPT ![t] =
                 [@ EXCEPT !.pc = "loop", !.currentTask = NoTask,
                           !.taskLock = IF lockOf[k] # NoLock THEN lockOf[k]
                                        ELSE th[t].taskLock]]
     /\ UNCHANGED <<lockOf, submitted, shared, maxThreads, locks, caller>>

-----------------------------------------------------------------------------

QueueTask ==
  \/ \E k \in Task, l \in Lock \cup {NoLock} :
       \/ DropTask(k, l) \/ EnqueueLocked(k, l) \/ EnqueueIdle(k, l)
       \/ EnqueueSpawn(k, l) \/ EnqueueTest(k, l)
  \/ EnqueueReread \/ QueueTaskEnd

ThreadStep(t) ==
  \/ Wake(t) \/ Deregister(t) \/ TakeLocked(t) \/ Fetch(t) \/ ThreadDies(t)
  \/ BecomeIdle(t) \/ TakeQueued(t) \/ StartTask(t)
  \/ \E s \in {"FINISHED", "EXCEPTION"} : EndTask(t, s)

(* Every task has been queued and executed; the threads are idle or dead.   *)
Done == /\ submitted = Task /\ caller = NoCaller /\ queue = << >>
        /\ \A t \in Thread : \/ th[t].pc \in {"unborn", "dead"}
                             \/ th[t].pc = "waiting" /\ th[t].sem = 0
        /\ UNCHANGED vars

Next ==
  \/ QueueTask
  \/ \E t \in Thread : ThreadStep(t)
  \/ \E n \in Limits : Resize(n)
  \/ Done

Spec == Init /\ [][Next]_vars

(* Calls of queueTask return, threads are scheduled and task functions end.  *)
Fairness ==
  /\ WF_vars(EnqueueReread \/ QueueTaskEnd)
  /\ \A t \in Thread : WF_vars(ThreadStep(t))
FairSpec == Spec /\ Fairness

-----------------------------------------------------------------------------
(* Properties *)

Types ==
  /\ state \in [Task -> TaskState] /\ lockOf \in [Task -> Lock \cup {NoLock}]
  /\ submitted \subseteq Task
  /\ queue \in Seq(Task) /\ threads \subseteq Thread /\ idle \in Seq(Thread)
  /\ maxThreads \in Nat
  /\ registered \in [Lock -> BOOLEAN] /\ waiting \in [Lock -> Seq(Task)]
  /\ th \in [Thread -> ThreadRecord] /\ caller \in Caller

(* Every variable has its type; nLockedTasks_, a size_t, does not wrap. *)
TypeOK == Types /\ nLocked \in Nat

Running(k) == \E t \in Thread : th[t].pc = "running" /\ th[t].currentTask = k

(* "No two tasks with the same lock will be allowed to run at the same time" *)
(* (thread-pool.hh:92), although a thread runs a task it was handed before   *)
(* queueTask has registered the lock, and resize kills threads meanwhile.    *)
LockExclusion ==
  \A j, k \in Task : /\ Running(j) /\ Running(k)
                     /\ lockOf[j] = lockOf[k] /\ lockOf[j] # NoLock
                     => j = k

(* No thread sleeps while a task is in queue_: queueTask looks for an idle   *)
(* thread, and a thread that becomes idle looks at queue_, under one lock_.  *)
IdleMeansNoWork == idle # << >> => queue = << >>

(* Tasks wait for a lock only while its handler is there to take them: the   *)
(* thread that runs or has run one, or the one that will fetch it in queue_. *)
Handler(l) ==
  \/ \E t \in Thread : \/ th[t].taskLock = l
                       \/ th[t].currentTask # NoTask /\ lockOf[th[t].currentTask] = l
  \/ \E i \in 1..Len(queue) : lockOf[queue[i]] = l
WaitingIsHandled == \A l \in Lock : waiting[l] # << >> => Handler(l)

(* The invariant the exclusion follows from.  Holding(t, l): t has or will   *)
(* have to take the tasks that wait for l.                                   *)
InQueue(i, l) == lockOf[queue[i]] = l
Holding(t, l) ==
  \/ th[t].taskLock = l
  \/ th[t].currentTask # NoTask /\ lockOf[th[t].currentTask] = l

(* What the record of a thread holds at each point of threadLoop. *)
ThreadInv ==
  \A t \in Thread :
    /\ th[t].pc \in {"unborn", "waiting", "fetch", "dead"} => th[t].taskLock = NoLock
    /\ th[t].pc \in {"unborn", "loop", "fetch", "dead"} => th[t].currentTask = NoTask
    /\ th[t].pc \in {"start", "running"} => th[t].currentTask # NoTask
    /\ th[t].sem = IF th[t].pc = "waiting" /\ th[t].currentTask # NoTask THEN 1 ELSE 0
    /\ th[t].currentTask # NoTask => th[t].currentTask \in submitted

IdleInv ==
  /\ \A i \in 1..Len(idle) : /\ th[idle[i]].pc = "waiting"
                             /\ th[idle[i]].currentTask = NoTask
  /\ \A i, j \in 1..Len(idle) : idle[i] = idle[j] => i = j

(* The lists hold tasks that were submitted, those of a lock its own. *)
ListInv ==
  /\ \A i \in 1..Len(queue) : queue[i] \in submitted
  /\ \A l \in Lock : \A i \in 1..Len(waiting[l]) :
       waiting[l][i] \in submitted /\ lockOf[waiting[l][i]] = l
  /\ caller.step # "none" => caller.task \in submitted

(* A lock has one holder at most, in queue_ or among the threads, and none   *)
(* when it is not registered, but for the call that is about to register it. *)
HolderInv ==
  \A l \in Lock :
    /\ \A t, u \in Thread : Holding(t, l) /\ Holding(u, l) => t = u
    /\ \A i, j \in 1..Len(queue) : InQueue(i, l) /\ InQueue(j, l) => i = j
    /\ \A i \in 1..Len(queue), t \in Thread : ~(InQueue(i, l) /\ Holding(t, l))
    /\ ~registered[l] /\ (caller.step = "end" => lockOf[caller.task] # l)
       => /\ \A t \in Thread : ~Holding(t, l)
          /\ \A i \in 1..Len(queue) : ~InQueue(i, l)
    /\ caller.step = "reread" /\ lockOf[caller.task] = l => ~registered[l]

LockInv == Types /\ ThreadInv /\ IdleInv /\ ListInv /\ HolderInv

(* queueSize() is the number of tasks that were accepted and that no thread  *)
(* has taken (thread-pool.hh:98), although nLockedTasks_ is counted apart    *)
(* from the lists.                                                           *)
queueSize == Len(queue) + nLocked
Listed(k) ==
  \/ \E i \in 1..Len(queue) : queue[i] = k
  \/ \E l \in Lock : \E i \in 1..Len(waiting[l]) : waiting[l][i] = k
QueueSizeExact == queueSize = Cardinality({k \in Task : Listed(k)})

(* The invariants these follow from.  lock_ excludes a call of queueTask and  *)
(* a thread that fetches a task; a call that found no idle thread and goes   *)
(* to read maxThreads_ again will find none.                                 *)
WorkInv ==
  /\ \A t \in Thread : th[t].pc = "fetch" => caller = NoCaller
  /\ caller.step = "reread" => idle = << >>
  /\ IdleMeansNoWork

(* A thread with a lock runs the tasks of that lock only; a registered lock   *)
(* has a handler, the one that is about to be registered too.                *)
HandledInv ==
  /\ \A t \in Thread : th[t].taskLock # NoLock /\ th[t].currentTask # NoTask
                       => lockOf[th[t].currentTask] = th[t].taskLock
  /\ \A l \in Lock :
       \/ registered[l] \/ waiting[l] # << >>
       \/ caller.step = "end" /\ lockOf[caller.task] = l
       => Handler(l)

(* A task is in one list, once, and nLockedTasks_ counts those of the locks,  *)
(* from what it held in the new pool.                                        *)
Locked == UNION {Elements(waiting[l]) : l \in Lock}
SizeInv ==
  /\ Distinct(queue) /\ \A l \in Lock : Distinct(waiting[l])
  /\ Elements(queue) \cap Locked = {}
  /\ caller.step = "reread" => caller.task \notin Elements(queue) \cup Locked
  /\ IsFiniteSet(Locked) /\ \E n \in InitLocked : nLocked = n + Cardinality(Locked)

(* A task that was placed is in one place only: in a list, or in the hands   *)
(* of one thread.  A task that was dropped is in none and stays DROPPED.     *)
Placing(k) == caller.step # "none" /\ caller.task = k
PlaceInv ==
  /\ \A t, u \in Thread :
       th[t].currentTask = th[u].currentTask /\ th[t].currentTask # NoTask => t = u
  /\ \A t \in Thread : th[t].currentTask \notin Elements(queue) \cup Locked
  /\ caller.step = "reread" => \A t \in Thread : th[t].currentTask # caller.task
  /\ \A k \in Task : state[k] = "DROPPED" =>
       /\ k \in submitted /\ ~Placing(k) /\ k \notin Elements(queue) \cup Locked
       /\ \A t \in Thread : th[t].currentTask # k

PoolInv == LockInv /\ WorkInv /\ HandledInv /\ SizeInv /\ PlaceInv

(* A task that was accepted is executed, in whatever list it waits.          *)
InHand(t, k) == th[t].pc \in {"waiting", "start"} /\ th[t].currentTask = k
Waits(k) ==
  \/ Listed(k) \/ \E t \in Thread : InHand(t, k)
  \/ caller = [task |-> k, step |-> "reread"]
EveryTaskRuns == \A k \in Task : Waits(k) ~> Running(k)

(* The pool implements TaskQueue.  A task is accepted when it is placed in a *)
(* list or in the hands of a thread, and starts when its thread writes       *)
(* RUNNING.                                                                  *)
Placed == submitted \ (IF caller.step = "reread" THEN {caller.task} ELSE { })
First(l) ==
  {k \in Task : /\ lockOf[k] = l
                /\ \/ \E i \in 1..Len(queue) : queue[i] = k
                   \/ \E t \in Thread : InHand(t, k)}
TQ == INSTANCE TaskQueue WITH
  lockOf <- [k \in Task |-> IF k \in Placed THEN lockOf[k] ELSE NoLock],
  submitted <- Placed,
  serial <- [l \in Lock |-> SeqExt!SetToSeq(First(l)) \o waiting[l]],
  free <- First(NoLock),
  running <- {k \in Task : Running(k)},
  dropped <- {k \in Task : state[k] = "DROPPED"}
ImplementsTaskQueue == TQ!TQSpec

=============================================================================
