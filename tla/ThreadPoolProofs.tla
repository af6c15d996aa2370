-------------------------- MODULE ThreadPoolProofs --------------------------
(***************************************************************************)
(* Proofs about ThreadPool, for all numbers of tasks, locks and threads,   *)
(* all limits of the locks and all calls of resize: LockInv is inductive,  *)
(* hence no two tasks with the same lock run at the same time; so are its  *)
(* other parts, hence the pool implements TaskQueue.                       *)
(***************************************************************************)
EXTENDS ThreadPool, ListsProofs

(* A new pool satisfies the invariant. *)
LEMMA InitInv == Init => LockInv
<1> SUFFICES ASSUME Init PROVE LockInv
  OBVIOUS
<1> USE PoolAssumption DEF Init
<1>1. Types
  BY DEF Types, TaskState, ThreadRecord, NewThread, Caller, NoCaller
<1>2. ThreadInv
  BY DEF ThreadInv, NewThread
<1>3. IdleInv
  BY DEF IdleInv
<1>4. ListInv
  BY DEF ListInv, NoCaller
<1>5. HolderInv
  BY DEF HolderInv, Holding, InQueue, NewThread, NoCaller
<1> QED
  BY <1>1, <1>2, <1>3, <1>4, <1>5 DEF LockInv

(* The first element of a sequence, and the others. *)
LEMMA FirstAndRest ==
  ASSUME NEW S, NEW q \in Seq(S), q # << >>
  PROVE  /\ Head(q) = q[1] /\ 1 \in 1..Len(q) /\ q[1] \in S
         /\ Tail(q) \in Seq(S) /\ Len(Tail(q)) = Len(q) - 1
         /\ \A i \in 1..Len(Tail(q)) : i + 1 \in 1..Len(q) /\ Tail(q)[i] = q[i + 1]
BY EmptySeq, HeadTailProperties, ElementOfSeq

(* The last element of a sequence, and the others. *)
LEMMA LastAndRest ==
  ASSUME NEW S, NEW q \in Seq(S), q # << >>
  PROVE  LET rest == SubSeq(q, 1, Len(q) - 1)
         IN  /\ Len(q) \in 1..Len(q) /\ q[Len(q)] \in S
             /\ rest \in Seq(S) /\ Len(rest) = Len(q) - 1
             /\ \A i \in 1..Len(rest) : i \in 1..Len(q) /\ rest[i] = q[i] /\ i # Len(q)
<1> DEFINE rest == SubSeq(q, 1, Len(q) - 1)
<1>1. Len(q) \in Nat \ {0} /\ Len(q) \in 1..Len(q)
  BY EmptySeq
<1>2. q[Len(q)] \in S
  BY <1>1, ElementOfSeq
<1>3. /\ rest \in Seq(S) /\ Len(rest) = Len(q) - 1
      /\ \A i \in 1..Len(rest) : rest[i] = q[i]
  <2>1. /\ 1 \in 1..Len(q) + 1 /\ Len(q) - 1 \in 1 - 1..Len(q)
    BY <1>1
  <2> QED BY <1>1, <2>1
<1> HIDE DEF rest
<1>4. \A i \in 1..Len(rest) : i \in 1..Len(q) /\ i # Len(q)
  BY <1>1, <1>3
<1> QED
  BY <1>1, <1>2, <1>3, <1>4 DEF rest

(* The thread that is handed a task, and the others. *)
LEMMA HandOffFacts ==
  ASSUME NEW x \in Thread, NEW k \in Task, th \in [Thread -> ThreadRecord], HandOff(x, k)
  PROVE  /\ th' \in [Thread -> ThreadRecord]
         /\ \A u \in Thread \ {x} : th'[u] = th[u]
         /\ th'[x].pc = "waiting" /\ th'[x].currentTask = k
         /\ th'[x].taskLock = th[x].taskLock /\ th'[x].sem = th[x].sem + 1
<1> DEFINE r == [th[x] EXCEPT !.pc = "waiting", !.currentTask = k, !.sem = th[x].sem + 1]
<1>1. th[x] \in ThreadRecord /\ th[x].sem + 1 \in Nat
  BY DEF ThreadRecord
<1>2. /\ r \in ThreadRecord /\ r.pc = "waiting" /\ r.currentTask = k
      /\ r.taskLock = th[x].taskLock /\ r.sem = th[x].sem + 1
  BY <1>1 DEF ThreadRecord
<1>3. th' = [th EXCEPT ![x] = r]
  BY DEF HandOff
<1> HIDE DEF r
<1> QED
  BY <1>2, <1>3

(* A thread that waits for a task, or is new, may be handed one. *)
LEMMA HandOffThreads ==
  ASSUME NEW x \in Thread, NEW k \in Task, LockInv, HandOff(x, k),
         th[x].pc \in {"unborn", "waiting"}, th[x].currentTask = NoTask,
         k \in submitted', submitted \subseteq submitted'
  PROVE  ThreadInv'
<1>1. th[x].sem = 0 /\ th[x].taskLock = NoLock /\ NoTask \notin Task
  BY PoolAssumption DEF LockInv, ThreadInv
<1>2. /\ \A u \in Thread \ {x} : th'[u] = th[u]
      /\ th'[x].pc = "waiting" /\ th'[x].currentTask = k
      /\ th'[x].taskLock = NoLock /\ th'[x].sem = 1
  BY <1>1, HandOffFacts DEF LockInv, Types
<1>3. ThreadInv /\ submitted \subseteq submitted'
  BY DEF LockInv
<1> QED
  BY <1>1, <1>2, <1>3 DEF ThreadInv

(* The lock of a task that was submitted does not change. *)
LocksKept == \A k \in submitted : lockOf'[k] = lockOf[k]

(* No thread becomes the holder of a lock. *)
NoNewHolder == \A t \in Thread, l \in Lock : Holding(t, l)' => Holding(t, l)

(* The tasks in queue_ are the same, with the same locks. *)
QueueKept ==
  queue' = queue /\ \A i \in 1..Len(queue), l \in Lock : InQueue(i, l)' <=> InQueue(i, l)

(* queue_ is the same and no lock changes. *)
LEMMA QueueKeptBy ==
  ASSUME LockInv, LocksKept, queue' = queue
  PROVE  QueueKept
BY DEF LockInv, Types, ListInv, LocksKept, QueueKept, InQueue

(* Steps that neither make a holder nor touch queue_ and the registrations.  *)
LEMMA Quiet ==
  ASSUME LockInv, NoNewHolder, QueueKept, registered' = registered,
         caller' = caller,
         caller.step # "none" => lockOf'[caller.task] = lockOf[caller.task]
  PROVE  HolderInv'
<1> USE DEF LockInv, NoNewHolder, QueueKept
<1>0. caller.step \in {"none", "reread", "end"}
  BY DEF Types, Caller
<1> SUFFICES ASSUME NEW l \in Lock
             PROVE  /\ \A t, u \in Thread : Holding(t, l)' /\ Holding(u, l)' => t = u
                    /\ \A i, j \in 1..Len(queue) : InQueue(i, l)' /\ InQueue(j, l)' => i = j
                    /\ \A i \in 1..Len(queue), t \in Thread : ~(InQueue(i, l)' /\ Holding(t, l)')
                    /\ ~registered[l] /\ (caller.step = "end" => lockOf'[caller.task] # l)
                       => /\ \A t \in Thread : ~Holding(t, l)'
                          /\ \A i \in 1..Len(queue) : ~InQueue(i, l)'
                    /\ caller.step = "reread" /\ lockOf'[caller.task] = l => ~registered[l]
  BY DEF HolderInv
<1> QED
  BY <1>0 DEF HolderInv

(* The calls of queueTask that do not place the task in the hands of a       *)
(* thread or in queue_.                                                      *)
LEMMA QuietCall ==
  ASSUME NEW k \in Task, NEW l \in Lock \cup {NoLock}, NEW s \in {"reread", "end"},
         LockInv, NoNewHolder, QueueKept, registered' = registered,
         caller = NoCaller, caller' = [task |-> k, step |-> s], lockOf'[k] = l,
         s = "reread" => Unregistered(l),
         s = "end" => ~Unregistered(l)
  PROVE  HolderInv'
<1> USE PoolAssumption DEF LockInv, NoNewHolder, QueueKept
<1>1. caller'.step = s /\ caller'.task = k /\ caller.step = "none"
  BY DEF NoCaller
<1> SUFFICES ASSUME NEW m \in Lock
             PROVE  /\ \A t, u \in Thread : Holding(t, m)' /\ Holding(u, m)' => t = u
                    /\ \A i, j \in 1..Len(queue) : InQueue(i, m)' /\ InQueue(j, m)' => i = j
                    /\ \A i \in 1..Len(queue), t \in Thread : ~(InQueue(i, m)' /\ Holding(t, m)')
                    /\ ~registered[m] /\ (s = "end" => l # m)
                       => /\ \A t \in Thread : ~Holding(t, m)'
                          /\ \A i \in 1..Len(queue) : ~InQueue(i, m)'
                    /\ s = "reread" /\ l = m => ~registered[m]
  BY <1>1 DEF HolderInv
<1> QED
  BY <1>1 DEF HolderInv, Unregistered

(* The calls of queueTask that give the task to a thread. *)
LEMMA HandOffHolder ==
  ASSUME NEW k \in Task, NEW l \in Lock \cup {NoLock}, NEW x \in Thread,
         LockInv, QueueKept, registered' = registered,
         \A t \in Thread, m \in Lock :
            Holding(t, m)' => Holding(t, m) \/ (t = x /\ m = l),
         caller' = [task |-> k, step |-> "end"], lockOf'[k] = l,
         Unregistered(l),
         \/ caller.step = "none"
         \/ caller.step = "reread" /\ lockOf[caller.task] = l
  PROVE  HolderInv'
<1> USE PoolAssumption DEF LockInv, QueueKept
<1>1. caller'.step = "end" /\ caller'.task = k
  OBVIOUS
<1>2. ASSUME l \in Lock
      PROVE  /\ \A t \in Thread : ~Holding(t, l)
             /\ \A i \in 1..Len(queue) : ~InQueue(i, l)
  BY <1>2 DEF HolderInv, Unregistered
<1> SUFFICES ASSUME NEW m \in Lock
             PROVE  /\ \A t, u \in Thread : Holding(t, m)' /\ Holding(u, m)' => t = u
                    /\ \A i, j \in 1..Len(queue) : InQueue(i, m)' /\ InQueue(j, m)' => i = j
                    /\ \A i \in 1..Len(queue), t \in Thread : ~(InQueue(i, m)' /\ Holding(t, m)')
                    /\ ~registered[m] /\ l # m
                       => /\ \A t \in Thread : ~Holding(t, m)'
                          /\ \A i \in 1..Len(queue) : ~InQueue(i, m)'
  BY <1>1 DEF HolderInv
<1>3. CASE m = l
  BY <1>2, <1>3 DEF HolderInv
<1>4. CASE m # l
  BY <1>4 DEF HolderInv
<1> QED
  BY <1>3, <1>4

(* A call of queueTask gives the task k to the thread x. *)
LEMMA GiveInv ==
  ASSUME NEW k \in Task, NEW x \in Thread, LockInv, HandOff(x, k),
         th[x].pc \in {"unborn", "waiting"}, th[x].currentTask = NoTask,
         LocksKept, lockOf' \in [Task -> Lock \cup {NoLock}],
         k \in submitted', submitted \subseteq submitted', submitted' \subseteq Task,
         queue' = queue, waiting' = waiting, registered' = registered,
         state' = state, maxThreads' = maxThreads,
         threads' \subseteq Thread, idle' \in Seq(Thread),
         \A i \in 1..Len(idle') : i \in 1..Len(idle) /\ idle'[i] = idle[i] /\ idle[i] # x,
         caller' = [task |-> k, step |-> "end"], Unregistered(lockOf'[k]),
         \/ caller.step = "none"
         \/ caller.step = "reread" /\ lockOf[caller.task] = lockOf'[k]
  PROVE  LockInv'
<1>0. th \in [Thread -> ThreadRecord] /\ idle \in Seq(Thread)
  BY DEF LockInv, Types
<1>x. /\ th' \in [Thread -> ThreadRecord]
      /\ \A u \in Thread \ {x} : th'[u] = th[u]
      /\ th'[x].currentTask = k /\ th'[x].taskLock = NoLock
  <2>1. th[x].taskLock = NoLock
    BY DEF LockInv, ThreadInv
  <2> QED
    BY <1>0, <2>1, HandOffFacts
<1>1. Types'
  BY <1>x DEF LockInv, Types, Caller
<1>2. ThreadInv'
  BY HandOffThreads
<1>3. IdleInv'
  <2>1. ASSUME NEW i \in 1..Len(idle')
        PROVE  idle'[i] \in Thread \ {x} /\ th'[idle'[i]] = th[idle[i]]
    BY <1>0, <1>x, ElementOfSeq
  <2> QED
    BY <2>1, SMTT(30) DEF LockInv, IdleInv
<1>4. ListInv'
  BY DEF LockInv, ListInv, LocksKept
<1>5. HolderInv'
  <2>1. QueueKept
    BY QueueKeptBy
  <2>2. PICK l \in Lock \cup {NoLock} : l = lockOf'[k]
    OBVIOUS
  <2>3. ASSUME NEW t \in Thread, NEW m \in Lock, Holding(t, m)'
        PROVE  Holding(t, m) \/ (t = x /\ m = l)
    <3>1. CASE t = x
      BY <1>x, <2>2, <2>3, <3>1, PoolAssumption DEF Holding
    <3>2. CASE t # x
      <4>1. th'[t] = th[t]
        BY <1>x, <3>2
      <4> QED
        BY <2>3, <4>1 DEF Holding, LocksKept, LockInv, ThreadInv
    <3> QED
      BY <3>1, <3>2
  <2> QED
    BY <2>1, <2>2, <2>3, HandOffHolder
<1> QED
  BY <1>1, <1>2, <1>3, <1>4, <1>5 DEF LockInv

(* DropTask keeps the invariant. *)
LEMMA DropTaskInv ==
  ASSUME NEW k \in Task, NEW l \in Lock \cup {NoLock}, LockInv, DropTask(k, l)
  PROVE  LockInv'
<1> USE PoolAssumption DEF LockInv
<1>1. Types'
  BY DEF DropTask, Called, Types, TaskState, shared, locks
<1>2. ThreadInv'
  BY DEF DropTask, Called, ThreadInv
<1>3. IdleInv'
  BY DEF DropTask, shared, IdleInv
<1>4. ListInv'
  BY DEF DropTask, Called, ListInv, Types, LockFree, NoCaller, shared, locks
<1>5. HolderInv'
  <2>1. LocksKept
    BY DEF DropTask, Called, LocksKept, Types
  <2>2. NoNewHolder
    BY <2>1 DEF NoNewHolder, Holding, DropTask, Types, ThreadInv, LocksKept
  <2>3. QueueKept
    BY <2>1, QueueKeptBy DEF DropTask, shared
  <2> QED
    BY <2>2, <2>3, Quiet DEF DropTask, Called, LockFree, NoCaller, locks
<1> QED
  BY <1>1, <1>2, <1>3, <1>4, <1>5

(* EnqueueLocked keeps the invariant. *)
LEMMA EnqueueLockedInv ==
  ASSUME NEW k \in Task, NEW l \in Lock \cup {NoLock}, LockInv, EnqueueLocked(k, l)
  PROVE  LockInv'
<1> USE PoolAssumption DEF LockInv
<1>1. Types'
  BY DEF EnqueueLocked, Called, Types, Caller
<1>2. ThreadInv'
  BY DEF EnqueueLocked, Called, ThreadInv
<1>3. IdleInv'
  BY DEF EnqueueLocked, IdleInv
<1>4. ListInv'
  <2>1. /\ LocksKept /\ lockOf'[k] = l /\ submitted \subseteq submitted' /\ k \in submitted'
        /\ queue' = queue /\ caller' = [task |-> k, step |-> "end"]
        /\ l \in Lock /\ waiting[l] \in Seq(Task)
    BY DEF EnqueueLocked, Called, LocksKept, Types
  <2>2. /\ \A m \in Lock : waiting'[m] = IF m = l THEN Append(waiting[l], k) ELSE waiting[m]
        /\ Len(Append(waiting[l], k)) = Len(waiting[l]) + 1 /\ Len(waiting[l]) \in Nat
        /\ \A i \in 1..Len(waiting[l]) + 1 :
             Append(waiting[l], k)[i] = IF i = Len(waiting[l]) + 1 THEN k ELSE waiting[l][i]
    BY <2>1 DEF EnqueueLocked, Types
  <2>3. ASSUME NEW m \in Lock, NEW i \in 1..Len(waiting'[m])
        PROVE  waiting'[m][i] \in submitted' /\ lockOf'[waiting'[m][i]] = m
    <3>1. CASE m = l
      <4>1. /\ waiting'[m] = Append(waiting[l], k) /\ i \in 1..Len(waiting[l]) + 1
            /\ waiting'[m][i] = IF i = Len(waiting[l]) + 1 THEN k ELSE waiting[l][i]
        BY <2>2, <3>1
      <4>2. ASSUME i # Len(waiting[l]) + 1
            PROVE  waiting[l][i] \in submitted /\ lockOf[waiting[l][i]] = l
        <5>1. i \in 1..Len(waiting[l])
          BY <2>2, <4>1, <4>2
        <5> QED BY <2>1, <5>1 DEF ListInv
      <4> QED
        BY <2>1, <3>1, <4>1, <4>2 DEF LocksKept
    <3>2. CASE m # l
      BY <2>1, <2>2, <3>2 DEF ListInv, LocksKept
    <3> QED
      BY <3>1, <3>2
  <2> QED
    BY <2>1, <2>3 DEF ListInv
<1>5. HolderInv'
  <2>1. LocksKept /\ lockOf'[k] = l /\ caller = NoCaller
    BY DEF EnqueueLocked, Called, LocksKept, Types, LockFree
  <2>2. NoNewHolder
    BY <2>1 DEF NoNewHolder, Holding, EnqueueLocked, Types, ThreadInv, LocksKept
  <2>3. QueueKept
    BY <2>1, QueueKeptBy DEF EnqueueLocked, shared
  <2>4. /\ caller' = [task |-> k, step |-> "end"] /\ registered' = registered
        /\ ~Unregistered(l)
    BY DEF EnqueueLocked, Unregistered, locks
  <2> QED
    BY <2>1, <2>2, <2>3, <2>4, QuietCall
<1> QED
  BY <1>1, <1>2, <1>3, <1>4, <1>5

(* EnqueueIdle keeps the invariant. *)
LEMMA EnqueueIdleInv ==
  ASSUME NEW k \in Task, NEW l \in Lock \cup {NoLock}, LockInv, EnqueueIdle(k, l)
  PROVE  LockInv'
<1> DEFINE x == idle[Len(idle)]
<1>1. idle \in Seq(Thread) /\ idle # << >>
  BY DEF EnqueueIdle, LockInv, Types
<1>2. x \in Thread /\ Len(idle) \in 1..Len(idle) /\ idle' \in Seq(Thread)
  BY <1>1, LastAndRest DEF EnqueueIdle
<1>3. ASSUME NEW i \in 1..Len(idle')
      PROVE  i \in 1..Len(idle) /\ idle'[i] = idle[i] /\ i # Len(idle)
  BY <1>1, LastAndRest DEF EnqueueIdle
<1>4. th[x].pc = "waiting" /\ th[x].currentTask = NoTask
  BY <1>2 DEF LockInv, IdleInv
<1>5. \A i \in 1..Len(idle') : i \in 1..Len(idle) /\ idle'[i] = idle[i] /\ idle[i] # x
  BY <1>2, <1>3 DEF LockInv, IdleInv
<1>6. /\ LocksKept /\ lockOf' \in [Task -> Lock \cup {NoLock}] /\ lockOf'[k] = l
      /\ k \in submitted' /\ submitted \subseteq submitted' /\ submitted' \subseteq Task
      /\ caller.step = "none" /\ maxThreads' = maxThreads /\ threads' \subseteq Thread
  BY DEF EnqueueIdle, Called, LocksKept, LockInv, Types, LockFree, NoCaller
<1>7. /\ HandOff(x, k) /\ Unregistered(l) /\ caller' = [task |-> k, step |-> "end"]
      /\ queue' = queue /\ waiting' = waiting /\ registered' = registered /\ state' = state
  BY DEF EnqueueIdle, locks
<1> HIDE DEF x
<1> QED
  BY <1>2, <1>4, <1>5, <1>6, <1>7, GiveInv

(* EnqueueSpawn keeps the invariant. *)
LEMMA EnqueueSpawnInv ==
  ASSUME NEW k \in Task, NEW l \in Lock \cup {NoLock}, LockInv, EnqueueSpawn(k, l)
  PROVE  LockInv'
<1>1. PICK x \in Thread : Spawn(x, k)
  BY DEF EnqueueSpawn
<1>2. th[x].pc = "unborn" /\ th[x].currentTask = NoTask /\ HandOff(x, k)
  BY <1>1 DEF Spawn, LockInv, ThreadInv
<1>3. idle \in Seq(Thread) /\ idle' = idle
  BY DEF EnqueueSpawn, LockInv, Types
<1>4. \A i \in 1..Len(idle') : i \in 1..Len(idle) /\ idle'[i] = idle[i] /\ idle[i] # x
  BY <1>2, <1>3 DEF LockInv, IdleInv
<1>5. /\ LocksKept /\ lockOf' \in [Task -> Lock \cup {NoLock}] /\ lockOf'[k] = l
      /\ k \in submitted' /\ submitted \subseteq submitted' /\ submitted' \subseteq Task
      /\ caller.step = "none" /\ maxThreads' = maxThreads /\ threads' \subseteq Thread
  BY <1>1 DEF EnqueueSpawn, Called, Spawn, LocksKept, LockInv, Types, LockFree, NoCaller
<1>6. /\ Unregistered(l) /\ caller' = [task |-> k, step |-> "end"]
      /\ queue' = queue /\ waiting' = waiting /\ registered' = registered /\ state' = state
  BY <1>1 DEF EnqueueSpawn, Spawn, locks
<1> QED
  BY <1>2, <1>3, <1>4, <1>5, <1>6, GiveInv

(* EnqueueTest keeps the invariant. *)
LEMMA EnqueueTestInv ==
  ASSUME NEW k \in Task, NEW l \in Lock \cup {NoLock}, LockInv, EnqueueTest(k, l)
  PROVE  LockInv'
<1> USE PoolAssumption DEF LockInv
<1>1. Types'
  BY DEF EnqueueTest, Called, Types, Caller, shared, locks
<1>2. ThreadInv'
  BY DEF EnqueueTest, Called, ThreadInv
<1>3. IdleInv'
  BY DEF EnqueueTest, shared, IdleInv
<1>4. ListInv'
  <2>1. /\ LocksKept /\ submitted \subseteq submitted' /\ k \in submitted'
        /\ queue' = queue /\ waiting' = waiting /\ caller' = [task |-> k, step |-> "reread"]
    BY DEF EnqueueTest, Called, LocksKept, Types, shared, locks
  <2> QED
    BY <2>1 DEF ListInv, LocksKept
<1>5. HolderInv'
  <2>1. LocksKept /\ lockOf'[k] = l /\ caller = NoCaller
    BY DEF EnqueueTest, Called, LocksKept, Types, LockFree
  <2>2. NoNewHolder
    BY <2>1 DEF NoNewHolder, Holding, EnqueueTest, Types, ThreadInv, LocksKept
  <2>3. QueueKept
    BY <2>1, QueueKeptBy DEF EnqueueTest, shared
  <2>4. /\ caller' = [task |-> k, step |-> "reread"] /\ registered' = registered
        /\ Unregistered(l)
    BY DEF EnqueueTest, Unregistered, locks
  <2> QED
    BY <2>1, <2>2, <2>3, <2>4, QuietCall
<1> QED
  BY <1>1, <1>2, <1>3, <1>4, <1>5

(* EnqueueReread keeps the invariant. *)
LEMMA EnqueueRereadInv ==
  ASSUME LockInv, EnqueueReread
  PROVE  LockInv'
<1> DEFINE k == caller.task
<1>1. /\ k \in Task /\ k \in submitted /\ caller.step = "reread"
      /\ submitted \subseteq Task /\ lockOf \in [Task -> Lock \cup {NoLock}]
  BY DEF EnqueueReread, LockInv, ListInv, Types
<1>2. /\ state' = state /\ lockOf' = lockOf /\ submitted' = submitted /\ idle' = idle
      /\ maxThreads' = maxThreads /\ registered' = registered /\ waiting' = waiting
  BY DEF EnqueueReread, locks
<1>3. Unregistered(lockOf[k]) /\ LocksKept
  BY <1>1, <1>2 DEF LockInv, HolderInv, Unregistered, LocksKept
<1>4. ASSUME NEW x \in Thread, Spawn(x, k), queue' = queue
      PROVE  LockInv'
  <2>1. th[x].pc = "unborn" /\ th[x].currentTask = NoTask /\ HandOff(x, k)
    BY <1>4 DEF Spawn, LockInv, ThreadInv
  <2>2. idle \in Seq(Thread) /\ threads' \subseteq Thread /\ caller' = [task |-> k, step |-> "end"]
    BY <1>4 DEF Spawn, LockInv, Types
  <2>3. \A i \in 1..Len(idle') : i \in 1..Len(idle) /\ idle'[i] = idle[i] /\ idle[i] # x
    BY <1>2, <2>1 DEF LockInv, IdleInv
  <2>4. PICK kk \in Task : kk = k
    BY <1>1
  <2> HIDE DEF k
  <2> QED
    BY <1>1, <1>2, <1>3, <1>4, <2>1, <2>2, <2>3, <2>4, GiveInv DEF k
<1>5. ASSUME queue' = Append(queue, k), caller' = [task |-> k, step |-> "end"],
             threads' = threads, th' = th
      PROVE  LockInv'
  <2>1. /\ queue \in Seq(Task) /\ Len(queue) \in Nat /\ Len(queue') = Len(queue) + 1
        /\ \A i \in 1..Len(queue') : queue'[i] = IF i = Len(queue) + 1 THEN k ELSE queue[i]
        /\ queue' \in Seq(Task)
    BY <1>1, <1>5 DEF LockInv, Types
  <2>2. Types'
    BY <1>1, <1>2, <1>5, <2>1 DEF LockInv, Types, Caller
  <2>3. ThreadInv' /\ IdleInv'
    BY <1>2, <1>5 DEF LockInv, ThreadInv, IdleInv
  <2>4. ListInv'
    BY <1>1, <1>2, <1>5, <2>1 DEF LockInv, ListInv
  <2>5. HolderInv'
    <3>1. PICK j \in Task : j = k
      BY <1>1
    <3>2. ASSUME NEW m \in Lock, NEW t \in Thread PROVE Holding(t, m)' <=> Holding(t, m)
      BY <1>2, <1>5 DEF Holding
    <3>3. ASSUME NEW m \in Lock, NEW i \in 1..Len(queue')
          PROVE  InQueue(i, m)' <=> IF i = Len(queue) + 1 THEN lockOf[j] = m
                                    ELSE i \in 1..Len(queue) /\ InQueue(i, m)
      BY <1>2, <2>1, <3>1 DEF InQueue
    <3>4. ASSUME lockOf[j] \in Lock
          PROVE  /\ \A t \in Thread : ~Holding(t, lockOf[j])
                 /\ \A i \in 1..Len(queue) : ~InQueue(i, lockOf[j])
      BY <1>1, <1>3, <3>1, <3>4, PoolAssumption DEF LockInv, HolderInv, Unregistered
    <3>5. caller'.step = "end" /\ caller'.task = j
      BY <1>5, <3>1
    <3> SUFFICES ASSUME NEW m \in Lock
                 PROVE  /\ \A t, u \in Thread : Holding(t, m) /\ Holding(u, m) => t = u
                        /\ \A i, n \in 1..Len(queue') : InQueue(i, m)' /\ InQueue(n, m)' => i = n
                        /\ \A i \in 1..Len(queue'), t \in Thread : ~(InQueue(i, m)' /\ Holding(t, m))
                        /\ ~registered[m] /\ lockOf[j] # m
                           => /\ \A t \in Thread : ~Holding(t, m)
                              /\ \A i \in 1..Len(queue') : ~InQueue(i, m)'
      BY <1>2, <3>2, <3>5 DEF HolderInv
    <3>6. CASE m = lockOf[j]
      BY <3>3, <3>4, <3>6 DEF LockInv, HolderInv
    <3>7. CASE m # lockOf[j]
      BY <1>1, <2>1, <3>3, <3>7 DEF LockInv, HolderInv
    <3> QED
      BY <3>6, <3>7
  <2> QED
    BY <2>2, <2>3, <2>4, <2>5 DEF LockInv
<1>6. \/ \E x \in Thread : Spawn(x, k) /\ queue' = queue
      \/ /\ queue' = Append(queue, k) /\ caller' = [task |-> k, step |-> "end"]
         /\ threads' = threads /\ th' = th
  BY DEF EnqueueReread
<1> QED
  BY <1>4, <1>5, <1>6

(* QueueTaskEnd keeps the invariant. *)
LEMMA QueueTaskEndInv ==
  ASSUME LockInv, QueueTaskEnd
  PROVE  LockInv'
<1> USE PoolAssumption DEF LockInv
<1>1. Types'
  BY DEF QueueTaskEnd, Types, TaskState, Caller, NoCaller, shared
<1>2. ThreadInv'
  BY DEF QueueTaskEnd, ThreadInv
<1>3. IdleInv'
  BY DEF QueueTaskEnd, shared, IdleInv
<1>4. ListInv'
  BY DEF QueueTaskEnd, NoCaller, ListInv, Types, shared
<1>5. HolderInv'
  <2>1. PICK k \in Task : k = caller.task
    BY DEF QueueTaskEnd, ListInv, Types
  <2>2. /\ \A m \in Lock : registered'[m] = (registered[m] \/ lockOf[k] = m)
        /\ th' = th /\ lockOf' = lockOf /\ queue' = queue /\ caller'.step = "none" /\ caller.step = "end"
    BY <2>1 DEF QueueTaskEnd, NoCaller, shared
  <2>3. \A m \in Lock, t \in Thread : Holding(t, m)' <=> Holding(t, m)
    BY <2>2 DEF Holding
  <2>4. \A m \in Lock, i \in 1..Len(queue) : InQueue(i, m)' <=> InQueue(i, m)
    BY <2>2 DEF InQueue
  <2> QED
    BY <2>1, <2>2, <2>3, <2>4 DEF HolderInv
<1> QED
  BY <1>1, <1>2, <1>3, <1>4, <1>5

(* Wake keeps the invariant. *)
LEMMA WakeInv ==
  ASSUME NEW t \in Thread, LockInv, Wake(t)
  PROVE  LockInv'
<1> USE PoolAssumption DEF LockInv
<1> DEFINE r == [th[t] EXCEPT !.pc = "start", !.sem = th[t].sem - 1]
<1>r. th' = [th EXCEPT ![t] = r] /\ r \in ThreadRecord
  <2>1. th[t] \in ThreadRecord
    BY DEF Types
  <2>2. th[t].sem - 1 \in Nat
    BY <2>1 DEF ThreadRecord, Wake
  <2>3. r \in ThreadRecord
    BY <2>1, <2>2 DEF ThreadRecord
  <2> QED
    BY <2>3 DEF Wake
<1>f. /\ r.pc = "start" /\ r.currentTask = th[t].currentTask /\ r.currentTask # NoTask
      /\ r.taskLock = th[t].taskLock /\ r.sem = 0
  <2>1. th[t] \in ThreadRecord
    BY DEF Types
  <2> QED
    BY <2>1 DEF Wake, ThreadRecord, ThreadInv
<1> HIDE DEF r
<1>u. \A u \in Thread : th'[u] = IF u = t THEN r ELSE th[u]
  BY <1>r DEF Types
<1>1. Types'
  BY <1>r DEF Wake, Types, TaskState, shared, locks
<1>2. ThreadInv'
  BY <1>u, <1>f DEF Wake, ThreadInv
<1>3. IdleInv'
  BY <1>u, <1>f DEF Wake, IdleInv, ThreadInv, Types, shared
<1>4. ListInv'
  BY DEF Wake, ListInv, Types, shared, locks
<1>5. HolderInv'
  <2>1. NoNewHolder
    BY <1>u, <1>f DEF NoNewHolder, Holding, Wake, ThreadInv
  <2>2. QueueKept
    BY QueueKeptBy DEF LocksKept, Wake, shared
  <2> QED
    BY <2>1, <2>2, Quiet DEF Wake, locks
<1> QED
  BY <1>1, <1>2, <1>3, <1>4, <1>5

(* Deregister keeps the invariant. *)
LEMMA DeregisterInv ==
  ASSUME NEW t \in Thread, LockInv, Deregister(t)
  PROVE  LockInv'
<1> USE PoolAssumption DEF LockInv
<1> DEFINE r == [th[t] EXCEPT !.taskLock = NoLock]
<1>r. th' = [th EXCEPT ![t] = r] /\ r \in ThreadRecord
  <2>1. th[t] \in ThreadRecord
    BY DEF Types
  <2>2. r \in ThreadRecord
    BY <2>1 DEF ThreadRecord, Deregister, Looping, ThreadInv
  <2> QED
    BY <2>2 DEF Deregister
<1>f. r.pc = "loop" /\ r.sem = 0 /\ r.currentTask = NoTask /\ r.taskLock = NoLock
  <2>1. th[t] \in ThreadRecord
    BY DEF Types
  <2> QED
    BY <2>1 DEF Deregister, Looping, ThreadRecord, ThreadInv
<1> HIDE DEF r
<1>u. \A u \in Thread : th'[u] = IF u = t THEN r ELSE th[u]
  BY <1>r DEF Types
<1>1. Types'
  BY <1>r DEF Deregister, Looping, Types, TaskState, shared, locks
<1>2. ThreadInv'
  BY <1>u, <1>f DEF Deregister, ThreadInv
<1>3. IdleInv'
  BY <1>u, <1>f DEF Deregister, Looping, IdleInv, ThreadInv, Types, shared
<1>4. ListInv'
  BY DEF Deregister, ListInv, Types, shared, locks
<1>5. HolderInv'
  <2>0. PICK l \in Lock : l = th[t].taskLock
    BY DEF Deregister, Types, ThreadRecord
  <2>1. l \in Lock /\ Holding(t, l)
    BY <2>0 DEF Holding
  <2>2. ASSUME NEW u \in Thread, NEW m \in Lock, Holding(u, m)'
        PROVE  Holding(u, m) /\ (u = t => m # l)
    <3>1. lockOf' = lockOf /\ th[t].currentTask = NoTask
      BY DEF Deregister, Looping, ThreadInv
    <3> QED
      BY <1>u, <1>f, <2>2, <3>1 DEF Holding
  <2>3. ASSUME NEW u \in Thread PROVE ~Holding(u, l)'
    BY <2>1, <2>2 DEF HolderInv
  <2>4. /\ \A m \in Lock : registered'[m] = IF m = l THEN FALSE ELSE registered[m]
        /\ queue' = queue /\ lockOf' = lockOf /\ caller' = caller /\ caller.step = "none"
    BY <2>0 DEF Deregister, Looping, LockFree, NoCaller, Types, shared
  <2>5. ASSUME NEW i \in 1..Len(queue) PROVE ~InQueue(i, l)
    BY <2>1 DEF HolderInv
  <2> SUFFICES ASSUME NEW m \in Lock
               PROVE  /\ \A v, u \in Thread : Holding(v, m)' /\ Holding(u, m)' => v = u
                      /\ \A i, j \in 1..Len(queue) : InQueue(i, m) /\ InQueue(j, m) => i = j
                      /\ \A i \in 1..Len(queue), u \in Thread : ~(InQueue(i, m) /\ Holding(u, m)')
                      /\ ~registered'[m]
                         => /\ \A u \in Thread : ~Holding(u, m)'
                            /\ \A i \in 1..Len(queue) : ~InQueue(i, m)
    BY <2>4 DEF HolderInv, InQueue
  <2>6. CASE m = l
    BY <2>1, <2>2, <2>3, <2>5, <2>6 DEF HolderInv
  <2>7. CASE m # l
    BY <2>2, <2>4, <2>7 DEF HolderInv
  <2> QED
    BY <2>6, <2>7
<1> QED
  BY <1>1, <1>2, <1>3, <1>4, <1>5

(* TakeLocked keeps the invariant. *)
LEMMA TakeLockedInv ==
  ASSUME NEW t \in Thread, LockInv, TakeLocked(t)
  PROVE  LockInv'
<1> USE PoolAssumption DEF LockInv
<1> DEFINE k == Head(waiting[th[t].taskLock])
<1>k. /\ th[t].taskLock \in Lock /\ waiting[th[t].taskLock] \in Seq(Task)
      /\ waiting[th[t].taskLock] # << >> /\ k = waiting[th[t].taskLock][1]
      /\ k \in Task /\ k \in submitted /\ lockOf[k] = th[t].taskLock
  <2>1. /\ th[t].taskLock \in Lock /\ waiting[th[t].taskLock] \in Seq(Task)
        /\ waiting[th[t].taskLock] # << >>
    BY DEF TakeLocked, Types, ThreadRecord
  <2>2. /\ k = waiting[th[t].taskLock][1] /\ 1 \in 1..Len(waiting[th[t].taskLock])
        /\ k \in Task
    BY <2>1, FirstAndRest
  <2> QED
    BY <2>1, <2>2 DEF ListInv
<1> DEFINE r == [th[t] EXCEPT !.pc = "start", !.currentTask = k]
<1>r. th' = [th EXCEPT ![t] = r] /\ r \in ThreadRecord
  <2>1. th[t] \in ThreadRecord
    BY DEF Types
  <2>2. r \in ThreadRecord
    BY <2>1, <1>k DEF ThreadRecord, TakeLocked, Looping, ThreadInv
  <2> QED
    BY <2>2 DEF TakeLocked
<1>f. r.pc = "start" /\ r.sem = 0 /\ r.currentTask = k /\ r.taskLock = th[t].taskLock
  <2>1. th[t] \in ThreadRecord
    BY DEF Types
  <2> QED
    BY <2>1 DEF TakeLocked, Looping, ThreadRecord, ThreadInv
<1> HIDE DEF r, k
<1>u. \A u \in Thread : th'[u] = IF u = t THEN r ELSE th[u]
  BY <1>r DEF Types
<1>1. Types'
  BY <1>r, <1>k DEF TakeLocked, Looping, Types, TaskState, shared, locks, k
<1>2. ThreadInv'
  BY <1>u, <1>f, <1>k DEF TakeLocked, ThreadInv
<1>3. IdleInv'
  BY <1>u, <1>f, <1>k DEF TakeLocked, Looping, IdleInv, ThreadInv, Types, shared
<1>4. ListInv'
  <2>1. PICK l \in Lock : l = th[t].taskLock
    BY <1>k
  <2>2. /\ \A i \in 1..Len(Tail(waiting[l])) :
              i + 1 \in 1..Len(waiting[l]) /\ Tail(waiting[l])[i] = waiting[l][i + 1]
    BY <1>k, <2>1, FirstAndRest
  <2>3. \A m \in Lock : waiting'[m] = IF m = l THEN Tail(waiting[l]) ELSE waiting[m]
    BY <2>1 DEF TakeLocked, Types
  <2>4. /\ submitted' = submitted /\ lockOf' = lockOf /\ queue' = queue /\ caller' = caller
    BY DEF TakeLocked
  <2>5. ASSUME NEW m \in Lock, NEW i \in 1..Len(waiting'[m])
        PROVE  waiting'[m][i] \in submitted /\ lockOf[waiting'[m][i]] = m
    <3>1. CASE m = l
      <4>1. waiting'[m] = Tail(waiting[l]) /\ i \in 1..Len(Tail(waiting[l]))
        BY <2>3, <3>1
      <4>2. waiting'[m][i] = waiting[l][i + 1] /\ i + 1 \in 1..Len(waiting[l])
        BY <2>2, <4>1
      <4> QED
        BY <2>1, <3>1, <4>2 DEF ListInv
    <3>2. CASE m # l
      BY <2>3, <3>2 DEF ListInv
    <3> QED
      BY <3>1, <3>2
  <2> QED
    BY <2>4, <2>5 DEF ListInv
<1>5. HolderInv'
  <2>1. NoNewHolder
    BY <1>u, <1>f, <1>k DEF NoNewHolder, Holding, TakeLocked, ThreadInv
  <2>2. QueueKept
    BY QueueKeptBy DEF LocksKept, TakeLocked, shared
  <2> QED
    BY <2>1, <2>2, Quiet DEF TakeLocked, locks
<1> QED
  BY <1>1, <1>2, <1>3, <1>4, <1>5

(* Fetch keeps the invariant. *)
LEMMA FetchInv ==
  ASSUME NEW t \in Thread, LockInv, Fetch(t)
  PROVE  LockInv'
<1> USE PoolAssumption DEF LockInv
<1> DEFINE many == Cardinality(threads) > maxThreads
<1> DEFINE r == [th[t] EXCEPT !.pc = "fetch", !.many = many]
<1>r. th' = [th EXCEPT ![t] = r] /\ r \in ThreadRecord
  <2>1. th[t] \in ThreadRecord
    BY DEF Types
  <2>0. Cardinality(threads) \in Nat
    BY FS_Subset, FS_CardinalityType DEF Types
  <2>3. many \in BOOLEAN
    BY <2>0 DEF Types
  <2>2. r \in ThreadRecord
    <3> HIDE DEF many
    <3> QED BY <2>1, <2>3 DEF ThreadRecord
  <2> QED
    BY <2>2 DEF Fetch
<1>f. r.pc = "fetch" /\ r.sem = 0 /\ r.currentTask = NoTask /\ r.taskLock = NoLock
  <2>1. th[t] \in ThreadRecord
    BY DEF Types
  <2> QED
    BY <2>1 DEF Fetch, Looping, ThreadRecord, ThreadInv
<1> HIDE DEF r, many
<1>u. \A u \in Thread : th'[u] = IF u = t THEN r ELSE th[u]
  BY <1>r DEF Types
<1>1. Types'
  BY <1>r DEF Fetch, Looping, Types, TaskState, shared, locks
<1>2. ThreadInv'
  <2>1. submitted' = submitted
    BY DEF Fetch
  <2> QED BY <1>u, <1>f, <2>1 DEF ThreadInv
<1>3. IdleInv'
  BY <1>u, <1>f DEF Fetch, Looping, IdleInv, ThreadInv, Types, shared
<1>4. ListInv'
  BY DEF Fetch, ListInv, Types, shared, locks
<1>5. HolderInv'
  <2>1. NoNewHolder
    BY <1>u, <1>f DEF NoNewHolder, Holding, Fetch, ThreadInv
  <2>2. QueueKept
    BY QueueKeptBy DEF LocksKept, Fetch, shared
  <2> QED
    BY <2>1, <2>2, Quiet DEF Fetch, locks
<1> QED
  BY <1>1, <1>2, <1>3, <1>4, <1>5

(* ThreadDies keeps the invariant. *)
LEMMA ThreadDiesInv ==
  ASSUME NEW t \in Thread, LockInv, ThreadDies(t)
  PROVE  LockInv'
<1> USE PoolAssumption DEF LockInv
<1> DEFINE r == [th[t] EXCEPT !.pc = "dead", !.many = FALSE]
<1>r. th' = [th EXCEPT ![t] = r] /\ r \in ThreadRecord
  <2>1. th[t] \in ThreadRecord
    BY DEF Types
  <2>2. r \in ThreadRecord
    BY <2>1 DEF ThreadRecord, ThreadDies, Excess, ThreadInv
  <2> QED
    BY <2>2 DEF ThreadDies
<1>f. r.pc = "dead" /\ r.sem = 0 /\ r.currentTask = NoTask /\ r.taskLock = NoLock
  <2>1. th[t] \in ThreadRecord
    BY DEF Types
  <2> QED
    BY <2>1 DEF ThreadDies, Excess, ThreadRecord, ThreadInv
<1> HIDE DEF r
<1>u. \A u \in Thread : th'[u] = IF u = t THEN r ELSE th[u]
  BY <1>r DEF Types
<1>1. Types'
  BY <1>r DEF ThreadDies, Excess, Types, TaskState, shared, locks
<1>2. ThreadInv'
  BY <1>u, <1>f DEF ThreadDies, ThreadInv
<1>3. IdleInv'
  BY <1>u, <1>f DEF ThreadDies, Excess, IdleInv, ThreadInv, Types, shared
<1>4. ListInv'
  BY DEF ThreadDies, ListInv, Types, shared, locks
<1>5. HolderInv'
  <2>1. NoNewHolder
    BY <1>u, <1>f DEF NoNewHolder, Holding, ThreadDies, ThreadInv
  <2>2. QueueKept
    BY QueueKeptBy DEF LocksKept, ThreadDies, shared
  <2> QED
    BY <2>1, <2>2, Quiet DEF ThreadDies, locks
<1> QED
  BY <1>1, <1>2, <1>3, <1>4, <1>5

(* BecomeIdle keeps the invariant. *)
LEMMA BecomeIdleInv ==
  ASSUME NEW t \in Thread, LockInv, BecomeIdle(t)
  PROVE  LockInv'
<1> USE PoolAssumption DEF LockInv
<1> DEFINE r == [th[t] EXCEPT !.pc = "waiting", !.many = FALSE]
<1>r. th' = [th EXCEPT ![t] = r] /\ r \in ThreadRecord
  <2>1. th[t] \in ThreadRecord
    BY DEF Types
  <2>2. r \in ThreadRecord
    BY <2>1 DEF ThreadRecord, BecomeIdle, Excess, ThreadInv
  <2> QED
    BY <2>2 DEF BecomeIdle
<1>f. r.pc = "waiting" /\ r.currentTask = NoTask /\ r.taskLock = NoLock /\ r.sem = 0
  <2>1. th[t] \in ThreadRecord
    BY DEF Types
  <2> QED
    BY <2>1 DEF BecomeIdle, Excess, ThreadRecord, ThreadInv
<1> HIDE DEF r
<1>u. \A u \in Thread : th'[u] = IF u = t THEN r ELSE th[u]
  BY <1>r DEF Types
<1>1. Types'
  BY <1>r DEF BecomeIdle, Excess, Types, TaskState, shared, locks
<1>2. ThreadInv'
  BY <1>u, <1>f DEF BecomeIdle, ThreadInv
<1>3. IdleInv'
  BY <1>u, <1>f DEF BecomeIdle, Excess, IdleInv, ThreadInv, Types, shared
<1>4. ListInv'
  BY DEF BecomeIdle, ListInv, Types, shared, locks
<1>5. HolderInv'
  <2>1. NoNewHolder
    BY <1>u, <1>f DEF NoNewHolder, Holding, BecomeIdle, ThreadInv
  <2>2. QueueKept
    BY QueueKeptBy DEF LocksKept, BecomeIdle, shared
  <2> QED
    BY <2>1, <2>2, Quiet DEF BecomeIdle, locks
<1> QED
  BY <1>1, <1>2, <1>3, <1>4, <1>5

(* TakeQueued keeps the invariant. *)
LEMMA TakeQueuedInv ==
  ASSUME NEW t \in Thread, LockInv, TakeQueued(t)
  PROVE  LockInv'
<1> USE PoolAssumption DEF LockInv
<1> DEFINE k == Head(queue)
<1>k. /\ queue # << >> /\ k = queue[1] /\ k \in Task /\ k \in submitted /\ InQueue(1, lockOf[k])
      /\ lockOf[k] \in Lock \cup {NoLock}
  <2>1. queue # << >> /\ queue \in Seq(Task)
    BY DEF TakeQueued, Types
  <2>2. k = queue[1] /\ 1 \in 1..Len(queue) /\ k \in Task
    BY <2>1, FirstAndRest
  <2> QED
    BY <2>1, <2>2 DEF ListInv, InQueue, Types
<1> DEFINE r == [th[t] EXCEPT !.pc = "start", !.many = FALSE, !.currentTask = k, !.taskLock = lockOf[k]]
<1>r. th' = [th EXCEPT ![t] = r] /\ r \in ThreadRecord
  <2>1. th[t] \in ThreadRecord
    BY DEF Types
  <2>2. r \in ThreadRecord
    BY <2>1, <1>k DEF ThreadRecord, TakeQueued, Excess, ThreadInv
  <2> QED
    BY <2>2 DEF TakeQueued
<1>f. r.pc = "start" /\ r.sem = 0 /\ r.currentTask = k /\ r.taskLock = lockOf[k]
  <2>1. th[t] \in ThreadRecord
    BY DEF Types
  <2> QED
    BY <2>1 DEF TakeQueued, Excess, ThreadRecord, ThreadInv
<1> HIDE DEF r, k
<1>u. \A u \in Thread : th'[u] = IF u = t THEN r ELSE th[u]
  BY <1>r DEF Types
<1>1. Types'
  BY <1>r, <1>k DEF TakeQueued, Excess, Types, TaskState, shared, locks, k
<1>2. ThreadInv'
  BY <1>u, <1>f, <1>k DEF TakeQueued, ThreadInv
<1>3. IdleInv'
  BY <1>u, <1>f, <1>k DEF TakeQueued, Excess, IdleInv, ThreadInv, Types, shared
<1>4. ListInv'
  <2>1. \A i \in 1..Len(queue') : i + 1 \in 1..Len(queue) /\ queue'[i] = queue[i + 1]
    BY <1>k, FirstAndRest DEF TakeQueued, Types
  <2>2. /\ submitted' = submitted /\ lockOf' = lockOf /\ waiting' = waiting /\ caller' = caller
    BY DEF TakeQueued, locks
  <2> QED
    BY <2>1, <2>2 DEF ListInv
<1>5. HolderInv'
  <2>1. /\ Len(queue') = Len(queue) - 1 /\ Len(queue) \in Nat /\ Len(queue) > 0
        /\ \A i \in 1..Len(queue') : i + 1 \in 1..Len(queue) /\ queue'[i] = queue[i + 1]
    BY <1>k DEF TakeQueued, Types
  <2>2. lockOf' = lockOf /\ registered' = registered /\ caller' = caller
    BY DEF TakeQueued, locks
  <2>3. ASSUME NEW u \in Thread, NEW m \in Lock, Holding(u, m)'
        PROVE  Holding(u, m) \/ (u = t /\ m = lockOf[k])
    BY <1>u, <1>f, <2>2, <2>3 DEF Holding
  <2>4. ASSUME NEW m \in Lock, NEW i \in 1..Len(queue'), InQueue(i, m)'
        PROVE  InQueue(i + 1, m) /\ m # lockOf[k]
    <3>1. InQueue(i + 1, m) /\ i + 1 \in 1..Len(queue) /\ 1 \in 1..Len(queue) /\ i + 1 # 1
      BY <2>1, <2>2, <2>4 DEF InQueue
    <3> QED
      BY <3>1, <1>k DEF HolderInv
  <2>5. ASSUME lockOf[k] \in Lock, NEW u \in Thread PROVE ~Holding(u, lockOf[k])
    BY <1>k, <2>1, <2>5 DEF HolderInv
  <2> SUFFICES ASSUME NEW m \in Lock
               PROVE  /\ \A v, u \in Thread : Holding(v, m)' /\ Holding(u, m)' => v = u
                      /\ \A i, j \in 1..Len(queue') : InQueue(i, m)' /\ InQueue(j, m)' => i = j
                      /\ \A i \in 1..Len(queue'), u \in Thread : ~(InQueue(i, m)' /\ Holding(u, m)')
                      /\ ~registered[m] /\ (caller.step = "end" => lockOf[caller.task] # m)
                         => /\ \A u \in Thread : ~Holding(u, m)'
                            /\ \A i \in 1..Len(queue') : ~InQueue(i, m)'
                      /\ caller.step = "reread" /\ lockOf[caller.task] = m => ~registered[m]
    BY <2>2 DEF HolderInv
  <2>6. \A v, u \in Thread : Holding(v, m)' /\ Holding(u, m)' => v = u
    BY <2>3, <2>5 DEF HolderInv
  <2>7. \A i, j \in 1..Len(queue') : InQueue(i, m)' /\ InQueue(j, m)' => i = j
    <3> TAKE i, j \in 1..Len(queue')
    <3> HAVE InQueue(i, m)' /\ InQueue(j, m)'
    <3>1. i + 1 = j + 1
      BY <2>1, <2>4 DEF HolderInv
    <3> QED BY <3>1, <2>1
  <2>8. \A i \in 1..Len(queue'), u \in Thread : ~(InQueue(i, m)' /\ Holding(u, m)')
    BY <2>1, <2>3, <2>4 DEF HolderInv
  <2>9. ASSUME ~registered[m], caller.step = "end" => lockOf[caller.task] # m
        PROVE  /\ \A u \in Thread : ~Holding(u, m)'
               /\ \A i \in 1..Len(queue') : ~InQueue(i, m)'
    <3>1. /\ \A u \in Thread : ~Holding(u, m)
          /\ \A i \in 1..Len(queue) : ~InQueue(i, m)
      BY <2>9 DEF HolderInv
    <3>2. m # lockOf[k]
      BY <3>1, <2>1, <1>k
    <3> QED
      BY <3>1, <3>2, <2>1, <2>3, <2>4
  <2>10. caller.step = "reread" /\ lockOf[caller.task] = m => ~registered[m]
    BY DEF HolderInv
  <2> QED
    BY <2>6, <2>7, <2>8, <2>9, <2>10
<1> QED
  BY <1>1, <1>2, <1>3, <1>4, <1>5

(* StartTask keeps the invariant. *)
LEMMA StartTaskInv ==
  ASSUME NEW t \in Thread, LockInv, StartTask(t)
  PROVE  LockInv'
<1> USE PoolAssumption DEF LockInv
<1> DEFINE r == [th[t] EXCEPT !.pc = "running"]
<1>r. th' = [th EXCEPT ![t] = r] /\ r \in ThreadRecord
  <2>1. th[t] \in ThreadRecord
    BY DEF Types
  <2>2. r \in ThreadRecord
    BY <2>1 DEF ThreadRecord, StartTask, ThreadInv
  <2> QED
    BY <2>2 DEF StartTask
<1>f. r.pc = "running" /\ r.sem = 0 /\ r.currentTask = th[t].currentTask /\ r.taskLock = th[t].taskLock
  <2>1. th[t] \in ThreadRecord
    BY DEF Types
  <2> QED
    BY <2>1 DEF StartTask, ThreadRecord, ThreadInv
<1> HIDE DEF r
<1>u. \A u \in Thread : th'[u] = IF u = t THEN r ELSE th[u]
  BY <1>r DEF Types
<1>1. Types'
  BY <1>r DEF StartTask, Types, TaskState, shared, locks
<1>2. ThreadInv'
  BY <1>u, <1>f DEF StartTask, ThreadInv
<1>3. IdleInv'
  BY <1>u, <1>f DEF StartTask, IdleInv, ThreadInv, Types, shared
<1>4. ListInv'
  BY DEF StartTask, ListInv, Types, shared, locks
<1>5. HolderInv'
  <2>1. NoNewHolder
    BY <1>u, <1>f DEF NoNewHolder, Holding, StartTask, ThreadInv
  <2>2. QueueKept
    BY QueueKeptBy DEF LocksKept, StartTask, shared
  <2> QED
    BY <2>1, <2>2, Quiet DEF StartTask, locks
<1> QED
  BY <1>1, <1>2, <1>3, <1>4, <1>5

(* EndTask keeps the invariant. *)
LEMMA EndTaskInv ==
  ASSUME NEW t \in Thread, NEW s \in {"FINISHED", "EXCEPTION"}, LockInv, EndTask(t, s)
  PROVE  LockInv'
<1> USE PoolAssumption DEF LockInv
<1> DEFINE k == th[t].currentTask
<1>k. k \in Task /\ k \in submitted /\ lockOf[k] \in Lock \cup {NoLock}
  BY DEF EndTask, Types, ThreadRecord, ThreadInv
<1> DEFINE r == [th[t] EXCEPT !.pc = "loop", !.currentTask = NoTask,
                              !.taskLock = IF lockOf[k] # NoLock THEN lockOf[k] ELSE th[t].taskLock]
<1>r. th' = [th EXCEPT ![t] = r] /\ r \in ThreadRecord
  <2>1. th[t] \in ThreadRecord
    BY DEF Types
  <2>2. r \in ThreadRecord
    BY <2>1, <1>k DEF ThreadRecord, EndTask, ThreadInv
  <2> QED
    BY <2>2 DEF EndTask
<1>f. r.pc = "loop" /\ r.sem = 0 /\ r.currentTask = NoTask /\ r.taskLock \in {lockOf[k], th[t].taskLock}
  <2>1. th[t] \in ThreadRecord
    BY DEF Types
  <2> QED
    BY <2>1 DEF EndTask, ThreadRecord, ThreadInv
<1> HIDE DEF r, k
<1>u. \A u \in Thread : th'[u] = IF u = t THEN r ELSE th[u]
  BY <1>r DEF Types
<1>1. Types'
  BY <1>r, <1>k DEF EndTask, Types, TaskState, shared, locks
<1>2. ThreadInv'
  BY <1>u, <1>f, <1>k DEF EndTask, ThreadInv
<1>3. IdleInv'
  BY <1>u, <1>f, <1>k DEF EndTask, IdleInv, ThreadInv, Types, shared
<1>4. ListInv'
  BY <1>k DEF EndTask, ListInv, Types, shared, locks
<1>5. HolderInv'
  <2>1. NoNewHolder
    BY <1>u, <1>f, <1>k DEF NoNewHolder, Holding, EndTask, ThreadInv, k
  <2>2. QueueKept
    BY QueueKeptBy DEF LocksKept, EndTask, shared
  <2> QED
    BY <2>1, <2>2, Quiet DEF EndTask, locks
<1> QED
  BY <1>1, <1>2, <1>3, <1>4, <1>5

(* Every step keeps the invariant. *)
LEMMA NextInv == LockInv /\ [Next]_vars => LockInv'
<1> SUFFICES ASSUME LockInv, [Next]_vars PROVE LockInv'
  OBVIOUS
<1>1. ASSUME NEW k \in Task, NEW l \in Lock \cup {NoLock},
             \/ DropTask(k, l) \/ EnqueueLocked(k, l) \/ EnqueueIdle(k, l)
             \/ EnqueueSpawn(k, l) \/ EnqueueTest(k, l)
      PROVE  LockInv'
  BY <1>1, DropTaskInv, EnqueueLockedInv, EnqueueIdleInv, EnqueueSpawnInv, EnqueueTestInv
<1>2. ASSUME EnqueueReread \/ QueueTaskEnd PROVE LockInv'
  BY <1>2, EnqueueRereadInv, QueueTaskEndInv
<1>3. ASSUME NEW t \in Thread, ThreadStep(t) PROVE LockInv'
  BY <1>3, WakeInv, DeregisterInv, TakeLockedInv, FetchInv, ThreadDiesInv, BecomeIdleInv,
     TakeQueuedInv, StartTaskInv, EndTaskInv DEF ThreadStep
<1>4. ASSUME NEW n \in Limits, Resize(n) PROVE LockInv'
  <2>1. /\ UNCHANGED <<state, lockOf, submitted, queue, threads, idle, registered, waiting, th, caller>>
        /\ maxThreads' \in Nat
    BY <1>4, PoolAssumption DEF Resize, shared, locks
  <2> QED
    BY <2>1 DEF LockInv, Types, ThreadInv, IdleInv, ListInv, HolderInv, Holding, InQueue
<1>5. ASSUME UNCHANGED vars PROVE LockInv'
  <2>1. UNCHANGED <<state, lockOf, submitted, queue, threads, idle, maxThreads,
                  registered, waiting, th, caller>>
    BY <1>5 DEF vars, shared, locks
  <2> QED
    BY <2>1 DEF LockInv, Types, ThreadInv, IdleInv, ListInv, HolderInv, Holding, InQueue
<1> QED
  BY <1>1, <1>2, <1>3, <1>4, <1>5 DEF Next, QueueTask, Done

(* LockInv holds in every state of the pool. *)
THEOREM SpecLockInv == Spec => []LockInv
BY InitInv, NextInv, PTL DEF Spec

(* No two tasks with the same lock ever run at the same time: queueTask and  *)
(* threadLoop keep one holder per lock, although the task handed to a thread *)
(* may run before queueTask registers its lock, and maxThreads_ changes      *)
(* between two reads.                                                        *)
THEOREM SpecLockExclusion == Spec => []LockExclusion
<1>1. LockInv => LockExclusion
  <2> SUFFICES ASSUME LockInv, NEW j \in Task, NEW k \in Task, Running(j), Running(k),
                      lockOf[j] = lockOf[k], lockOf[j] # NoLock
               PROVE  j = k
    BY DEF LockExclusion
  <2>1. lockOf[j] \in Lock
    BY DEF LockInv, Types
  <2>2. PICK t \in Thread : th[t].currentTask = j
    BY DEF Running
  <2>3. PICK u \in Thread : th[u].currentTask = k
    BY DEF Running
  <2>4. Holding(t, lockOf[j]) /\ Holding(u, lockOf[j])
    BY <2>2, <2>3, PoolAssumption DEF Holding
  <2>5. t = u
    BY <2>1, <2>4 DEF LockInv, HolderInv
  <2> QED
    BY <2>2, <2>3, <2>5
<1> QED
  BY <1>1, SpecLockInv, PTL

-----------------------------------------------------------------------------
(* Steps, by what they change *)

(* The record of the thread that makes a step, and those of the others. *)
Moves(t, pc, task, lock) ==
  /\ th'[t].pc = pc /\ th'[t].currentTask = task /\ th'[t].taskLock = lock
  /\ \A u \in Thread \ {t} : th'[u] = th[u]

LEMMA MoveFacts ==
  ASSUME Types, NEW t \in Thread
  PROVE  /\ Wake(t) => Moves(t, "start", th[t].currentTask, th[t].taskLock)
         /\ Deregister(t) => Moves(t, "loop", th[t].currentTask, NoLock)
         /\ TakeLocked(t) => Moves(t, "start", Head(waiting[th[t].taskLock]), th[t].taskLock)
         /\ Fetch(t) => Moves(t, "fetch", th[t].currentTask, th[t].taskLock)
         /\ ThreadDies(t) => Moves(t, "dead", th[t].currentTask, th[t].taskLock)
         /\ BecomeIdle(t) => Moves(t, "waiting", th[t].currentTask, th[t].taskLock)
         /\ TakeQueued(t) => Moves(t, "start", Head(queue), lockOf[Head(queue)])
         /\ StartTask(t) => Moves(t, "running", th[t].currentTask, th[t].taskLock)
         /\ (\E s \in {"FINISHED", "EXCEPTION"} : EndTask(t, s)) =>
              Moves(t, "loop", NoTask,
                    IF lockOf[th[t].currentTask] # NoLock THEN lockOf[th[t].currentTask]
                    ELSE th[t].taskLock)
<1> USE DEF Types, ThreadRecord, Moves
<1>1. Wake(t) => Moves(t, "start", th[t].currentTask, th[t].taskLock)
  BY DEF Wake
<1>2. Deregister(t) => Moves(t, "loop", th[t].currentTask, NoLock)
  BY DEF Deregister, Looping
<1>3. TakeLocked(t) => Moves(t, "start", Head(waiting[th[t].taskLock]), th[t].taskLock)
  BY DEF TakeLocked, Looping
<1>4. Fetch(t) => Moves(t, "fetch", th[t].currentTask, th[t].taskLock)
  BY DEF Fetch, Looping
<1>5. ThreadDies(t) => Moves(t, "dead", th[t].currentTask, th[t].taskLock)
  BY DEF ThreadDies
<1>6. BecomeIdle(t) => Moves(t, "waiting", th[t].currentTask, th[t].taskLock)
  BY DEF BecomeIdle
<1>7. TakeQueued(t) => Moves(t, "start", Head(queue), lockOf[Head(queue)])
  BY DEF TakeQueued
<1>8. StartTask(t) => Moves(t, "running", th[t].currentTask, th[t].taskLock)
  BY DEF StartTask
<1>9. (\E s \in {"FINISHED", "EXCEPTION"} : EndTask(t, s)) =>
        Moves(t, "loop", NoTask,
              IF lockOf[th[t].currentTask] # NoLock THEN lockOf[th[t].currentTask]
              ELSE th[t].taskLock)
  BY DEF EndTask
<1> QED
  BY <1>1, <1>2, <1>3, <1>4, <1>5, <1>6, <1>7, <1>8, <1>9

(* A call of queueTask leaves what was submitted before. *)
LEMMA CallFacts ==
  ASSUME LockInv, NEW k \in Task, NEW l \in Lock \cup {NoLock}, Called(k, l)
  PROVE  /\ LocksKept /\ lockOf'[k] = l /\ k \notin submitted
         /\ caller = NoCaller /\ caller.step = "none"
         /\ \A t \in Thread : th[t].pc # "fetch"
BY DEF Called, LockFree, NoCaller, LocksKept, LockInv, Types

-----------------------------------------------------------------------------
(* No thread is idle while a task is in queue_ *)

LEMMA CallWork ==
  ASSUME LockInv, WorkInv, NEW k \in Task, NEW l \in Lock \cup {NoLock},
         \/ DropTask(k, l) \/ EnqueueLocked(k, l) \/ EnqueueIdle(k, l)
         \/ EnqueueSpawn(k, l) \/ EnqueueTest(k, l)
  PROVE  WorkInv'
<1>1. Called(k, l)
  BY DEF DropTask, EnqueueLocked, EnqueueIdle, EnqueueSpawn, EnqueueTest
<1>2. \A t \in Thread : th[t].pc # "fetch"
  BY <1>1, CallFacts
<1>3. CASE DropTask(k, l) \/ EnqueueLocked(k, l) \/ EnqueueTest(k, l)
  BY <1>1, <1>2, <1>3, CallFacts
  DEF DropTask, EnqueueLocked, EnqueueTest, WorkInv, IdleMeansNoWork, shared
<1>4. CASE EnqueueIdle(k, l)
  <2>1. idle \in Seq(Thread) /\ idle # << >> /\ queue' = queue /\ caller'.step = "end"
    BY <1>4 DEF EnqueueIdle, LockInv, Types
  <2>2. idle[Len(idle)] \in Thread /\ HandOff(idle[Len(idle)], k)
    BY <1>4, <2>1, LastAndRest DEF EnqueueIdle
  <2>3. \A t \in Thread : th'[t].pc # "fetch"
    BY <1>2, <2>2, HandOffFacts DEF LockInv, Types
  <2> QED
    BY <2>1, <2>3 DEF WorkInv, IdleMeansNoWork
<1>5. CASE EnqueueSpawn(k, l)
  <2>1. PICK x \in Thread : HandOff(x, k)
    BY <1>5 DEF EnqueueSpawn, Spawn
  <2>2. \A t \in Thread : th'[t].pc # "fetch"
    BY <1>2, <2>1, HandOffFacts DEF LockInv, Types
  <2>3. queue' = queue /\ idle' = idle /\ caller'.step = "end"
    BY <1>5 DEF EnqueueSpawn, Spawn
  <2> QED
    BY <2>2, <2>3 DEF WorkInv, IdleMeansNoWork
<1> QED
  BY <1>3, <1>4, <1>5

LEMMA EndCallWork ==
  ASSUME LockInv, WorkInv, EnqueueReread \/ QueueTaskEnd
  PROVE  WorkInv'
<1>1. caller.step \in {"reread", "end"} /\ caller.task \in Task
  BY DEF EnqueueReread, QueueTaskEnd, LockInv, ListInv, Types
<1>2. \A t \in Thread : th[t].pc # "fetch"
  BY <1>1 DEF WorkInv, NoCaller
<1>3. CASE QueueTaskEnd
  BY <1>2, <1>3 DEF QueueTaskEnd, WorkInv, IdleMeansNoWork, NoCaller, shared
<1>4. CASE EnqueueReread
  <2>1. idle' = << >> /\ caller'.step = "end"
    BY <1>4 DEF EnqueueReread, Spawn, WorkInv
  <2>2. \A t \in Thread : th'[t].pc # "fetch"
    <3>1. th' = th \/ \E x \in Thread : HandOff(x, caller.task)
      BY <1>4 DEF EnqueueReread, Spawn
    <3> QED
      BY <1>1, <1>2, <3>1, HandOffFacts DEF LockInv, Types
  <2> QED
    BY <2>1, <2>2 DEF WorkInv, IdleMeansNoWork
<1> QED
  BY <1>3, <1>4

LEMMA ThreadWork ==
  ASSUME LockInv, WorkInv, NEW t \in Thread, ThreadStep(t)
  PROVE  WorkInv'
<1> USE DEF LockInv
<1>1. CASE Wake(t) \/ Deregister(t) \/ TakeLocked(t) \/ StartTask(t)
           \/ \E s \in {"FINISHED", "EXCEPTION"} : EndTask(t, s)
  <2>1. th'[t].pc # "fetch" /\ \A u \in Thread \ {t} : th'[u] = th[u]
    BY <1>1, MoveFacts DEF Moves
  <2>2. UNCHANGED <<idle, queue, caller>>
    BY <1>1 DEF Wake, Deregister, TakeLocked, StartTask, EndTask, shared
  <2> QED
    BY <2>1, <2>2 DEF WorkInv, IdleMeansNoWork
<1>2. CASE Fetch(t)
  <2>1. \A u \in Thread \ {t} : th'[u] = th[u]
    BY <1>2, MoveFacts DEF Moves
  <2>2. UNCHANGED <<idle, queue, caller>> /\ caller = NoCaller
    BY <1>2 DEF Fetch, Looping, LockFree, shared
  <2> QED
    BY <2>1, <2>2 DEF WorkInv, IdleMeansNoWork, NoCaller
<1>3. CASE ThreadDies(t) \/ BecomeIdle(t) \/ TakeQueued(t)
  <2>1. th'[t].pc # "fetch" /\ \A u \in Thread \ {t} : th'[u] = th[u]
    BY <1>3, MoveFacts DEF Moves
  <2>2. caller' = caller /\ caller.step = "none" /\ th[t].pc = "fetch"
    BY <1>3 DEF ThreadDies, BecomeIdle, TakeQueued, WorkInv, NoCaller
  <2>3. IdleMeansNoWork'
    <3>1. CASE ThreadDies(t)
      BY <3>1 DEF ThreadDies, WorkInv, IdleMeansNoWork
    <3>2. CASE BecomeIdle(t)
      BY <3>2 DEF BecomeIdle, IdleMeansNoWork
    <3>3. CASE TakeQueued(t)
      BY <3>3 DEF TakeQueued, WorkInv, IdleMeansNoWork
    <3> QED
      BY <1>3, <3>1, <3>2, <3>3
  <2> QED
    BY <2>1, <2>2, <2>3 DEF WorkInv
<1> QED
  BY <1>1, <1>2, <1>3 DEF ThreadStep

LEMMA NextWork ==
  ASSUME LockInv, WorkInv, [Next]_vars
  PROVE  WorkInv'
<1>1. CASE (\E n \in Limits : Resize(n)) \/ UNCHANGED vars
  BY <1>1 DEF Resize, vars, shared, WorkInv, IdleMeansNoWork
<1> QED
  BY <1>1, CallWork, EndCallWork, ThreadWork DEF Next, QueueTask, Done

LEMMA SpecWorkInv == Spec => []WorkInv
<1>1. Init => WorkInv
  BY DEF Init, WorkInv, IdleMeansNoWork, NoCaller
<1>2. LockInv /\ WorkInv /\ [Next]_vars => WorkInv'
  BY NextWork
<1> QED
  BY SpecLockInv, <1>1, <1>2, PTL DEF Spec

(* No thread of the pool sleeps while a task is in queue_.                  *)
THEOREM SpecIdleMeansNoWork == Spec => []IdleMeansNoWork
<1>1. WorkInv => IdleMeansNoWork
  BY DEF WorkInv
<1> QED
  BY SpecWorkInv, <1>1, PTL

-----------------------------------------------------------------------------
(* The tasks that wait for a lock have a handler *)

(* Handler, by the predicates of the invariant. *)
LEMMA HandlerFacts ==
  ASSUME NEW l \in Lock
  PROVE  Handler(l) <=> \/ \E t \in Thread : Holding(t, l)
                        \/ \E i \in 1..Len(queue) : InQueue(i, l)
BY DEF Handler, Holding, InQueue

(* What is to be handled. *)
Wanted(l) ==
  registered[l] \/ waiting[l] # << >> \/ (caller.step = "end" /\ lockOf[caller.task] = l)

(* Steps that lose no handler, and want none but where there is one. *)
LEMMA HandledKept ==
  ASSUME HandledInv,
         \A t \in Thread : th'[t].taskLock # NoLock /\ th'[t].currentTask # NoTask
                           => lockOf'[th'[t].currentTask] = th'[t].taskLock,
         \A l \in Lock : Wanted(l)' => Wanted(l) \/ Handler(l)',
         \A l \in Lock : Handler(l) /\ Wanted(l)' => Handler(l)'
  PROVE  HandledInv'
BY DEF HandledInv, Wanted

(* A holder of a lock holds it after a step that moves no thread. *)
LEMMA HoldersKept ==
  ASSUME LockInv, LocksKept, th' = th, NEW l \in Lock
  PROVE  \A t \in Thread : Holding(t, l) <=> Holding(t, l)'
BY DEF LockInv, ThreadInv, LocksKept, Holding

LEMMA CallHandled ==
  ASSUME LockInv, HandledInv, NEW k \in Task, NEW l \in Lock \cup {NoLock},
         DropTask(k, l) \/ EnqueueLocked(k, l) \/ EnqueueTest(k, l)
  PROVE  HandledInv'
<1>1. Called(k, l) /\ th' = th /\ queue' = queue /\ registered' = registered
  BY DEF DropTask, EnqueueLocked, EnqueueTest, shared, locks
<1>2. LocksKept /\ lockOf'[k] = l /\ caller = NoCaller /\ caller.step = "none"
  BY <1>1, CallFacts
<1>3. \A m \in Lock : Handler(m) => Handler(m)'
  <2>1. QueueKept
    BY <1>1, <1>2, QueueKeptBy
  <2>2. \A m \in Lock, t \in Thread : Holding(t, m) => Holding(t, m)'
    BY <1>1, <1>2, HoldersKept
  <2>3. \A m \in Lock, i \in 1..Len(queue) : InQueue(i, m) => InQueue(i, m)'
    BY <2>1 DEF QueueKept
  <2>4. Len(queue') = Len(queue)
    BY <1>1
  <2>5. \A m \in Lock : (\E t \in Thread : Holding(t, m)') \/ (\E i \in 1..Len(queue') : InQueue(i, m)')
                        => Handler(m)'
    BY <1>1 DEF Handler, Holding, InQueue
  <2> QED
    BY <2>2, <2>3, <2>4, <2>5, HandlerFacts
<1>4. \A t \in Thread : th'[t].taskLock # NoLock /\ th'[t].currentTask # NoTask
                        => lockOf'[th'[t].currentTask] = th'[t].taskLock
  BY <1>1, <1>2 DEF HandledInv, LocksKept, LockInv, ThreadInv
<1>5. ASSUME NEW m \in Lock, Wanted(m)' PROVE Wanted(m)
  <2>1. CASE DropTask(k, l)
    BY <1>2, <1>5, <2>1 DEF DropTask, Wanted, locks
  <2>2. CASE EnqueueLocked(k, l)
    <3>1. /\ l \in Lock /\ registered[l] /\ caller' = [task |-> k, step |-> "end"]
          /\ \A n \in Lock \ {l} : waiting'[n] = waiting[n]
      BY <2>2 DEF EnqueueLocked, LockInv, Types
    <3> QED
      BY <1>1, <1>2, <1>5, <3>1 DEF Wanted
  <2>3. CASE EnqueueTest(k, l)
    BY <1>2, <1>5, <2>3 DEF EnqueueTest, Wanted, locks
  <2> QED
    BY <2>1, <2>2, <2>3
<1> QED
  BY <1>3, <1>4, <1>5, HandledKept

(* A call gives its task to a thread that holds no lock. *)
LEMMA GiveHandled ==
  ASSUME NEW k \in Task, NEW x \in Thread, LockInv, HandledInv, HandOff(x, k),
         th[x].pc \in {"unborn", "waiting"}, th[x].currentTask = NoTask,
         LocksKept, lockOf'[k] \in Lock \cup {NoLock}, queue' = queue, waiting' = waiting,
         registered' = registered, caller' = [task |-> k, step |-> "end"]
  PROVE  HandledInv'
<1>1. /\ \A u \in Thread \ {x} : th'[u] = th[u]
      /\ th'[x].currentTask = k /\ th'[x].taskLock = NoLock /\ th[x].taskLock = NoLock
  BY HandOffFacts DEF LockInv, Types, ThreadInv
<1>2. \A t \in Thread : th'[t].taskLock # NoLock /\ th'[t].currentTask # NoTask
                        => lockOf'[th'[t].currentTask] = th'[t].taskLock
  BY <1>1 DEF HandledInv, LocksKept, LockInv, ThreadInv
<1>3. ASSUME NEW m \in Lock, NEW t \in Thread, Holding(t, m)
      PROVE  th'[t] = th[t] /\ Holding(t, m)'
  BY <1>1, <1>3, PoolAssumption DEF Holding, LocksKept, LockInv, ThreadInv
<1>4. \A m \in Lock : Handler(m) => Handler(m)'
  <2>1. QueueKept
    BY QueueKeptBy
  <2> QED
    BY <1>3, <2>1 DEF Handler, Holding, InQueue, QueueKept
<1>5. ASSUME NEW m \in Lock, Wanted(m)' PROVE Wanted(m) \/ Handler(m)'
  <2>1. CASE lockOf'[k] = m
    BY <1>1, <2>1, PoolAssumption DEF Handler
  <2>2. CASE lockOf'[k] # m
    BY <1>5, <2>2 DEF Wanted
  <2> QED
    BY <2>1, <2>2
<1> QED
  BY <1>2, <1>4, <1>5, HandledKept

LEMMA EnqueueHandled ==
  ASSUME LockInv, HandledInv, NEW k \in Task, NEW l \in Lock \cup {NoLock},
         EnqueueIdle(k, l) \/ EnqueueSpawn(k, l)
  PROVE  HandledInv'
<1>1. LocksKept /\ lockOf'[k] = l
  BY CallFacts DEF EnqueueIdle, EnqueueSpawn
<1>2. /\ queue' = queue /\ waiting' = waiting /\ registered' = registered
      /\ caller' = [task |-> k, step |-> "end"]
  BY DEF EnqueueIdle, EnqueueSpawn, Spawn, locks
<1>3. PICK x \in Thread : /\ HandOff(x, k) /\ th[x].pc \in {"unborn", "waiting"}
                          /\ th[x].currentTask = NoTask
  <2>1. CASE EnqueueIdle(k, l)
    <3>1. idle[Len(idle)] \in Thread /\ Len(idle) \in 1..Len(idle)
      BY <2>1, LastAndRest DEF EnqueueIdle, LockInv, Types
    <3> QED
      BY <2>1, <3>1 DEF EnqueueIdle, LockInv, IdleInv
  <2>2. CASE EnqueueSpawn(k, l)
    BY <2>2 DEF EnqueueSpawn, Spawn, LockInv, ThreadInv
  <2> QED
    BY <2>1, <2>2
<1> QED
  BY <1>1, <1>2, <1>3, GiveHandled

LEMMA EndCallHandled ==
  ASSUME LockInv, HandledInv, EnqueueReread \/ QueueTaskEnd
  PROVE  HandledInv'
<1>1. CASE QueueTaskEnd
  <2>1. /\ th' = th /\ queue' = queue /\ lockOf' = lockOf /\ waiting' = waiting
        /\ \A m \in Lock : registered'[m] = (registered[m] \/ lockOf[caller.task] = m)
        /\ caller.step = "end" /\ caller'.step = "none"
    BY <1>1 DEF QueueTaskEnd, NoCaller, shared
  <2> QED
    BY <2>1 DEF HandledInv, Handler
<1>2. CASE EnqueueReread
  <2>1. PICK k \in Task : k = caller.task
    BY <1>2 DEF EnqueueReread, LockInv, ListInv, Types
  <2>2. /\ lockOf' = lockOf /\ waiting' = waiting /\ registered' = registered /\ LocksKept
        /\ caller' = [task |-> k, step |-> "end"] /\ lockOf'[k] \in Lock \cup {NoLock}
    BY <1>2, <2>1 DEF EnqueueReread, Spawn, locks, LocksKept, LockInv, Types
  <2>3. ASSUME NEW x \in Thread, Spawn(x, k), queue' = queue
        PROVE  HandledInv'
    BY <2>2, <2>3, GiveHandled DEF Spawn, LockInv, ThreadInv
  <2>4. CASE queue' = Append(queue, k) /\ th' = th
    <3>1. /\ Len(queue) \in Nat /\ Len(queue') = Len(queue) + 1
          /\ \A i \in 1..Len(queue) : queue'[i] = queue[i] /\ i \in 1..Len(queue')
          /\ Len(queue) + 1 \in 1..Len(queue') /\ queue'[Len(queue) + 1] = k
      BY <2>4 DEF LockInv, Types
    <3>2. \A m \in Lock : Handler(m) => Handler(m)'
      BY <2>2, <2>4, <3>1 DEF Handler
    <3>3. ASSUME NEW m \in Lock, Wanted(m)' PROVE Wanted(m) \/ Handler(m)'
      BY <2>2, <3>1, <3>3 DEF Wanted, Handler
    <3>4. \A t \in Thread : th'[t].taskLock # NoLock /\ th'[t].currentTask # NoTask
                            => lockOf'[th'[t].currentTask] = th'[t].taskLock
      BY <2>2, <2>4 DEF HandledInv
    <3> QED
      BY <3>2, <3>3, <3>4, HandledKept
  <2> QED
    BY <1>2, <2>1, <2>3, <2>4 DEF EnqueueReread
<1> QED
  BY <1>1, <1>2

(* The thread's own steps: what the other threads hold does not change.     *)
LEMMA ThreadHandled ==
  ASSUME LockInv, HandledInv, NEW t \in Thread, ThreadStep(t)
  PROVE  HandledInv'
<1> USE DEF LockInv
<1>0. lockOf' = lockOf
  BY DEF ThreadStep, Wake, Deregister, TakeLocked, Fetch, ThreadDies, BecomeIdle, TakeQueued,
     StartTask, EndTask
<1>1. \A u \in Thread \ {t} : th'[u] = th[u]
  BY MoveFacts DEF Moves, ThreadStep
<1>2. CASE Wake(t) \/ Fetch(t) \/ ThreadDies(t) \/ BecomeIdle(t) \/ StartTask(t)
  <2>1. UNCHANGED <<queue, waiting, registered, caller>>
    BY <1>2 DEF Wake, Fetch, ThreadDies, BecomeIdle, StartTask, shared, locks
  <2>2. th'[t].currentTask = th[t].currentTask /\ th'[t].taskLock = th[t].taskLock
    BY <1>2, MoveFacts DEF Moves
  <2>3. \A m \in Lock : Handler(m) <=> Handler(m)'
    BY <1>0, <1>1, <2>1, <2>2 DEF Handler
  <2> QED
    BY <1>0, <1>1, <2>1, <2>2, <2>3 DEF HandledInv
<1>3. CASE EndTask(t, "FINISHED") \/ EndTask(t, "EXCEPTION")
  <2>1. UNCHANGED <<queue, waiting, registered, caller>> /\ th[t].pc = "running"
    BY <1>3 DEF EndTask, shared, locks
  <2> DEFINE k == th[t].currentTask
  <2>2. /\ th'[t].currentTask = NoTask
        /\ th'[t].taskLock = IF lockOf[k] # NoLock THEN lockOf[k] ELSE th[t].taskLock
    BY <1>3, MoveFacts DEF Moves
  <2>3. k # NoTask /\ (th[t].taskLock # NoLock => lockOf[k] = th[t].taskLock)
    BY <2>1 DEF ThreadInv, HandledInv
  <2>4. \A m \in Lock : Handler(m) => Handler(m)'
    BY <1>0, <1>1, <2>1, <2>2, <2>3, PoolAssumption DEF Handler
  <2> QED
    BY <1>0, <1>1, <2>1, <2>2, <2>4 DEF HandledInv
<1>4. CASE Deregister(t)
  <2> DEFINE l == th[t].taskLock
  <2>1. /\ UNCHANGED <<queue, waiting, caller>> /\ th[t].pc = "loop" /\ caller.step = "none"
        /\ waiting[l] = << >> /\ l \in Lock
        /\ registered' = [registered EXCEPT ![l] = FALSE]
    BY <1>4 DEF Deregister, Looping, LockFree, NoCaller, shared, Types, ThreadRecord
  <2>2. th'[t].currentTask = NoTask /\ th'[t].taskLock = NoLock /\ th[t].currentTask = NoTask
    BY <1>4, <2>1, MoveFacts DEF Moves, ThreadInv
  <2>3. /\ ~registered'[l] /\ \A m \in Lock \ {l} : registered'[m] = registered[m]
    BY <2>1 DEF Types
  <2>4. \A m \in Lock \ {l} : Handler(m) => Handler(m)'
    BY <1>0, <1>1, <2>1, <2>2 DEF Handler
  <2> QED
    BY <1>0, <1>1, <2>1, <2>2, <2>3, <2>4 DEF HandledInv
<1>5. CASE TakeLocked(t)
  <2> DEFINE l == th[t].taskLock
  <2>1. /\ UNCHANGED <<queue, registered, caller>> /\ th[t].pc = "loop"
        /\ l \in Lock /\ waiting[l] \in Seq(Task) /\ waiting[l] # << >>
        /\ waiting' = [waiting EXCEPT ![l] = Tail(waiting[l])]
    BY <1>5 DEF TakeLocked, Looping, Types, ThreadRecord
  <2>2. /\ th'[t].currentTask = Head(waiting[l]) /\ th'[t].taskLock = l
        /\ th[t].currentTask = NoTask
    BY <1>5, <2>1, MoveFacts DEF Moves, ThreadInv
  <2>3. lockOf[Head(waiting[l])] = l
    BY <2>1, FirstAndRest DEF ListInv
  <2>4. \A m \in Lock : (m = l => waiting[m] # << >>) /\ (m # l => waiting'[m] = waiting[m])
    BY <2>1 DEF Types
  <2> HIDE DEF l
  <2>5. \A m \in Lock : Handler(m) => Handler(m)'
    BY <1>0, <1>1, <2>1, <2>2, <2>3 DEF Handler, l
  <2> QED
    BY <1>0, <1>1, <2>1, <2>2, <2>3, <2>4, <2>5 DEF HandledInv
<1>6. CASE TakeQueued(t)
  <2> DEFINE k == Head(queue)
  <2>1. /\ UNCHANGED <<waiting, registered, caller>> /\ th[t].pc = "fetch"
        /\ queue' = Tail(queue) /\ queue # << >> /\ queue \in Seq(Task)
    BY <1>6 DEF TakeQueued, Types, locks
  <2>2. /\ th'[t].currentTask = k /\ th'[t].taskLock = lockOf[k]
        /\ th[t].currentTask = NoTask /\ th[t].taskLock = NoLock
    BY <1>6, <2>1, MoveFacts DEF Moves, ThreadInv
  <2>3. ASSUME NEW i \in 1..Len(queue), i # 1
        PROVE  i - 1 \in 1..Len(queue') /\ queue'[i - 1] = queue[i]
    <3>1. Len(Tail(queue)) = Len(queue) - 1 /\ Len(queue) \in Nat
      BY <2>1, FirstAndRest
    <3>2. i - 1 \in 1..Len(Tail(queue)) /\ (i - 1) + 1 = i
      BY <3>1, <2>3
    <3> QED
      BY <2>1, <3>2, FirstAndRest
  <2>4. k = queue[1]
    BY <2>1, FirstAndRest
  <2> HIDE DEF k
  <2>5. ASSUME NEW m \in Lock, Handler(m) PROVE Handler(m)'
    <3>1. CASE \E u \in Thread : Holding(u, m)
      BY <1>0, <1>1, <2>2, <3>1, PoolAssumption DEF Handler, Holding
    <3>2. CASE \E i \in 1..Len(queue) : InQueue(i, m)
      <4>1. PICK i \in 1..Len(queue) : lockOf[queue[i]] = m
        BY <3>2 DEF InQueue
      <4>2. CASE i = 1
        BY <1>0, <2>2, <2>4, <4>1, <4>2 DEF Handler
      <4>3. CASE i # 1
        BY <1>0, <2>3, <4>1, <4>3 DEF Handler
      <4> QED
        BY <4>2, <4>3
    <3> QED
      BY <2>5, <3>1, <3>2, HandlerFacts
  <2> QED
    BY <1>0, <1>1, <2>1, <2>2, <2>5 DEF HandledInv
<1> QED
  BY <1>2, <1>3, <1>4, <1>5, <1>6 DEF ThreadStep

LEMMA NextHandled ==
  ASSUME LockInv, HandledInv, [Next]_vars
  PROVE  HandledInv'
<1>1. CASE (\E n \in Limits : Resize(n)) \/ UNCHANGED vars
  BY <1>1 DEF Resize, vars, shared, locks, HandledInv, Handler
<1> QED
  BY <1>1, CallHandled, EnqueueHandled, EndCallHandled, ThreadHandled DEF Next, QueueTask, Done

LEMMA SpecHandledInv == Spec => []HandledInv
<1>1. Init => HandledInv
  BY DEF Init, HandledInv, NoCaller, NewThread
<1>2. LockInv /\ HandledInv /\ [Next]_vars => HandledInv'
  BY NextHandled
<1> QED
  BY SpecLockInv, <1>1, <1>2, PTL DEF Spec

(* A task never waits for a lock whose tasks no thread handles or will       *)
(* handle: the list of a registered lock is never abandoned.                *)
THEOREM SpecWaitingIsHandled == Spec => []WaitingIsHandled
<1>1. HandledInv => WaitingIsHandled
  BY DEF HandledInv, WaitingIsHandled
<1> QED
  BY SpecHandledInv, <1>1, PTL

-----------------------------------------------------------------------------
(* The tasks of the lists are counted *)

(* What is listed was submitted, and waits for its own lock. *)
LEMMA ListedFacts ==
  ASSUME LockInv
  PROVE  /\ Elements(queue) \cup Locked \subseteq submitted
         /\ \A l \in Lock : \A k \in Elements(waiting[l]) : lockOf[k] = l
         /\ \A l \in Lock : Elements(waiting[l]) \subseteq Locked
<1>1. queue \in Seq(Task) /\ \A l \in Lock : waiting[l] \in Seq(Task)
  BY DEF LockInv, Types
<1>2. Elements(queue) \subseteq submitted
  BY <1>1, ElementsFacts DEF LockInv, ListInv
<1>3. ASSUME NEW l \in Lock, NEW k \in Elements(waiting[l])
      PROVE  k \in submitted /\ lockOf[k] = l
  <2>1. PICK i \in 1..Len(waiting[l]) : waiting[l][i] = k
    BY <1>1, ElementsFacts
  <2> QED
    BY <2>1 DEF LockInv, ListInv
<1> QED
  BY <1>2, <1>3 DEF Locked

(* The lists are the same. *)
LEMMA SizeKept ==
  ASSUME SizeInv, queue' = queue, waiting' = waiting, nLocked' = nLocked,
         caller'.step = "reread" => caller'.task \notin Elements(queue) \cup Locked
  PROVE  SizeInv'
<1>1. Locked' = Locked
  BY DEF Locked
<1> QED
  BY <1>1 DEF SizeInv

(* What nLockedTasks_ counts. *)
LEMMA CountFacts ==
  ASSUME SizeInv
  PROVE  /\ Cardinality(Locked) \in Nat
         /\ \E n \in InitLocked : n \in Nat /\ nLocked = n + Cardinality(Locked)
BY PoolAssumption, FS_CardinalityType DEF SizeInv

(* A task joins those that wait for its lock. *)
LEMMA EnqueueLockedSize ==
  ASSUME NEW k \in Task, NEW l \in Lock, LockInv, SizeInv, EnqueueLocked(k, l)
  PROVE  SizeInv'
<1> DEFINE w == Append(waiting[l], k)
<1>1. /\ k \notin Elements(queue) \cup Locked /\ Elements(waiting[l]) \subseteq Locked
      /\ waiting[l] \in Seq(Task) /\ Lock = DOMAIN waiting
      /\ waiting' = [waiting EXCEPT ![l] = w] /\ queue' = queue
      /\ nLocked' = nLocked + 1 /\ caller'.step = "end"
  BY ListedFacts DEF EnqueueLocked, Called, LockInv, Types
<1>2. Elements(w) = Elements(waiting[l]) \cup {k} /\ Distinct(w)
  <2>1. Distinct(waiting[l])
    BY DEF SizeInv
  <2>2. k \notin Elements(waiting[l])
    BY <1>1
  <2> QED
    BY <1>1, <2>1, <2>2, AppendFacts
<1> HIDE DEF w
<1>3. \A m \in Lock : waiting'[m] = IF m = l THEN w ELSE waiting[m]
  BY <1>1
<1>4. Locked' = Locked \cup {k}
  BY <1>2, <1>3 DEF Locked
<1>5. IsFiniteSet(Locked \cup {k}) /\ Cardinality(Locked \cup {k}) = Cardinality(Locked) + 1
  BY <1>1, FS_AddElement DEF SizeInv
<1>6. \A m \in Lock : Distinct(waiting'[m])
  BY <1>2, <1>3 DEF SizeInv
<1>7. Elements(queue) \cap (Locked \cup {k}) = {}
  BY <1>1 DEF SizeInv
<1>8. \E n \in InitLocked : nLocked + 1 = n + Cardinality(Locked \cup {k})
  BY <1>5, CountFacts
<1> QED
  BY <1>1, <1>4, <1>5, <1>6, <1>7, <1>8 DEF SizeInv

(* A task joins queue_. *)
LEMMA EnqueueSize ==
  ASSUME LockInv, SizeInv, EnqueueReread, queue' # queue
  PROVE  SizeInv'
<1> DEFINE k == caller.task
<1>1. /\ queue' = Append(queue, k) /\ waiting' = waiting /\ nLocked' = nLocked
      /\ caller'.step = "end" /\ queue \in Seq(Task)
      /\ k \in Task /\ k \notin Elements(queue) \cup Locked
  BY DEF EnqueueReread, LockInv, Types, ListInv, SizeInv, locks
<1> HIDE DEF k
<1>2. Distinct(queue') /\ Elements(queue') = Elements(queue) \cup {k}
  BY <1>1, AppendFacts DEF SizeInv
<1>3. Locked' = Locked
  BY <1>1 DEF Locked
<1> QED
  BY <1>1, <1>2, <1>3 DEF SizeInv

(* A thread takes the first task that waits for its lock. *)
LEMMA TakeLockedSize ==
  ASSUME NEW t \in Thread, LockInv, SizeInv, TakeLocked(t)
  PROVE  SizeInv'
<1> DEFINE l == th[t].taskLock
           k == Head(waiting[l])
           w == Tail(waiting[l])
<1>1. /\ l \in Lock /\ waiting[l] # << >> /\ waiting[l] \in Seq(Task)
      /\ waiting' = [waiting EXCEPT ![l] = w] /\ queue' = queue
      /\ nLocked' = nLocked - 1 /\ caller' = NoCaller /\ Lock = DOMAIN waiting
  BY DEF TakeLocked, Looping, LockFree, LockInv, Types, ThreadRecord
<1>2. Elements(waiting[l]) = {k} \cup Elements(w) /\ k \notin Elements(w) /\ Distinct(w)
  BY <1>1, TailFacts DEF SizeInv
<1>3. /\ lockOf[k] = l /\ k \in Locked
      /\ \A m \in Lock : k \in Elements(waiting[m]) => m = l
  BY <1>1, <1>2, ListedFacts
<1> HIDE DEF l, k, w
<1>4. \A m \in Lock : waiting'[m] = IF m = l THEN w ELSE waiting[m]
  BY <1>1
<1>5. Locked' = Locked \ {k}
  <2>1. \A m \in Lock : Elements(waiting'[m]) = Elements(waiting[m]) \ {k}
    BY <1>2, <1>3, <1>4
  <2> QED
    BY <2>1 DEF Locked
<1>6. IsFiniteSet(Locked \ {k}) /\ Cardinality(Locked \ {k}) = Cardinality(Locked) - 1
  BY <1>3, FS_RemoveElement DEF SizeInv
<1>7. \A m \in Lock : Distinct(waiting'[m])
  BY <1>2, <1>4 DEF SizeInv
<1>8. Elements(queue) \cap (Locked \ {k}) = {}
  BY DEF SizeInv
<1>9. \E n \in InitLocked : nLocked - 1 = n + Cardinality(Locked \ {k})
  BY <1>6, CountFacts
<1> QED
  BY <1>1, <1>5, <1>6, <1>7, <1>8, <1>9 DEF SizeInv, NoCaller

(* A thread takes the first task of queue_. *)
LEMMA TakeQueuedSize ==
  ASSUME NEW t \in Thread, LockInv, SizeInv, TakeQueued(t)
  PROVE  SizeInv'
<1>1. /\ queue # << >> /\ queue \in Seq(Task) /\ queue' = Tail(queue)
      /\ waiting' = waiting /\ nLocked' = nLocked /\ caller' = caller
  BY DEF TakeQueued, LockInv, Types, locks
<1>2. Distinct(queue') /\ Elements(queue') \subseteq Elements(queue)
  BY <1>1, TailFacts DEF SizeInv
<1>3. Locked' = Locked
  BY <1>1 DEF Locked
<1> QED
  BY <1>1, <1>2, <1>3 DEF SizeInv

LEMMA CallSize ==
  ASSUME NEW k \in Task, NEW l \in Lock \cup {NoLock}, LockInv, SizeInv,
         \/ DropTask(k, l) \/ EnqueueLocked(k, l) \/ EnqueueIdle(k, l)
         \/ EnqueueSpawn(k, l) \/ EnqueueTest(k, l)
  PROVE  SizeInv'
<1>0. k \notin submitted => k \notin Elements(queue) \cup Locked
  BY ListedFacts
<1>1. CASE DropTask(k, l)
  BY <1>1, SizeKept DEF DropTask, Called, LockFree, NoCaller, shared, locks
<1>2. CASE EnqueueLocked(k, l)
  BY <1>2, EnqueueLockedSize DEF EnqueueLocked
<1>3. CASE EnqueueIdle(k, l)
  BY <1>3, SizeKept DEF EnqueueIdle, locks
<1>4. CASE EnqueueSpawn(k, l)
  BY <1>4, SizeKept DEF EnqueueSpawn, Spawn, locks
<1>5. CASE EnqueueTest(k, l)
  BY <1>0, <1>5, SizeKept DEF EnqueueTest, Called, shared, locks
<1> QED
  BY <1>1, <1>2, <1>3, <1>4, <1>5

LEMMA ThreadSize ==
  ASSUME NEW t \in Thread, LockInv, SizeInv, ThreadStep(t)
  PROVE  SizeInv'
<1>0. caller.step = "reread" => caller.task \notin Elements(queue) \cup Locked
  BY DEF SizeInv
<1>1. CASE TakeLocked(t) \/ TakeQueued(t)
  BY <1>1, TakeLockedSize, TakeQueuedSize
<1>2. CASE \/ Wake(t) \/ Deregister(t) \/ Fetch(t) \/ ThreadDies(t)
           \/ BecomeIdle(t) \/ StartTask(t)
           \/ \E s \in {"FINISHED", "EXCEPTION"} : EndTask(t, s)
  BY <1>0, <1>2, SizeKept
     DEF Wake, Deregister, Fetch, ThreadDies, BecomeIdle, StartTask, EndTask, shared, locks
<1> QED
  BY <1>1, <1>2 DEF ThreadStep

LEMMA NextSize ==
  ASSUME LockInv, SizeInv, [Next]_vars
  PROVE  SizeInv'
<1>0. caller.step = "reread" => caller.task \notin Elements(queue) \cup Locked
  BY DEF SizeInv
<1>1. CASE EnqueueReread
  <2>1. CASE queue' = queue
    BY <1>1, <2>1, SizeKept DEF EnqueueReread, Spawn, locks
  <2> QED
    BY <1>1, <2>1, EnqueueSize
<1>2. CASE QueueTaskEnd
  BY <1>2, SizeKept DEF QueueTaskEnd, NoCaller, shared
<1>3. CASE (\E n \in Limits : Resize(n)) \/ UNCHANGED vars
  BY <1>0, <1>3, SizeKept DEF Resize, vars, shared, locks
<1> QED
  BY <1>1, <1>2, <1>3, CallSize, ThreadSize DEF Next, QueueTask, Done

(* Each task is in one list only, and nLockedTasks_ follows the lists of the *)
(* locks, whatever a new pool holds in it.                                   *)
THEOREM SpecSizeInv == Spec => []SizeInv
<1>1. Init => SizeInv
  <2> SUFFICES ASSUME Init PROVE SizeInv
    OBVIOUS
  <2>1. /\ queue = << >> /\ \A l \in Lock : waiting[l] = << >>
        /\ nLocked \in InitLocked /\ nLocked \in Nat /\ caller = NoCaller
    BY PoolAssumption DEF Init
  <2>2. Elements(queue) = {} /\ Locked = {}
    BY <2>1, EmptyFacts DEF Locked
  <2>3. Distinct(queue) /\ \A l \in Lock : Distinct(waiting[l])
    BY <2>1, EmptyFacts
  <2>4. IsFiniteSet({}) /\ nLocked = nLocked + Cardinality({})
    BY <2>1, FS_EmptySet
  <2> QED
    BY <2>1, <2>2, <2>3, <2>4 DEF SizeInv, NoCaller
<1>2. LockInv /\ SizeInv /\ [Next]_vars => SizeInv'
  BY NextSize
<1> QED
  BY SpecLockInv, <1>1, <1>2, PTL DEF Spec

(* Every variable keeps its type: nLockedTasks_ does not wrap under 0, since *)
(* it is decremented only for a task it has counted.                         *)
THEOREM SpecTypeOK == Spec => []TypeOK
<1>1. LockInv /\ SizeInv => TypeOK
  BY CountFacts DEF LockInv, TypeOK
<1> QED
  BY SpecLockInv, SpecSizeInv, <1>1, PTL

(* queueSize() is the number of tasks that wait in the pool, plus what       *)
(* nLockedTasks_ held in the new pool, which the constructor does not set.   *)
LEMMA QueueSizeFacts ==
  ASSUME LockInv, SizeInv
  PROVE  /\ Cardinality({k \in Task : Listed(k)}) \in Nat
         /\ \E n \in InitLocked :
              n \in Nat /\ queueSize = Cardinality({k \in Task : Listed(k)}) + n
<1>1. queue \in Seq(Task) /\ \A l \in Lock : waiting[l] \in Seq(Task)
  BY DEF LockInv, Types
<1>2. {k \in Task : Listed(k)} = Elements(queue) \cup Locked
  <2>1. \A k : k \in Elements(queue) <=> \E i \in 1..Len(queue) : queue[i] = k
    BY <1>1, ElementsFacts
  <2>2. ASSUME NEW l \in Lock, NEW k
        PROVE  k \in Elements(waiting[l]) <=> \E i \in 1..Len(waiting[l]) : waiting[l][i] = k
    BY <1>1, ElementsFacts
  <2>3. Elements(queue) \cup Locked \subseteq Task
    BY ListedFacts DEF LockInv, Types
  <2>4. \A k : k \in Locked <=> \E l \in Lock : k \in Elements(waiting[l])
    BY DEF Locked
  <2>5. \A k : Listed(k) <=> k \in Elements(queue) \/ k \in Locked
    BY <2>1, <2>2, <2>4, ZenonT(30) DEF Listed
  <2> HIDE DEF Listed
  <2> QED
    BY <2>3, <2>5
<1>3. IsFiniteSet(Elements(queue)) /\ Cardinality(Elements(queue)) = Len(queue)
  BY <1>1, DistinctCount DEF SizeInv
<1>4. IsFiniteSet(Locked) /\ Elements(queue) \cap Locked = {}
  BY DEF SizeInv
<1>5. Cardinality(Elements(queue) \cup Locked)
        = Cardinality(Elements(queue)) + Cardinality(Locked)
           - Cardinality(Elements(queue) \cap Locked)
  BY <1>3, <1>4, FS_Union
<1>6. Cardinality(Elements(queue) \cap Locked) = 0
  BY <1>4, FS_EmptySet
<1>7. Len(queue) \in Nat
  BY <1>1
<1>8. PICK n \in InitLocked :
        n \in Nat /\ nLocked = n + Cardinality(Locked) /\ Cardinality(Locked) \in Nat
  BY CountFacts
<1>9. Cardinality(Elements(queue) \cup Locked) = Len(queue) + Cardinality(Locked)
  BY <1>3, <1>5, <1>6, <1>7, <1>8
<1>10. queueSize = Cardinality(Elements(queue) \cup Locked) + n
  BY <1>7, <1>8, <1>9 DEF queueSize
<1>11. Cardinality(Elements(queue) \cup Locked) \in Nat
  BY <1>7, <1>8, <1>9
<1> HIDE DEF Listed
<1> QED
  BY <1>2, <1>8, <1>10, <1>11

(* In a pool whose nLockedTasks_ starts at 0, as it does in static storage,  *)
(* queueSize() is the number of tasks that were accepted and that no thread  *)
(* has taken.                                                                *)
THEOREM SpecQueueSizeExact ==
  ASSUME InitLocked = {0}
  PROVE  Spec => []QueueSizeExact
<1>1. LockInv /\ SizeInv => QueueSizeExact
  BY QueueSizeFacts DEF QueueSizeExact
<1> QED
  BY SpecLockInv, SpecSizeInv, <1>1, PTL


-----------------------------------------------------------------------------
(* A task is in one place at a time *)

(* What a step puts where: PlaceInv after a step that places no task. *)
LEMMA PlaceKept ==
  ASSUME PlaceInv, submitted \subseteq submitted',
         \A t, u \in Thread :
           th'[t].currentTask = th'[u].currentTask /\ th'[t].currentTask # NoTask => t = u,
         \A t \in Thread : th'[t].currentTask \notin Elements(queue') \cup Locked',
         caller'.step = "reread" => \A t \in Thread : th'[t].currentTask # caller'.task,
         \A k \in Task : state'[k] = "DROPPED" /\ state[k] # "DROPPED" =>
           /\ k \in submitted' /\ ~Placing(k)' /\ k \notin Elements(queue') \cup Locked'
           /\ \A t \in Thread : th'[t].currentTask # k,
         \A k \in Task : state[k] = "DROPPED" =>
           /\ ~Placing(k)' /\ k \notin Elements(queue') \cup Locked'
           /\ \A t \in Thread : th'[t].currentTask # k
  PROVE  PlaceInv'
BY DEF PlaceInv

(* The threads keep their tasks, the lists what they hold. *)
LEMMA PlacesKept ==
  ASSUME LockInv, PlaceInv, submitted \subseteq submitted',
         \A t \in Thread : th'[t].currentTask = th[t].currentTask,
         Elements(queue') \cup Locked' = Elements(queue) \cup Locked,
         \A k \in Task : state'[k] = "DROPPED" => state[k] = "DROPPED",
         caller'.step = "reread" => \A t \in Thread : th[t].currentTask # caller'.task,
         \A k \in Task : Placing(k)' => Placing(k) \/ k \notin submitted
  PROVE  PlaceInv'
BY PlaceKept DEF PlaceInv

(* The task k is put into the hands of the thread x, that had none. *)
LEMMA PlaceInHand ==
  ASSUME LockInv, PlaceInv, NEW x \in Thread, NEW k \in Task, submitted \subseteq submitted',
         th'[x].currentTask = k, th[x].currentTask = NoTask,
         \A t \in Thread \ {x} : th'[t].currentTask = th[t].currentTask,
         \A t \in Thread : th[t].currentTask # k,
         Elements(queue') \cup Locked' = (Elements(queue) \cup Locked) \ {k},
         state' = state, state[k] # "DROPPED",
         caller'.step = "reread" => caller' = caller /\ caller.task # k,
         \A j \in Task : Placing(j)' => Placing(j) \/ j = k
  PROVE  PlaceInv'
<1>1. /\ \A t \in Thread \ {x} : th'[t].currentTask # k
      /\ k # NoTask
  BY PoolAssumption
<1>2. \A t, u \in Thread :
        th'[t].currentTask = th'[u].currentTask /\ th'[t].currentTask # NoTask => t = u
  BY <1>1 DEF PlaceInv
<1>3. \A t \in Thread : th'[t].currentTask \notin Elements(queue') \cup Locked'
  BY <1>1 DEF PlaceInv
<1>4. caller'.step = "reread" => \A t \in Thread : th'[t].currentTask # caller'.task
  BY <1>1 DEF PlaceInv
<1>5. \A j \in Task : state[j] = "DROPPED" =>
           /\ ~Placing(j)' /\ j \notin Elements(queue') \cup Locked'
           /\ \A t \in Thread : th'[t].currentTask # j
  BY <1>1 DEF PlaceInv
<1> QED
  BY <1>2, <1>3, <1>4, <1>5, PlaceKept

(* What is known of a task that queueTask has not been called with. *)
LEMMA NewTask ==
  ASSUME LockInv, PlaceInv, NEW k \in Task, k \notin submitted
  PROVE  /\ state[k] # "DROPPED" /\ k \notin Elements(queue) \cup Locked
         /\ \A t \in Thread : th[t].currentTask # k
BY ListedFacts, PoolAssumption DEF PlaceInv, LockInv, ThreadInv

(* A call of queueTask, up to where the task is placed or dropped. *)
LEMMA CallPlace ==
  ASSUME LockInv, PlaceInv, NEW k \in Task, NEW l \in Lock \cup {NoLock},
         \/ DropTask(k, l) \/ EnqueueLocked(k, l) \/ EnqueueIdle(k, l)
         \/ EnqueueSpawn(k, l) \/ EnqueueTest(k, l)
  PROVE  PlaceInv'
<1>1. Called(k, l)
  BY DEF DropTask, EnqueueLocked, EnqueueIdle, EnqueueSpawn, EnqueueTest
<1>2. /\ k \notin submitted /\ submitted' = submitted \cup {k}
      /\ caller = NoCaller /\ caller.step = "none"
      /\ \A t \in Thread : th[t].pc # "fetch"
  BY <1>1, CallFacts DEF Called
<1>3. /\ state[k] # "DROPPED" /\ k \notin Elements(queue) \cup Locked
      /\ \A t \in Thread : th[t].currentTask # k
  BY <1>2, NewTask
<1>4. CASE DropTask(k, l)
  <2>1. /\ UNCHANGED <<queue, waiting, th, caller>>
        /\ \A j \in Task : j # k => state'[j] = state[j]
    BY <1>4 DEF DropTask, shared, locks, LockInv, Types
  <2>2. Locked' = Locked
    BY <2>1 DEF Locked
  <2>3. \A j : ~Placing(j)'
    BY <1>2, <2>1 DEF Placing
  <2> QED
    BY <1>2, <1>3, <2>1, <2>2, <2>3 DEF PlaceInv
<1>5. CASE EnqueueLocked(k, l)
  <2>1. /\ UNCHANGED <<queue, state, th>> /\ caller' = [task |-> k, step |-> "end"]
        /\ l \in Lock /\ waiting' = [waiting EXCEPT ![l] = Append(waiting[l], k)]
        /\ waiting[l] \in Seq(Task) /\ Lock = DOMAIN waiting
    BY <1>5 DEF EnqueueLocked, LockInv, Types
  <2>2. Elements(Append(waiting[l], k)) = Elements(waiting[l]) \cup {k}
    BY <2>1, AppendFacts
  <2>3. Locked' = Locked \cup {k}
    <3>1. \A m \in Lock : waiting'[m] = IF m = l THEN Append(waiting[l], k) ELSE waiting[m]
      BY <2>1
    <3> QED
      BY <2>1, <2>2, <3>1 DEF Locked
  <2>4. \A j : Placing(j)' => j = k
    BY <2>1 DEF Placing
  <2> QED
    BY <1>2, <1>3, <2>1, <2>3, <2>4 DEF PlaceInv
<1>6. CASE EnqueueIdle(k, l) \/ EnqueueSpawn(k, l)
  <2>1. PICK x \in Thread : HandOff(x, k) /\ th[x].currentTask = NoTask
    <3>1. CASE EnqueueIdle(k, l)
      <4>1. idle \in Seq(Thread) /\ idle # << >>
        BY <3>1 DEF EnqueueIdle, LockInv, Types
      <4>2. Len(idle) \in 1..Len(idle) /\ idle[Len(idle)] \in Thread
        BY <4>1, LastAndRest
      <4> QED
        BY <3>1, <4>2 DEF EnqueueIdle, LockInv, IdleInv
    <3>2. CASE EnqueueSpawn(k, l)
      BY <3>2 DEF EnqueueSpawn, Spawn, LockInv, ThreadInv
    <3> QED
      BY <1>6, <3>1, <3>2
  <2>2. /\ UNCHANGED <<queue, state, waiting>> /\ caller' = [task |-> k, step |-> "end"]
    BY <1>6 DEF EnqueueIdle, EnqueueSpawn, Spawn, locks
  <2>3. Locked' = Locked /\ \A j : Placing(j)' => j = k
    BY <2>2 DEF Locked, Placing
  <2>4. th'[x].currentTask = k /\ \A t \in Thread \ {x} : th'[t].currentTask = th[t].currentTask
    BY <2>1, HandOffFacts DEF LockInv, Types
  <2>5. submitted \subseteq submitted' /\ caller'.step # "reread"
    BY <1>2, <2>2
  <2>6. Elements(queue') \cup Locked' = (Elements(queue) \cup Locked) \ {k}
    BY <1>3, <2>2, <2>3
  <2> QED
    BY <1>3, <2>1, <2>2, <2>3, <2>4, <2>5, <2>6, PlaceInHand
<1>7. CASE EnqueueTest(k, l)
  <2>1. /\ UNCHANGED <<queue, state, waiting, th>> /\ caller' = [task |-> k, step |-> "reread"]
    BY <1>7 DEF EnqueueTest, locks, shared
  <2>2. Locked' = Locked /\ \A j : Placing(j)' => j = k
    BY <2>1 DEF Locked, Placing
  <2> QED
    BY <1>2, <1>3, <2>1, <2>2, PlacesKept
<1> QED
  BY <1>4, <1>5, <1>6, <1>7

(* The second test on maxThreads_, then the task is placed. *)
LEMMA EnqueuePlace ==
  ASSUME LockInv, SizeInv, PlaceInv, EnqueueReread
  PROVE  PlaceInv'
<1> DEFINE k == caller.task
<1>1. /\ caller.step = "reread" /\ k \in Task /\ k \in submitted
      /\ caller' = [task |-> k, step |-> "end"]
      /\ UNCHANGED <<state, submitted, waiting>>
      /\ \A t \in Thread : th[t].currentTask # k
      /\ k \notin Elements(queue) \cup Locked
      /\ Placing(k)
  BY DEF EnqueueReread, Spawn, locks, LockInv, ListInv, Types, SizeInv, PlaceInv, Placing
<1>2. /\ state[k] # "DROPPED" /\ Locked' = Locked /\ caller'.step # "reread"
      /\ \A j : Placing(j)' => j = k
  BY <1>1 DEF PlaceInv, Locked, Placing
<1>3. CASE \E t \in Thread : Spawn(t, k) /\ queue' = queue
  <2>1. PICK x \in Thread : Spawn(x, k) /\ queue' = queue
    BY <1>3
  <2>2. th[x].currentTask = NoTask /\ HandOff(x, k)
    BY <2>1 DEF Spawn, LockInv, ThreadInv
  <2>3. th'[x].currentTask = k /\ \A t \in Thread \ {x} : th'[t].currentTask = th[t].currentTask
    BY <1>1, <2>2, HandOffFacts DEF LockInv, Types
  <2>4. Elements(queue') \cup Locked' = (Elements(queue) \cup Locked) \ {k}
    BY <1>1, <1>2, <2>1
  <2>5. submitted \subseteq submitted'
    BY <1>1
  <2> HIDE DEF k
  <2> QED
    BY <1>1, <1>2, <2>2, <2>3, <2>4, <2>5, PlaceInHand
<1>4. CASE queue' = Append(queue, k) /\ th' = th
  <2>1. Elements(queue') = Elements(queue) \cup {k}
    BY <1>1, <1>4, AppendFacts DEF LockInv, Types
  <2> HIDE DEF k
  <2> QED
    BY <1>1, <1>2, <1>4, <2>1 DEF PlaceInv
<1> QED
  BY <1>3, <1>4 DEF EnqueueReread

(* A call of queueTask ends. *)
LEMMA EndCallPlace ==
  ASSUME LockInv, PlaceInv, QueueTaskEnd
  PROVE  PlaceInv'
<1>1. /\ UNCHANGED <<queue, waiting, th, submitted>> /\ caller' = NoCaller
      /\ \A k \in Task : state'[k] = "DROPPED" => state[k] = "DROPPED"
  BY DEF QueueTaskEnd, shared, LockInv, Types
<1>2. Locked' = Locked /\ \A k : ~Placing(k)'
  BY <1>1 DEF Locked, Placing, NoCaller
<1> QED
  BY <1>1, <1>2, PlacesKept DEF NoCaller

(* Steps of a thread that keeps its task, or that ends it. *)
LEMMA ThreadPlaceKept ==
  ASSUME LockInv, PlaceInv, NEW t \in Thread,
         \/ Wake(t) \/ Deregister(t) \/ Fetch(t) \/ ThreadDies(t) \/ BecomeIdle(t)
         \/ StartTask(t) \/ \E s \in {"FINISHED", "EXCEPTION"} : EndTask(t, s)
  PROVE  PlaceInv'
<1>1. /\ UNCHANGED <<queue, waiting, caller, submitted>>
      /\ \A k \in Task : state'[k] = "DROPPED" => state[k] = "DROPPED"
  BY DEF Wake, Deregister, Fetch, ThreadDies, BecomeIdle, StartTask, EndTask, shared, locks,
         LockInv, Types
<1>2. Locked' = Locked /\ \A k : Placing(k)' <=> Placing(k)
  BY <1>1 DEF Locked, Placing
<1>3. /\ th'[t].currentTask \in {th[t].currentTask, NoTask}
      /\ \A u \in Thread \ {t} : th'[u].currentTask = th[u].currentTask
  BY MoveFacts DEF Moves, LockInv
<1>4. NoTask \notin Elements(queue) \cup Locked /\ NoTask \notin Task
  BY ListedFacts, PoolAssumption DEF LockInv, Types
<1>5. caller.step = "reread" => caller.task \in Task
  BY DEF LockInv, ListInv, Types
<1> QED
  BY <1>1, <1>2, <1>3, <1>4, <1>5 DEF PlaceInv

(* Steps of a thread that takes a task from a list. *)
LEMMA TakePlace ==
  ASSUME LockInv, SizeInv, PlaceInv, NEW t \in Thread, TakeLocked(t) \/ TakeQueued(t)
  PROVE  PlaceInv'
<1> DEFINE k == th'[t].currentTask
<1>1. /\ UNCHANGED <<state, submitted, caller>>
      /\ th[t].currentTask = NoTask
      /\ \A u \in Thread \ {t} : th'[u].currentTask = th[u].currentTask
  <2>1. th[t].pc \in {"loop", "fetch"}
    BY DEF TakeLocked, TakeQueued, Looping
  <2>2. th[t].currentTask = NoTask
    BY <2>1 DEF LockInv, ThreadInv
  <2> QED
    BY <2>2, MoveFacts DEF TakeLocked, TakeQueued, Moves, LockInv
<1>2. /\ k \in Elements(queue) \cup Locked /\ k \in Task
      /\ Elements(queue') \cup Locked' = (Elements(queue) \cup Locked) \ {k}
  <2>1. CASE TakeLocked(t)
    <3> DEFINE l == th[t].taskLock
               w == Tail(waiting[l])
    <3>1. /\ l \in Lock /\ waiting[l] # << >> /\ waiting[l] \in Seq(Task)
          /\ waiting' = [waiting EXCEPT ![l] = w] /\ queue' = queue
          /\ Lock = DOMAIN waiting /\ k = Head(waiting[l])
      BY <2>1, MoveFacts DEF TakeLocked, Looping, LockFree, LockInv, Types, ThreadRecord, Moves
    <3>2. /\ Elements(waiting[l]) = {k} \cup Elements(w) /\ k \notin Elements(w)
          /\ k \in Task
      BY <3>1, TailFacts DEF SizeInv
    <3>3. /\ k \in Locked /\ \A m \in Lock : k \in Elements(waiting[m]) => m = l
      BY <3>1, <3>2, ListedFacts
    <3> HIDE DEF l, w, k
    <3>4. \A m \in Lock : waiting'[m] = IF m = l THEN w ELSE waiting[m]
      BY <3>1
    <3>5. \A m \in Lock : Elements(waiting'[m]) = Elements(waiting[m]) \ {k}
      BY <3>2, <3>3, <3>4
    <3>6. Locked' = Locked \ {k}
      BY <3>5 DEF Locked
    <3>7. k \notin Elements(queue)
      BY <3>3 DEF SizeInv
    <3> QED
      BY <3>1, <3>2, <3>3, <3>6, <3>7
  <2>2. CASE TakeQueued(t)
    <3>1. /\ queue # << >> /\ queue \in Seq(Task) /\ queue' = Tail(queue)
          /\ waiting' = waiting /\ k = Head(queue)
      BY <2>2, MoveFacts DEF TakeQueued, LockInv, Types, locks, Moves
    <3>2. /\ Elements(queue) = {k} \cup Elements(queue') /\ k \notin Elements(queue')
          /\ k \in Task
      BY <3>1, TailFacts DEF SizeInv
    <3> HIDE DEF k
    <3>3. Locked' = Locked /\ k \notin Locked
      BY <3>1, <3>2 DEF Locked, SizeInv
    <3> QED
      BY <3>2, <3>3
  <2> QED
    BY <2>1, <2>2
<1>3. state[k] # "DROPPED" /\ \A u \in Thread : th[u].currentTask # k
  BY <1>2 DEF PlaceInv
<1>4. caller.step = "reread" => caller.task # k
  BY <1>2 DEF SizeInv
<1>5. \A j : Placing(j)' <=> Placing(j)
  BY <1>1 DEF Placing
<1>6. submitted \subseteq submitted'
  BY <1>1
<1> HIDE DEF k
<1>7. th'[t].currentTask = k
  BY DEF k
<1> QED
  BY <1>1, <1>2, <1>3, <1>4, <1>5, <1>6, <1>7, PlaceInHand

(* Every step keeps PlaceInv. *)
LEMMA NextPlace ==
  ASSUME LockInv, SizeInv, PlaceInv, [Next]_vars
  PROVE  PlaceInv'
<1>1. CASE (\E n \in Limits : Resize(n)) \/ UNCHANGED vars
  <2>1. UNCHANGED <<queue, waiting, th, submitted, state, caller>>
    BY <1>1 DEF Resize, vars, shared, locks
  <2>2. Locked' = Locked /\ \A k : Placing(k)' <=> Placing(k)
    BY <2>1 DEF Locked, Placing
  <2> QED
    BY <2>1, <2>2 DEF PlaceInv
<1>2. CASE QueueTask
  BY <1>2, CallPlace, EnqueuePlace, EndCallPlace DEF QueueTask
<1>3. ASSUME NEW t \in Thread, ThreadStep(t) PROVE PlaceInv'
  BY <1>3, ThreadPlaceKept, TakePlace DEF ThreadStep
<1> QED
  BY <1>1, <1>2, <1>3 DEF Next, Done

(* A task that was placed is in one list, once, or in the hands of one       *)
(* thread; one that was dropped is in none of them, and stays DROPPED.       *)
THEOREM SpecPlaceInv == Spec => []PlaceInv
<1>1. Init => PlaceInv
  <2> SUFFICES ASSUME Init PROVE PlaceInv
    OBVIOUS
  <2>1. /\ queue = << >> /\ \A l \in Lock : waiting[l] = << >>
        /\ caller.step = "none" /\ \A t \in Thread : th[t].currentTask = NoTask
        /\ \A k \in Task : state[k] = "none"
    BY DEF Init, NewThread, NoCaller
  <2>2. Elements(queue) = {} /\ Locked = {}
    BY <2>1, EmptyFacts DEF Locked
  <2> QED
    BY <2>1, <2>2 DEF PlaceInv
<1> QED
  BY SpecLockInv, SpecSizeInv, <1>1, NextPlace, PTL DEF Spec

-----------------------------------------------------------------------------
(* The pool implements TaskQueue *)

(* The tasks that are the next of their lock, or have none. *)
Heads == Elements(queue) \cup {k \in Task : \E t \in Thread : InHand(t, k)}
Serial(l) == SeqExt!SetToSeq(First(l)) \o waiting[l]
Executing == {k \in Task : Running(k)}
Dropped == {k \in Task : state[k] = "DROPPED"}

(* The tasks that are next, by lock. *)
LEMMA FirstFacts ==
  ASSUME LockInv
  PROVE  /\ Heads \subseteq submitted /\ submitted \subseteq Task
         /\ \A l : First(l) = {k \in Heads : lockOf[k] = l}
<1>1. queue \in Seq(Task) /\ submitted \subseteq Task
  BY DEF LockInv, Types
<1>2. \A k : k \in Elements(queue) <=> \E i \in 1..Len(queue) : queue[i] = k
  BY <1>1, ElementsFacts
<1>3. Heads \subseteq submitted
  BY ListedFacts, PoolAssumption DEF Heads, InHand, LockInv, ThreadInv
<1> QED
  BY <1>1, <1>2, <1>3 DEF First, Heads

(* A lock has one task at most that is running or next, and none when no     *)
(* thread handles it.                                                        *)
LEMMA OneHead ==
  ASSUME LockInv, NEW l \in Lock
  PROVE  /\ \A j, k \in First(l) : j = k
         /\ \A j, k \in Executing : lockOf[j] = l /\ lockOf[k] = l => j = k
         /\ \A j \in First(l), k \in Executing : lockOf[k] # l
         /\ ~Handler(l) => First(l) = {} /\ \A k \in Executing : lockOf[k] # l
<1> USE PoolAssumption
<1>1. queue \in Seq(Task)
  BY DEF LockInv, Types
<1>2. ASSUME NEW k \in First(l)
      PROVE  \/ \E i \in 1..Len(queue) : queue[i] = k /\ InQueue(i, l)
             \/ \E t \in Thread : /\ Holding(t, l) /\ th[t].currentTask = k
                                  /\ th[t].pc # "running"
  BY <1>2 DEF First, InHand, Holding, InQueue
<1>3. ASSUME NEW k \in Executing, lockOf[k] = l
      PROVE  \E t \in Thread : /\ Holding(t, l) /\ th[t].currentTask = k
                               /\ th[t].pc = "running"
  BY <1>3 DEF Executing, Running, Holding
<1>4. /\ \A t, u \in Thread : Holding(t, l) /\ Holding(u, l) => t = u
      /\ \A i, j \in 1..Len(queue) : InQueue(i, l) /\ InQueue(j, l) => i = j
      /\ \A i \in 1..Len(queue), t \in Thread : ~(InQueue(i, l) /\ Holding(t, l))
  BY DEF LockInv, HolderInv
<1>5. \A j, k \in First(l) : j = k
  BY <1>2, <1>4
<1>6. \A j, k \in Executing : lockOf[j] = l /\ lockOf[k] = l => j = k
  BY <1>3, <1>4
<1>7. \A j \in First(l), k \in Executing : lockOf[k] # l
  BY <1>2, <1>3, <1>4
<1>8. ~Handler(l) => First(l) = {} /\ \A k \in Executing : lockOf[k] # l
  BY <1>2, <1>3, HandlerFacts
<1> QED
  BY <1>5, <1>6, <1>7, <1>8

(* What TaskQueue sees of a step that changes nothing of it. *)
LEMMA StutterStep ==
  ASSUME Placed' = Placed, \A k \in Placed : lockOf'[k] = lockOf[k],
         \A l \in Lock : Serial(l)' = Serial(l), First(NoLock)' = First(NoLock),
         Executing' = Executing, Dropped' = Dropped
  PROVE  UNCHANGED TQ!tqVars
BY Zenon DEF TQ!tqVars, Serial, Executing, Dropped

(* The lock of each task, as TaskQueue sees it. *)
PlacedLock == [k \in Task |-> IF k \in Placed THEN lockOf[k] ELSE NoLock]

(* What is running or next was placed. *)
LEMMA PlacedFacts ==
  ASSUME LockInv, SizeInv, PlaceInv
  PROVE  /\ Executing \subseteq Placed /\ Heads \subseteq Placed /\ Placed \subseteq submitted
         /\ submitted \subseteq Task
         /\ caller.step # "reread" => Placed = submitted
         /\ caller.step = "reread" => Placed = submitted \ {caller.task}
<1>1. Executing \subseteq submitted
  BY DEF Executing, Running, LockInv, ThreadInv
<1>2. Heads \subseteq submitted /\ submitted \subseteq Task
  BY FirstFacts DEF LockInv, Types
<1>3. caller.step = "reread" => caller.task \notin Executing \cup Heads
  BY DEF PlaceInv, Executing, Running, Heads, SizeInv, InHand
<1> QED
  BY <1>1, <1>2, <1>3 DEF Placed

(* The cardinal that TaskQueue uses. *)
LEMMA QueueCardinality == \A S : TQ!Cardinality(S) = Cardinality(S)
BY DEF TQ!Cardinality, Cardinality

(* What a lock has waiting, running and next: one task more, at most, than   *)
(* its list.                                                                 *)
LEMMA LoadFacts ==
  ASSUME LockInv, SizeInv, PlaceInv, NEW l \in Lock
  PROVE  /\ Serial(l) \in Seq(Task)
         /\ TQ!Load(l) \in Nat /\ Len(waiting[l]) \in Nat
         /\ TQ!Load(l) >= Len(waiting[l]) /\ TQ!Load(l) <= Len(waiting[l]) + 1
         /\ ~Handler(l) /\ waiting[l] = << >> => Serial(l) = << >> /\ TQ!Load(l) = 0
<1> DEFINE F == First(l)
           E == {k \in Executing : PlacedLock[k] = l}
           n == Len(waiting[l])
<1>1. E = {k \in Executing : lockOf[k] = l} /\ waiting[l] \in Seq(Task) /\ F \subseteq Task
  BY PlacedFacts, FirstFacts DEF PlacedLock, LockInv, Types
<1>2. /\ \A j, k \in F : j = k
      /\ \A j, k \in E : j = k
      /\ F = {} \/ E = {}
      /\ ~Handler(l) => F = {} /\ E = {}
  BY <1>1, OneHead
<1>3. TQ!Load(l) = Len(Serial(l)) + Cardinality(E)
  <2>1. TQ!Load(l) = Len(Serial(l)) + TQ!Cardinality(E)
    BY Zenon DEF TQ!Load, Serial, Executing, PlacedLock
  <2> QED
    BY <2>1, QueueCardinality
<1> HIDE DEF F, E
<1>4. (F = {} \/ \E k \in Task : F = {k}) /\ (E = {} \/ \E k : E = {k})
  BY <1>1, <1>2
<1>5. /\ E = {} => Cardinality(E) = 0
      /\ E # {} => Cardinality(E) = 1
  BY <1>4, FS_EmptySet, FS_Singleton
<1>6. /\ F = {} => SeqExt!SetToSeq(F) = << >>
      /\ F # {} => \E k \in Task : SeqExt!SetToSeq(F) = <<k>>
  BY <1>4, SmallSetToSeq
<1>7. Serial(l) = SeqExt!SetToSeq(F) \o waiting[l] /\ n \in Nat
  BY <1>1 DEF Serial, F
<1>8. /\ Serial(l) \in Seq(Task)
      /\ F = {} => Serial(l) = waiting[l]
      /\ F # {} => Len(Serial(l)) = n + 1
  <2>1. F = {} => Serial(l) = waiting[l]
    BY <1>1, <1>6, <1>7
  <2>2. ASSUME NEW k \in Task
        PROVE  <<k>> \in Seq(Task) /\ <<k>> \o waiting[l] \in Seq(Task)
               /\ Len(<<k>> \o waiting[l]) = n + 1
    BY <1>1, ConcatProperties
  <2> QED
    BY <1>1, <1>6, <1>7, <2>1, <2>2
<1> HIDE DEF n
<1>9. Len(Serial(l)) \in Nat /\ (F = {} => Len(Serial(l)) = n)
  BY <1>7, <1>8 DEF n
<1>10. /\ TQ!Load(l) \in Nat /\ TQ!Load(l) >= n /\ TQ!Load(l) <= n + 1
       /\ E = {} => TQ!Load(l) = Len(Serial(l))
  <2>1. CASE F = {}
    BY <1>3, <1>5, <1>7, <1>9, <2>1
  <2>2. CASE F # {}
    BY <1>2, <1>3, <1>5, <1>7, <1>8, <1>9, <2>2
  <2> QED
    BY <2>1, <2>2
<1>11. ~Handler(l) /\ waiting[l] = << >> => Serial(l) = << >> /\ TQ!Load(l) = 0
  BY <1>2, <1>8, <1>10, EmptyFacts
<1> QED
  BY <1>7, <1>8, <1>10, <1>11 DEF n

(* A task is placed: what TaskQueue knows of it. *)
Submits(k, l) ==
  /\ k \notin Placed /\ Placed' = Placed \cup {k}
  /\ lockOf'[k] = l /\ \A j \in Placed : lockOf'[j] = lockOf[j]
  /\ Executing' = Executing

(* The task is new to TaskQueue. *)
LEMMA SubmitStep ==
  ASSUME NEW k \in Task, NEW l \in Lock \cup {NoLock}, Submits(k, l)
  PROVE  TQ!Submit(k, l)
<1>1. PlacedLock' = [PlacedLock EXCEPT ![k] = l]
  BY DEF Submits, PlacedLock
<1> QED
  BY <1>1, Zenon DEF Submits, TQ!Submit, PlacedLock, Executing

(* The task is accepted: it is last of its lock, or free if it has none. *)
LEMMA AcceptStep ==
  ASSUME NEW k \in Task, NEW l \in Lock \cup {NoLock}, Submits(k, l), Dropped' = Dropped,
         IF l = NoLock
         THEN /\ First(NoLock)' = First(NoLock) \cup {k}
              /\ \A m \in Lock : Serial(m)' = Serial(m)
         ELSE /\ MaxSize[l] # 0 => TQ!Load(l) < MaxSize[l]
              /\ Serial(l)' = Append(Serial(l), k)
              /\ \A m \in Lock \ {l} : Serial(m)' = Serial(m)
              /\ First(NoLock)' = First(NoLock)
  PROVE  TQ!Accept(k, l)
<1> DEFINE S == [m \in Lock |-> Serial(m)]
<1>1. TQ!Submit(k, l)
  BY SubmitStep
<1>2. IF l = NoLock
      THEN First(NoLock)' = First(NoLock) \cup {k} /\ S' = S
      ELSE /\ MaxSize[l] # 0 => TQ!Load(l) < MaxSize[l]
           /\ S' = [S EXCEPT ![l] = Append(S[l], k)]
           /\ First(NoLock)' = First(NoLock)
  <2>1. CASE l = NoLock
    BY <2>1
  <2>2. CASE l # NoLock
    <3>1. S' = [S EXCEPT ![l] = Append(S[l], k)]
      BY <2>2
    <3> QED
      BY <2>2, <3>1
  <2> QED
    BY <2>1, <2>2
<1> QED
  BY <1>1, <1>2, Zenon DEF TQ!Accept, Serial, Dropped

(* The task is dropped. *)
LEMMA DropStep ==
  ASSUME NEW k \in Task, NEW l \in Lock, Submits(k, l),
         MaxSize[l] # 0, TQ!Load(l) >= MaxSize[l] - 1,
         Dropped' = Dropped \cup {k},
         \A m \in Lock : Serial(m)' = Serial(m), First(NoLock)' = First(NoLock)
  PROVE  TQ!Drop(k, l)
<1>1. TQ!Submit(k, l) /\ l # NoLock
  BY SubmitStep, PoolAssumption
<1>2. [m \in Lock |-> Serial(m)]' = [m \in Lock |-> Serial(m)]
  OBVIOUS
<1> QED
  BY <1>1, <1>2, Zenon DEF TQ!Drop, Serial, Dropped

(* What a step on a task that was placed leaves alone. *)
Placements == Placed' = Placed /\ (\A j \in Placed : lockOf'[j] = lockOf[j]) /\ Dropped' = Dropped

(* The locks that TaskQueue sees are the same. *)
LEMMA PlacementsKept ==
  ASSUME Placements PROVE PlacedLock' = PlacedLock
BY DEF Placements, PlacedLock

(* A task without a lock starts. *)
LEMMA StartFreeStep ==
  ASSUME NEW k \in First(NoLock), Placements,
         First(NoLock)' = First(NoLock) \ {k},
         \A m \in Lock : Serial(m)' = Serial(m),
         Executing' = Executing \cup {k}
  PROVE  TQ!StartFree(k)
<1>1. [m \in Lock |-> Serial(m)]' = [m \in Lock |-> Serial(m)]
  OBVIOUS
<1> QED
  BY <1>1, PlacementsKept, Zenon
     DEF TQ!StartFree, Serial, Dropped, Executing, PlacedLock, Placements

(* The first task of a lock starts. *)
LEMMA StartSerialStep ==
  ASSUME NEW l \in Lock, Placements, Serial(l) # << >>,
         \A k \in Executing : PlacedLock[k] # l,
         Serial(l)' = Tail(Serial(l)), \A m \in Lock \ {l} : Serial(m)' = Serial(m),
         First(NoLock)' = First(NoLock),
         Executing' = Executing \cup {Head(Serial(l))}
  PROVE  TQ!StartSerial(l)
<1> DEFINE S == [m \in Lock |-> Serial(m)]
<1>1. S' = [S EXCEPT ![l] = Tail(S[l])] /\ S[l] = Serial(l)
  OBVIOUS
<1> HIDE DEF S
<1>2. S[l] # << >> /\ Executing' = Executing \cup {Head(S[l])}
  BY <1>1
<1> QED
  BY <1>1, <1>2, PlacementsKept, Zenon
     DEF TQ!StartSerial, S, Serial, Dropped, Executing, PlacedLock, Placements

(* A task ends. *)
LEMMA CompleteStep ==
  ASSUME NEW k \in Executing, Placements, First(NoLock)' = First(NoLock),
         \A m \in Lock : Serial(m)' = Serial(m),
         Executing' = Executing \ {k}
  PROVE  TQ!Complete(k)
<1>1. [m \in Lock |-> Serial(m)]' = [m \in Lock |-> Serial(m)]
  OBVIOUS
<1> QED
  BY <1>1, PlacementsKept, Zenon
     DEF TQ!Complete, Serial, Dropped, Executing, PlacedLock, Placements

(* The next tasks of the locks after a step, from all that are next. *)
LEMMA FirstAfter ==
  ASSUME LockInv, queue' \in Seq(Task), \A j \in Heads : lockOf'[j] = lockOf[j]
  PROVE  /\ Heads' = Heads => \A m : First(m)' = First(m)
         /\ \A k \in Heads : Heads' = Heads \ {k} => \A m : First(m)' = First(m) \ {k}
         /\ \A k \in Task \ Heads : Heads' = Heads \cup {k} =>
              \A m : First(m)' = IF lockOf'[k] = m THEN First(m) \cup {k} ELSE First(m)
<1>1. \A k : k \in Elements(queue)' <=> \E i \in 1..Len(queue') : queue'[i] = k
  BY ElementsFacts
<1>2. queue' \in Seq(Task) => Elements(queue)' \subseteq Task
  BY ElementsFacts
<1>3. \A m : First(m)' = {k \in Heads' : lockOf'[k] = m}
  BY <1>1, <1>2 DEF First, Heads
<1>4. \A m : First(m) = {k \in Heads : lockOf[k] = m}
  BY FirstFacts
<1> QED
  BY <1>3, <1>4

(* What TaskQueue sees of the lists is the same. *)
LEMMA SerialKept ==
  ASSUME LockInv, queue' \in Seq(Task), \A j \in Heads : lockOf'[j] = lockOf[j],
         Heads' = Heads, waiting' = waiting
  PROVE  (\A m \in Lock : Serial(m)' = Serial(m)) /\ First(NoLock)' = First(NoLock)
BY FirstAfter DEF Serial

(* A task is placed in queue_ or in the hands of a thread, when no thread    *)
(* handles the tasks of its lock.                                            *)
LEMMA PlaceStep ==
  ASSUME LockInv, HandledInv, SizeInv, PlaceInv, queue' \in Seq(Task),
         NEW k \in Task, NEW l \in Lock \cup {NoLock}, Submits(k, l), Dropped' = Dropped,
         Heads' = Heads \cup {k}, waiting' = waiting,
         Unregistered(l), caller.step # "end"
  PROVE  TQ!Accept(k, l)
<1>0. \A j \in Heads : lockOf'[j] = lockOf[j] /\ j # k
  BY PlacedFacts DEF Submits
<1>1. \A m : First(m)' = IF m = l THEN First(m) \cup {k} ELSE First(m)
  BY <1>0, FirstAfter DEF Submits
<1>2. \A m \in Lock \ {l} : Serial(m)' = Serial(m)
  BY <1>1 DEF Serial
<1>3. CASE l = NoLock
  <2>1. \A m \in Lock : m # l
    BY <1>3, PoolAssumption
  <2> QED
    BY <1>1, <1>2, <1>3, <2>1, AcceptStep
<1>4. CASE l # NoLock
  <2>1. l \in Lock /\ ~registered[l] /\ MaxSize[l] \in Nat
    BY <1>4, PoolAssumption DEF Unregistered
  <2>2. ~Handler(l)
    BY <2>1, HandlerFacts DEF LockInv, HolderInv
  <2>3. waiting[l] = << >>
    BY <2>1, <2>2 DEF HandledInv
  <2>4. First(l) = {} /\ Serial(l) = << >> /\ TQ!Load(l) = 0
    BY <2>1, <2>2, <2>3, OneHead, LoadFacts
  <2>5. Serial(l)' = <<k>> \o << >>
    <3>1. First(l)' = {k}
      BY <1>1, <2>4
    <3> QED
      BY <2>3, <3>1, SmallSetToSeq DEF Serial
  <2>6. <<k>> \o << >> = Append(<< >>, k)
    OBVIOUS
  <2>7. MaxSize[l] # 0 => TQ!Load(l) < MaxSize[l]
    BY <2>1, <2>4
  <2>8. First(NoLock)' = First(NoLock)
    BY <1>1, <1>4
  <2> QED
    BY <1>2, <1>4, <2>4, <2>5, <2>6, <2>7, <2>8, AcceptStep
<1> QED
  BY <1>3, <1>4

(* The thread x, that had no task, is handed k. *)
LEMMA HandOffView ==
  ASSUME LockInv, NEW x \in Thread, NEW k \in Task, HandOff(x, k),
         th[x].currentTask = NoTask, queue' = queue
  PROVE  Heads' = Heads \cup {k} /\ Executing' = Executing
<1>1. /\ \A u \in Thread \ {x} : th'[u] = th[u]
      /\ th'[x].pc = "waiting" /\ th'[x].currentTask = k
  BY HandOffFacts DEF LockInv, Types
<1>2. \A j \in Task : (\E t \in Thread : InHand(t, j)') <=> j = k \/ \E t \in Thread : InHand(t, j)
  BY <1>1, PoolAssumption DEF InHand
<1>3. \A j \in Task : Running(j)' <=> Running(j)
  BY <1>1, PoolAssumption DEF Running
<1> QED
  BY <1>2, <1>3 DEF Heads, Executing

(* A call of queueTask that finds the lock, if any, unregistered. *)
LEMMA HandOffStep ==
  ASSUME PoolInv, NEW k \in Task, NEW l \in Lock \cup {NoLock},
         EnqueueIdle(k, l) \/ EnqueueSpawn(k, l)
  PROVE  TQ!Accept(k, l)
<1> USE DEF PoolInv
<1>1. Called(k, l) /\ Unregistered(l)
  BY DEF EnqueueIdle, EnqueueSpawn
<1>2. /\ LocksKept /\ lockOf'[k] = l /\ k \notin submitted /\ caller.step = "none"
      /\ submitted' = submitted \cup {k}
  BY <1>1, CallFacts DEF Called
<1>3. PICK x \in Thread : HandOff(x, k) /\ th[x].currentTask = NoTask
  <2>1. CASE EnqueueIdle(k, l)
    <3>1. idle \in Seq(Thread) /\ idle # << >>
      BY <2>1 DEF EnqueueIdle, LockInv, Types
    <3>2. Len(idle) \in 1..Len(idle) /\ idle[Len(idle)] \in Thread
      BY <3>1, LastAndRest
    <3> QED
      BY <2>1, <3>2 DEF EnqueueIdle, LockInv, IdleInv
  <2>2. CASE EnqueueSpawn(k, l)
    BY <2>2 DEF EnqueueSpawn, Spawn, LockInv, ThreadInv
  <2> QED
    BY <2>1, <2>2
<1>4. /\ UNCHANGED <<queue, state, waiting>> /\ caller'.step = "end"
      /\ queue \in Seq(Task)
  BY DEF EnqueueIdle, EnqueueSpawn, Spawn, locks, LockInv, Types
<1>5. Heads' = Heads \cup {k} /\ Executing' = Executing
  BY <1>3, <1>4, HandOffView
<1>6. Dropped' = Dropped
  BY <1>4 DEF Dropped
<1>7. Submits(k, l)
  BY <1>2, <1>4, <1>5 DEF Submits, Placed, LocksKept
<1> QED
  BY <1>1, <1>2, <1>4, <1>5, <1>6, <1>7, PlaceStep

(* The second test on maxThreads_. *)
LEMMA RereadStep ==
  ASSUME PoolInv, EnqueueReread
  PROVE  \E k \in Task, l \in Lock \cup {NoLock} : TQ!Accept(k, l)
<1> USE DEF PoolInv
<1> DEFINE k == caller.task
           l == lockOf[k]
<1>1. /\ caller.step = "reread" /\ k \in submitted /\ k \in Task /\ l \in Lock \cup {NoLock}
      /\ UNCHANGED <<state, submitted, lockOf, waiting>> /\ caller'.step = "end"
      /\ queue \in Seq(Task)
  BY DEF EnqueueReread, Spawn, locks, LockInv, ListInv, Types
<1>2. Unregistered(l)
  BY <1>1 DEF LockInv, HolderInv, Unregistered
<1>3. Heads' = Heads \cup {k} /\ Executing' = Executing /\ queue' \in Seq(Task)
  <2>1. CASE \E t \in Thread : Spawn(t, k) /\ queue' = queue
    <3>1. PICK x \in Thread : Spawn(x, k) /\ queue' = queue
      BY <2>1
    <3>2. th[x].currentTask = NoTask /\ HandOff(x, k)
      BY <3>1 DEF Spawn, LockInv, ThreadInv
    <3> QED
      BY <1>1, <3>1, <3>2, HandOffView
  <2>2. CASE queue' = Append(queue, k) /\ th' = th
    <3>1. Elements(queue') = Elements(queue) \cup {k} /\ queue' \in Seq(Task)
      BY <1>1, <2>2, AppendFacts
    <3> QED
      BY <2>2, <3>1 DEF Heads, Executing, Running, InHand
  <2> QED
    BY <2>1, <2>2 DEF EnqueueReread
<1>4. Dropped' = Dropped
  BY <1>1 DEF Dropped
<1>5. Submits(k, l)
  BY <1>1, <1>3 DEF Submits, Placed
<1>6. caller.step # "end"
  BY <1>1
<1> HIDE DEF k, l
<1> QED
  BY <1>1, <1>2, <1>3, <1>4, <1>5, <1>6, PlaceStep

(* The threads and queue_ are the same. *)
LEMMA SameHeads ==
  ASSUME queue' = queue, th' = th
  PROVE  Heads' = Heads /\ Executing' = Executing
BY DEF Heads, InHand, Executing, Running

(* A call of queueTask that finds the lock registered, and room for the task. *)
LEMMA EnqueueLockedStep ==
  ASSUME PoolInv, NEW k \in Task, NEW l \in Lock \cup {NoLock}, EnqueueLocked(k, l)
  PROVE  TQ!Accept(k, l)
<1> USE DEF PoolInv
<1>1. /\ UNCHANGED <<queue, state, th>> /\ caller'.step = "end" /\ submitted' = submitted \cup {k}
      /\ l \in Lock /\ l # NoLock /\ ~Full(l)
      /\ waiting' = [waiting EXCEPT ![l] = Append(waiting[l], k)]
      /\ waiting[l] \in Seq(Task) /\ Lock = DOMAIN waiting /\ queue \in Seq(Task)
      /\ MaxSize[l] \in Nat
  BY PoolAssumption DEF EnqueueLocked, Called, LockInv, Types
<1>2. LocksKept /\ lockOf'[k] = l /\ k \notin submitted /\ caller.step = "none"
  BY CallFacts DEF EnqueueLocked
<1>3. Heads' = Heads /\ Executing' = Executing /\ Dropped' = Dropped
  BY <1>1, SameHeads DEF Dropped
<1>4. Submits(k, l) /\ \A j \in Heads : lockOf'[j] = lockOf[j]
  BY <1>1, <1>2, <1>3, FirstFacts DEF Submits, Placed, LocksKept
<1>5. \A m : First(m)' = First(m)
  BY <1>1, <1>3, <1>4, FirstAfter
<1>6. \A m \in Lock \ {l} : Serial(m)' = Serial(m)
  BY <1>1, <1>5 DEF Serial
<1>7. Serial(l)' = Append(Serial(l), k)
  <2> DEFINE p == SeqExt!SetToSeq(First(l))
             q == waiting[l]
  <2>1. p \in Seq(Task) /\ q \in Seq(Task)
    <3>1. First(l) \subseteq Task /\ \A i, j \in First(l) : i = j
      BY <1>1, OneHead, FirstFacts
    <3>2. First(l) = {} \/ \E j \in Task : First(l) = {j}
      BY <3>1
    <3>3. << >> \in Seq(Task) /\ \A j \in Task : <<j>> \in Seq(Task)
      OBVIOUS
    <3> HIDE DEF First
    <3> QED
      BY <1>1, <3>2, <3>3, SmallSetToSeq
  <2>2. waiting'[l] = Append(q, k) /\ Serial(l)' = p \o waiting'[l] /\ Serial(l) = p \o q
    BY <1>1, <1>5 DEF Serial
  <2> HIDE DEF p, q
  <2>3. p \o Append(q, k) = Append(p \o q, k)
    BY <2>1
  <2> QED
    BY <2>2, <2>3
<1>8. MaxSize[l] # 0 => TQ!Load(l) < MaxSize[l]
  <2>1. /\ TQ!Load(l) \in Nat /\ Len(waiting[l]) \in Nat
        /\ TQ!Load(l) <= Len(waiting[l]) + 1
    BY <1>1, LoadFacts
  <2>2. MaxSize[l] # 0 => ~(Len(waiting[l]) >= MaxSize[l] - 1)
    BY <1>1 DEF Full
  <2> QED
    BY <1>1, <2>1, <2>2
<1> QED
  BY <1>1, <1>3, <1>4, <1>5, <1>6, <1>7, <1>8, AcceptStep

(* A call of queueTask that finds the list of the lock full. *)
LEMMA DropTaskStep ==
  ASSUME PoolInv, NEW k \in Task, NEW l \in Lock \cup {NoLock}, DropTask(k, l)
  PROVE  TQ!Drop(k, l) /\ l \in Lock
<1> USE DEF PoolInv
<1>1. /\ UNCHANGED <<queue, waiting, th, caller>> /\ submitted' = submitted \cup {k}
      /\ l \in Lock /\ l # NoLock /\ Full(l)
      /\ \A j \in Task : state'[j] = IF j = k THEN "DROPPED" ELSE state[j]
      /\ queue \in Seq(Task) /\ MaxSize[l] \in Nat
  BY PoolAssumption DEF DropTask, Called, LockInv, Types, shared, locks
<1>2. LocksKept /\ lockOf'[k] = l /\ k \notin submitted /\ caller.step = "none"
  BY CallFacts DEF DropTask
<1>3. Heads' = Heads /\ Executing' = Executing /\ Dropped' = Dropped \cup {k}
  BY <1>1, SameHeads DEF Dropped
<1>4. Submits(k, l) /\ \A j \in Heads : lockOf'[j] = lockOf[j]
  BY <1>1, <1>2, <1>3, FirstFacts DEF Submits, Placed, LocksKept
<1>5. (\A m \in Lock : Serial(m)' = Serial(m)) /\ First(NoLock)' = First(NoLock)
  BY <1>1, <1>3, <1>4, SerialKept
<1>6. MaxSize[l] # 0 /\ TQ!Load(l) >= MaxSize[l] - 1
  <2>1. /\ TQ!Load(l) \in Nat /\ Len(waiting[l]) \in Nat
        /\ TQ!Load(l) >= Len(waiting[l])
    BY <1>1, LoadFacts
  <2>2. MaxSize[l] # 0 /\ Len(waiting[l]) >= MaxSize[l] - 1
    BY <1>1 DEF Full
  <2> QED
    BY <1>1, <2>1, <2>2
<1> QED
  BY <1>1, <1>3, <1>4, <1>5, <1>6, DropStep

(* The steps that TaskQueue does not see. *)
LEMMA CallStutter ==
  ASSUME PoolInv,
         \/ \E k \in Task, l \in Lock \cup {NoLock} : EnqueueTest(k, l)
         \/ QueueTaskEnd
         \/ \E n \in Limits : Resize(n)
         \/ UNCHANGED vars
  PROVE  UNCHANGED TQ!tqVars
<1> USE DEF PoolInv
<1>1. /\ UNCHANGED <<queue, waiting, th>> /\ queue \in Seq(Task)
      /\ Dropped' = Dropped /\ Placed' = Placed /\ \A j \in Placed : lockOf'[j] = lockOf[j]
  <2>1. ASSUME NEW k \in Task, NEW l \in Lock \cup {NoLock}, EnqueueTest(k, l)
        PROVE  /\ UNCHANGED <<queue, waiting, th, state>>
               /\ Placed' = Placed /\ \A j \in Placed : lockOf'[j] = lockOf[j]
    <3>1. /\ LocksKept /\ k \notin submitted /\ caller.step = "none"
          /\ submitted' = submitted \cup {k}
      BY <2>1, CallFacts DEF EnqueueTest, Called
    <3>2. UNCHANGED <<queue, waiting, th, state>> /\ caller' = [task |-> k, step |-> "reread"]
      BY <2>1 DEF EnqueueTest, shared, locks
    <3>3. Placed = submitted /\ Placed' = submitted' \ {k}
      BY <3>1, <3>2 DEF Placed
    <3> QED
      BY <3>1, <3>2, <3>3 DEF LocksKept
  <2>2. CASE QueueTaskEnd
    <3>1. /\ UNCHANGED <<queue, waiting, th, lockOf, submitted>>
          /\ caller.step = "end" /\ caller'.step = "none"
          /\ state' = [state EXCEPT ![caller.task] = "QUEUED"]
      BY <2>2 DEF QueueTaskEnd, shared, NoCaller
    <3>2. caller.task \in Task /\ state[caller.task] # "DROPPED"
      BY <3>1 DEF PlaceInv, Placing, LockInv, ListInv, Types
    <3>3. Dropped' = Dropped
      BY <3>1, <3>2 DEF Dropped, LockInv, Types
    <3> QED
      BY <3>1, <3>3 DEF Placed, LockInv, Types
  <2>3. CASE (\E n \in Limits : Resize(n)) \/ UNCHANGED vars
    <3>1. UNCHANGED <<queue, waiting, th, lockOf, submitted, state, caller>>
      BY <2>3 DEF Resize, vars, shared, locks
    <3> QED
      BY <3>1 DEF Placed, Dropped, LockInv, Types
  <2> QED
    BY <2>1, <2>2, <2>3 DEF Dropped, LockInv, Types
<1>2. Heads' = Heads /\ Executing' = Executing
  BY <1>1, SameHeads
<1>3. \A j \in Heads : lockOf'[j] = lockOf[j]
  BY <1>1, PlacedFacts
<1>4. (\A m \in Lock : Serial(m)' = Serial(m)) /\ First(NoLock)' = First(NoLock)
  BY <1>1, <1>2, <1>3, SerialKept
<1> QED
  BY <1>1, <1>2, <1>4, StutterStep

(* What the steps of a thread leave alone. *)
LEMMA ThreadUnseen ==
  ASSUME PoolInv, NEW t \in Thread, ThreadStep(t)
  PROVE  /\ Placements /\ UNCHANGED <<lockOf, submitted, caller>>
         /\ queue \in Seq(Task) /\ queue' \in Seq(Task)
<1> USE DEF PoolInv
<1>1. UNCHANGED <<lockOf, submitted, caller>>
  BY DEF ThreadStep, Wake, Deregister, TakeLocked, Fetch, ThreadDies, BecomeIdle, TakeQueued,
         StartTask, EndTask
<1>2. Dropped' = Dropped
  <2>1. CASE state' = state
    BY <2>1 DEF Dropped
  <2>2. CASE StartTask(t) \/ \E s \in {"FINISHED", "EXCEPTION"} : EndTask(t, s)
    <3>1. PICK s \in {"RUNNING", "FINISHED", "EXCEPTION"} :
            /\ th[t].pc \in {"start", "running"}
            /\ state' = [state EXCEPT ![th[t].currentTask] = s]
      BY <2>2 DEF StartTask, EndTask
    <3>2. th[t].currentTask \in Task /\ state[th[t].currentTask] # "DROPPED"
      BY <3>1 DEF PlaceInv, LockInv, ThreadInv, Types, ThreadRecord
    <3> QED
      BY <3>1, <3>2 DEF Dropped, LockInv, Types
  <2> QED
    BY <2>1, <2>2
    DEF ThreadStep, Wake, Deregister, TakeLocked, Fetch, ThreadDies, BecomeIdle, TakeQueued
<1>3. queue \in Seq(Task) /\ queue' \in Seq(Task)
  BY NextInv DEF LockInv, Types, Next
<1> QED
  BY <1>1, <1>2, <1>3 DEF Placements, Placed

(* A thread whose task is neither started nor ended. *)
LEMMA ThreadStutter ==
  ASSUME PoolInv, NEW t \in Thread,
         Wake(t) \/ Deregister(t) \/ Fetch(t) \/ ThreadDies(t) \/ BecomeIdle(t)
  PROVE  UNCHANGED TQ!tqVars
<1> USE DEF PoolInv
<1>1. /\ Placements /\ UNCHANGED <<lockOf, queue, waiting>> /\ queue \in Seq(Task)
  BY ThreadUnseen
  DEF ThreadStep, Wake, Deregister, Fetch, ThreadDies, BecomeIdle, shared, locks
<1>2. \A u \in Thread : u # t => th'[u] = th[u]
  BY MoveFacts DEF Moves, LockInv
<1>3. /\ th'[t].currentTask = th[t].currentTask
      /\ \/ th[t].pc \in {"waiting", "start"} /\ th'[t].pc \in {"waiting", "start"}
         \/ th[t].currentTask = NoTask
  <2>1. CASE Wake(t)
    BY <2>1, MoveFacts DEF Moves, Wake, LockInv
  <2>2. CASE Deregister(t) \/ Fetch(t) \/ ThreadDies(t) \/ BecomeIdle(t)
    <3>1. th[t].pc \in {"loop", "fetch"}
      BY <2>2 DEF Deregister, Fetch, ThreadDies, BecomeIdle, Looping
    <3> QED
      BY <2>2, <3>1, MoveFacts DEF Moves, LockInv, ThreadInv
  <2> QED
    BY <2>1, <2>2
<1>4. Heads' = Heads /\ Executing' = Executing
  <2>1. \A u \in Thread, k \in Task : (InHand(u, k)' <=> InHand(u, k))
    BY <1>2, <1>3, PoolAssumption DEF InHand
  <2>2. \A u \in Thread, k \in Task :
          th'[u].pc = "running" /\ th'[u].currentTask = k
            <=> th[u].pc = "running" /\ th[u].currentTask = k
    BY <1>2, <1>3, PoolAssumption
  <2> QED
    BY <1>1, <2>1, <2>2 DEF Heads, Executing, Running
<1>5. (\A m \in Lock : Serial(m)' = Serial(m)) /\ First(NoLock)' = First(NoLock)
  BY <1>1, <1>4, SerialKept
<1> QED
  BY <1>1, <1>4, <1>5, StutterStep DEF Placements

(* A thread at the top of its loop gets the task k. *)
LEMMA TakeView ==
  ASSUME LockInv, NEW t \in Thread, TakeLocked(t) \/ TakeQueued(t)
  PROVE  /\ th'[t].currentTask \in Task /\ Executing' = Executing
         /\ Heads' = Elements(queue') \cup {th'[t].currentTask}
                       \cup {k \in Task : \E u \in Thread : InHand(u, k)}
<1> DEFINE k == th'[t].currentTask
<1>1. th[t].pc \in {"loop", "fetch"}
  BY DEF TakeLocked, TakeQueued, Looping
<1>2. /\ th'[t].pc = "start" /\ k \in Task
      /\ \A u \in Thread \ {t} : th'[u] = th[u]
  <2>1. CASE TakeLocked(t)
    <3>1. /\ th[t].taskLock \in Lock /\ waiting[th[t].taskLock] \in Seq(Task)
          /\ waiting[th[t].taskLock] # << >>
      BY <2>1 DEF TakeLocked, LockInv, Types, ThreadRecord
    <3> QED
      BY <2>1, <3>1, FirstAndRest, MoveFacts DEF Moves, LockInv
  <2>2. CASE TakeQueued(t)
    <3>1. queue \in Seq(Task) /\ queue # << >>
      BY <2>2 DEF TakeQueued, LockInv, Types
    <3> QED
      BY <2>2, <3>1, FirstAndRest, MoveFacts DEF Moves, LockInv
  <2> QED
    BY <2>1, <2>2
<1> HIDE DEF k
<1>3. th'[t].currentTask = k
  BY DEF k
<1>4. \A j \in Task : (\E u \in Thread : InHand(u, j)') <=> j = k \/ \E u \in Thread : InHand(u, j)
  BY <1>1, <1>2, <1>3 DEF InHand
<1>5. \A j \in Task : Running(j)' <=> Running(j)
  BY <1>1, <1>2, <1>3 DEF Running
<1> QED
  BY <1>2, <1>4, <1>5 DEF Heads, Executing, k

(* The first task of queue_ goes into the hands of a thread. *)
LEMMA TakeQueuedStep ==
  ASSUME PoolInv, NEW t \in Thread, TakeQueued(t)
  PROVE  UNCHANGED TQ!tqVars
<1> USE DEF PoolInv
<1>1. /\ Placements /\ UNCHANGED <<lockOf, waiting>> /\ queue \in Seq(Task)
      /\ queue' \in Seq(Task) /\ queue' = Tail(queue) /\ queue # << >>
      /\ th'[t].currentTask = Head(queue)
  BY ThreadUnseen, MoveFacts DEF ThreadStep, TakeQueued, locks, Moves, LockInv
<1>2. Heads' = Heads /\ Executing' = Executing
  BY <1>1, TakeView, TailFacts DEF Heads
<1>3. (\A m \in Lock : Serial(m)' = Serial(m)) /\ First(NoLock)' = First(NoLock)
  BY <1>1, <1>2, SerialKept
<1> QED
  BY <1>1, <1>2, <1>3, StutterStep DEF Placements

(* The first task that waits for the lock of a thread goes into its hands. *)
LEMMA TakeLockedStep ==
  ASSUME PoolInv, NEW t \in Thread, TakeLocked(t)
  PROVE  UNCHANGED TQ!tqVars
<1> USE DEF PoolInv
<1>0. PICK l \in Lock, k \in Task : l = th[t].taskLock /\ k = th'[t].currentTask
  BY TakeView DEF TakeLocked, LockInv, Types, ThreadRecord
<1>1. /\ Placements /\ UNCHANGED <<lockOf, queue>> /\ queue \in Seq(Task)
      /\ th[t].pc = "loop" /\ l \in Lock /\ l # NoLock
      /\ waiting[l] # << >> /\ waiting[l] \in Seq(Task) /\ Lock = DOMAIN waiting
      /\ waiting' = [waiting EXCEPT ![l] = Tail(waiting[l])]
      /\ k = Head(waiting[l])
  BY <1>0, ThreadUnseen, MoveFacts, PoolAssumption
  DEF ThreadStep, TakeLocked, Looping, Moves, LockInv, Types, ThreadRecord
<1>2. Heads' = Heads \cup {k} /\ Executing' = Executing /\ k \in Task
  BY <1>0, <1>1, TakeView DEF Heads
<1>3. k \in Elements(waiting[l]) /\ k \in Locked /\ lockOf[k] = l
  BY <1>1, TailFacts, ListedFacts
<1>4. k \notin Heads
  BY <1>3 DEF Heads, InHand, PlaceInv, SizeInv
<1>5. First(l) = {}
  <2>1. Holding(t, l) /\ th[t].currentTask = NoTask
    BY <1>0, <1>1 DEF Holding, LockInv, ThreadInv
  <2>2. \A u \in Thread : Holding(u, l) => u = t
    BY <1>1, <2>1 DEF LockInv, HolderInv
  <2>3. \A i \in 1..Len(queue) : ~InQueue(i, l)
    BY <1>1, <2>1 DEF LockInv, HolderInv
  <2>4. ASSUME NEW j \in Task, NEW u \in Thread, InHand(u, j), lockOf[j] = l PROVE FALSE
    BY <2>1, <2>2, <2>4, PoolAssumption DEF InHand, Holding
  <2> QED
    BY <2>3, <2>4 DEF First, InQueue
<1>6. \A m : First(m)' = IF m = l THEN First(m) \cup {k} ELSE First(m)
  BY <1>1, <1>2, <1>3, <1>4, FirstAfter
<1>7. \A m \in Lock \ {l} : Serial(m)' = Serial(m)
  BY <1>1, <1>6 DEF Serial
<1>8. Serial(l)' = Serial(l)
  <2>1. Serial(l) = << >> \o waiting[l]
    BY <1>5, SmallSetToSeq DEF Serial
  <2>2. Serial(l)' = <<k>> \o Tail(waiting[l])
    <3>1. First(l)' = {k} /\ waiting'[l] = Tail(waiting[l])
      BY <1>1, <1>5, <1>6
    <3> QED
      BY <3>1, SmallSetToSeq DEF Serial
  <2>3. <<k>> \o Tail(waiting[l]) = waiting[l] /\ << >> \o waiting[l] = waiting[l]
    BY <1>1
  <2> QED
    BY <2>1, <2>2, <2>3
<1>9. First(NoLock)' = First(NoLock)
  BY <1>1, <1>6
<1> QED
  BY <1>1, <1>2, <1>7, <1>8, <1>9, StutterStep DEF Placements

(* A thread starts the task it was given. *)
LEMMA StartTaskStep ==
  ASSUME PoolInv, NEW t \in Thread, StartTask(t)
  PROVE  \/ \E k \in Task : TQ!StartFree(k)
         \/ \E l \in Lock : TQ!StartSerial(l)
<1> USE DEF PoolInv
<1>0. PICK k \in Task, l \in Lock \cup {NoLock} : k = th[t].currentTask /\ l = lockOf[k]
  BY DEF StartTask, LockInv, ThreadInv, Types, ThreadRecord
<1>1. /\ Placements /\ UNCHANGED <<lockOf, queue, waiting>> /\ queue \in Seq(Task)
      /\ th[t].pc = "start" /\ k \in Heads
  <2>1. /\ Placements /\ UNCHANGED <<lockOf, queue, waiting>> /\ queue \in Seq(Task)
        /\ th[t].pc = "start"
    BY ThreadUnseen DEF ThreadStep, StartTask, shared, locks
  <2> QED
    BY <1>0, <2>1 DEF Heads, InHand
<1>2. /\ th'[t].pc = "running" /\ th'[t].currentTask = k
      /\ \A u \in Thread \ {t} : th'[u] = th[u] /\ th[u].currentTask # k
      /\ k \notin Elements(queue)
  BY <1>0, <1>1, MoveFacts, PoolAssumption DEF Moves, LockInv, PlaceInv
<1>3. th[t].currentTask = k
  BY <1>0
<1>4. Heads' = Heads \ {k}
  <2>1. \A j \in Task :
          (\E u \in Thread : InHand(u, j)') <=> j # k /\ \E u \in Thread : InHand(u, j)
    BY <1>1, <1>2, <1>3 DEF InHand
  <2> QED
    BY <1>1, <1>2, <2>1 DEF Heads
<1>5. Executing' = Executing \cup {k}
  <2>1. \A j \in Task : Running(j)' <=> j = k \/ Running(j)
    BY <1>1, <1>2, <1>3 DEF Running
  <2> QED
    BY <1>1, <2>1 DEF Executing
<1>6. /\ \A m : First(m)' = First(m) \ {k}
      /\ k \in First(l) /\ \A m : k \in First(m) => m = l
  BY <1>0, <1>1, <1>4, FirstAfter, FirstFacts
<1>7. \A m \in Lock \ {l} : Serial(m)' = Serial(m)
  <2>1. \A m \in Lock \ {l} : First(m)' = First(m)
    BY <1>6
  <2> QED
    BY <1>1, <2>1 DEF Serial
<1>8. CASE l = NoLock
  <2>1. \A m \in Lock : Serial(m)' = Serial(m)
    BY <1>7, <1>8, PoolAssumption
  <2> QED
    BY <1>1, <1>5, <1>6, <1>8, <2>1, StartFreeStep
<1>9. CASE l \in Lock
  <2>1. First(l) = {k} /\ First(l)' = {}
    BY <1>6, <1>9, OneHead
  <2>2. Serial(l) = <<k>> \o waiting[l] /\ Serial(l)' = << >> \o waiting[l]
    BY <1>1, <2>1, SmallSetToSeq DEF Serial
  <2>3. waiting[l] \in Seq(Task)
    BY <1>9 DEF LockInv, Types
  <2>4. Serial(l) # << >> /\ Head(Serial(l)) = k /\ Tail(Serial(l)) = waiting[l]
        /\ Serial(l)' = waiting[l]
    <3> DEFINE w == waiting[l]
    <3>1. <<k>> \o w # << >> /\ Head(<<k>> \o w) = k /\ Tail(<<k>> \o w) = w /\ << >> \o w = w
      BY <1>1, <2>3
    <3> QED
      BY <2>2, <3>1
  <2>5. \A j \in Executing : PlacedLock[j] # l
    <3>1. \A j \in Executing : lockOf[j] # l
      BY <1>6, <1>9, OneHead
    <3> QED
      BY <1>9, <3>1, PlacedFacts DEF PlacedLock
  <2>6. First(NoLock)' = First(NoLock)
    BY <1>6, <1>9, PoolAssumption
  <2> QED
    BY <1>1, <1>5, <1>7, <1>9, <2>4, <2>5, <2>6, StartSerialStep
<1> QED
  BY <1>0, <1>8, <1>9

(* The function of a task ends. *)
LEMMA EndTaskStep ==
  ASSUME PoolInv, NEW t \in Thread, \E s \in {"FINISHED", "EXCEPTION"} : EndTask(t, s)
  PROVE  \E k \in Task : TQ!Complete(k)
<1> USE DEF PoolInv
<1>0. PICK k \in Task : k = th[t].currentTask
  BY DEF EndTask, LockInv, ThreadInv, Types, ThreadRecord
<1>1. /\ Placements /\ UNCHANGED <<lockOf, queue, waiting>> /\ queue \in Seq(Task)
      /\ th[t].pc = "running" /\ k \in Executing
  <2>1. /\ Placements /\ UNCHANGED <<lockOf, queue, waiting>> /\ queue \in Seq(Task)
        /\ th[t].pc = "running"
    BY ThreadUnseen DEF ThreadStep, EndTask, shared, locks
  <2> QED
    BY <1>0, <2>1 DEF Executing, Running
<1>2. /\ th'[t].pc = "loop"
      /\ \A u \in Thread \ {t} : th'[u] = th[u] /\ th[u].currentTask # k
  BY <1>0, <1>1, MoveFacts, PoolAssumption DEF Moves, LockInv, PlaceInv
<1>3. th[t].currentTask = k
  BY <1>0
<1>4. Heads' = Heads
  <2>1. \A j \in Task : (\E u \in Thread : InHand(u, j)') <=> \E u \in Thread : InHand(u, j)
    BY <1>1, <1>2, <1>3 DEF InHand
  <2> QED
    BY <1>1, <2>1 DEF Heads
<1>5. Executing' = Executing \ {k}
  <2>1. \A j \in Task : Running(j)' <=> j # k /\ Running(j)
    BY <1>1, <1>2, <1>3 DEF Running
  <2> QED
    BY <2>1 DEF Executing
<1>6. (\A m \in Lock : Serial(m)' = Serial(m)) /\ First(NoLock)' = First(NoLock)
  BY <1>1, <1>4, SerialKept
<1> QED
  BY <1>1, <1>5, <1>6, CompleteStep

(* Every step of the pool is a step of TaskQueue, or none it sees. *)
LEMMA QueueStep == PoolInv /\ [Next]_vars => [TQ!TQNext]_TQ!tqVars
<1> SUFFICES ASSUME PoolInv, [Next]_vars PROVE [TQ!TQNext]_TQ!tqVars
  OBVIOUS
<1>1. ASSUME NEW k \in Task, NEW l \in Lock \cup {NoLock},
             \/ DropTask(k, l) \/ EnqueueLocked(k, l) \/ EnqueueIdle(k, l)
             \/ EnqueueSpawn(k, l) \/ EnqueueTest(k, l)
      PROVE  TQ!Accept(k, l) \/ TQ!Drop(k, l) \/ UNCHANGED TQ!tqVars
  BY <1>1, DropTaskStep, EnqueueLockedStep, HandOffStep, CallStutter
<1>2. CASE EnqueueReread
  BY <1>2, RereadStep DEF TQ!TQNext
<1>3. CASE QueueTaskEnd \/ (\E n \in Limits : Resize(n)) \/ UNCHANGED vars
  BY <1>3, CallStutter
<1>4. ASSUME NEW t \in Thread, ThreadStep(t)
      PROVE  \/ UNCHANGED TQ!tqVars
             \/ \E k \in Task : TQ!StartFree(k) \/ TQ!Complete(k)
             \/ \E l \in Lock : TQ!StartSerial(l)
  <2>1. CASE StartTask(t)
    BY <2>1, StartTaskStep
  <2>2. CASE \E s \in {"FINISHED", "EXCEPTION"} : EndTask(t, s)
    BY <2>2, EndTaskStep
  <2>3. CASE TakeLocked(t) \/ TakeQueued(t)
    BY <2>3, TakeLockedStep, TakeQueuedStep
  <2>4. CASE Wake(t) \/ Deregister(t) \/ Fetch(t) \/ ThreadDies(t) \/ BecomeIdle(t)
    BY <2>4, ThreadStutter
  <2> QED
    BY <1>4, <2>1, <2>2, <2>3, <2>4 DEF ThreadStep
<1> QED
  BY <1>1, <1>2, <1>3, <1>4 DEF Next, QueueTask, Done, TQ!TQNext

(* A new pool is a new TaskQueue. *)
LEMMA QueueInit == Init => TQ!TQInit
<1> SUFFICES ASSUME Init PROVE TQ!TQInit
  OBVIOUS
<1>1. /\ submitted = {} /\ queue = << >> /\ \A k \in Task : state[k] = "none"
      /\ waiting = [l \in Lock |-> << >>]
      /\ \A t \in Thread : th[t].pc = "unborn"
  BY DEF Init, NewThread
<1>2. Placed = {} /\ Executing = {} /\ Dropped = {} /\ \A l : First(l) = {}
  BY <1>1 DEF Placed, Executing, Dropped, First, Running, InHand
<1>3. PlacedLock = [k \in Task |-> NoLock]
  BY <1>2 DEF PlacedLock
<1>4. [l \in Lock |-> Serial(l)] = [l \in Lock |-> << >>]
  <2>1. << >> \o << >> = << >>
    OBVIOUS
  <2>2. \A l \in Lock : Serial(l) = << >>
    BY <1>1, <1>2, <2>1, SmallSetToSeq DEF Serial
  <2> QED
    BY <2>2
<1> QED
  BY <1>2, <1>3, <1>4, Zenon DEF TQ!TQInit, PlacedLock, Serial, Executing, Dropped

(* The pool does for the callers of queueTask what TaskQueue says: the tasks *)
(* of a lock run one at a time, in the order they were queued, those without *)
(* a lock in any order, and a task is dropped only when its lock has a limit *)
(* and is within one task of it, whatever resize does meanwhile.             *)
THEOREM SpecImplementsTaskQueue == Spec => ImplementsTaskQueue
<1>1. LockInv /\ WorkInv /\ HandledInv /\ SizeInv /\ PlaceInv => PoolInv
  BY DEF PoolInv
<1> QED
  BY SpecLockInv, SpecWorkInv, SpecHandledInv, SpecSizeInv, SpecPlaceInv, <1>1,
     QueueInit, QueueStep, PTL
     DEF Spec, ImplementsTaskQueue, TQ!TQSpec

=============================================================================
