----------------------------- MODULE ServerProofs -----------------------------
(***************************************************************************)
(* Proofs about Server: whatever the threads and the main loop do in       *)
(* between, no wake-up is lost, no callback is run twice, and a thread is  *)
(* in its kernel-lock section only while the main thread is held.  For any *)
(* number of threads and callbacks.                                        *)
(***************************************************************************)
EXTENDS Server, ListsProofs

(* The invariant holds at the start. *)
LEMMA InitInv == Init => ServerInv
<1> SUFFICES ASSUME Init PROVE ServerInv
  OBVIOUS
<1> USE NoThreadAssumption DEF Init
<1>1. TypeOK
  BY EmptyFacts DEF TypeOK, MainPlace, HandlerState, KernelRecord, ThreadPlace
<1>2. Asking = {} /\ LetIn = {}
  BY DEF Asking, LetIn
<1>3. KernelInv
  BY <1>2, FS_EmptySet DEF KernelInv
<1>4. OnceInv
  BY EmptyFacts DEF OnceInv
<1>5. WakeInv
  BY DEF WakeInv
<1> QED
  BY <1>1, <1>3, <1>4, <1>5 DEF ServerInv

-----------------------------------------------------------------------------
(* Types *)

LEMMA WorkType == TypeOK /\ (Work \/ HandlerRuns \/ HandlerFreezes \/ HandlerStays) => TypeOK'
BY DEF TypeOK, MainPlace, HandlerState, Work, HandlerRuns, HandlerFreezes, HandlerStays,
       queues, fastJob, HandlerStarts

LEMMA FastType == TypeOK /\ (FastClear \/ FastTake \/ FastSleep) => TypeOK'
BY EmptyFacts DEF TypeOK, MainPlace, HandlerState, FastClear, FastTake, FastSleep, queues, fastJob

LEMMA FastCallType == TypeOK /\ FastCall => TypeOK'
<1> SUFFICES ASSUME TypeOK, FastCall PROVE TypeOK'
  OBVIOUS
<1>1. Head(batch) \in Fast /\ Tail(batch) \in Seq(Fast) /\ << >> \in Seq(Fast)
  BY TailFacts, EmptyFacts DEF TypeOK, FastCall
<1>2. ran' \in Seq(Callback)
  BY <1>1, AppendFacts DEF TypeOK, FastCall, Callback
<1> QED
  BY <1>1, <1>2 DEF TypeOK, MainPlace, HandlerState, FastCall, queues

LEMMA RunJobsType == TypeOK /\ RunJobs => TypeOK'
<1> SUFFICES ASSUME TypeOK, RunJobs PROVE TypeOK'
  OBVIOUS
<1>1. added \in Seq(Callback) /\ ran \in Seq(Callback) /\ << >> \in Seq(Async)
  BY EmptyFacts DEF TypeOK, Callback
<1>2. ran' \in Seq(Callback)
  BY <1>1, ConcatFacts DEF RunJobs
<1> QED
  BY <1>1, <1>2 DEF TypeOK, MainPlace, RunJobs, queues, fastJob

LEMMA PollType ==
  TypeOK /\ (PollRead \/ PollEmpty \/ PollOther \/ AsyncNone \/ AsyncProcess \/ CheckNone)
  => TypeOK'
BY EmptyFacts DEF TypeOK, MainPlace, PollRead, PollEmpty, PollOther, AsyncNone, AsyncProcess,
       CheckNone, queues, fastJob

(* The thread that goes to a place, and the others. *)
LEMMA GoesFacts ==
  ASSUME TypeOK, NEW t \in Thread, NEW p \in ThreadPlace, Goes(t, p)
  PROVE  /\ at' \in [Thread -> ThreadPlace] /\ at'[t] = p
         /\ \A u \in Thread \ {t} : at'[u] = at[u]
BY DEF TypeOK, Goes

LEMMA GoesFreeFacts ==
  ASSUME TypeOK, NEW t \in Thread, GoesFree(t)
  PROVE  /\ at' \in [Thread -> ThreadPlace]
         /\ at'[t] = IF kernel.owner = t THEN "section" ELSE "idle"
         /\ \A u \in Thread \ {t} : at'[u] = at[u]
BY DEF TypeOK, GoesFree, Goes, ThreadPlace

LEMMA ScheduleType ==
  ASSUME TypeOK, NEW t \in Thread, \E c \in Async : Schedule(t, c)
  PROVE  TypeOK' /\ at'[t] = "s_wake" /\ \A u \in Thread \ {t} : at'[u] = at[u]
<1> PICK c \in Async : Schedule(t, c)
  OBVIOUS
<1>1. /\ at' \in [Thread -> ThreadPlace] /\ at'[t] = "s_wake"
      /\ \A u \in Thread \ {t} : at'[u] = at[u]
  BY GoesFacts DEF Schedule, ThreadPlace
<1>2. Append(async, c) \in Seq(Async)
  BY AppendFacts DEF TypeOK
<1> QED
  BY <1>1, <1>2 DEF TypeOK, Schedule, main, fastJob

LEMMA ScheduleFastType ==
  ASSUME TypeOK, NEW t \in Thread, \E c \in Fast : ScheduleFast(t, c)
  PROVE  /\ TypeOK' /\ at'[t] = (IF fast = << >> THEN "f_start" ELSE "f_unlock")
         /\ \A u \in Thread \ {t} : at'[u] = at[u]
<1> PICK c \in Fast : ScheduleFast(t, c)
  OBVIOUS
<1>1. /\ at' \in [Thread -> ThreadPlace]
      /\ at'[t] = (IF fast = << >> THEN "f_start" ELSE "f_unlock")
      /\ \A u \in Thread \ {t} : at'[u] = at[u]
  BY GoesFacts DEF ScheduleFast, ThreadPlace
<1>2. Append(fast, c) \in Seq(Fast)
  BY AppendFacts DEF TypeOK
<1> QED
  BY <1>1, <1>2 DEF TypeOK, ScheduleFast, main, fastJob

LEMMA ScheduleStepsType ==
  ASSUME TypeOK, NEW t \in Thread,
         \/ ScheduleWake(t) \/ ScheduleFastStart(t) \/ ScheduleFastWake(t)
         \/ ScheduleFastUnlock(t)
  PROVE  TypeOK'
<1>1. at' \in [Thread -> ThreadPlace]
  BY GoesFacts, GoesFreeFacts DEF ThreadPlace, ScheduleWake, ScheduleFastStart, ScheduleFastWake,
     ScheduleFastUnlock
<1> QED
  BY <1>1 DEF TypeOK, ScheduleWake, ScheduleFastStart, ScheduleFastWake, ScheduleFastUnlock,
     main, fastJob, queues

(* What changes when only the kernel lock and the place of a thread do. *)
LEMMA KernelType ==
  ASSUME TypeOK, kernel' \in KernelRecord, at' \in [Thread -> ThreadPlace],
         pc' \in MainPlace, pipe' \in BOOLEAN,
         UNCHANGED <<pse, waitingRun, immediate, fastJob, queues, added, ran>>
  PROVE  TypeOK'
BY DEF TypeOK, fastJob, queues

-----------------------------------------------------------------------------
(* The kernel lock *)

(* Places outside the Synchronizer, whether or not the thread has the lock. *)
Outside == {"idle", "section", "s_wake", "f_start", "f_wake", "f_unlock"}

(* Steps that leave the kernel lock alone. *)
LEMMA KernelKept ==
  ASSUME TypeOK, KernelInv, kernel' = kernel, (pc' = "done") <=> (pc = "done"),
         \A t \in Thread :
           \/ at'[t] = at[t]
           \/ /\ at[t] \in Outside /\ at'[t] \in Outside
              /\ at'[t] = "section" => kernel.owner = t
              /\ at'[t] = "idle" => kernel.owner # t
  PROVE  KernelInv'
<1>1. Asking' = Asking
  BY DEF Asking, Outside
<1>2. LetIn' = LetIn
  BY DEF LetIn, Outside
<1> QED
  BY <1>1, <1>2 DEF KernelInv, Outside

LEMMA KernelFields ==
  ASSUME TypeOK
  PROVE  /\ kernel \in KernelRecord /\ kernel.owner \in Thread \cup {NoThread}
         /\ kernel.waiting \in Nat /\ kernel.signaled \in Nat /\ kernel.done \in Nat
BY DEF TypeOK, KernelRecord

(* check: all that ask are let in. *)
LEMMA CheckSignalInv ==
  ASSUME TypeOK, KernelInv, CheckSignal
  PROVE  TypeOK' /\ KernelInv'
<1>1. /\ kernel' = [kernel EXCEPT !.signaled = kernel.waiting, !.waiting = 0]
      /\ at' = [t \in Thread |-> IF at[t] = "k_wait" THEN "k_woken" ELSE at[t]]
      /\ pc' = "done" /\ pc = "check" /\ kernel.waiting > 0 /\ kernel.owner = NoThread
  BY DEF CheckSignal
<1>2. /\ kernel' \in KernelRecord /\ kernel'.owner = NoThread /\ kernel'.waiting = 0
      /\ kernel'.signaled = kernel.waiting /\ kernel'.done = kernel.done
  BY <1>1, KernelFields DEF KernelRecord
<1>3. at' \in [Thread -> ThreadPlace]
  BY <1>1 DEF TypeOK, ThreadPlace
<1>4. TypeOK'
  BY <1>1, <1>2, <1>3, KernelType DEF CheckSignal, MainPlace, TypeOK
<1>5. \A t \in Thread : at[t] \notin {"k_wake", "section"}
  BY <1>1, NoThreadAssumption DEF KernelInv
<1>6. kernel.signaled = 0 /\ LetIn = {}
  <2>1. kernel.signaled = 0 /\ IsFiniteSet(LetIn) /\ Cardinality(LetIn) = 0
    BY <1>1 DEF KernelInv
  <2> QED
    BY <2>1, FS_EmptySet
<1>7. Asking' = {}
  BY <1>1, <1>5 DEF Asking
<1>8. LetIn' = Asking
  <2>1. \A t \in Thread : kernel'.owner # t
    BY <1>2, NoThreadAssumption
  <2>2. \A t \in Thread : at[t] # "k_woken"
    BY <1>6 DEF LetIn
  <2> QED
    BY <1>1, <1>5, <2>1, <2>2 DEF LetIn, Asking
<1>9. kernel.done = 0
  BY <1>1 DEF KernelInv
<1>10. \A t \in Thread : at'[t] \notin {"k_wake", "section"} /\ kernel'.owner # t
  BY <1>1, <1>2, <1>5, NoThreadAssumption
<1>11. IsFiniteSet(Asking) /\ kernel.waiting = Cardinality(Asking)
  BY DEF KernelInv
<1>12. IsFiniteSet(Asking') /\ Cardinality(Asking') = 0
  BY <1>7, FS_EmptySet
<1>13. kernel'.signaled # 0
  BY <1>1, <1>2, KernelFields
<1> QED
  BY <1>1, <1>2, <1>4, <1>8, <1>9, <1>10, <1>11, <1>12, <1>13 DEF KernelInv

(* done_--. *)
LEMMA CheckDoneInv ==
  ASSUME TypeOK, KernelInv, CheckDone
  PROVE  TypeOK' /\ KernelInv'
<1>1. /\ kernel' = [kernel EXCEPT !.done = kernel.done - 1] /\ at' = at
      /\ pc' = "work" /\ pc = "done" /\ kernel.done > 0
  BY DEF CheckDone
<1>2. kernel.signaled = 0 /\ kernel.done = 1
  BY <1>1, KernelFields DEF KernelInv
<1>3. /\ kernel' \in KernelRecord /\ kernel'.owner = kernel.owner
      /\ kernel'.waiting = kernel.waiting
      /\ kernel'.signaled = 0 /\ kernel'.done = 0
  BY <1>1, <1>2, KernelFields DEF KernelRecord
<1>4. TypeOK'
  BY <1>1, <1>3, KernelType DEF CheckDone, MainPlace, TypeOK
<1>5. Asking' = Asking /\ LetIn' = LetIn
  BY <1>1, <1>3 DEF Asking, LetIn
<1> QED
  BY <1>1, <1>2, <1>3, <1>4, <1>5 DEF KernelInv

(* lock(): the thread asks. *)
LEMMA KernelLockInv ==
  ASSUME TypeOK, KernelInv, NEW t \in Thread, KernelLock(t)
  PROVE  TypeOK' /\ KernelInv'
<1>1. /\ kernel' = [kernel EXCEPT !.owner = t, !.waiting = kernel.waiting + 1]
      /\ pc' = pc /\ at[t] = "idle" /\ kernel.owner = NoThread
  BY DEF KernelLock, main
<1>2. /\ at' \in [Thread -> ThreadPlace] /\ at'[t] = "k_wake"
      /\ \A u \in Thread \ {t} : at'[u] = at[u]
  BY GoesFacts DEF KernelLock, ThreadPlace
<1>3. /\ kernel' \in KernelRecord /\ kernel'.owner = t
      /\ kernel'.waiting = kernel.waiting + 1
      /\ kernel'.signaled = kernel.signaled /\ kernel'.done = kernel.done
  <2> DEFINE n == kernel.waiting + 1
  <2>1. n \in Nat
    BY KernelFields
  <2>2. kernel' = [kernel EXCEPT !.owner = t, !.waiting = n]
    BY <1>1
  <2> HIDE DEF n
  <2>3. /\ kernel' \in KernelRecord /\ kernel'.owner = t /\ kernel'.waiting = n
        /\ kernel'.signaled = kernel.signaled /\ kernel'.done = kernel.done
    BY <2>1, <2>2, KernelFields DEF KernelRecord
  <2> QED
    BY <2>3 DEF n
<1>4. TypeOK'
  BY <1>1, <1>2, <1>3, KernelType DEF KernelLock, TypeOK, main
<1>5. Asking' = Asking \cup {t} /\ t \notin Asking
  BY <1>1, <1>2 DEF Asking
<1>6. IsFiniteSet(Asking \cup {t}) /\ Cardinality(Asking \cup {t}) = Cardinality(Asking) + 1
  BY <1>5, FS_AddElement DEF KernelInv
<1>7. LetIn' = LetIn
  BY <1>1, <1>2, <1>3, NoThreadAssumption DEF LetIn, KernelInv
<1>8. /\ \A u \in Thread : at'[u] \in {"k_wake", "section"} => kernel'.owner = u
      /\ \A u \in Thread : at'[u] \in {"idle", "k_wait", "k_woken"} => kernel'.owner # u
  BY <1>1, <1>2, <1>3, NoThreadAssumption DEF KernelInv
<1> QED
  BY <1>1, <1>3, <1>4, <1>5, <1>6, <1>7, <1>8 DEF KernelInv

(* lock(): it waits. *)
LEMMA KernelWaitInv ==
  ASSUME TypeOK, KernelInv, NEW t \in Thread, KernelWait(t)
  PROVE  TypeOK' /\ KernelInv'
<1>1. /\ kernel' = [kernel EXCEPT !.owner = NoThread]
      /\ pc' = pc /\ at[t] = "k_wake" /\ pipe' = TRUE
  BY DEF KernelWait, main
<1>2. /\ at' \in [Thread -> ThreadPlace] /\ at'[t] = "k_wait"
      /\ \A u \in Thread \ {t} : at'[u] = at[u]
  BY GoesFacts DEF KernelWait, ThreadPlace
<1>3. /\ kernel' \in KernelRecord /\ kernel'.owner = NoThread
      /\ kernel'.waiting = kernel.waiting
      /\ kernel'.signaled = kernel.signaled /\ kernel'.done = kernel.done
  BY <1>1, KernelFields DEF KernelRecord
<1>4. TypeOK'
  BY <1>1, <1>2, <1>3, KernelType DEF KernelWait, TypeOK, main
<1>5. kernel.owner = t
  BY <1>1 DEF KernelInv
<1>6. Asking' = Asking
  BY <1>1, <1>2 DEF Asking
<1>7. LetIn' = LetIn
  BY <1>1, <1>2, <1>3, <1>5, NoThreadAssumption DEF LetIn
<1>8. /\ \A u \in Thread : at'[u] \in {"k_wake", "section"} => kernel'.owner = u
      /\ \A u \in Thread : at'[u] \in {"idle", "k_wait", "k_woken"} => kernel'.owner # u
  BY <1>1, <1>2, <1>3, <1>5, NoThreadAssumption DEF KernelInv
<1> QED
  BY <1>1, <1>3, <1>4, <1>6, <1>7, <1>8 DEF KernelInv

(* lock(): its section begins. *)
LEMMA KernelEnterInv ==
  ASSUME TypeOK, KernelInv, NEW t \in Thread, KernelEnter(t)
  PROVE  TypeOK' /\ KernelInv'
<1>1. /\ kernel' = [kernel EXCEPT !.owner = t]
      /\ pc' = pc /\ at[t] = "k_woken" /\ kernel.owner = NoThread
  BY DEF KernelEnter, main
<1>2. /\ at' \in [Thread -> ThreadPlace] /\ at'[t] = "section"
      /\ \A u \in Thread \ {t} : at'[u] = at[u]
  BY GoesFacts DEF KernelEnter, ThreadPlace
<1>3. /\ kernel' \in KernelRecord /\ kernel'.owner = t
      /\ kernel'.waiting = kernel.waiting
      /\ kernel'.signaled = kernel.signaled /\ kernel'.done = kernel.done
  BY <1>1, KernelFields DEF KernelRecord
<1>4. TypeOK'
  BY <1>1, <1>2, <1>3, KernelType DEF KernelEnter, TypeOK, main
<1>5. Asking' = Asking
  BY <1>1, <1>2 DEF Asking
<1>6. LetIn' = LetIn
  BY <1>1, <1>2, <1>3, NoThreadAssumption DEF LetIn
<1>7. /\ \A u \in Thread : at'[u] \in {"k_wake", "section"} => kernel'.owner = u
      /\ \A u \in Thread : at'[u] \in {"idle", "k_wait", "k_woken"} => kernel'.owner # u
  BY <1>1, <1>2, <1>3, NoThreadAssumption DEF KernelInv
<1> QED
  BY <1>1, <1>3, <1>4, <1>5, <1>6, <1>7 DEF KernelInv

(* unlock(): its section ends. *)
LEMMA KernelUnlockInv ==
  ASSUME TypeOK, KernelInv, NEW t \in Thread, KernelUnlock(t)
  PROVE  TypeOK' /\ KernelInv'
<1>1. /\ kernel' = [kernel EXCEPT !.owner = NoThread, !.signaled = kernel.signaled - 1,
                      !.done = IF kernel.signaled = 1 THEN kernel.done + 1 ELSE kernel.done]
      /\ pc' = pc /\ at[t] = "section"
  BY DEF KernelUnlock, main
<1>2. /\ at' \in [Thread -> ThreadPlace] /\ at'[t] = "idle"
      /\ \A u \in Thread \ {t} : at'[u] = at[u]
  BY GoesFacts DEF KernelUnlock, ThreadPlace
<1>3. kernel.owner = t /\ t \in LetIn
  BY <1>1 DEF KernelInv, LetIn
<1>4. /\ IsFiniteSet(LetIn \ {t})
      /\ Cardinality(LetIn \ {t}) = kernel.signaled - 1
      /\ Cardinality(LetIn \ {t}) \in Nat
  BY <1>3, FS_RemoveElement, FS_CardinalityType DEF KernelInv
<1>5. /\ kernel' \in KernelRecord /\ kernel'.owner = NoThread
      /\ kernel'.waiting = kernel.waiting
      /\ kernel'.signaled = kernel.signaled - 1
      /\ kernel'.done = IF kernel.signaled = 1 THEN kernel.done + 1 ELSE kernel.done
  <2> DEFINE n == kernel.signaled - 1
             d == IF kernel.signaled = 1 THEN kernel.done + 1 ELSE kernel.done
  <2>1. n \in Nat
    BY <1>4
  <2>2. d \in Nat
    BY KernelFields
  <2>3. kernel' = [kernel EXCEPT !.owner = NoThread, !.signaled = n, !.done = d]
    BY <1>1
  <2> HIDE DEF n, d
  <2>4. /\ kernel' \in KernelRecord /\ kernel'.owner = NoThread
        /\ kernel'.waiting = kernel.waiting /\ kernel'.signaled = n /\ kernel'.done = d
    BY <2>1, <2>2, <2>3, KernelFields DEF KernelRecord
  <2> QED
    BY <2>4 DEF n, d
<1>6. TypeOK'
  BY <1>1, <1>2, <1>5, KernelType DEF KernelUnlock, TypeOK, main
<1>7. Asking' = Asking
  BY <1>1, <1>2 DEF Asking
<1>8. LetIn' = LetIn \ {t}
  BY <1>2, <1>3, <1>5, NoThreadAssumption DEF LetIn
<1>9. /\ \A u \in Thread : at'[u] \in {"k_wake", "section"} => kernel'.owner = u
      /\ \A u \in Thread : at'[u] \in {"idle", "k_wait", "k_woken"} => kernel'.owner # u
  BY <1>1, <1>2, <1>3, <1>5, NoThreadAssumption DEF KernelInv
<1>10. kernel.signaled \in Nat /\ kernel.signaled - 1 \in Nat /\ pc = "done" /\ kernel.done = 0
  BY <1>4, KernelFields DEF KernelInv
<1>11. kernel'.done = IF pc' = "done" /\ kernel'.signaled = 0 THEN 1 ELSE 0
  BY <1>1, <1>5, <1>10
<1> QED
  BY <1>1, <1>4, <1>5, <1>6, <1>7, <1>8, <1>9, <1>10, <1>11 DEF KernelInv


(* The steps of the main thread outside check(). *)
LEMMA MainKernel ==
  ASSUME TypeOK, KernelInv, PollOther \/ (MainStep /\ ~CheckSignal /\ ~CheckDone)
  PROVE  TypeOK' /\ KernelInv' /\ at' = at /\ kernel' = kernel
<1>1. TypeOK'
  BY WorkType, FastType, FastCallType, RunJobsType, PollType DEF MainStep
<1>2. at' = at /\ kernel' = kernel /\ pc # "done" /\ pc' # "done"
  BY DEF MainStep, Work, HandlerRuns, HandlerFreezes, HandlerStays, FastClear, FastTake,
     FastCall, FastSleep, RunJobs, PollRead, PollEmpty, PollOther, AsyncNone, AsyncProcess,
     CheckNone
<1> QED
  BY <1>1, <1>2, KernelKept

(* The steps of schedule and schedule_fast. *)
LEMMA ScheduleKernel ==
  ASSUME TypeOK, KernelInv, NEW t \in Thread,
         \/ \E c \in Async : Schedule(t, c)
         \/ \E c \in Fast : ScheduleFast(t, c)
         \/ ScheduleWake(t) \/ ScheduleFastStart(t) \/ ScheduleFastWake(t)
         \/ ScheduleFastUnlock(t)
  PROVE  TypeOK' /\ KernelInv'
<1>1. TypeOK' /\ \A u \in Thread \ {t} : at'[u] = at[u]
  BY ScheduleType, ScheduleFastType, ScheduleStepsType, GoesFacts, GoesFreeFacts
  DEF ThreadPlace, ScheduleWake, ScheduleFastStart, ScheduleFastWake, ScheduleFastUnlock
<1>2. kernel' = kernel /\ pc' = pc
  BY DEF Schedule, ScheduleFast, ScheduleWake, ScheduleFastStart, ScheduleFastWake,
     ScheduleFastUnlock, main
<1>3. at[t] \in Outside
  BY DEF Schedule, ScheduleFast, Free, ScheduleWake, ScheduleFastStart, ScheduleFastWake,
     ScheduleFastUnlock, Outside
<1>4. /\ at'[t] \in Outside
      /\ at'[t] = "section" => kernel.owner = t
      /\ at'[t] = "idle" => kernel.owner # t
  <2>1. CASE (\E c \in Async : Schedule(t, c)) \/ \E c \in Fast : ScheduleFast(t, c)
    BY <2>1, ScheduleType, ScheduleFastType DEF Outside
  <2>2. CASE ScheduleWake(t) \/ ScheduleFastUnlock(t)
    BY <2>2, GoesFreeFacts DEF Outside, ScheduleWake, ScheduleFastUnlock
  <2>3. CASE ScheduleFastStart(t) \/ ScheduleFastWake(t)
    BY <2>3, GoesFacts DEF Outside, ThreadPlace, ScheduleFastStart, ScheduleFastWake
  <2> QED
    BY <2>1, <2>2, <2>3
<1> QED
  BY <1>1, <1>2, <1>3, <1>4, KernelKept

(* Every step keeps the types and the counts of the kernel lock. *)
LEMMA KernelNext ==
  ASSUME TypeOK, KernelInv, [Next]_vars
  PROVE  TypeOK' /\ KernelInv'
<1>1. CASE PollOther \/ (MainStep /\ ~CheckSignal /\ ~CheckDone)
  BY <1>1, MainKernel
<1>2. CASE CheckSignal
  BY <1>2, CheckSignalInv
<1>3. CASE CheckDone
  BY <1>3, CheckDoneInv
<1>4. ASSUME NEW t \in Thread, ThreadStep(t) \/ KernelLock(t)
               \/ (\E c \in Async : Schedule(t, c)) \/ \E c \in Fast : ScheduleFast(t, c)
      PROVE  TypeOK' /\ KernelInv'
  BY <1>4, ScheduleKernel, KernelLockInv, KernelWaitInv, KernelEnterInv, KernelUnlockInv
  DEF ThreadStep
<1>5. CASE UNCHANGED vars
  <2>1. TypeOK'
    BY <1>5 DEF TypeOK, vars, main, fastJob, queues
  <2>2. kernel' = kernel /\ at' = at /\ pc' = pc
    BY <1>5 DEF vars, main
  <2> QED
    BY <2>1, <2>2, KernelKept
<1> QED
  BY <1>1, <1>2, <1>3, <1>4, <1>5 DEF Next, MainStep

-----------------------------------------------------------------------------
(* A callback is in one place *)

(* Where the callbacks are. *)
lists == <<ran, batch, fast, added, async>>

(* Steps that leave the lists alone. *)
LEMMA OnceKept ==
  ASSUME OnceInv, UNCHANGED lists,
         pc' = "call" \/ pc # "call" \/ batch = << >>,
         pc' \in {"poll", "async"} => pc \in {"poll", "async"} \/ added = << >>
  PROVE  OnceInv'
BY DEF OnceInv, lists

LEMMA FastTakeOnce ==
  ASSUME TypeOK, OnceInv, FastTake
  PROVE  OnceInv'
<1>1. batch = << >>
  BY DEF OnceInv, FastTake
<1> QED
  BY <1>1, EmptyFacts DEF OnceInv, FastTake

LEMMA FastCallOnce ==
  ASSUME TypeOK, OnceInv, FastCall
  PROVE  OnceInv'
<1> DEFINE c == Head(batch)
<1>1. /\ batch \in Seq(Fast) /\ batch # << >> /\ ran \in Seq(Callback) /\ pc = "call"
      /\ ran' = Append(ran, c) /\ UNCHANGED <<fast, added, async>>
      /\ pc' \in {"call", "jobs"} /\ batch' \in {<< >>, Tail(batch)}
      /\ pc' = "call" \/ batch' = << >>
  BY DEF TypeOK, FastCall, queues
<1>2. /\ c \in Fast /\ c \in Elements(batch) /\ Elements(Tail(batch)) \subseteq Elements(batch)
      /\ Distinct(Tail(batch)) /\ c \notin Elements(Tail(batch))
  BY <1>1, TailFacts DEF OnceInv
<1>3. c \notin Elements(ran)
  BY <1>2 DEF OnceInv
<1>4. Elements(Append(ran, c)) = Elements(ran) \cup {c} /\ Distinct(Append(ran, c))
  BY <1>1, <1>2, <1>3, AppendFacts DEF OnceInv, Callback
<1>5. /\ Distinct(batch') /\ Elements(batch') \subseteq Elements(batch)
      /\ c \notin Elements(batch')
  BY <1>1, <1>2, EmptyFacts
<1> HIDE DEF c
<1> QED
  BY <1>1, <1>2, <1>4, <1>5 DEF OnceInv

LEMMA RunJobsOnce ==
  ASSUME TypeOK, OnceInv, RunJobs
  PROVE  OnceInv'
<1>1. added \in Seq(Callback) /\ ran \in Seq(Callback)
  BY DEF TypeOK, Callback
<1>2. /\ Elements(ran \o added) = Elements(ran) \cup Elements(added)
      /\ Distinct(ran \o added)
  BY <1>1, ConcatFacts DEF OnceInv
<1>3. /\ ran' = ran \o added /\ added' = << >> /\ UNCHANGED <<batch, fast, async>>
      /\ pc = "jobs" /\ pc' = "poll"
  BY DEF RunJobs, queues, fastJob
<1> QED
  BY <1>2, <1>3, EmptyFacts DEF OnceInv

LEMMA AsyncProcessOnce ==
  ASSUME TypeOK, OnceInv, AsyncProcess
  PROVE  OnceInv'
<1>1. /\ added = << >> /\ added' = async /\ async' = << >>
      /\ UNCHANGED <<ran, batch, fast>> /\ pc = "async" /\ pc' = "check"
  BY DEF OnceInv, AsyncProcess, fastJob
<1> QED
  BY <1>1, EmptyFacts DEF OnceInv

(* What Fresh says of each list. *)
LEMMA FreshFacts ==
  ASSUME TypeOK, NEW c \in Callback, Fresh(c)
  PROVE  /\ c \notin Elements(ran) /\ c \notin Elements(fast) /\ c \notin Elements(async)
         /\ c \notin Elements(batch) /\ c \notin Elements(added)
<1>1. /\ ran \in Seq(Callback) /\ fast \in Seq(Callback) /\ async \in Seq(Callback)
      /\ batch \in Seq(Callback) /\ added \in Seq(Callback)
  BY DEF TypeOK, Callback
<1> DEFINE rf == ran \o fast
           rfa == rf \o async
           rfab == rfa \o batch
<1>2. rf \in Seq(Callback) /\ Elements(rf) = Elements(ran) \cup Elements(fast)
  BY <1>1, ConcatFacts
<1> HIDE DEF rf
<1>3. rfa \in Seq(Callback) /\ Elements(rfa) = Elements(rf) \cup Elements(async)
  BY <1>1, <1>2, ConcatFacts
<1> HIDE DEF rfa
<1>4. rfab \in Seq(Callback) /\ Elements(rfab) = Elements(rfa) \cup Elements(batch)
  BY <1>1, <1>3, ConcatFacts
<1> HIDE DEF rfab
<1>5. Elements(rfab \o added) = Elements(rfab) \cup Elements(added)
  BY <1>1, <1>4, ConcatFacts
<1>6. c \notin Elements(rfab \o added)
  BY DEF Fresh, rf, rfa, rfab
<1> QED
  BY <1>2, <1>3, <1>4, <1>5, <1>6

LEMMA ScheduleOnce ==
  ASSUME TypeOK, OnceInv, NEW t \in Thread, NEW c \in Async, Schedule(t, c)
  PROVE  OnceInv'
<1>1. /\ async' = Append(async, c) /\ UNCHANGED <<ran, batch, fast, added>> /\ pc' = pc
      /\ Fresh(c)
  BY DEF Schedule, fastJob, main
<1>2. /\ c \notin Elements(ran) /\ c \notin Elements(fast) /\ c \notin Elements(async)
      /\ c \notin Elements(batch) /\ c \notin Elements(added)
  BY <1>1, FreshFacts DEF Callback
<1>3. /\ Elements(Append(async, c)) = Elements(async) \cup {c}
      /\ Distinct(Append(async, c))
  BY <1>2, AppendFacts DEF TypeOK, OnceInv
<1> QED
  BY <1>1, <1>2, <1>3 DEF OnceInv

LEMMA ScheduleFastOnce ==
  ASSUME TypeOK, OnceInv, NEW t \in Thread, NEW c \in Fast, ScheduleFast(t, c)
  PROVE  OnceInv'
<1>1. /\ fast' = Append(fast, c) /\ UNCHANGED <<ran, batch, async, added>> /\ pc' = pc
      /\ Fresh(c)
  BY DEF ScheduleFast, fastJob, main
<1>2. /\ c \notin Elements(ran) /\ c \notin Elements(fast) /\ c \notin Elements(async)
      /\ c \notin Elements(batch) /\ c \notin Elements(added)
  BY <1>1, FreshFacts DEF Callback
<1>3. /\ Elements(Append(fast, c)) = Elements(fast) \cup {c}
      /\ Distinct(Append(fast, c))
  BY <1>2, AppendFacts DEF TypeOK, OnceInv
<1> QED
  BY <1>1, <1>2, <1>3 DEF OnceInv

LEMMA OnceNext ==
  ASSUME TypeOK, OnceInv, [Next]_vars
  PROVE  OnceInv'
<1>1. CASE FastTake \/ FastCall \/ RunJobs \/ AsyncProcess
  BY <1>1, FastTakeOnce, FastCallOnce, RunJobsOnce, AsyncProcessOnce
<1>2. CASE \/ Work \/ HandlerRuns \/ HandlerFreezes \/ HandlerStays \/ FastClear \/ FastSleep
           \/ PollRead \/ PollEmpty \/ PollOther \/ AsyncNone
           \/ CheckNone \/ CheckSignal \/ CheckDone
  <2>1. /\ UNCHANGED lists
        /\ pc' = "call" \/ pc # "call" \/ batch = << >>
        /\ pc' \in {"poll", "async"} => pc \in {"poll", "async"}
    BY <1>2 DEF lists, Work, HandlerRuns, HandlerFreezes, HandlerStays, FastClear, FastSleep,
       PollRead, PollEmpty, PollOther, AsyncNone, CheckNone, CheckSignal, CheckDone,
       fastJob, queues
  <2> QED
    BY <2>1, OnceKept
<1>3. ASSUME NEW t \in Thread, ThreadStep(t) \/ KernelLock(t)
      PROVE  OnceInv'
  <2>1. UNCHANGED lists /\ pc' = pc
    BY <1>3 DEF ThreadStep, KernelLock, ScheduleWake, ScheduleFastStart, ScheduleFastWake,
       ScheduleFastUnlock, KernelWait, KernelEnter, KernelUnlock, lists, main, fastJob, queues
  <2> QED
    BY <2>1, OnceKept
<1>4. CASE UNCHANGED vars
  <2>1. UNCHANGED lists /\ pc' = pc
    BY <1>4 DEF vars, lists, main, fastJob, queues
  <2> QED
    BY <2>1, OnceKept
<1> QED
  BY <1>1, <1>2, <1>3, <1>4, ScheduleOnce, ScheduleFastOnce DEF Next, MainStep

-----------------------------------------------------------------------------
(* Work left for the server is announced *)

LEMMA RoundWake ==
  ASSUME TypeOK, WakeInv, Work \/ HandlerRuns \/ HandlerFreezes \/ HandlerStays
  PROVE  WakeInv'
BY DEF TypeOK, HandlerState, WakeInv, FastIsAnnounced, At, Work, HandlerRuns, HandlerFreezes,
   HandlerStays, HandlerStarts, fastJob, queues

LEMMA FastWake ==
  ASSUME TypeOK, WakeInv, FastClear \/ FastTake \/ FastCall \/ FastSleep
  PROVE  WakeInv'
BY NoThreadAssumption
DEF TypeOK, WakeInv, FastIsAnnounced, At, FastClear, FastTake, FastCall, FastSleep,
    fastJob, queues

LEMMA PollWake ==
  ASSUME TypeOK, WakeInv, RunJobs \/ PollRead \/ PollEmpty \/ PollOther
  PROVE  WakeInv'
BY DEF TypeOK, WakeInv, FastIsAnnounced, At, RunJobs, PollRead, PollEmpty, PollOther,
   fastJob, queues

LEMMA AsyncWake ==
  ASSUME TypeOK, WakeInv, AsyncNone \/ AsyncProcess \/ CheckNone \/ CheckDone
  PROVE  WakeInv'
<1>1. CASE AsyncNone \/ AsyncProcess \/ CheckNone
  BY <1>1, KernelFields
  DEF TypeOK, WakeInv, FastIsAnnounced, At, AsyncNone, AsyncProcess, CheckNone, fastJob, queues
<1>2. CASE CheckDone
  <2>1. kernel'.waiting = kernel.waiting
    BY <1>2, KernelFields DEF CheckDone, KernelRecord
  <2>2. /\ pc = "done" /\ pc' = "work"
        /\ UNCHANGED <<pse, waitingRun, pipe, handler, tagFrozen, start, fast, fastLock, async,
                       at>>
    BY <1>2 DEF CheckDone, fastJob, queues
  <2> QED
    BY <2>1, <2>2 DEF WakeInv, FastIsAnnounced, At
<1> QED
  BY <1>1, <1>2

LEMMA CheckSignalWake ==
  ASSUME TypeOK, WakeInv, CheckSignal
  PROVE  WakeInv'
<1>1. kernel'.waiting = 0
  BY KernelFields DEF CheckSignal, KernelRecord
<1>2. \A t \in Thread : at[t] \notin {"k_wait", "k_woken"} => at'[t] = at[t]
  BY DEF CheckSignal
<1>3. \A t \in Thread : at'[t] # at[t] => at'[t] = "k_woken"
  BY DEF CheckSignal
<1>4. /\ pc = "check" /\ pc' = "done"
      /\ UNCHANGED <<pse, waitingRun, pipe, handler, tagFrozen, start, fast, fastLock, async>>
  BY DEF CheckSignal, fastJob, queues
<1> QED
  BY <1>1, <1>2, <1>3, <1>4 DEF WakeInv, FastIsAnnounced, At

(* The steps of a thread, by what each sets. *)
LEMMA ScheduleThreadWake ==
  ASSUME TypeOK, WakeInv, NEW t \in Thread,
         (\E c \in Async : Schedule(t, c)) \/ ScheduleWake(t)
  PROVE  WakeInv'
<1>1. CASE \E c \in Async : Schedule(t, c)
  <2>1. at'[t] = "s_wake" /\ \A u \in Thread \ {t} : at'[u] = at[u]
    BY <1>1, ScheduleType
  <2>2. at[t] \in {"idle", "section"}
    BY <1>1 DEF Schedule, Free
  <2>3. UNCHANGED <<pc, pse, waitingRun, pipe, handler, tagFrozen, start, fast, fastLock, kernel>>
    BY <1>1 DEF Schedule, main, fastJob
  <2> QED
    BY <2>1, <2>2, <2>3 DEF WakeInv, FastIsAnnounced, At
<1>2. CASE ScheduleWake(t)
  <2>1. at'[t] \in {"idle", "section"} /\ \A u \in Thread \ {t} : at'[u] = at[u]
    BY <1>2, GoesFreeFacts DEF ScheduleWake
  <2>2. /\ at[t] = "s_wake" /\ pipe'
        /\ UNCHANGED <<pc, pse, waitingRun, handler, tagFrozen, start, fast, fastLock, async,
                       kernel>>
    BY <1>2 DEF ScheduleWake, main, fastJob
  <2> QED
    BY <2>1, <2>2 DEF WakeInv, FastIsAnnounced, At
<1> QED
  BY <1>1, <1>2

LEMMA ScheduleFastThreadWake ==
  ASSUME TypeOK, WakeInv, NEW t \in Thread, \E c \in Fast : ScheduleFast(t, c)
  PROVE  WakeInv'
<1>1. /\ at'[t] = (IF fast = << >> THEN "f_start" ELSE "f_unlock")
      /\ \A u \in Thread \ {t} : at'[u] = at[u]
  BY ScheduleFastType
<1>2. /\ at[t] \in {"idle", "section"} /\ fastLock = NoThread /\ fastLock' = t
      /\ UNCHANGED <<pc, pse, waitingRun, pipe, handler, tagFrozen, start, async, kernel>>
  BY DEF ScheduleFast, Free, main, fastJob
<1> QED
  BY <1>1, <1>2, NoThreadAssumption DEF WakeInv, FastIsAnnounced, At

LEMMA FastStepsWake ==
  ASSUME TypeOK, WakeInv, NEW t \in Thread,
         ScheduleFastStart(t) \/ ScheduleFastWake(t) \/ ScheduleFastUnlock(t)
  PROVE  WakeInv'
<1>1. CASE ScheduleFastStart(t)
  <2>1. at'[t] = "f_wake" /\ \A u \in Thread \ {t} : at'[u] = at[u]
    BY <1>1, GoesFacts DEF ScheduleFastStart, ThreadPlace
  <2>2. /\ at[t] = "f_start" /\ start'
        /\ UNCHANGED <<pc, pse, waitingRun, pipe, handler, tagFrozen, fast, fastLock, async,
                       kernel>>
    BY <1>1 DEF ScheduleFastStart, main, fastJob
  <2> QED
    BY <2>1, <2>2 DEF WakeInv, FastIsAnnounced, At
<1>2. CASE ScheduleFastWake(t)
  <2>1. at'[t] = "f_unlock" /\ \A u \in Thread \ {t} : at'[u] = at[u]
    BY <1>2, GoesFacts DEF ScheduleFastWake, ThreadPlace
  <2>2. /\ at[t] = "f_wake" /\ pipe'
        /\ UNCHANGED <<pc, pse, waitingRun, handler, tagFrozen, start, fast, fastLock, async,
                       kernel>>
    BY <1>2 DEF ScheduleFastWake, main, fastJob, queues
  <2> QED
    BY <2>1, <2>2 DEF WakeInv, FastIsAnnounced, At
<1>3. CASE ScheduleFastUnlock(t)
  <2>1. at'[t] \in {"idle", "section"} /\ \A u \in Thread \ {t} : at'[u] = at[u]
    BY <1>3, GoesFreeFacts DEF ScheduleFastUnlock
  <2>2. /\ at[t] = "f_unlock"
        /\ UNCHANGED <<pc, pse, waitingRun, pipe, handler, tagFrozen, start, fast, async, kernel>>
    BY <1>3 DEF ScheduleFastUnlock, main, fastJob
  <2>3. \A u \in Thread : at'[u] \notin {"f_start", "f_wake", "f_unlock"}
    BY <2>1, <2>2 DEF WakeInv
  <2> QED
    BY <2>1, <2>2, <2>3 DEF WakeInv, FastIsAnnounced, At
<1> QED
  BY <1>1, <1>2, <1>3

LEMMA KernelStepsWake ==
  ASSUME TypeOK, WakeInv, NEW t \in Thread,
         KernelLock(t) \/ KernelWait(t) \/ KernelEnter(t) \/ KernelUnlock(t)
  PROVE  WakeInv'
<1>1. UNCHANGED <<pc, pse, waitingRun, handler, tagFrozen, start, fast, fastLock, async>>
  BY DEF KernelLock, KernelWait, KernelEnter, KernelUnlock, main, fastJob, queues
<1>2. /\ at[t] \notin {"s_wake", "f_start", "f_wake", "f_unlock"}
      /\ at'[t] \notin {"s_wake", "f_start", "f_wake", "f_unlock"}
      /\ \A u \in Thread \ {t} : at'[u] = at[u]
  BY GoesFacts DEF KernelLock, KernelWait, KernelEnter, KernelUnlock, ThreadPlace
<1>3. kernel'.waiting > 0 => pipe' \/ pc' \in {"async", "check"} \/ At({"k_wake"})'
  <2>1. CASE KernelLock(t)
    BY <2>1, GoesFacts DEF KernelLock, ThreadPlace, At
  <2>2. CASE KernelWait(t)
    BY <2>2 DEF KernelWait
  <2>3. CASE KernelEnter(t) \/ KernelUnlock(t)
    <3>1. kernel'.waiting = kernel.waiting /\ at[t] # "k_wake" /\ UNCHANGED <<pc, pipe>>
      BY <2>3, KernelFields DEF KernelEnter, KernelUnlock, KernelRecord, main
    <3> QED
      BY <1>2, <3>1 DEF WakeInv, At
  <2> QED
    BY <2>1, <2>2, <2>3
<1>4. pipe => pipe'
  BY DEF KernelLock, KernelWait, KernelEnter, KernelUnlock
<1>5. At({"s_wake"}) => At({"s_wake"})'
  BY <1>2 DEF At
<1>6. At({"f_start", "f_wake"}) => At({"f_start", "f_wake"})'
  BY <1>2 DEF At
<1>7. FastIsAnnounced => FastIsAnnounced'
  BY <1>1, <1>4, <1>6 DEF FastIsAnnounced
<1> QED
  BY <1>1, <1>2, <1>3, <1>4, <1>5, <1>7 DEF WakeInv

LEMMA WakeNext ==
  ASSUME TypeOK, WakeInv, [Next]_vars
  PROVE  WakeInv'
<1>1. CASE MainStep \/ PollOther
  BY <1>1, RoundWake, FastWake, PollWake, AsyncWake, CheckSignalWake DEF MainStep
<1>2. ASSUME NEW t \in Thread, ThreadStep(t) \/ KernelLock(t)
               \/ (\E c \in Async : Schedule(t, c)) \/ \E c \in Fast : ScheduleFast(t, c)
      PROVE  WakeInv'
  BY <1>2, ScheduleThreadWake, ScheduleFastThreadWake, FastStepsWake, KernelStepsWake
  DEF ThreadStep
<1>3. CASE UNCHANGED vars
  BY <1>3 DEF vars, main, fastJob, queues, WakeInv, FastIsAnnounced, At
<1> QED
  BY <1>1, <1>2, <1>3 DEF Next

-----------------------------------------------------------------------------
(* The theorems *)

(* The inductive invariant of the server. *)
THEOREM SpecServerInv == Spec => []ServerInv
<1>1. ServerInv /\ [Next]_vars => ServerInv'
  BY KernelNext, OnceNext, WakeNext DEF ServerInv
<1> QED
  BY InitInv, <1>1, PTL DEF Spec

(* Type correctness of the server. *)
THEOREM SpecTypeOK == Spec => []TypeOK
<1>1. ServerInv => TypeOK
  BY DEF ServerInv
<1> QED
  BY SpecServerInv, <1>1, PTL

(* wake_up: whenever the main thread sleeps in poll, every piece of work     *)
(* left for it belongs to a thread that is still about to wake it up.       *)
THEOREM SpecNoLostWakeUp == Spec => []NoLostWakeUp
<1>1. ServerInv => NoLostWakeUp
  BY DEF ServerInv, OnceInv, WakeInv, FastIsAnnounced, NoLostWakeUp, Asleep
<1> QED
  BY SpecServerInv, <1>1, PTL

(* schedule, schedule_fast: no callback is run twice or kept after it ran.  *)
THEOREM SpecRunOnce == Spec => []RunOnce
<1>1. ServerInv => RunOnce
  <2> SUFFICES ASSUME TypeOK, OnceInv PROVE RunOnce
    BY DEF ServerInv
  <2>1. /\ ran \in Seq(Callback) /\ fast \in Seq(Callback) /\ async \in Seq(Callback)
        /\ batch \in Seq(Callback) /\ added \in Seq(Callback)
    BY DEF TypeOK, Callback
  <2> DEFINE rb == ran \o batch
             rbf == rb \o fast
             rbfa == rbf \o added
             all == rbfa \o async
  <2>2. /\ rb \in Seq(Callback) /\ Elements(rb) = Elements(ran) \cup Elements(batch)
        /\ Distinct(rb)
    <3>1. Elements(ran) \cap Elements(batch) = {} /\ Distinct(ran) /\ Distinct(batch)
      BY DEF OnceInv
    <3> QED
      BY <2>1, <3>1, ConcatFacts
  <2> HIDE DEF rb
  <2>3. /\ rbf \in Seq(Callback) /\ Elements(rbf) = Elements(rb) \cup Elements(fast)
        /\ Distinct(rbf)
    <3>1. Elements(rb) \cap Elements(fast) = {} /\ Distinct(fast)
      BY <2>2 DEF OnceInv
    <3> QED
      BY <2>1, <2>2, <3>1, ConcatFacts
  <2> HIDE DEF rbf
  <2>4. /\ rbfa \in Seq(Callback) /\ Elements(rbfa) = Elements(rbf) \cup Elements(added)
        /\ Distinct(rbfa)
    <3>1. Elements(rbf) \cap Elements(added) = {} /\ Distinct(added)
      BY <2>2, <2>3 DEF OnceInv
    <3> QED
      BY <2>1, <2>3, <3>1, ConcatFacts
  <2> HIDE DEF rbfa
  <2>5. all \in Seq(Callback) /\ Distinct(all)
    <3>1. Elements(rbfa) \cap Elements(async) = {} /\ Distinct(async)
      BY <2>2, <2>3, <2>4 DEF OnceInv
    <3> QED
      BY <2>1, <2>4, <3>1, ConcatFacts
  <2> HIDE DEF all
  <2>6. Cardinality(Elements(all)) = Len(all)
    BY <2>5, DistinctCount
  <2> QED
    BY <2>6 DEF RunOnce, rb, rbf, rbfa, all
<1> QED
  BY SpecServerInv, <1>1, PTL

(* Synchronizer: a thread is in its section only while the main thread is    *)
(* held in check(), and owns the lock alone.                                *)
THEOREM SpecKernelLockExclusion == Spec => []KernelLockExclusion
<1>1. ServerInv => KernelLockExclusion
  <2> SUFFICES ASSUME TypeOK, KernelInv, NEW t \in Thread, at[t] = "section"
               PROVE  pc = "done" /\ kernel.done = 0 /\ kernel.owner = t
    BY DEF ServerInv, KernelLockExclusion
  <2>1. kernel.owner = t /\ t \in LetIn
    BY DEF KernelInv, LetIn
  <2>2. kernel.signaled # 0
    <3>1. IsFiniteSet(LetIn) /\ kernel.signaled = Cardinality(LetIn)
      BY DEF KernelInv
    <3> QED
      BY <2>1, <3>1, FS_EmptySet
  <2> QED
    BY <2>1, <2>2 DEF KernelInv
<1> QED
  BY SpecServerInv, <1>1, PTL
=============================================================================
