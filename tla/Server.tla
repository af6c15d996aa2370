------------------------------- MODULE Server -------------------------------
(***************************************************************************)
(* The main loop of the Urbi server and the threads that give it work:     *)
(* UServer::work, schedule, schedule_fast, wake_up (src/kernel/userver.cc),*)
(* the poll of the idle job (src/object/system.cc) and the big kernel lock *)
(* (libport::Synchronizer), which the threads of Process and Directory     *)
(* take.                                                                   *)
(*                                                                         *)
(* The main thread is the only one to touch the scheduler.  Of the         *)
(* scheduler this module keeps what decides whether the main loop sleeps:  *)
(* possible_side_effect_, the deadline and the fast handler's state; the   *)
(* rest is module Scheduler.  The sleep has no useful time-out (one hour). *)
(***************************************************************************)
EXTENDS Integers, Sequences, FiniteSets, Lists

CONSTANTS
  Thread,   \* the threads other than the main one
  Async,    \* the callbacks given to schedule, each once
  Fast,     \* the callbacks given to schedule_fast, each once
  Failing,  \* the callbacks that end with an urbiscript error
  NoThread  \* nobody holds the lock

ASSUME NoThreadAssumption == NoThread \notin Thread
ASSUME CallbackAssumption == Async \cap Fast = {} /\ Failing \subseteq Async \cup Fast

VARIABLES
  pc,         \* where the main thread is, see MainPlace
  pse,        \* Scheduler::possible_side_effect_
  waitingRun, \* start_waiting of this round
  immediate,  \* deadline_ is SCHED_IMMEDIATE
  pipe,       \* the wake-up pipe holds a byte
  handler,    \* the state of fast_async_jobs_job_, see HandlerState
  tagFrozen,  \* fast_async_jobs_tag_ is frozen
  batch,      \* the local jobs of fast_async_jobs_run_
  start,      \* fast_async_jobs_start_
  fast,       \* fast_async_jobs_
  fastLock,   \* the owner of fast_async_jobs_lock_
  async,      \* async_jobs_
  asyncLock,  \* the owner of async_jobs_lock_
  added,      \* the jobs async_jobs_process_ created that have not run
  kernel,     \* the Synchronizer, see KernelRecord
  at,         \* where each thread is, see ThreadPlace
  ran         \* history: the callbacks in the order they were run

main == <<pc, pse, waitingRun, immediate>>
fastJob == <<handler, tagFrozen, batch>>
queues == <<start, fast, fastLock, async, asyncLock>>
vars == <<main, pipe, fastJob, queues, added, kernel, at, ran>>

Callback == Async \cup Fast

(* work(): before the round, in it, in the fast handler (three places), in  *)
(* the poll, at the test of async_jobs_, in check() and in its done_--.     *)
MainPlace == {"work", "round", "clear", "take", "call", "jobs",
              "poll", "async", "check", "done"}

(* sched::job_state of the handler.                                        *)
HandlerState == {"to_start", "running", "waiting", "zombie"}

(* Synchronizer: the owner of cond_, waiting_count_, signaled_count_, done_. *)
KernelRecord == [owner : Thread \cup {NoThread}, waiting : Nat,
                 signaled : Nat, done : Nat]

(* Inside schedule, schedule_fast, and the SynchroPoint with its section.  *)
ThreadPlace == {"idle", "s_wake", "f_start", "f_wake", "f_unlock",
                "k_wake", "k_wait", "k_woken", "section"}

(* Types. *)
TypeOK ==
  /\ pc \in MainPlace /\ pse \in BOOLEAN /\ waitingRun \in BOOLEAN
  /\ immediate \in BOOLEAN /\ pipe \in BOOLEAN
  /\ handler \in HandlerState /\ tagFrozen \in BOOLEAN /\ batch \in Seq(Fast)
  /\ start \in BOOLEAN
  /\ fast \in Seq(Fast) /\ fastLock \in Thread \cup {NoThread}
  /\ async \in Seq(Async) /\ asyncLock \in Thread \cup {NoThread}
  /\ added \in Seq(Async) /\ kernel \in KernelRecord
  /\ at \in [Thread -> ThreadPlace]
  /\ ran \in Seq(Callback)

Init ==
  /\ pc = "work" /\ pse = TRUE /\ waitingRun = FALSE /\ immediate = FALSE
  /\ pipe = FALSE
  /\ handler = "to_start" /\ tagFrozen = FALSE /\ batch = << >>
  /\ start = FALSE /\ fast = << >> /\ fastLock = NoThread
  /\ async = << >> /\ asyncLock = NoThread /\ added = << >>
  /\ kernel = [owner |-> NoThread, waiting |-> 0, signaled |-> 0, done |-> 0]
  /\ at = [t \in Thread |-> "idle"]
  /\ ran = << >>

-----------------------------------------------------------------------------
(* The main thread: the round *)

(* work(): unfreeze the handler's tag if asked to; then execute_round.     *)
Work ==
  /\ pc = "work" /\ pc' = "round"
  /\ tagFrozen' = (tagFrozen /\ ~start)
  /\ waitingRun' = pse /\ pse' = FALSE /\ immediate' = FALSE
  /\ UNCHANGED <<pipe, handler, batch, queues, added, kernel, at, ran>>

(* Is the handler started, and does it run?  A running job is started even  *)
(* when it is frozen.                                                       *)
HandlerStarts ==
  \/ handler \in {"to_start", "running"}
  \/ handler = "waiting" /\ (waitingRun \/ pse) /\ ~tagFrozen

(* The round at the handler, that is not frozen: its next loop iteration.   *)
HandlerRuns ==
  /\ pc = "round" /\ HandlerStarts /\ ~tagFrozen
  /\ pc' = "clear"
  /\ pse' = (pse \/ handler = "running")
  /\ UNCHANGED <<waitingRun, immediate, pipe, fastJob, queues, added, kernel, at, ran>>

(* Started and frozen: resume_scheduler makes it a side-effect-free waiting *)
(* job.                                                                     *)
HandlerFreezes ==
  /\ pc = "round" /\ handler = "running" /\ tagFrozen
  /\ pc' = "jobs" /\ pse' = TRUE /\ handler' = "waiting"
  /\ UNCHANGED <<waitingRun, immediate, pipe, tagFrozen, batch, queues, added, kernel,
                 at, ran>>

HandlerStays ==
  /\ pc = "round" /\ ~HandlerStarts
  /\ pc' = "jobs"
  /\ UNCHANGED <<pse, waitingRun, immediate, pipe, fastJob, queues, added, kernel,
                 at, ran>>

(* fast_async_jobs_start_ = false, without the lock. *)
FastClear ==
  /\ pc = "clear" /\ pc' = "take"
  /\ start' = FALSE
  /\ UNCHANGED <<pse, waitingRun, immediate, pipe, fastJob, fast, fastLock, async,
                 asyncLock, added, kernel, at, ran>>

(* Mutant of FastTake: a copy, the vector is cleared when it is next empty. *)
FastTakeCopy ==
  /\ pc = "take" /\ fastLock = NoThread
  /\ pc' = "call"
  /\ batch' = fast
  /\ UNCHANGED <<pse, waitingRun, immediate, pipe, handler, tagFrozen, queues, added,
                 kernel, at, ran>>

(* The swap, under the lock. *)
FastTake ==
  /\ pc = "take" /\ fastLock = NoThread
  /\ pc' = "call"
  /\ batch' = fast /\ fast' = << >>
  /\ UNCHANGED <<pse, waitingRun, immediate, pipe, handler, tagFrozen, start, fastLock,
                 async, asyncLock, added, kernel, at, ran>>

(* One callback of the batch.  An error goes through fast_async_jobs_run_   *)
(* and ends the handler's job, with the rest of the batch.                  *)
FastCall ==
  /\ pc = "call" /\ batch # << >>
  /\ ran' = Append(ran, Head(batch))
  /\ IF Head(batch) \in Failing
     THEN /\ pc' = "jobs" /\ handler' = "zombie" /\ batch' = << >>
          /\ immediate' = (handler = "to_start") /\ pse' = (pse \/ ~immediate')
     ELSE batch' = Tail(batch) /\ UNCHANGED <<pc, handler, pse, immediate>>
  /\ UNCHANGED <<waitingRun, pipe, tagFrozen, queues, added, kernel, at>>

(* Mutant of FastSleep: the flag is reset here, after the callbacks.       *)
FastSleepClears ==
  /\ pc = "call" /\ batch = << >>
  /\ pc' = "jobs"
  /\ tagFrozen' = TRUE /\ handler' = "running" /\ immediate' = TRUE
  /\ pse' = (pse \/ handler # "to_start")
  /\ start' = FALSE
  /\ UNCHANGED <<waitingRun, pipe, batch, fast, fastLock, async, asyncLock, added,
                 kernel, at, ran>>

(* The end of the loop: the handler freezes its own tag and yields.  The    *)
(* first quantum of a job is not remembered as a possible side effect.      *)
FastSleep ==
  /\ pc = "call" /\ batch = << >>
  /\ pc' = "jobs"
  /\ tagFrozen' = TRUE /\ handler' = "running" /\ immediate' = TRUE
  /\ pse' = (pse \/ handler # "to_start")
  /\ UNCHANGED <<waitingRun, pipe, batch, queues, added, kernel, at, ran>>

(* The rest of the round: the jobs created for async_jobs_, each its own.   *)
(* The other jobs of the server may have run and changed the world.         *)
RunJobs ==
  /\ pc = "jobs" /\ pc' = "poll"
  /\ ran' = ran \o added /\ added' = << >>
  /\ \E others \in BOOLEAN :
       /\ pse' = (pse \/ others)
       /\ immediate' = (immediate \/ pse' \/ added # << >>)
  /\ UNCHANGED <<waitingRun, pipe, fastJob, queues, kernel, at>>

-----------------------------------------------------------------------------
(* The main thread: the rest of work() *)

(* Mutant of PollRead: the reader does not signal_world_change.            *)
PollReadQuietly ==
  /\ pc = "poll" /\ pipe
  /\ pc' = "async" /\ pipe' = FALSE
  /\ UNCHANGED <<pse, waitingRun, immediate, fastJob, queues, added, kernel, at, ran>>

(* system_poll, with a byte to read: waker_socket_on_read. *)
PollRead ==
  /\ pc = "poll" /\ pipe
  /\ pc' = "async" /\ pipe' = FALSE /\ pse' = TRUE
  /\ UNCHANGED <<waitingRun, immediate, fastJob, queues, added, kernel, at, ran>>

(* Nothing to read, and no reason to wait. *)
PollEmpty ==
  /\ pc = "poll" /\ ~pipe /\ immediate
  /\ pc' = "async"
  /\ UNCHANGED <<pse, waitingRun, immediate, pipe, fastJob, queues, added, kernel,
                 at, ran>>

(* The deadline passes, or a socket that is not modelled becomes readable. *)
PollOther ==
  /\ pc = "poll" /\ ~pipe /\ ~immediate
  /\ pc' = "async"
  /\ UNCHANGED <<pse, waitingRun, immediate, pipe, fastJob, queues, added, kernel,
                 at, ran>>

(* !async_jobs_.empty(), read without the lock, is false. *)
AsyncNone ==
  /\ pc = "async" /\ async = << >>
  /\ pc' = "check"
  /\ UNCHANGED <<pse, waitingRun, immediate, pipe, fastJob, queues, added, kernel,
                 at, ran>>

(* async_jobs_process_: swap under the lock, create the jobs, wake_up. *)
AsyncProcess ==
  /\ pc = "async" /\ async # << >> /\ asyncLock = NoThread
  /\ pc' = "check"
  /\ added' = async /\ async' = << >>
  /\ pipe' = TRUE
  /\ UNCHANGED <<pse, waitingRun, immediate, fastJob, start, fast, fastLock, asyncLock,
                 kernel, at, ran>>

(* Synchronizer::check, when waiting_count_, read without cond_, is 0. *)
CheckNone ==
  /\ pc = "check" /\ kernel.waiting = 0
  /\ pc' = "work"
  /\ UNCHANGED <<pse, waitingRun, immediate, pipe, fastJob, queues, added, kernel,
                 at, ran>>

(* check: the waiting threads become signaled, and are woken. *)
CheckSignal ==
  /\ pc = "check" /\ kernel.waiting > 0 /\ kernel.owner = NoThread
  /\ pc' = "done"
  /\ kernel' = [kernel EXCEPT !.signaled = kernel.waiting, !.waiting = 0]
  /\ at' = [t \in Thread |-> IF at[t] = "k_wait" THEN "k_woken" ELSE at[t]]
  /\ UNCHANGED <<pse, waitingRun, immediate, pipe, fastJob, queues, added, ran>>

(* done_--, which waits for the last section. *)
CheckDone ==
  /\ pc = "done" /\ kernel.done > 0
  /\ pc' = "work"
  /\ kernel' = [kernel EXCEPT !.done = @ - 1]
  /\ UNCHANGED <<pse, waitingRun, immediate, pipe, fastJob, queues, added, at, ran>>

MainStep ==
  \/ Work \/ HandlerRuns \/ HandlerFreezes \/ HandlerStays
  \/ FastClear \/ FastTake \/ FastCall \/ FastSleep \/ RunJobs
  \/ PollRead \/ PollEmpty \/ AsyncNone \/ AsyncProcess
  \/ CheckNone \/ CheckSignal \/ CheckDone

-----------------------------------------------------------------------------
(* The other threads *)

(* Not scheduled yet: every callback is given to the server once. *)
Fresh(c) == c \notin Elements(ran \o fast \o async \o batch \o added)

Goes(t, place) == at' = [at EXCEPT ![t] = place]

(* Back to the thread's own code, in the section or out of it. *)
Free(t) == at[t] = IF kernel.owner = t THEN "section" ELSE "idle"
GoesFree(t) == Goes(t, IF kernel.owner = t THEN "section" ELSE "idle")

(* UServer::schedule: under the lock, insert the callback, then wake_up. *)
Schedule(t, c) ==
  /\ Free(t) /\ Fresh(c) /\ asyncLock = NoThread
  /\ asyncLock' = t /\ async' = Append(async, c)
  /\ Goes(t, "s_wake")
  /\ UNCHANGED <<main, pipe, fastJob, start, fast, fastLock, added, kernel, ran>>

ScheduleWake(t) ==
  /\ at[t] = "s_wake" /\ GoesFree(t)
  /\ pipe' = TRUE /\ asyncLock' = NoThread
  /\ UNCHANGED <<main, fastJob, start, fast, fastLock, async, added, kernel, ran>>

(* UServer::schedule_fast: under the lock, insert the callback; only the    *)
(* first one of a batch asks for the handler.                               *)
ScheduleFast(t, c) ==
  /\ Free(t) /\ Fresh(c) /\ fastLock = NoThread
  /\ fastLock' = t /\ fast' = Append(fast, c)
  /\ Goes(t, IF fast = << >> THEN "f_start" ELSE "f_unlock")
  /\ UNCHANGED <<main, pipe, fastJob, start, async, asyncLock, added, kernel, ran>>

(* fast_async_jobs_start_ = true: the main thread reads and writes the flag *)
(* without the lock.                                                        *)
ScheduleFastStart(t) ==
  /\ at[t] = "f_start" /\ Goes(t, "f_wake")
  /\ start' = TRUE
  /\ UNCHANGED <<main, pipe, fastJob, fast, fastLock, async, asyncLock, added, kernel, ran>>

ScheduleFastWake(t) ==
  /\ at[t] = "f_wake" /\ Goes(t, "f_unlock")
  /\ pipe' = TRUE
  /\ UNCHANGED <<main, fastJob, queues, added, kernel, ran>>

ScheduleFastUnlock(t) ==
  /\ at[t] = "f_unlock" /\ GoesFree(t)
  /\ fastLock' = NoThread
  /\ UNCHANGED <<main, pipe, fastJob, start, fast, async, asyncLock, added, kernel, ran>>

(* Synchronizer::lock: count oneself under cond_, call on_lock_ (wake_up),   *)
(* and wait, which releases cond_.                                          *)
KernelLock(t) ==
  /\ at[t] = "idle" /\ kernel.owner = NoThread
  /\ kernel' = [kernel EXCEPT !.owner = t, !.waiting = @ + 1]
  /\ Goes(t, "k_wake")
  /\ UNCHANGED <<main, pipe, fastJob, queues, added, ran>>

(* Mutant of KernelWait: setOnLock was not called.                         *)
KernelWaitSilently(t) ==
  /\ at[t] = "k_wake" /\ Goes(t, "k_wait")
  /\ kernel' = [kernel EXCEPT !.owner = NoThread]
  /\ UNCHANGED <<main, pipe, fastJob, queues, added, ran>>

KernelWait(t) ==
  /\ at[t] = "k_wake" /\ Goes(t, "k_wait")
  /\ pipe' = TRUE
  /\ kernel' = [kernel EXCEPT !.owner = NoThread]
  /\ UNCHANGED <<main, fastJob, queues, added, ran>>

(* Woken by the broadcast, the thread owns cond_ again: its section begins. *)
KernelEnter(t) ==
  /\ at[t] = "k_woken" /\ kernel.owner = NoThread
  /\ kernel' = [kernel EXCEPT !.owner = t]
  /\ Goes(t, "section")
  /\ UNCHANGED <<main, pipe, fastJob, queues, added, ran>>

(* Mutant of KernelUnlock: every section signals the main thread.          *)
KernelUnlockEach(t) ==
  /\ at[t] = "section" /\ Goes(t, "idle")
  /\ kernel' = [kernel EXCEPT !.owner = NoThread, !.signaled = @ - 1,
                              !.done = @ + 1]
  /\ UNCHANGED <<main, pipe, fastJob, queues, added, ran>>

(* Synchronizer::unlock: the last of the signaled threads ends check(). *)
KernelUnlock(t) ==
  /\ at[t] = "section" /\ Goes(t, "idle")
  /\ kernel' = [kernel EXCEPT !.owner = NoThread, !.signaled = @ - 1,
                              !.done = IF kernel.signaled = 1 THEN @ + 1 ELSE @]
  /\ UNCHANGED <<main, pipe, fastJob, queues, added, ran>>

(* What a thread does once it has begun something. *)
ThreadStep(t) ==
  \/ ScheduleWake(t)
  \/ ScheduleFastStart(t) \/ ScheduleFastWake(t) \/ ScheduleFastUnlock(t)
  \/ KernelWait(t) \/ KernelEnter(t) \/ KernelUnlock(t)

Next ==
  \/ MainStep \/ PollOther
  \/ \E t \in Thread :
       \/ ThreadStep(t) \/ KernelLock(t)
       \/ \E c \in Async : Schedule(t, c)
       \/ \E c \in Fast : ScheduleFast(t, c)

Spec == Init /\ [][Next]_vars

(* The main thread and the other threads keep running.  Nothing makes the   *)
(* poll return when nobody wakes the server up (PollOther), and a thread    *)
(* need not give the server work.                                           *)
Fairness ==
  /\ WF_vars(MainStep)
  /\ \A t \in Thread : WF_vars(ThreadStep(t))

FairSpec == Spec /\ Fairness

-----------------------------------------------------------------------------
(* Properties *)

(* The main thread sleeps in poll and nothing is on its way to wake it. *)
Asleep == pc = "poll" /\ ~pipe /\ ~immediate

At(P) == \E t \in Thread : at[t] \in P

(* wake_up: whenever the server sleeps, the work that a thread left for it   *)
(* (a callback, a fast callback while the handler lives, a request for the  *)
(* kernel lock) is work whose thread is still about to call wake_up.        *)
NoLostWakeUp ==
  Asleep =>
    /\ async # << >> => At({"s_wake"})
    /\ fast # << >> /\ handler # "zombie" => At({"f_start", "f_wake"})
    /\ kernel.waiting > 0 => At({"k_wake"})
    /\ added = << >> /\ batch = << >>

(* schedule, schedule_fast: no callback is run twice, or run while a copy of *)
(* it is still in a queue.                                                  *)
RunOnce ==
  LET all == ran \o batch \o fast \o added \o async
  IN Cardinality(Elements(all)) = Len(all)

(* Synchronizer: a thread is in its section only while the main thread is    *)
(* held in check(), and only one is.                                        *)
KernelLockExclusion ==
  \A t \in Thread :
    at[t] = "section" => pc = "done" /\ kernel.done = 0 /\ kernel.owner = t

(* The invariants these follow from.  The Synchronizer counts the threads    *)
(* that ask for the lock and those that were let in, in their section or on  *)
(* the way to it; the main thread is in check() as long as there is one.    *)
Asking == {t \in Thread : at[t] \in {"k_wake", "k_wait"}}
LetIn == {t \in Thread : at[t] = "k_woken" \/ (kernel.owner = t /\ at[t] # "k_wake")}
KernelInv ==
  /\ \A t \in Thread : at[t] \in {"k_wake", "section"} => kernel.owner = t
  /\ \A t \in Thread : at[t] \in {"idle", "k_wait", "k_woken"} => kernel.owner # t
  /\ IsFiniteSet(Asking) /\ kernel.waiting = Cardinality(Asking)
  /\ IsFiniteSet(LetIn) /\ kernel.signaled = Cardinality(LetIn)
  /\ kernel.done = IF pc = "done" /\ kernel.signaled = 0 THEN 1 ELSE 0
  /\ pc # "done" => kernel.signaled = 0

(* A callback is in one place; the local list of fast_async_jobs_run_ and     *)
(* the new jobs are there only between two points of work().                *)
OnceInv ==
  /\ Distinct(ran) /\ Distinct(batch) /\ Distinct(fast) /\ Distinct(added) /\ Distinct(async)
  /\ Elements(batch) \cap Elements(ran) = {}
  /\ Elements(fast) \cap (Elements(ran) \cup Elements(batch)) = {}
  /\ Elements(added) \cap (Elements(ran) \cup Elements(batch) \cup Elements(fast)) = {}
  /\ Elements(async) \cap (Elements(ran) \cup Elements(batch) \cup Elements(fast)
                           \cup Elements(added)) = {}
  /\ pc # "call" => batch = << >>
  /\ pc \in {"poll", "async"} => added = << >>

(* Work that is left for the server is announced: by the pipe, by a thread    *)
(* about to write to it, or by what the main thread has read and still       *)
(* remembers.                                                               *)
FastIsAnnounced ==
  \/ At({"f_start", "f_wake"}) \/ pc \in {"clear", "take"}
  \/ start /\ \/ pipe
              \/ pc \in {"async", "check", "done", "work"} /\ pse
              \/ pc = "round" /\ waitingRun /\ ~tagFrozen
WakeInv ==
  /\ async # << >> => pipe \/ pc = "async" \/ At({"s_wake"})
  /\ kernel.waiting > 0 => pipe \/ pc \in {"async", "check"} \/ At({"k_wake"})
  /\ fast # << >> /\ handler # "zombie" => FastIsAnnounced
  /\ pc \in {"clear", "take", "call"} => handler # "zombie"
  /\ \A t \in Thread : at[t] = "f_wake" => start \/ pc = "take"
  /\ \A t \in Thread : at[t] \in {"f_start", "f_wake", "f_unlock"} => fastLock = t

ServerInv == TypeOK /\ KernelInv /\ OnceInv /\ WakeInv

(* schedule, schedule_fast: every callback is run, unless it was for the     *)
(* handler and the handler has died of an error.                            *)
EveryCallbackRuns ==
  \A c \in Callback :
    c \in Elements(fast \o async) ~>
      (c \in Elements(ran) \/ (c \in Fast /\ handler = "zombie"))

(* Synchronizer: a thread that asks for the kernel lock gets it.           *)
KernelLockGranted ==
  \A t \in Thread : at[t] = "k_wake" ~> at[t] = "section"

(* fast_async_jobs_run_: the job that handles the fast callbacks never ends. *)
HandlerIsAlways == handler # "zombie"
=============================================================================
