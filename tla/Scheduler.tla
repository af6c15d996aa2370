----------------------------- MODULE Scheduler -----------------------------
(***************************************************************************)
(* The cooperative scheduler of the Urbi kernel: sched::Scheduler and      *)
(* sched::Job (sdk-remote/libport/lib/sched), with the tag stack that      *)
(* runner::Runner adds to a job.                                           *)
(*                                                                         *)
(* Jobs are coroutines of one thread.  A round (execute_round) walks the   *)
(* list pending and switches to each job that may run; the job executes    *)
(* a quantum (any sequence of the job operations below) and gives the      *)
(* processor back from resume_scheduler, which queues it in jobs for the   *)
(* next round.  What a job's program does is not modelled: a quantum is    *)
(* an arbitrary sequence of operations, restricted to the set Ops.         *)
(*                                                                         *)
(* Time is abstracted: whether a sleeping job's deadline has passed is a   *)
(* free choice, and the wake-up date a round returns is one of             *)
(* "immediate" (SCHED_IMMEDIATE), "later" (a date) and "exit" (SCHED_EXIT).*)
(***************************************************************************)
EXTENDS Naturals, Sequences, FiniteSets

CONSTANTS
  Job,      \* every job that may be created; a job is created at most once
  Tag,      \* the tags
  NoJob,    \* the null pointer; also a node erased from pending
  RTTag,    \* the tags whose priority is at least UPRIO_RT_MIN
  MaxDepth, \* bound: the longest tag stack considered
  Ops       \* the operations that jobs and the server loop may use

ASSUME NoJobAssumption == NoJob \notin Job
ASSUME RTTagAssumption == RTTag \subseteq Tag
ASSUME MaxDepthAssumption == MaxDepth \in Nat

VARIABLES
  job,        \* the Job objects, see JobRecord
  frozenTag,  \* the tags t with t.frozen_
  jobs,       \* Scheduler::jobs_
  pending,    \* Scheduler::pending_: a node per index, NoJob once erased
  job_p,      \* the node the round is at
  next_job_p, \* Scheduler::next_job_p_: the node before which add_job inserts
  current,    \* Scheduler::current_job_ (the idle job: see phase)
  thrown,     \* the exception propagating in current, if any
  first,      \* current was entered by coroutine_start, not by a switch
  pse,        \* Scheduler::possible_side_effect_
  start_waiting, \* the local of execute_round
  deadline,   \* Scheduler::deadline_
  ready_to_die, \* Scheduler::ready_to_die_
  phase       \* where the server's thread is, see Phase

flags == <<pse, start_waiting, deadline, ready_to_die>>
round == <<pending, job_p, next_job_p>>
vars == <<job, frozenTag, jobs, round, current, thrown, first, flags, phase>>

-----------------------------------------------------------------------------
(* Data *)

(* sched::job_state, plus "unborn" (not created yet) and "removed" (erased *)
(* from pending by signal_stop before it ever ran: nobody will run it).    *)
JobState == {"unborn", "to_start", "running", "sleeping", "waiting",
             "joining", "zombie", "removed"}

(* "round": inside execute_round.  "idle": in the idle job, that polls the  *)
(* sockets after each round.  "main": in UServer::work, no current job.     *)
(* "exit": SCHED_EXIT was returned.  "undefined": an erased list node was   *)
(* used, the C++ program has no defined behaviour any more.                 *)
Phase == {"main", "round", "idle", "exit", "undefined"}

(* TerminateException, StopException(depth) and ChildException.            *)
Exception == [kind : {"none", "terminate", "stop", "child"}, depth : Nat]
NoException == [kind |-> "none", depth |-> 0]
TerminateException == [kind |-> "terminate", depth |-> 0]
ChildException == [kind |-> "child", depth |-> 0]
StopException(d) == [kind |-> "stop", depth |-> d]

JobRecord ==
  [state : JobState,
   exc : Exception,           \* pending_exception_
   sef : BOOLEAN,             \* side_effect_free_
   save : BOOLEAN,            \* side_effect_free_save of resume_scheduler
   nonint : BOOLEAN,          \* non_interruptible_
   tags : Seq(Tag),           \* tag_stack_
   base : Nat,                \* how many of them were inherited
   rt : BOOLEAN,              \* prio_ >= UPRIO_RT_MIN
   parent : Job \cup {NoJob}, \* parent_
   level : Nat,               \* the parent's stack size when registered
   children : SUBSET Job,     \* children_, the ones the collectors hold
   target : Job \cup {NoJob}, \* the other of yield_until_terminated
   wake : SUBSET Job]         \* to_wake_up_

Unborn ==
  [state |-> "unborn", exc |-> NoException, sef |-> FALSE, save |-> FALSE,
   nonint |-> FALSE, tags |-> << >>, base |-> 0, rt |-> FALSE,
   parent |-> NoJob, level |-> 0, children |-> {}, target |-> NoJob, wake |-> {}]

Nodes(q) == {q[i] : i \in DOMAIN q} \ {NoJob}

(* k is the next node of q after i that has not been erased, or the end. *)
IsNext(q, i, k) ==
  /\ k <= Len(q) => q[k] # NoJob
  /\ \A m \in (i + 1)..(k - 1) : q[m] = NoJob

(* Runner::frozen, with the tags only: the frozen_ flag is the semaphore's. *)
FrozenBy(fz, jb, j) == \E i \in DOMAIN jb[j].tags : jb[j].tags[i] \in fz
Frozen(jb, j) == FrozenBy(frozenTag, jb, j)

(* recompute_prio: is one of the tags a real-time one?  Run when a tag is   *)
(* applied or removed; a new runner's tag_stack_set does not run it.        *)
Urgent(stack) == \E i \in DOMAIN stack : stack[i] \in RTTag

Alive(jb, j) == jb[j].state \notin {"unborn", "zombie", "removed"}

-----------------------------------------------------------------------------
(* What the operations of sched::Job do to the Job objects: functions from *)
(* a table of jobs to the next one.                                        *)

(* Job::async_throw on the jobs of S, none of which is current.  A pending *)
(* exception is overwritten.                                               *)
AsyncThrow(jb, S, e) ==
  [x \in Job |->
     IF x \notin S THEN jb[x]
     ELSE [jb[x] EXCEPT !.sef = FALSE, !.nonint = FALSE, !.exc = e,
             !.state = IF Alive(jb, x) /\ @ # "to_start" THEN "running" ELSE @]]

(* The jobs reached from those of S by children_ lists. *)
Family(jb, S) ==
  {x \in Job : \A C \in SUBSET Job :
     (S \subseteq C /\ \A y \in C : jb[y].children \subseteq C) => x \in C}

(* Job::terminate_now on each job of S, none of whose families holds the   *)
(* current job: the children first, whose lists are emptied.               *)
TerminateNow(jb, S) ==
  LET F == Family(jb, S)
      cleared == [x \in Job |->
                    IF x \in F THEN [jb[x] EXCEPT !.children = {}] ELSE jb[x]]
  IN AsyncThrow(cleared, {x \in F : jb[x].state # "zombie"},
                TerminateException)

(* ~Collector for the collectors that j opened at tag depth d or more (one  *)
(* per depth): terminate_child on each job they hold.                      *)
Uncollect(jb, j, d) ==
  LET C == {c \in jb[j].children : jb[c].level >= d}
  IN [TerminateNow(jb, C) EXCEPT ![j].children = @ \ C]

(* The scopes of j above depth d are left: the collectors opened at depth l *)
(* or more, the tags, the priority they gave.                               *)
Unwind(jb, j, d, l) ==
  LET s == SubSeq(jb[j].tags, 1, d)
  IN [Uncollect(jb, j, l) EXCEPT ![j] = [@ EXCEPT !.tags = s, !.rt = Urgent(s)]]

(* The catch clause of yield_until_terminated: leave the other's list.     *)
Dequeue(jb, j) ==
  LET o == jb[j].target
      left == [x \in Job |->
                 IF x = o THEN [jb[x] EXCEPT !.wake = @ \ {j}] ELSE jb[x]]
  IN [left EXCEPT ![j].target = NoJob]

(* Mutant of TerminateCleanup: to_wake_up_ is cleared, nobody is woken.    *)
CleanupWithoutWaking(jb, j) ==
  [jb EXCEPT ![j] = [@ EXCEPT !.wake = {}, !.state = "zombie", !.tags = << >>]]

(* terminate_cleanup of j: wake the jobs joining it, become a zombie.  The  *)
(* tags of a zombie are forgotten: nothing reads them any more.             *)
TerminateCleanup(jb, j) ==
  LET woken == [x \in Job |->
                  IF x \in jb[j].wake /\ Alive(jb, x)
                  THEN [jb[x] EXCEPT !.state = "running"] ELSE jb[x]]
  IN [woken EXCEPT
        ![j] = [@ EXCEPT !.wake = {}, !.state = "zombie", !.tags = << >>]]

(* The end of Job::run: every scope is left, then the job is cleaned up.    *)
Die(jb, j) == TerminateCleanup(Uncollect(jb, j, 0), j)

(* A new Job built from the stack s; base tags are inherited.              *)
NewJob(s, p, l) ==
  [Unborn EXCEPT !.state = "to_start", !.tags = s, !.base = Len(s),
                 !.parent = p, !.level = l]

(* Runner::has_tag(t, max): the position of t in the first max tags, or 0. *)
HasTag(stack, t, max) ==
  LET P == {i \in DOMAIN stack : i <= max /\ stack[i] = t}
  IN IF P = {} THEN 0 ELSE CHOOSE i \in P : \A k \in P : i <= k

(* Mutant of StopPosition: a pending TerminateException is not looked for.  *)
StopPositionAnyException(jb, j, t) ==
  HasTag(jb[j].tags, t, IF jb[j].exc.kind = "stop" THEN jb[j].exc.depth
                        ELSE Len(jb[j].tags))

(* Job::register_stopped_tag: the depth test.  0 when j is not concerned.  *)
StopPosition(jb, j, t) ==
  IF jb[j].exc.kind = "terminate" THEN 0
  ELSE HasTag(jb[j].tags, t, IF jb[j].exc.kind = "stop" THEN jb[j].exc.depth
                             ELSE Len(jb[j].tags))

(* Mutant of RegisterStoppedTag: jobs without the tag are not left out.     *)
RegisterStoppedTagAll(jb, S, t) ==
  [x \in Job |->
     IF x \in S THEN AsyncThrow(jb, {x}, StopException(StopPosition(jb, x, t) - 1))[x]
     ELSE jb[x]]

RegisterStoppedTag(jb, S, t) ==
  [x \in Job |->
     LET p == StopPosition(jb, x, t)
     IN IF x \in S /\ p > 0 THEN AsyncThrow(jb, {x}, StopException(p - 1))[x]
        ELSE jb[x]]

-----------------------------------------------------------------------------
(* The round *)

Init ==
  /\ job = [j \in Job |-> Unborn]
  /\ frozenTag = {}
  /\ jobs = << >> /\ pending = << >> /\ job_p = 0 /\ next_job_p = 0
  /\ current = NoJob /\ thrown = NoException /\ first = FALSE
  /\ pse = TRUE /\ start_waiting = FALSE
  /\ deadline = "immediate" /\ ready_to_die = FALSE
  /\ phase = "main"

(* stable_sort by decreasing priority: r is q with its elements moved to the *)
(* places that p tells.  Without real-time tags it is q itself.              *)
StableSort(q, p) ==
  /\ \A m \in 1..Len(q) : \E i \in 1..Len(q) : p[i] = m
  /\ \A i, k \in 1..Len(q) : i < k =>
       /\ job[q[p[k]]].rt => job[q[p[i]]].rt
       /\ job[q[p[k]]].rt = job[q[p[i]]].rt => p[i] < p[k]

(* work, execute_round up to the loop: the queue becomes the round's list. *)
BeginRound ==
  /\ phase = "main" /\ deadline # "exit"
  /\ \E p \in [1..Len(jobs) -> 1..Len(jobs)] :
       /\ StableSort(jobs, p)
       /\ pending' = [i \in 1..Len(jobs) |-> jobs[p[i]]]
  /\ jobs' = << >>
  /\ job_p' = 1 /\ next_job_p' = 1
  /\ deadline' = "later"
  /\ start_waiting' = pse /\ pse' = FALSE
  /\ phase' = "round"
  /\ UNCHANGED <<job, frozenTag, current, thrown, first, ready_to_die>>

AtNode(j) ==
  /\ phase = "round" /\ current = NoJob
  /\ job_p <= Len(pending) /\ pending[job_p] = j

(* ++job_p, and the assignment of next_job_p at the top of the loop. *)
Advance ==
  \E k \in (job_p + 1)..(Len(pending) + 1) : IsNext(pending, job_p, k) /\ job_p' = k
StoreNext ==
  \E k \in (job_p + 1)..(Len(pending) + 1) : IsNext(pending, job_p, k) /\ next_job_p' = k

(* coroutine_start: Job::run sets the state, then throws the exception the  *)
(* job received before it started, if any, or enters work().                *)
StartJob(j) ==
  /\ AtNode(j) /\ job[j].state = "to_start"
  /\ current' = j /\ first' = TRUE
  /\ StoreNext
  /\ thrown' = job[j].exc
  /\ job' = [job EXCEPT ![j] = [@ EXCEPT !.state = "running", !.exc = NoException]]
  /\ UNCHANGED <<frozenTag, jobs, pending, job_p, flags, phase>>

(* The tests of the loop of execute_round.  The deadline of a sleeping job  *)
(* has passed or not.                                                       *)
MayStart(j) ==
  \/ job[j].exc # NoException
  \/ job[j].state \in {"running", "sleeping"}
  \/ /\ job[j].state = "waiting" /\ ~Frozen(job, j)
     /\ start_waiting \/ pse
MayStay(j) ==
  \/ job[j].state = "zombie"
  \/ /\ job[j].exc = NoException
     /\ \/ job[j].state \in {"sleeping", "joining"}
        \/ /\ job[j].state = "waiting"
           /\ Frozen(job, j) \/ ~(start_waiting \/ pse)

(* The switch to a job, which is in the loop of resume_scheduler: it throws *)
(* its pending exception...                                                 *)
ResumeThrow(j) ==
  /\ AtNode(j) /\ job[j].state \notin {"zombie", "to_start"}
  /\ job[j].exc # NoException
  /\ current' = j /\ first' = FALSE
  /\ StoreNext
  /\ pse' = (pse \/ ~job[j].sef)
  /\ thrown' = job[j].exc
  /\ job' = Dequeue([job EXCEPT ![j].exc = NoException], j)
  /\ UNCHANGED <<frozenTag, jobs, pending, job_p, start_waiting, deadline,
                 ready_to_die, phase>>

(* ... or finds itself frozen and waits for another change of the world ... *)
ResumeFrozen(j) ==
  /\ AtNode(j) /\ job[j].state \notin {"zombie", "to_start"}
  /\ MayStart(j) /\ job[j].exc = NoException /\ Frozen(job, j)
  /\ job' = [job EXCEPT ![j] = [@ EXCEPT !.sef = TRUE, !.state = "waiting"]]
  /\ pse' = (pse \/ ~job[j].sef)
  /\ jobs' = Append(jobs, j)
  /\ StoreNext /\ Advance
  /\ UNCHANGED <<frozenTag, pending, current, thrown, first, start_waiting,
                 deadline, ready_to_die, phase>>

(* ... or goes on where it yielded. *)
ResumeJob(j) ==
  /\ AtNode(j) /\ job[j].state \notin {"zombie", "to_start"}
  /\ MayStart(j) /\ job[j].exc = NoException /\ ~Frozen(job, j)
  /\ current' = j /\ first' = FALSE
  /\ StoreNext
  /\ pse' = (pse \/ ~job[j].sef)
  /\ job' = [job EXCEPT ![j] = [@ EXCEPT !.sef = job[j].save, !.target = NoJob]]
  /\ UNCHANGED <<frozenTag, jobs, pending, job_p, thrown, start_waiting,
                 deadline, ready_to_die, phase>>

(* The job is not started and is kept for the next round, unless it has     *)
(* terminated (which OnlyLiveJobsQueued says it has not).                       *)
KeepJob(j) ==
  /\ AtNode(j) /\ MayStay(j)
  /\ jobs' = IF job[j].state = "zombie" THEN jobs ELSE Append(jobs, j)
  /\ StoreNext /\ Advance
  /\ UNCHANGED <<job, frozenTag, pending, current, thrown, first, flags, phase>>

(* The end of execute_round. *)
EndRound ==
  /\ phase = "round" /\ current = NoJob /\ job_p > Len(pending)
  /\ deadline' = CASE ready_to_die /\ jobs = << >> -> "exit"
                    [] pse -> "immediate"
                    [] OTHER -> deadline
  /\ phase' = "idle"
  /\ UNCHANGED <<job, frozenTag, jobs, round, current, thrown, first, pse,
                 start_waiting, ready_to_die>>

(* The idle job yields: work returns to the server loop. *)
IdleReturn ==
  /\ phase = "idle"
  /\ phase' = IF deadline = "exit" THEN "exit" ELSE "main"
  /\ UNCHANGED <<job, frozenTag, jobs, round, current, thrown, first, flags>>

-----------------------------------------------------------------------------
(* The operations of the current job *)

Executing(j, op) ==
  /\ op \in Ops
  /\ phase = "round" /\ current = j /\ thrown = NoException

(* The end of the loop of execute_round, after j has given the processor    *)
(* back.  Does it go on in the next round...                                *)
RequeuedUnlessJoining(jb, j) == jb[j].state \notin {"zombie", "joining"} \* mutant
RequeuedUnlessNew(jb, j) == jb[j].state # "zombie" /\ ~first \* mutant
RequeuedAlways(jb, j) == TRUE \* mutant
Requeued(jb, j) == jb[j].state # "zombie"

(* ... should that be soon...                                               *)
HurriedUnlessNew(jb, j) == ~first /\ jb[j].state = "running" \* mutant
Hurried(jb, j) == first \/ jb[j].state = "running"

(* ... and may it have changed the world?  The first quantum of a job is    *)
(* not counted, since coroutine_start skips these tests.                    *)
ChangedOnEntryOnly(jb, j) == FALSE \* mutant
Changed(jb, j) == ~first /\ ~jb[j].sef

(* j gives the processor back, from resume_scheduler or by terminating, and *)
(* execute_round takes over.                                                *)
Leave(jb, j) ==
  /\ job' = jb
  /\ jobs' = IF Requeued(jb, j) THEN Append(jobs, j) ELSE jobs
  /\ current' = NoJob /\ thrown' = NoException /\ first' = FALSE
  /\ pse' = (pse \/ Changed(jb, j))
  /\ deadline' = IF Hurried(jb, j) THEN "immediate" ELSE deadline
  /\ Advance
  /\ UNCHANGED <<pending, next_job_p, start_waiting, ready_to_die, phase>>

(* resume_scheduler, when it does suspend the job. *)
Suspend(jb, j, s) ==
  Leave([jb EXCEPT ![j] = [@ EXCEPT !.state = s, !.save = jb[j].sef]], j)

(* The job goes on with its quantum. *)
Continue(jb) ==
  /\ job' = jb
  /\ UNCHANGED <<jobs, round, current, first, flags, phase>>

(* Job::yield and the early returns of resume_scheduler. *)
Yields(fz, jb, j) ==
  ~jb[j].sef /\ (jb[j].nonint \/ jb[j].rt => FrozenBy(fz, jb, j))

Yield(j) ==
  /\ Executing(j, "yield")
  /\ Yields(frozenTag, job, j)
  /\ Suspend(job, j, "running")
  /\ UNCHANGED frozenTag

(* Job::yield_until. *)
Sleep(j) ==
  /\ Executing(j, "sleep") /\ ~job[j].nonint
  /\ Suspend(job, j, "sleeping")
  /\ UNCHANGED frozenTag

(* Job::yield_until_things_changed. *)
WaitForChanges(j) ==
  /\ Executing(j, "wait") /\ (job[j].nonint => Frozen(job, j))
  /\ Suspend(job, j, "waiting")
  /\ UNCHANGED frozenTag

(* Job::yield_until_terminated(o).  A job may join itself: only an exception *)
(* wakes it up then.                                                         *)
Join(j, o) ==
  /\ Executing(j, "join") /\ (job[j].nonint => o = j)
  /\ job[o].state \notin {"unborn", "zombie"}
  /\ LET queued == IF o = j THEN job ELSE [job EXCEPT ![o].wake = @ \cup {j}]
     IN Suspend([queued EXCEPT ![j].target = o], j, "joining")
  /\ UNCHANGED frozenTag

(* A job applies the tag t (TaggedStmt); it yields if the tag is frozen. *)
EnterTag(j, t) ==
  /\ Executing(j, "tag") /\ Len(job[j].tags) < MaxDepth
  /\ UNCHANGED frozenTag
  /\ LET s == Append(job[j].tags, t)
         jb == [job EXCEPT ![j] = [@ EXCEPT !.tags = s, !.rt = Urgent(s)]]
     IN IF t \in frozenTag /\ Yields(frozenTag, jb, j)
        THEN Suspend(jb, j, "running")
        ELSE Continue(jb) /\ UNCHANGED thrown

(* The jobs that the collectors opened at depth d or more still wait for.  *)
Collected(j, d) == {c \in job[j].children : job[c].level >= d}

(* The end of the tagged statement, whose collectors have seen their jobs   *)
(* terminate (yield_until_terminated(collector)).                           *)
LeaveTag(j) ==
  LET n == Len(job[j].tags)
  IN /\ Executing(j, "tag") /\ n > job[j].base
     /\ \A c \in Collected(j, n) : job[c].state = "zombie"
     /\ Continue(Unwind(job, j, n - 1, n))
     /\ UNCHANGED <<frozenTag, thrown>>

(* Object-level Tag::freeze: the job yields if it froze itself. *)
Freeze(j, t) ==
  /\ Executing(j, "freeze") /\ t \notin frozenTag
  /\ LET fz == frozenTag \cup {t}
     IN /\ frozenTag' = fz
        /\ IF FrozenBy(fz, job, j) /\ Yields(fz, job, j)
           THEN Suspend(job, j, "running")
           ELSE Continue(job) /\ UNCHANGED thrown

Unfreeze(j, t) ==
  /\ Executing(j, "freeze") /\ t \in frozenTag
  /\ frozenTag' = frozenTag \ {t}
  /\ Continue(job) /\ UNCHANGED thrown

SetSideEffectFree(j, b) ==
  /\ Executing(j, "sef") /\ job[j].sef # b
  /\ Continue([job EXCEPT ![j].sef = b])
  /\ UNCHANGED <<frozenTag, thrown>>

SetNonInterruptible(j, b) ==
  /\ Executing(j, "nonint") /\ job[j].nonint # b
  /\ Continue([job EXCEPT ![j].nonint = b])
  /\ UNCHANGED <<frozenTag, thrown>>

(* pending.insert(k, c). *)
InsertNode(q, k, c) ==
  [i \in 1..(Len(q) + 1) |->
     IF i < k THEN q[i] ELSE IF i = k THEN c ELSE q[i - 1]]

(* Mutants of AddJob: c is queued for the next round, instead of or as well *)
(* as in this one.                                                          *)
AddJobNextRound(jb, c) ==
  /\ job' = jb /\ jobs' = Append(jobs, c)
  /\ UNCHANGED <<round, current, first, flags, phase>>
AddJobTwice(jb, c) ==
  /\ job' = jb /\ jobs' = Append(jobs, c)
  /\ pending' = InsertNode(pending, next_job_p, c)
  /\ next_job_p' = next_job_p + 1
  /\ UNCHANGED <<job_p, current, first, flags, phase>>

(* add_job(c) from a job: c is inserted before next_job_p, so that jobs     *)
(* created by one quantum keep their order.  If that node was erased        *)
(* meanwhile, the iterator is invalid.                                      *)
AddJob(jb, c) ==
  IF next_job_p <= Len(pending) /\ pending[next_job_p] = NoJob
  THEN /\ phase' = "undefined"
       /\ UNCHANGED <<job, jobs, round, current, first, flags>>
  ELSE /\ job' = jb
       /\ pending' = InsertNode(pending, next_job_p, c)
       /\ next_job_p' = next_job_p + 1
       /\ UNCHANGED <<jobs, job_p, current, first, flags, phase>>

(* `a & b', `a, b': a child with the tags of j, held by a collector. *)
StartChild(j, c) ==
  /\ Executing(j, "child") /\ job[c].state = "unborn"
  /\ LET s == job[j].tags
     IN AddJob([job EXCEPT ![c] = NewJob(s, j, Len(s)),
                           ![j].children = @ \cup {c}], c)
  /\ UNCHANGED <<frozenTag, thrown>>

(* System.spawn: a job without parent, with or without the tags of j. *)
Spawn(j, c, clear_tags) ==
  /\ Executing(j, "spawn") /\ job[c].state = "unborn"
  /\ LET s == IF clear_tags THEN << >> ELSE job[j].tags
     IN AddJob([job EXCEPT ![c] = NewJob(s, NoJob, 0)], c)
  /\ UNCHANGED <<frozenTag, thrown>>

(* pending.remove of the jobs of R: their nodes are erased. *)
Erase(q, R) == [i \in 1..Len(q) |-> IF q[i] \in R THEN NoJob ELSE q[i]]

(* The jobs of K that signal_stop(t) withdraws before they start. *)
Withdrawn(K, t) ==
  {x \in K : job[x].state = "to_start" /\ \E i \in DOMAIN job[x].tags : job[x].tags[i] = t}
NotStarted(K) == {x \in K : job[x].state = "to_start"}

(* Tag::stop by a job: Scheduler::signal_stop over jobs_get() = pending,    *)
(* the current job last, since its own exception is thrown at once.         *)
SignalStop(j, t) ==
  LET K == Nodes(pending) \ {j}
      R == Withdrawn(K, t)
      told == RegisterStoppedTag(job, K \ NotStarted(K), t)
      p == StopPosition(job, j, t)
  IN /\ Executing(j, "stop")
     /\ pending' = Erase(pending, R)
     /\ thrown' = IF p > 0 THEN StopException(p - 1) ELSE NoException
     /\ job' = [x \in Job |->
                  IF x \in R THEN [job[x] EXCEPT !.state = "removed"]
                  ELSE IF x = j /\ p > 0
                  THEN [job[j] EXCEPT !.sef = FALSE, !.nonint = FALSE]
                  ELSE told[x]]
     /\ UNCHANGED <<frozenTag, jobs, job_p, next_job_p, current, first, flags,
                    phase>>

(* Job::terminate_now(o) by a job that o is no ancester of. *)
TerminateJob(j, o) ==
  /\ Executing(j, "terminate")
  /\ job[o].state \notin {"unborn", "zombie"}
  /\ o # j /\ j \notin Family(job, {o})
  /\ Continue(TerminateNow(job, {o}))
  /\ UNCHANGED <<frozenTag, thrown>>

(* terminate_now on the current job: the children, then a synchronous throw. *)
TerminateSelf(jb, j) ==
  /\ thrown' = TerminateException
  /\ job' = [TerminateNow(jb, jb[j].children) EXCEPT
       ![j] = [@ EXCEPT !.children = {}, !.sef = FALSE, !.nonint = FALSE]]

TerminateCurrent(j) ==
  /\ Executing(j, "terminate")
  /\ TerminateSelf(job, j)
  /\ UNCHANGED <<frozenTag, jobs, round, current, first, flags, phase>>

(* a->ancester_of(b): a is on the chain of parents from b. *)
AncesterOf(a, b) ==
  \A C \in SUBSET Job :
    (b \in C /\ \A y \in C : job[y].parent = NoJob \/ job[y].parent \in C) => a \in C

(* The loop of killall_jobs that looks for the oldest ancester of j in the  *)
(* list q: anc[i] is the local ancester after i turns.                      *)
AncesterLoop(j, q, anc) ==
  /\ anc[0] = j
  /\ \A i \in 1..Len(q) :
       anc[i] = IF q[i] # NoJob /\ AncesterOf(q[i], anc[i - 1])
                THEN q[i] ELSE anc[i - 1]

(* Mutant of KillallFrom: the descendants of the ancester that were         *)
(* skipped are left alone.                                                  *)
KillallOthers(j, a) ==
  /\ job' = TerminateNow(job, {x \in Nodes(pending) : ~AncesterOf(a, x)})
  /\ UNCHANGED thrown

(* killall_jobs by the job j: the jobs that do not descend from the oldest  *)
(* ancester a, then a, at once if it is j itself.                           *)
KillallFrom(j, a) ==
  LET unrelated == {x \in Nodes(pending) : ~AncesterOf(a, x)}
      jb == TerminateNow(job, unrelated)
  IN IF a = j THEN TerminateSelf(jb, j)
     ELSE /\ job' = IF jb[a].state = "zombie" THEN jb
                    ELSE AsyncThrow(jb, {a}, TerminateException)
          /\ UNCHANGED thrown

KillallJobs(j) ==
  /\ Executing(j, "killall")
  /\ ready_to_die' = TRUE
  /\ \E anc \in [0..Len(pending) -> Job] :
       AncesterLoop(j, pending, anc) /\ KillallFrom(j, anc[Len(pending)])
  /\ UNCHANGED <<frozenTag, jobs, round, current, first, pse, start_waiting,
                 deadline, phase>>

(* Job::run's last catch clauses: an error the job does not catch goes to   *)
(* its parent.                                                              *)
DieOfError(jb, j) ==
  LET p == jb[j].parent
  IN IF p = NoJob THEN Die(jb, j) ELSE Die(AsyncThrow(jb, {p}, ChildException), j)

Fail(j) ==
  /\ Executing(j, "fail")
  /\ Leave(DieOfError(job, j), j)
  /\ UNCHANGED frozenTag

(* The job's program ends, after its collectors saw their jobs terminate.  *)
Finish(j) ==
  /\ Executing(j, "finish") /\ Len(job[j].tags) = job[j].base
  /\ \A c \in job[j].children : job[c].state = "zombie"
  /\ Leave(Die(job, j), j)
  /\ UNCHANGED frozenTag

Throwing(j) == phase = "round" /\ current = j

(* A TerminateException, or a StopException on an inherited tag, goes       *)
(* through the whole job.                                                   *)
DieOfException(j) ==
  /\ Throwing(j)
  /\ \/ thrown.kind = "terminate"
     \/ thrown.kind = "stop" /\ thrown.depth < job[j].base
  /\ Leave(Die(job, j), j)
  /\ UNCHANGED frozenTag

(* The tagged statement at the exception's depth catches it, and yields if  *)
(* the job is still frozen.                                                 *)
CatchStop(j) ==
  /\ Throwing(j) /\ thrown.kind = "stop" /\ thrown.depth >= job[j].base
  /\ LET d == thrown.depth
         jb == Unwind(job, j, d, d + 1)
     IN IF Frozen(jb, j) /\ Yields(frozenTag, jb, j)
        THEN Suspend(jb, j, "running")
        ELSE Continue(jb) /\ thrown' = NoException
  /\ UNCHANGED frozenTag

(* The error of a child is rethrown in the collector's scope; the job's     *)
(* program catches it in some scope, or dies of it.                         *)
CatchChild(j, d) ==
  /\ Throwing(j) /\ thrown.kind = "child"
  /\ d \in job[j].base..Len(job[j].tags)
  /\ Continue(Unwind(job, j, d, d))
  /\ thrown' = NoException
  /\ UNCHANGED frozenTag

DieOfChild(j) ==
  /\ Throwing(j) /\ thrown.kind = "child"
  /\ Leave(DieOfError(job, j), j)
  /\ UNCHANGED frozenTag

-----------------------------------------------------------------------------
(* The server's thread between two rounds: current_job_ is null ("main") or *)
(* the idle job ("idle").                                                   *)

Outside(op) == op \in Ops /\ phase \in {"main", "idle"}

(* add_job outside of a round: a root job, with the tag of its lobby.       *)
AddRootJob(c, s) ==
  /\ Outside("add") /\ job[c].state = "unborn" /\ Len(s) <= MaxDepth
  /\ job' = [job EXCEPT ![c] = [NewJob(s, NoJob, 0) EXCEPT !.rt = Urgent(s)]]
  /\ jobs' = Append(jobs, c)
  /\ UNCHANGED <<frozenTag, round, current, thrown, first, flags, phase>>

(* signal_world_change: the socket of wake_up has been read. *)
WorldChange ==
  /\ Outside("world") /\ ~pse
  /\ pse' = TRUE
  /\ UNCHANGED <<job, frozenTag, jobs, round, current, thrown, first,
                 start_waiting, deadline, ready_to_die, phase>>

(* UServer::work unfreezes the tag of the fast asynchronous jobs. *)
ServerUnfreeze(t) ==
  /\ Outside("server_unfreeze") /\ phase = "main" /\ t \in frozenTag
  /\ frozenTag' = frozenTag \ {t}
  /\ UNCHANGED <<job, jobs, round, current, thrown, first, flags, phase>>

(* Tag::stop without a current job: jobs_get() is jobs, but the withdrawn   *)
(* jobs are looked for in pending, where they are not.                      *)
ServerStop(t) ==
  /\ Outside("server_stop") /\ phase = "main"
  /\ job' = RegisterStoppedTag(job, Nodes(jobs) \ NotStarted(Nodes(jobs)), t)
  /\ UNCHANGED <<frozenTag, jobs, round, current, thrown, first, flags, phase>>

(* UServer::shutdown without a current job. *)
ServerKillall ==
  /\ Outside("server_killall") /\ phase = "main" /\ ~ready_to_die
  /\ ready_to_die' = TRUE
  /\ job' = TerminateNow(job, Nodes(jobs))
  /\ UNCHANGED <<frozenTag, jobs, round, current, thrown, first, pse,
                 start_waiting, deadline, phase>>

(* Nothing happens after SCHED_EXIT or undefined behaviour. *)
Over == phase \in {"exit", "undefined"} /\ UNCHANGED vars

-----------------------------------------------------------------------------

RoundStep ==
  \/ BeginRound \/ EndRound \/ IdleReturn
  \/ \E j \in Job : \/ StartJob(j) \/ ResumeThrow(j) \/ ResumeFrozen(j)
                    \/ ResumeJob(j) \/ KeepJob(j)

(* What ends the quantum of j. *)
Return(j) ==
  \/ Yield(j) \/ Sleep(j) \/ WaitForChanges(j) \/ (\E o \in Job : Join(j, o))
  \/ Fail(j) \/ Finish(j) \/ DieOfException(j) \/ DieOfChild(j)

(* What ends the propagation of an exception. *)
Catch(j) == CatchStop(j) \/ \E d \in 0..MaxDepth : CatchChild(j, d)

Operation(j) ==
  \/ \E t \in Tag : \/ EnterTag(j, t) \/ Freeze(j, t) \/ Unfreeze(j, t)
                    \/ SignalStop(j, t)
  \/ LeaveTag(j)
  \/ \E b \in BOOLEAN : SetSideEffectFree(j, b) \/ SetNonInterruptible(j, b)
  \/ \E c \in Job : \/ StartChild(j, c)
                    \/ \E b \in BOOLEAN : Spawn(j, c, b)
  \/ (\E o \in Job : TerminateJob(j, o)) \/ TerminateCurrent(j)
  \/ KillallJobs(j)

ServerStep ==
  \/ \E c \in Job, s \in {<< >>} \cup {<<t>> : t \in Tag} : AddRootJob(c, s)
  \/ WorldChange
  \/ \E t \in Tag : ServerUnfreeze(t) \/ ServerStop(t)
  \/ ServerKillall

Next ==
  \/ RoundStep
  \/ \E j \in Job : Return(j) \/ Catch(j) \/ Operation(j)
  \/ ServerStep
  \/ Over

Spec == Init /\ [][Next]_vars

(* A round runs to its end and is followed by another one; exceptions       *)
(* propagate; and no quantum lasts for ever, even that of a job that often   *)
(* stops itself and catches the exception.                                   *)
Fairness ==
  /\ WF_vars(RoundStep)
  /\ WF_vars(\E j \in Job : Catch(j))
  /\ SF_vars(\E j \in Job : Return(j))
FairSpec == Spec /\ Fairness

-----------------------------------------------------------------------------
(* Properties *)

(* The type invariant: every variable of the model, every field of a Job    *)
(* object and both list iterators keep to the values the code can give them. *)
TypeOK ==
  /\ job \in [Job -> JobRecord]
  /\ frozenTag \subseteq Tag
  /\ jobs \in Seq(Job)
  /\ pending \in Seq(Job \cup {NoJob})
  /\ job_p \in Nat /\ next_job_p \in Nat
  /\ current \in Job \cup {NoJob}
  /\ thrown \in Exception
  /\ first \in BOOLEAN /\ pse \in BOOLEAN /\ start_waiting \in BOOLEAN
  /\ deadline \in {"immediate", "later", "exit"}
  /\ ready_to_die \in BOOLEAN
  /\ phase \in Phase

(* The nodes that the round has still to look at. *)
Ahead == IF phase \in {"round", "undefined"}
         THEN {i \in DOMAIN pending : /\ pending[i] # NoJob
                                      /\ IF current = NoJob THEN i >= job_p
                                         ELSE i > job_p}
         ELSE {}

NoDuplicate(q) ==
  \A i, k \in DOMAIN q : (q[i] = q[k] /\ q[i] # NoJob) => i = k

(* add_job, execute_round and resume_scheduler hand jobs over between two   *)
(* lists and current_job_: no job is ever in two of these places, or twice  *)
(* in one of them (it would be resumed twice in a round).                   *)
NeverQueuedTwice ==
  /\ NoDuplicate(jobs) /\ NoDuplicate(pending)
  /\ \A i \in Ahead : pending[i] \notin Nodes(jobs) \cup {current}
  /\ current \notin Nodes(jobs)

(* No live job is lost by a round, whatever jobs are started, stopped or    *)
(* terminated during it: it is queued in jobs_, still ahead in pending_, or *)
(* the current job.                                                         *)
NoJobLost ==
  \A j \in Job : Alive(job, j) =>
    \/ j \in Nodes(jobs) \/ j = current
    \/ \E i \in Ahead : pending[i] = j

(* "If killall_jobs() has been called and all jobs are dead, SCHED_EXIT will *)
(* be returned" (scheduler.hh:61): a terminated or withdrawn job is not left  *)
(* in a list, however it died, so that the queue is empty once the jobs are   *)
(* dead (and the round never has to skip one).                                *)
OnlyLiveJobsQueued ==
  /\ \A j \in Nodes(jobs) : Alive(job, j)
  /\ \A i \in Ahead : Alive(job, pending[i])

(* jobs_get() called from a job misses no live job: the list pending_ that   *)
(* signal_stop and killall_jobs walk holds every one of them.                *)
RoundKnowsAllJobs ==
  phase = "round" => \A j \in Job : Alive(job, j) => j \in Nodes(pending)

(* The strengthening that makes the five properties above inductive.  The   *)
(* current job is at its node, and next_job_p_ after it; a StopException    *)
(* names a depth that exists; a job not created yet or withdrawn is not     *)
(* queued; what a round has requeued is still known to it and has been      *)
(* started.                                                                 *)
CurrentInv ==
  current # NoJob =>
    /\ phase \in {"round", "undefined"}
    /\ job_p \in 1..Len(pending) /\ pending[job_p] = current
    /\ next_job_p \in (job_p + 1)..(Len(pending) + 1)
    /\ Alive(job, current) /\ job[current].state # "to_start"
    /\ job[current].exc.kind # "stop"
ThrownInv ==
  thrown.kind = "stop" =>
    current # NoJob /\ thrown.depth < Len(job[current].tags)
DepthInv(jb) ==
  \A j \in Job : jb[j].exc.kind = "stop" => jb[j].exc.depth < Len(jb[j].tags)
BornInv ==
  \A x \in Nodes(jobs) \cup Nodes(pending) : job[x].state \notin {"unborn", "removed"}
RoundInv ==
  phase \in {"round", "undefined"} =>
    /\ job_p >= 1
    /\ \A x \in Nodes(jobs) : x \in Nodes(pending) /\ job[x].state # "to_start"
QueueInv ==
  /\ TypeOK /\ CurrentInv /\ ThrownInv /\ DepthInv(job) /\ BornInv /\ RoundInv
  /\ NeverQueuedTwice /\ NoJobLost /\ OnlyLiveJobsQueued

(* yield_until_terminated(other) returns normally only once other is a      *)
(* zombie, and while it waits it is in the to_wake_up_ list of a job that    *)
(* has not terminated: joining never misses the termination it waits for.    *)
Joined(jb, j) ==
  LET o == jb[j].target
  IN (Alive(jb, j) /\ o \notin {NoJob, j} /\ jb[j].exc = NoException) =>
       IF jb[j].state = "joining"
       THEN j \in jb[o].wake /\ jb[o].state # "zombie"
       ELSE jb[o].state = "zombie"
JoinIsExact == \A j \in Job : Joined(job, j)

(* What makes it inductive: a job is in the list of the one it joins and in  *)
(* no other, it joins nobody while it executes, a zombie's list is empty.    *)
Enrolled(jb, j) ==
  /\ jb[j].state \in {"unborn", "to_start", "removed"} => jb[j].target = NoJob
  /\ jb[j].target # NoJob => jb[jb[j].target].state # "unborn"
  /\ jb[j].state = "zombie" => jb[j].wake = {}
  /\ \A x \in jb[j].wake : x # j /\ jb[x].target = j
JoinTable(jb) == \A j \in Job : Joined(jb, j) /\ Enrolled(jb, j)
JoinersInv == JoinTable(job) /\ (current # NoJob => job[current].target = NoJob)

(* "If we have work to do, 0 will be returned" (scheduler.hh:58): after a    *)
(* round that asks to be called later, no queued job is ready to run, unless *)
(* there is a side-effect-free job: one that stops, or wakes by its end, a   *)
(* job the round has passed leaves no trace of it in the date.               *)
Quiet(j) ==
  job[j].state = "to_start" \/ (job[j].state # "running" /\ job[j].exc = NoException)
AllHaveEffects == \A j \in Job : job[j].sef => job[j].state = "unborn"
WorkIsImmediate ==
  (phase = "idle" /\ deadline = "later" /\ AllHaveEffects) =>
    \A j \in Nodes(jobs) : Quiet(j)

(* The same within the round, as long as nothing made it urgent.             *)
WorkInv ==
  /\ WorkIsImmediate
  /\ (/\ phase = "round" /\ current = NoJob /\ deadline = "later" /\ ~pse
      /\ AllHaveEffects) => \A j \in Nodes(jobs) : Quiet(j)

(* "insert it right before the job which was right after the current one"    *)
(* (scheduler.cc:74): the node next_job_p_ designates is still in pending_   *)
(* when add_job inserts before it.                                           *)
InsertionIsDefined == phase # "undefined"
=============================================================================
