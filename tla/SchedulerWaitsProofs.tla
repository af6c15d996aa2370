------------------------ MODULE SchedulerWaitsProofs ------------------------
(***************************************************************************)
(* More proofs about Scheduler and SchedulerHistory, on top of QueueInv:   *)
(* what a round promises to the jobs that wait.  JoinersInv, WorkInv and   *)
(* StaleInv are inductive with it, hence JoinIsExact, WorkIsImmediate and  *)
(* WaitersAreRechecked hold for every set of jobs and tags.                *)
(***************************************************************************)
EXTENDS SchedulerHistory, SchedulerProofs

-----------------------------------------------------------------------------
(* The kinds of steps *)

(* A step that gives the processor back does so with the table job'. *)
LEMMA LeaveNow ==
  ASSUME NEW kb, NEW j, Leave(kb, j)
  PROVE  Leave(job', j)
BY DEF Leave, Requeued, Hurried, Changed

(* A suspension gives the processor back. *)
LEMMA SuspendNow ==
  ASSUME NEW kb, NEW j, NEW s, Suspend(kb, j, s)
  PROVE  Leave(job', j)
BY LeaveNow DEF Suspend

(* The current job goes on: it keeps the processor. *)
Stays(j) ==
  /\ current' = j /\ phase' \in {"round", "undefined"}
  /\ UNCHANGED <<jobs, first, pse, start_waiting, deadline>>

(* Every step of the current job leaves or stays. *)
LEMMA QuantumStep ==
  ASSUME NEW j \in Job, Return(j) \/ Catch(j) \/ Operation(j)
  PROVE  /\ phase = "round" /\ current = j
         /\ Leave(job', j) \/ Stays(j)
<1>1. CASE Return(j)
  <2>1. phase = "round" /\ current = j
    BY <1>1 DEF Return, Yield, Sleep, WaitForChanges, Join, Fail, Finish,
       DieOfException, DieOfChild, Executing, Throwing
  <2>2. Leave(job', j)
    BY <1>1, LeaveNow, SuspendNow DEF Return, Yield, Sleep, WaitForChanges, Join, Fail,
       Finish, DieOfException, DieOfChild
  <2> QED BY <2>1, <2>2
<1>2. CASE Catch(j)
  <2>1. phase = "round" /\ current = j
    BY <1>2 DEF Catch, CatchStop, CatchChild, Throwing
  <2>2. ASSUME CatchStop(j) PROVE Leave(job', j) \/ Stays(j)
    BY <2>1, <2>2, SuspendNow DEF CatchStop, Continue, Stays, flags
  <2>3. ASSUME NEW d, CatchChild(j, d) PROVE Stays(j)
    BY <2>1, <2>3 DEF CatchChild, Continue, Stays, flags
  <2> QED BY <1>2, <2>1, <2>2, <2>3 DEF Catch
<1>3. CASE Operation(j)
  <2>1. ASSUME NEW t \in Tag, EnterTag(j, t)
        PROVE  phase = "round" /\ current = j /\ (Leave(job', j) \/ Stays(j))
    BY <2>1, SuspendNow DEF EnterTag, Executing, Continue, Stays, flags
  <2>2. ASSUME NEW t \in Tag, Freeze(j, t) \/ Unfreeze(j, t)
        PROVE  phase = "round" /\ current = j /\ (Leave(job', j) \/ Stays(j))
    BY <2>2, SuspendNow DEF Freeze, Unfreeze, Executing, Continue, Stays, flags
  <2>3. ASSUME NEW t \in Tag, SignalStop(j, t)
        PROVE  phase = "round" /\ current = j /\ Stays(j)
    BY <2>3 DEF SignalStop, Executing, Stays, flags
  <2>4. ASSUME LeaveTag(j) PROVE phase = "round" /\ current = j /\ Stays(j)
    BY <2>4 DEF LeaveTag, Executing, Continue, Stays, flags
  <2>5. ASSUME NEW b \in BOOLEAN, SetSideEffectFree(j, b) \/ SetNonInterruptible(j, b)
        PROVE  phase = "round" /\ current = j /\ Stays(j)
    BY <2>5 DEF SetSideEffectFree, SetNonInterruptible, Executing, Continue, Stays, flags
  <2>6. ASSUME NEW c \in Job, StartChild(j, c)
        PROVE  phase = "round" /\ current = j /\ Stays(j)
    BY <2>6 DEF StartChild, AddJob, Executing, Stays, flags
  <2>7. ASSUME NEW c \in Job, NEW b \in BOOLEAN, Spawn(j, c, b)
        PROVE  phase = "round" /\ current = j /\ Stays(j)
    BY <2>7 DEF Spawn, AddJob, Executing, Stays, flags
  <2>8. ASSUME NEW o \in Job, TerminateJob(j, o)
        PROVE  phase = "round" /\ current = j /\ Stays(j)
    BY <2>8 DEF TerminateJob, Executing, Continue, Stays, flags
  <2>9. ASSUME TerminateCurrent(j) \/ KillallJobs(j)
        PROVE  phase = "round" /\ current = j /\ Stays(j)
    BY <2>9 DEF TerminateCurrent, KillallJobs, Executing, Stays, flags
  <2> QED
    BY <1>3, <2>1, <2>2, <2>3, <2>4, <2>5, <2>6, <2>7, <2>8, <2>9 DEF Operation
<1> QED
  BY <1>1, <1>2, <1>3

-----------------------------------------------------------------------------
(* The date that a round returns *)

(* A job that gives the processor back leaves nothing to promise: the round  *)
(* is hurried, or it counts a side effect, or the job is side-effect free.   *)
LEMMA LeaveWork ==
  ASSUME QueueInv, QueueInv', NEW j \in Job, phase = "round", current = j,
         Leave(job', j)
  PROVE  WorkInv'
<1>1. /\ phase' = "round" /\ pending' = pending
      /\ deadline' = "later" => ~first
      /\ pse' = (pse \/ (~first /\ ~job'[j].sef))
  BY DEF Leave, Hurried, Changed
<1>2. j \in Nodes(pending')
  BY <1>1, NoJobAssumption DEF QueueInv, CurrentInv, TypeOK, Nodes
<1>3. job'[j].state # "unborn"
  BY <1>2 DEF QueueInv, BornInv
<1>4. (deadline' = "later" /\ ~pse') => ~AllHaveEffects'
  BY <1>1, <1>3 DEF AllHaveEffects
<1> QED
  BY <1>1, <1>4 DEF WorkInv, WorkIsImmediate

(* The round keeps a quiet job only. *)
LEMMA KeepWork ==
  ASSUME QueueInv, WorkInv, NEW j \in Job, KeepJob(j)
  PROVE  WorkInv'
<1>1. /\ phase' = "round" /\ phase = "round" /\ current' = current
      /\ job' = job /\ deadline' = deadline /\ pse' = pse /\ MayStay(j)
      /\ jobs' = IF job[j].state = "zombie" THEN jobs ELSE Append(jobs, j)
  BY DEF KeepJob, AtNode, flags
<1>2. jobs \in Seq(Job)
  BY DEF QueueInv, TypeOK
<1>3. Nodes(jobs') \subseteq Nodes(jobs) \cup {j}
  BY <1>1, <1>2, AppendNodes
<1>4. job[j].state # "zombie" => Quiet(j)
  BY <1>1 DEF MayStay, Quiet
<1>5. \A x \in Nodes(jobs') : x \in Nodes(jobs) \/ Quiet(x)
  BY <1>1, <1>3, <1>4
<1> QED
  BY <1>1, <1>5 DEF WorkInv, WorkIsImmediate, Quiet, AllHaveEffects

(* A root job is added in the state in which it waits to be started. *)
LEMMA AddRootWork ==
  ASSUME QueueInv, WorkInv, NEW c \in Job, NEW s \in Seq(Tag), AddRootJob(c, s)
  PROVE  WorkInv'
<1> DEFINE new == NewJob(s, NoJob, 0)
           u == Urgent(s)
           r == [new EXCEPT !.rt = u]
<1>1. /\ phase \in {"main", "idle"} /\ phase' = phase /\ deadline' = deadline
      /\ job[c].state = "unborn"
      /\ job' = [job EXCEPT ![c] = r] /\ jobs' = Append(jobs, c)
  BY DEF AddRootJob, Outside, flags
<1>2. job \in Table /\ jobs \in Seq(Job)
  BY DEF QueueInv, TypeOK, Table
<1>3. new \in JobRecord /\ new.state = "to_start"
  BY NewJobFacts
<1>4. r.state = "to_start"
  <2> HIDE DEF new, u
  <2> QED BY <1>3 DEF JobRecord
<1> HIDE DEF r
<1>5. job'[c].state = "to_start" /\ \A x \in Job \ {c} : job'[x] = job[x]
  BY <1>1, <1>2, <1>4 DEF Table
<1>6. Nodes(jobs') = Nodes(jobs) \cup {c} /\ Nodes(jobs) \subseteq Job
  <2>1. Nodes(jobs) \subseteq Job
    BY <1>2 DEF Nodes
  <2> QED BY <1>1, <1>2, <2>1, AppendNodes
<1>7. AllHaveEffects' => AllHaveEffects
  BY <1>1, <1>5 DEF AllHaveEffects
<1>8. \A x \in Nodes(jobs') : x = c \/ (x \in Nodes(jobs) /\ x \in Job \ {c})
  BY <1>6
<1>9. \A x \in Nodes(jobs') : (x \in Nodes(jobs) => Quiet(x)) => Quiet(x)'
  BY <1>5, <1>8 DEF Quiet
<1> QED
  BY <1>1, <1>7, <1>9 DEF WorkInv, WorkIsImmediate

(* Every step keeps the promise. *)
LEMMA WorkStep == QueueInv /\ WorkInv /\ [Next]_vars => WorkInv'
<1> SUFFICES ASSUME QueueInv, WorkInv, [Next]_vars PROVE WorkInv'
  OBVIOUS
<1>0. QueueInv'
  BY NextInv
<1>1. CASE UNCHANGED vars
  BY <1>1 DEF vars, round, flags, WorkInv, WorkIsImmediate, AllHaveEffects, Quiet, Nodes
<1>2. CASE BeginRound
  BY <1>2 DEF BeginRound, WorkInv, WorkIsImmediate, Nodes
<1>3. CASE EndRound
  BY <1>3 DEF EndRound, WorkInv, WorkIsImmediate, Quiet, AllHaveEffects, round
<1>4. CASE IdleReturn
  BY <1>4 DEF IdleReturn, WorkInv, WorkIsImmediate
<1>5. ASSUME NEW j \in Job, StartJob(j) \/ ResumeThrow(j) \/ ResumeJob(j)
      PROVE  WorkInv'
  BY <1>5, NoJobAssumption
  DEF StartJob, ResumeThrow, ResumeJob, AtNode, WorkInv, WorkIsImmediate
<1>6. ASSUME NEW j \in Job, ResumeFrozen(j)
      PROVE  WorkInv'
  <2> DEFINE r == [job[j] EXCEPT !.sef = TRUE, !.state = "waiting"]
  <2>1. job' = [job EXCEPT ![j] = r] /\ job \in Table
    BY <1>6 DEF ResumeFrozen, QueueInv, TypeOK, Table
  <2>2. r.sef = TRUE /\ r.state = "waiting"
    BY <2>1 DEF Table, JobRecord
  <2> HIDE DEF r
  <2>3. ~AllHaveEffects'
    BY <2>1, <2>2 DEF Table, AllHaveEffects
  <2> QED BY <2>3 DEF WorkInv, WorkIsImmediate
<1>7. ASSUME NEW j \in Job, Return(j) \/ Catch(j) \/ Operation(j) PROVE WorkInv'
  BY <1>0, <1>7, QuantumStep, LeaveWork, NoJobAssumption
  DEF Stays, WorkInv, WorkIsImmediate
<1>8. CASE ServerStep
  <2>1. ASSUME NEW c \in Job, NEW s \in {<< >>} \cup {<<t>> : t \in Tag}, AddRootJob(c, s)
        PROVE  WorkInv'
    <3>1. s \in Seq(Tag)
      <4>1. CASE s = << >>
        BY <4>1
      <4>2. ASSUME NEW t \in Tag, s = <<t>> PROVE s \in Seq(Tag)
        BY <4>2
      <4> QED BY <4>1, <4>2
    <3> QED BY <2>1, <3>1, AddRootWork
  <2>2. CASE WorldChange
    BY <2>2 DEF WorldChange, Outside, WorkInv, WorkIsImmediate, Quiet, AllHaveEffects
  <2>3. CASE ServerKillall \/ \E t \in Tag : ServerUnfreeze(t) \/ ServerStop(t)
    BY <2>3 DEF ServerKillall, ServerUnfreeze, ServerStop, WorkInv, WorkIsImmediate
  <2> QED BY <1>8, <2>1, <2>2, <2>3 DEF ServerStep
<1>9. CASE Over
  BY <1>1, <1>9 DEF Over
<1> QED
  BY <1>1, <1>2, <1>3, <1>4, <1>5, <1>6, <1>7, <1>8, <1>9, KeepWork DEF Next, RoundStep

(* "If we have work to do, 0 will be returned": a round that asks to be      *)
(* called later leaves no job ready to run, whatever the jobs did to each    *)
(* other, as long as none of them is side-effect free.                       *)
THEOREM SpecWorkIsImmediate == Spec => []WorkIsImmediate
<1>1. Init => WorkInv
  BY DEF Init, WorkInv, WorkIsImmediate
<1>2. WorkInv => WorkIsImmediate
  BY DEF WorkInv
<1> QED
  BY <1>1, <1>2, SpecQueueInv, WorkStep, PTL DEF Spec

-----------------------------------------------------------------------------
(* Jobs that wait for changes *)

(* A job ahead in the round is neither queued again nor current. *)
LEMMA AheadOnly ==
  ASSUME QueueInv, NEW i \in Ahead
  PROVE  pending[i] \notin Nodes(jobs) \cup {current}
BY DEF QueueInv, NeverQueuedTwice

(* A step that does not requeue a job that was ahead leaves it ahead. *)
LEMMA StillAhead ==
  ASSUME QueueInv', NEW j \in Job, Alive(job', j), j # current', j \notin Nodes(jobs')
  PROVE  \E i \in Ahead' : pending'[i] = j
BY DEF QueueInv, NoJobLost

(* What is left to show of a step within a round: it does not forget a side  *)
(* effect, counts the one of the job that begins or ends a quantum, and      *)
(* requeues only the current job and those that are not stale any more.      *)
LEMMA StaleGeneric ==
  ASSUME QueueInv, QueueInv', StaleInv, HistoryNext,
         start_waiting' = start_waiting, pse => pse', ChangesWorld => pse',
         \A j \in stale \cap stale' : pse \/ j \notin Nodes(jobs') \ Nodes(jobs)
  PROVE  StaleInv'
<1> SUFFICES ASSUME NEW j \in stale', ~pse'
             PROVE  start_waiting' /\ \E i \in Ahead' : pending'[i] = j
  BY DEF StaleInv
<1>1. /\ j \in Job /\ j \in stale /\ Alive(job', j) /\ j # current'
  BY DEF HistoryNext, Watching, Alive
<1>2. start_waiting /\ \E i \in Ahead : pending[i] = j
  BY <1>1 DEF StaleInv
<1>3. j \notin Nodes(jobs)
  BY <1>2, AheadOnly
<1>4. j \notin Nodes(jobs')
  BY <1>1, <1>3
<1> QED
  BY <1>1, <1>2, <1>4, StillAhead

(* The round starts: the waiting jobs are all ahead, and they will be run    *)
(* if the last round changed the world.                                      *)
LEMMA BeginRoundStale ==
  ASSUME QueueInv, QueueInv', StaleInv, HistoryNext, BeginRound
  PROVE  StaleInv'
<1>1. /\ phase = "main" /\ jobs' = << >> /\ current' = current /\ start_waiting' = pse
  BY DEF BeginRound
<1>2. current = NoJob /\ Ahead = {}
  BY <1>1, NoJobAssumption DEF QueueInv, CurrentInv, Ahead
<1>3. ~ChangesWorld
  BY <1>1, <1>2 DEF ChangesWorld
<1> SUFFICES ASSUME NEW j \in stale'
             PROVE  start_waiting' /\ \E i \in Ahead' : pending'[i] = j
  BY DEF StaleInv
<1>4. j \in Job /\ j \in stale /\ Alive(job', j) /\ j # current'
  BY <1>3 DEF HistoryNext, Watching, Alive
<1>5. pse
  BY <1>2, <1>4 DEF StaleInv
<1>6. Nodes(jobs') = {}
  BY <1>1 DEF Nodes
<1> QED
  BY <1>1, <1>4, <1>5, <1>6, StillAhead

(* A stale job is not kept for the next round: it is started. *)
LEMMA KeepStale ==
  ASSUME QueueInv, QueueInv', StaleInv, HistoryNext, NEW x \in Job, KeepJob(x)
  PROVE  StaleInv'
<1>1. /\ current = NoJob /\ current' = current /\ job' = job
      /\ frozenTag' = frozenTag /\ start_waiting' = start_waiting /\ pse' = pse
      /\ jobs' = IF job[x].state = "zombie" THEN jobs ELSE Append(jobs, x)
      /\ MayStay(x) /\ job_p \in Ahead /\ pending[job_p] = x
      /\ jobs \in Seq(Job)
  BY AtNodeFacts DEF KeepJob, flags
<1>2. Nodes(jobs') \ Nodes(jobs) \subseteq {x}
  BY <1>1, AppendNodes
<1>3. ASSUME x \in stale, x \in stale', ~pse PROVE FALSE
  <2>1. Watching(job, x) /\ ~Frozen(job, x)
    BY <1>1, <1>3 DEF HistoryNext, Watching, Frozen, FrozenBy
  <2>2. start_waiting
    BY <1>3 DEF StaleInv
  <2> QED BY <1>1, <2>1, <2>2 DEF MayStay, Watching
<1>4. ~ChangesWorld
  BY <1>1 DEF ChangesWorld
<1> QED
  BY <1>1, <1>2, <1>3, <1>4, StaleGeneric

(* A frozen job is not stale: nothing can be promised to it. *)
LEMMA ResumeFrozenStale ==
  ASSUME QueueInv, QueueInv', StaleInv, HistoryNext, NEW x \in Job, ResumeFrozen(x)
  PROVE  StaleInv'
<1> DEFINE r == [job[x] EXCEPT !.sef = TRUE, !.state = "waiting"]
<1>1. /\ current = NoJob /\ current' = current
      /\ job' = [job EXCEPT ![x] = r] /\ Frozen(job, x)
      /\ frozenTag' = frozenTag /\ start_waiting' = start_waiting
      /\ pse' = (pse \/ ~job[x].sef)
      /\ jobs' = Append(jobs, x) /\ jobs \in Seq(Job)
  BY AtNodeFacts DEF ResumeFrozen, flags
<1>2. job \in Table /\ job[x] \in JobRecord
  BY DEF QueueInv, TypeOK, Table
<1>3. r.tags = job[x].tags
  BY <1>2 DEF JobRecord
<1> HIDE DEF r
<1>4. FrozenBy(frozenTag', job', x)
  <2>1. job'[x] = r
    BY <1>1, <1>2 DEF Table
  <2> QED BY <1>1, <1>3, <2>1 DEF Frozen, FrozenBy
<1>5. x \notin stale'
  BY <1>4 DEF HistoryNext
<1>6. Nodes(jobs') \ Nodes(jobs) \subseteq {x}
  BY <1>1, AppendNodes
<1>7. ~ChangesWorld
  BY <1>1 DEF ChangesWorld
<1> QED
  BY <1>1, <1>5, <1>6, <1>7, StaleGeneric

(* A switch to a job counts its side effects on entry... *)
LEMMA EnterStale ==
  ASSUME QueueInv, QueueInv', StaleInv, HistoryNext, NEW x \in Job,
         StartJob(x) \/ ResumeThrow(x) \/ ResumeJob(x)
  PROVE  StaleInv'
<1>1. /\ current = NoJob /\ current' = x /\ x # NoJob
      /\ start_waiting' = start_waiting /\ jobs' = jobs
      /\ pse => pse'
      /\ first' \/ pse' \/ job[x].sef
  <2>1. x # NoJob
    BY NoJobAssumption
  <2>2. CASE StartJob(x)
    BY <2>1, <2>2 DEF StartJob, AtNode, flags
  <2>3. ASSUME ResumeThrow(x) \/ ResumeJob(x)
        PROVE  /\ current = NoJob /\ current' = x /\ start_waiting' = start_waiting
               /\ jobs' = jobs /\ pse' = (pse \/ ~job[x].sef)
    BY <2>3 DEF ResumeThrow, ResumeJob, AtNode
  <2> QED BY <2>1, <2>2, <2>3
<1>2. ChangesWorld => pse'
  BY <1>1 DEF ChangesWorld
<1> QED
  BY <1>1, <1>2, StaleGeneric

(* ... and on exit; it is not stale any more when it is queued again.        *)
LEMMA LeaveStale ==
  ASSUME QueueInv, QueueInv', StaleInv, HistoryNext, NEW x \in Job,
         current = x, Leave(job', x)
  PROVE  StaleInv'
<1>1. /\ x # NoJob /\ current' = NoJob /\ start_waiting' = start_waiting
      /\ pse' = (pse \/ (~first /\ ~job'[x].sef))
      /\ jobs' = jobs \/ jobs' = Append(jobs, x)
      /\ jobs \in Seq(Job)
  BY NoJobAssumption DEF Leave, Changed, QueueInv, TypeOK
<1>2. Nodes(jobs') \ Nodes(jobs) \subseteq {x}
  BY <1>1, AppendNodes
<1>3. x \notin stale'
  BY DEF HistoryNext
<1>4. ChangesWorld => pse'
  BY <1>1 DEF ChangesWorld
<1> QED
  BY <1>1, <1>2, <1>3, <1>4, StaleGeneric

(* Every step keeps what is promised to the waiting jobs. *)
LEMMA StaleStep == QueueInv /\ QueueInv' /\ StaleInv /\ HNext => StaleInv'
<1> SUFFICES ASSUME QueueInv, QueueInv', StaleInv, Next, HistoryNext PROVE StaleInv'
  BY DEF HNext
<1>1. CASE EndRound \/ IdleReturn \/ Over
  <2>1. /\ start_waiting' = start_waiting /\ pse' = pse /\ jobs' = jobs /\ current' = current
    BY <1>1 DEF EndRound, IdleReturn, Over, vars, flags
  <2>2. ~ChangesWorld
    BY <2>1 DEF ChangesWorld
  <2> QED BY <2>1, <2>2, StaleGeneric
<1>2. ASSUME NEW j \in Job, Return(j) \/ Catch(j) \/ Operation(j) PROVE StaleInv'
  <2>1. current = j /\ (Leave(job', j) \/ Stays(j))
    BY <1>2, QuantumStep
  <2>2. CASE Leave(job', j)
    BY <2>1, <2>2, LeaveStale
  <2>3. CASE Stays(j)
    <3>1. ~ChangesWorld
      BY <2>1, <2>3, NoJobAssumption DEF Stays, ChangesWorld
    <3> QED BY <2>3, <3>1, StaleGeneric DEF Stays
  <2> QED BY <2>1, <2>2, <2>3
<1>3. CASE ServerStep
  <2>1. phase \in {"main", "idle"} /\ current' = current /\ start_waiting' = start_waiting
        /\ (pse => pse')
    BY <1>3 DEF ServerStep, AddRootJob, WorldChange, ServerUnfreeze, ServerStop,
       ServerKillall, Outside, flags
  <2>2. Ahead = {}
    BY <2>1 DEF Ahead
  <2>3. \A j \in stale : pse
    BY <2>2 DEF StaleInv
  <2>4. ~ChangesWorld
    BY <2>1 DEF ChangesWorld
  <2> QED BY <2>1, <2>3, <2>4, StaleGeneric
<1> QED
  BY <1>1, <1>2, <1>3, BeginRoundStale, KeepStale, ResumeFrozenStale, EnterStale
  DEF Next, RoundStep

(* The history variables disable no step, so that QueueInv holds with them.  *)
LEMMA HistoryQueueInv == HSpec => []QueueInv
<1>1. HInit => QueueInv
  BY InitInv DEF HInit
<1>2. QueueInv /\ [HNext]_<<vars, history>> => QueueInv'
  BY NextInv DEF HNext
<1> QED
  BY <1>1, <1>2, PTL DEF HSpec

(* "start waiting jobs if previous jobs in the run have had a possible side  *)
(* effect or if the previous run may have had some": a job that waits for    *)
(* changes is run again after every step that may have changed the world.    *)
THEOREM SpecWaitersAreRechecked == HSpec => []WaitersAreRechecked
<1>1. HInit => StaleInv
  BY DEF HInit, HistoryInit, StaleInv
<1>2. QueueInv /\ QueueInv' /\ StaleInv /\ [HNext]_<<vars, history>> => StaleInv'
  <2>1. ASSUME StaleInv, UNCHANGED <<vars, history>> PROVE StaleInv'
    BY <2>1 DEF vars, round, flags, history, StaleInv, Ahead
  <2> QED BY <2>1, StaleStep
<1>3. StaleInv => WaitersAreRechecked
  BY DEF StaleInv, WaitersAreRechecked
<1> QED
  BY <1>1, <1>2, <1>3, HistoryQueueInv, PTL DEF HSpec

-----------------------------------------------------------------------------
(* Jobs that join another: what the operations on Job objects keep *)

(* What an operation that wakes nobody's joiners may do to the job x: leave  *)
(* it alone, give it an exception that makes it run if it was suspended, or  *)
(* withdraw it before it starts.                                             *)
Told(jb, kb, x) ==
  /\ kb[x].target = jb[x].target /\ kb[x].wake = jb[x].wake
  /\ \/ kb[x].state = jb[x].state /\ kb[x].exc = jb[x].exc
     \/ /\ kb[x].exc # NoException
        /\ \/ kb[x].state = jb[x].state
           \/ /\ kb[x].state = "running" /\ Alive(jb, x)
              /\ jb[x].state # "to_start"
     \/ kb[x].state = "removed" /\ jb[x].state = "to_start"

(* The table of jobs while j executes. *)
Joinable(jb, j) ==
  /\ jb \in Table /\ JoinTable(jb)
  /\ jb[j].target = NoJob /\ Alive(jb, j) /\ jb[j].state # "to_start"

(* Such an operation keeps the joiners where they should be. *)
LEMMA ToldTable ==
  ASSUME NEW jb \in Table, NEW kb \in Table, JoinTable(jb),
         \A x \in Job : Told(jb, kb, x)
  PROVE  JoinTable(kb)
<1>1. SUFFICES ASSUME NEW x \in Job PROVE Joined(kb, x) /\ Enrolled(kb, x)
  BY DEF JoinTable
<1>2. Told(jb, kb, x) /\ Joined(jb, x) /\ Enrolled(jb, x)
  BY DEF JoinTable
<1>3. jb[x].target \in Job \cup {NoJob} /\ jb[x].wake \subseteq Job
  BY DEF Table, JobRecord
<1>4. ASSUME jb[x].target # NoJob
      PROVE  Told(jb, kb, jb[x].target)
  BY <1>3, <1>4
<1>5. Joined(kb, x)
  BY <1>2, <1>4 DEF Told, Joined, Alive
<1>6. Enrolled(kb, x)
  <2>1. \A y \in kb[x].wake : y # x /\ kb[y].target = x
    BY <1>2, <1>3 DEF Told, Enrolled
  <2>2. kb[x].target # NoJob => kb[kb[x].target].state # "unborn"
    BY <1>2, <1>4 DEF Told, Enrolled
  <2>3. kb[x].state \in {"unborn", "to_start", "removed"} => kb[x].target = NoJob
    BY <1>2 DEF Told, Enrolled
  <2>4. kb[x].state = "zombie" => kb[x].wake = {}
    BY <1>2 DEF Told, Enrolled
  <2> QED BY <2>1, <2>2, <2>3, <2>4 DEF Enrolled
<1> QED
  BY <1>5, <1>6

(* The executing job goes on executing after it. *)
LEMMA ToldJoinable ==
  ASSUME NEW jb, NEW kb \in Table, NEW j \in Job, Joinable(jb, j),
         \A x \in Job : Told(jb, kb, x)
  PROVE  Joinable(kb, j)
<1>1. JoinTable(kb)
  BY ToldTable DEF Joinable
<1>2. Told(jb, kb, j)
  OBVIOUS
<1> QED
  BY <1>1, <1>2 DEF Joinable, Told, Alive

(* async_throw is such an operation. *)
LEMMA AsyncThrowTold ==
  ASSUME NEW jb \in Table, NEW S, NEW e \in Exception, e # NoException
  PROVE  \A x \in Job : Told(jb, AsyncThrow(jb, S, e), x)
<1> SUFFICES ASSUME NEW x \in Job PROVE Told(jb, AsyncThrow(jb, S, e), x)
  OBVIOUS
<1>1. jb[x] \in JobRecord
  BY DEF Table
<1>2. CASE x \notin S
  BY <1>2 DEF AsyncThrow, Told
<1>3. CASE x \in S
  <2> DEFINE q == IF Alive(jb, x) /\ jb[x].state # "to_start" THEN "running" ELSE jb[x].state
             r == [jb[x] EXCEPT !.sef = FALSE, !.nonint = FALSE, !.exc = e, !.state = q]
  <2>1. AsyncThrow(jb, S, e)[x] = r
    BY <1>3 DEF AsyncThrow
  <2>2. r.state = q /\ r.target = jb[x].target /\ r.wake = jb[x].wake /\ r.exc = e
    <3> HIDE DEF q
    <3> QED BY <1>1 DEF JobRecord
  <2> HIDE DEF r
  <2> QED BY <2>1, <2>2 DEF Told
<1> QED
  BY <1>2, <1>3

(* So is terminate_now, which empties the lists of children first. *)
LEMMA TerminateNowTold ==
  ASSUME NEW jb \in Table, NEW S
  PROVE  \A x \in Job : Told(jb, TerminateNow(jb, S), x)
<1> DEFINE F == Family(jb, S)
           cleared == [x \in Job |->
              IF x \in F THEN [jb[x] EXCEPT !.children = {}] ELSE jb[x]]
           Z == {x \in F : jb[x].state # "zombie"}
           T == AsyncThrow(cleared, Z, TerminateException)
<1>1. cleared \in Table
  BY DEF Table, JobRecord
<1>2. \A x \in Job : /\ cleared[x].state = jb[x].state /\ cleared[x].exc = jb[x].exc
                     /\ cleared[x].target = jb[x].target /\ cleared[x].wake = jb[x].wake
  BY DEF Table, JobRecord
<1>3. TerminateException \in Exception /\ TerminateException # NoException
  BY NoExceptionKind
<1>4. TerminateNow(jb, S) = T
  BY DEF TerminateNow
<1>5. \A x \in Job : Told(cleared, T, x)
  <2> HIDE DEF cleared, Z
  <2> QED BY <1>1, <1>3, AsyncThrowTold
<1> HIDE DEF cleared, T
<1> QED
  BY <1>2, <1>4, <1>5 DEF Told, Alive

(* And Tag::stop. *)
LEMMA StoppedTold ==
  ASSUME NEW jb \in Table, NEW S, NEW t
  PROVE  \A x \in Job : Told(jb, RegisterStoppedTag(jb, S, t), x)
<1> SUFFICES ASSUME NEW x \in Job PROVE Told(jb, RegisterStoppedTag(jb, S, t), x)
  OBVIOUS
<1> DEFINE p == StopPosition(jb, x, t)
           e == StopException(p - 1)
           T == AsyncThrow(jb, {x}, e)
<1>1. p \in 0..Len(jb[x].tags) /\ Len(jb[x].tags) \in Nat
  BY StopPositionRange DEF Table, JobRecord
<1>2. CASE x \in S /\ p > 0
  <2>1. RegisterStoppedTag(jb, S, t)[x] = T[x]
    BY <1>2 DEF RegisterStoppedTag
  <2>2. p - 1 \in Nat
    BY <1>1, <1>2
  <2>3. e \in Exception /\ e # NoException
    BY <2>2, ExceptionType DEF StopException, NoException
  <2>4. Told(jb, T, x)
    <3> HIDE DEF e
    <3> QED BY <2>3, AsyncThrowTold
  <2> QED BY <2>1, <2>4 DEF Told
<1>3. CASE ~(x \in S /\ p > 0)
  BY <1>3 DEF RegisterStoppedTag, Told
<1> QED
  BY <1>2, <1>3

(* A field that nobody joins by may change. *)
LEMMA OtherFieldsTold ==
  ASSUME NEW jb \in Table, NEW j \in Job, NEW r,
         r.state = jb[j].state, r.exc = jb[j].exc,
         r.target = jb[j].target, r.wake = jb[j].wake
  PROVE  \A x \in Job : Told(jb, [jb EXCEPT ![j] = r], x)
BY DEF Table, Told

(* The destructor of a collector keeps the joiners. *)
LEMMA UncollectJoinable ==
  ASSUME NEW jb, NEW j \in Job, NEW k \in Job, NEW d, Joinable(jb, k)
  PROVE  Joinable(Uncollect(jb, j, d), k)
<1> DEFINE C == {c \in jb[j].children : jb[c].level >= d}
           T == TerminateNow(jb, C)
           r == [T[j] EXCEPT !.children = @ \ C]
<1>1. jb \in Table
  BY DEF Joinable
<1>2. T \in Table /\ Joinable(T, k)
  BY <1>1, TerminateNowType, TerminateNowTold, ToldJoinable
<1> HIDE DEF T
<1>3. r.state = T[j].state /\ r.exc = T[j].exc /\ r.target = T[j].target /\ r.wake = T[j].wake
  BY <1>2 DEF Table, JobRecord
<1>4. Uncollect(jb, j, d) = [T EXCEPT ![j] = r]
  BY <1>2 DEF Uncollect, Table, T
<1>5. Uncollect(jb, j, d) \in Table
  BY <1>1, UncollectType
<1> HIDE DEF r
<1>6. \A x \in Job : Told(T, [T EXCEPT ![j] = r], x)
  BY <1>2, <1>3, OtherFieldsTold
<1> QED
  BY <1>2, <1>4, <1>5, <1>6, ToldJoinable

(* So does the unwinding of its scopes. *)
LEMMA UnwindJoinable ==
  ASSUME NEW jb, NEW j \in Job, Joinable(jb, j), NEW l, NEW d,
         Unwind(jb, j, d, l) \in Table
  PROVE  Joinable(Unwind(jb, j, d, l), j)
<1> DEFINE s == SubSeq(jb[j].tags, 1, d)
           u == Urgent(s)
           U == Uncollect(jb, j, l)
           r == [U[j] EXCEPT !.tags = s, !.rt = u]
<1>1. U \in Table /\ Joinable(U, j)
  BY UncollectJoinable DEF Joinable
<1>2. Unwind(jb, j, d, l) = [U EXCEPT ![j] = r]
  BY DEF Unwind
<1> HIDE DEF U
<1>3. r.state = U[j].state /\ r.exc = U[j].exc /\ r.target = U[j].target /\ r.wake = U[j].wake
  <2> HIDE DEF s, u
  <2> QED BY <1>1 DEF Table, JobRecord
<1> HIDE DEF r
<1>4. \A x \in Job : Told(U, [U EXCEPT ![j] = r], x)
  BY <1>1, <1>3, OtherFieldsTold
<1> QED
  BY <1>1, <1>2, <1>4, ToldJoinable

-----------------------------------------------------------------------------
(* The operations that wake, and the changes of state *)

(* terminate_cleanup: those that join j are woken, and find it terminated.  *)
LEMMA CleanupJoin ==
  ASSUME NEW jb \in Table, NEW j \in Job, JoinTable(jb)
  PROVE  JoinTable(TerminateCleanup(jb, j))
<1> DEFINE woken == [x \in Job |->
                  IF x \in jb[j].wake /\ Alive(jb, x)
                  THEN [jb[x] EXCEPT !.state = "running"] ELSE jb[x]]
           r == [woken[j] EXCEPT !.wake = {}, !.state = "zombie", !.tags = << >>]
           kb == [woken EXCEPT ![j] = r]
<1>1. TerminateCleanup(jb, j) = kb
  BY DEF TerminateCleanup
<1>2. ASSUME NEW x \in Job
      PROVE  /\ woken[x] \in JobRecord
             /\ woken[x].exc = jb[x].exc /\ woken[x].target = jb[x].target
             /\ woken[x].wake = jb[x].wake
             /\ woken[x].state = IF x \in jb[j].wake /\ Alive(jb, x)
                                 THEN "running" ELSE jb[x].state
  <2>1. jb[x] \in JobRecord
    BY DEF Table
  <2>2. CASE x \in jb[j].wake /\ Alive(jb, x)
    <3>1. woken[x] = [jb[x] EXCEPT !.state = "running"]
      BY <2>2
    <3> QED BY <2>1, <2>2, <3>1, StateType DEF JobRecord
  <2>3. CASE ~(x \in jb[j].wake /\ Alive(jb, x))
    <3>1. woken[x] = jb[x]
      BY <2>3
    <3> QED BY <2>1, <2>3, <3>1
  <2> QED BY <2>2, <2>3
<1>3. DOMAIN woken = Job
  OBVIOUS
<1> HIDE DEF woken
<1>4. /\ r.state = "zombie" /\ r.wake = {} /\ r.exc = jb[j].exc /\ r.target = jb[j].target
  BY <1>2 DEF JobRecord
<1>5. kb[j] = r /\ \A x \in Job \ {j} : kb[x] = woken[x]
  BY <1>3
<1> HIDE DEF r, kb
<1>6. ASSUME NEW x \in Job
      PROVE  /\ kb[x].exc = jb[x].exc /\ kb[x].target = jb[x].target
             /\ kb[x].wake = IF x = j THEN {} ELSE jb[x].wake
             /\ kb[x].state = IF x = j THEN "zombie"
                              ELSE IF x \in jb[j].wake /\ Alive(jb, x)
                              THEN "running" ELSE jb[x].state
  BY <1>2, <1>4, <1>5
<1>7. ASSUME NEW x \in Job PROVE Joined(kb, x)
  <2> DEFINE o == jb[x].target
  <2> SUFFICES ASSUME Alive(kb, x), o \notin {NoJob, x}, kb[x].exc = NoException
               PROVE  IF kb[x].state = "joining"
                      THEN x \in kb[o].wake /\ kb[o].state # "zombie"
                      ELSE kb[o].state = "zombie"
    BY <1>6 DEF Joined
  <2>1. o \in Job
    BY DEF Table, JobRecord
  <2>2. x # j /\ Alive(jb, x) /\ jb[x].exc = NoException
    BY <1>6 DEF Alive
  <2>3. Joined(jb, x)
    BY DEF JoinTable
  <2>4. IF jb[x].state = "joining" THEN x \in jb[o].wake /\ jb[o].state # "zombie"
        ELSE jb[o].state = "zombie"
    BY <2>2, <2>3 DEF Joined
  <2>5. CASE x \in jb[j].wake
    <3>1. o = j
      BY <2>5 DEF JoinTable, Enrolled
    <3>2. kb[x].state = "running" /\ kb[o].state = "zombie"
      BY <1>6, <2>2, <2>5, <3>1
    <3> QED BY <3>2
  <2>6. CASE x \notin jb[j].wake
    <3>1. kb[x].state = jb[x].state
      BY <1>6, <2>2, <2>6
    <3>2. CASE jb[x].state = "joining"
      BY <1>6, <2>1, <2>4, <2>6, <3>1, <3>2
    <3>3. CASE jb[x].state # "joining"
      <4>1. ~Alive(jb, o)
        BY <2>4, <3>3 DEF Alive
      <4> QED BY <1>6, <2>1, <2>4, <3>1, <3>3, <4>1
    <3> QED BY <3>2, <3>3
  <2> QED BY <2>5, <2>6
<1>8. ASSUME NEW x \in Job PROVE Enrolled(kb, x)
  <2>0. Enrolled(jb, x) /\ jb[x].target \in Job \cup {NoJob} /\ jb[x].wake \subseteq Job
    BY DEF JoinTable, Table, JobRecord
  <2>1. kb[x].state \in {"unborn", "to_start", "removed"} => kb[x].target = NoJob
    BY <1>6, <2>0 DEF Enrolled
  <2>2. kb[x].target # NoJob => kb[kb[x].target].state # "unborn"
    BY <1>6, <2>0 DEF Enrolled
  <2>3. kb[x].state = "zombie" => kb[x].wake = {}
    BY <1>6, <2>0 DEF Enrolled
  <2>4. \A y \in kb[x].wake : y # x /\ kb[y].target = x
    BY <1>6, <2>0 DEF Enrolled
  <2> QED BY <2>1, <2>2, <2>3, <2>4 DEF Enrolled
<1> QED
  BY <1>1, <1>7, <1>8 DEF JoinTable

(* A live job changes state; if it joins another it does not change whether  *)
(* it is suspended in it.                                                    *)
LEMMA RestateJoin ==
  ASSUME NEW jb \in Table, NEW j \in Job, JoinTable(jb), NEW r,
         r.target = jb[j].target, r.wake = jb[j].wake,
         r.state \notin {"unborn", "to_start", "removed", "zombie"},
         jb[j].state # "zombie",
         \/ jb[j].target = NoJob
         \/ /\ Alive(jb, j) /\ jb[j].state # "joining" /\ r.state # "joining"
            /\ r.exc = jb[j].exc
  PROVE  JoinTable([jb EXCEPT ![j] = r])
<1> DEFINE kb == [jb EXCEPT ![j] = r]
<1>1. kb[j] = r /\ \A x \in Job \ {j} : kb[x] = jb[x]
  BY DEF Table
<1> HIDE DEF kb
<1>2. \A x \in Job : /\ kb[x].target = jb[x].target /\ kb[x].wake = jb[x].wake
                     /\ kb[x].state = "zombie" <=> jb[x].state = "zombie"
                     /\ kb[x].state = "unborn" => jb[x].state = "unborn"
  BY <1>1
<1>3. ASSUME NEW x \in Job PROVE Joined(kb, x)
  <2>1. jb[x].target \in Job \cup {NoJob} /\ Joined(jb, x)
    BY DEF Table, JobRecord, JoinTable
  <2>2. CASE x = j
    BY <1>1, <1>2, <2>1, <2>2 DEF Joined
  <2>3. CASE x # j
    BY <1>1, <1>2, <2>1, <2>3 DEF Joined, Alive
  <2> QED BY <2>2, <2>3
<1>4. ASSUME NEW x \in Job PROVE Enrolled(kb, x)
  <2>1. jb[x].target \in Job \cup {NoJob} /\ Enrolled(jb, x) /\ jb[x].wake \subseteq Job
    BY DEF Table, JobRecord, JoinTable
  <2> QED BY <1>1, <1>2, <2>1 DEF Enrolled
<1> QED
  BY <1>3, <1>4 DEF JoinTable, kb

(* A job is created: nobody joins it yet. *)
LEMMA BirthJoin ==
  ASSUME NEW jb \in Table, NEW c \in Job, JoinTable(jb), jb[c].state = "unborn",
         NEW r, r.state = "to_start", r.target = NoJob, r.wake = {}
  PROVE  JoinTable([jb EXCEPT ![c] = r])
<1> DEFINE kb == [jb EXCEPT ![c] = r]
<1>1. kb[c] = r /\ \A x \in Job \ {c} : kb[x] = jb[x]
  BY DEF Table
<1> HIDE DEF kb
<1>2. \A x \in Job : jb[x].target \in Job \cup {NoJob} /\ jb[x].wake \subseteq Job
                      /\ Joined(jb, x) /\ Enrolled(jb, x)
  BY DEF Table, JobRecord, JoinTable
<1>3. \A x \in Job : jb[x].target # c
  BY <1>2, NoJobAssumption DEF Enrolled
<1>4. jb[c].target = NoJob
  BY <1>2 DEF Enrolled
<1>5. ASSUME NEW x \in Job PROVE Joined(kb, x)
  <2>1. CASE x = c
    BY <1>1, <2>1 DEF Joined
  <2>2. CASE x # c
    BY <1>1, <1>2, <1>3, <2>2 DEF Joined, Alive
  <2> QED BY <2>1, <2>2
<1>6. ASSUME NEW x \in Job PROVE Enrolled(kb, x)
  <2>1. CASE x = c
    BY <1>1, <2>1 DEF Enrolled
  <2>2. CASE x # c
    <3>1. \A y \in jb[x].wake : y # c
      BY <1>2, <1>4, NoJobAssumption DEF Enrolled
    <3> QED BY <1>1, <1>2, <1>3, <2>2, <3>1 DEF Enrolled
  <2> QED BY <2>1, <2>2
<1> QED
  BY <1>5, <1>6 DEF JoinTable, kb

(* A job leaves the list of the one it joined, or is in none: the job it     *)
(* joined, if any, has terminated or is told.                                *)
LEMMA QuitJoin ==
  ASSUME NEW jb \in Table, NEW kb \in Table, NEW j \in Job, JoinTable(jb),
         kb[j].target = NoJob,
         \A x \in Job : /\ x # j => kb[x].target = jb[x].target /\ kb[x].exc = jb[x].exc
                        /\ kb[x].state = jb[x].state
                        /\ kb[x].wake = jb[x].wake \ {j}
  PROVE  JoinTable(kb)
<1>1. \A x \in Job : jb[x].target \in Job \cup {NoJob} /\ jb[x].wake \subseteq Job
                      /\ Joined(jb, x) /\ Enrolled(jb, x)
  BY DEF Table, JobRecord, JoinTable
<1>2. ASSUME NEW x \in Job PROVE Joined(kb, x)
  <2>1. CASE x = j
    BY <2>1 DEF Joined
  <2>2. CASE x # j
    BY <1>1, <2>2 DEF Joined, Alive
  <2> QED BY <2>1, <2>2
<1>3. ASSUME NEW x \in Job PROVE Enrolled(kb, x)
  <2>1. CASE x = j
    BY <1>1, <2>1 DEF Enrolled
  <2>2. CASE x # j
    BY <1>1, <2>2 DEF Enrolled
  <2> QED BY <2>1, <2>2
<1> QED
  BY <1>2, <1>3 DEF JoinTable

-----------------------------------------------------------------------------
(* The steps, for the joiners *)

(* The current job joins nobody. *)
LEMMA JoinableNow ==
  ASSUME QueueInv, JoinersInv, NEW j \in Job, current = j
  PROVE  Joinable(job, j)
BY CurrentJob, NoJobAssumption DEF JoinersInv, Joinable, Started

(* The current job goes on with another table. *)
LEMMA JoinStay ==
  ASSUME NEW j \in Job, current' = j, Joinable(job', j)
  PROVE  JoinersInv'
BY DEF JoinersInv, Joinable

(* The current job suspends itself, to join nobody. *)
LEMMA JoinSuspend ==
  ASSUME NEW kb, NEW j \in Job, Joinable(kb, j),
         NEW s \in {"running", "sleeping", "waiting"}, Suspend(kb, j, s)
  PROVE  JoinersInv'
<1> DEFINE r == [kb[j] EXCEPT !.state = s, !.save = kb[j].sef]
<1>1. kb \in Table /\ JoinTable(kb) /\ kb[j].target = NoJob /\ kb[j].state # "zombie"
  BY DEF Joinable, Alive
<1>2. r.state = s /\ r.target = kb[j].target /\ r.wake = kb[j].wake
  BY <1>1 DEF Table, JobRecord
<1>3. job' = [kb EXCEPT ![j] = r] /\ current' = NoJob
  BY DEF Suspend, Leave
<1> HIDE DEF r
<1>4. JoinTable([kb EXCEPT ![j] = r])
  BY <1>1, <1>2, RestateJoin
<1> QED
  BY <1>3, <1>4 DEF JoinersInv

(* The current job terminates. *)
LEMMA JoinDie ==
  ASSUME NEW kb, NEW j \in Job, Joinable(kb, j), Leave(Die(kb, j), j)
  PROVE  JoinersInv'
<1>1. Joinable(Uncollect(kb, j, 0), j)
  BY UncollectJoinable
<1>2. JoinTable(Die(kb, j))
  BY <1>1, CleanupJoin DEF Die, Joinable
<1>3. job' = Die(kb, j) /\ current' = NoJob
  BY DEF Leave
<1> QED
  BY <1>2, <1>3 DEF JoinersInv

(* It terminates, and throws a ChildException into its parent. *)
LEMMA JoinDieOfError ==
  ASSUME NEW j \in Job, Joinable(job, j), Leave(DieOfError(job, j), j)
  PROVE  JoinersInv'
<1> DEFINE kb == AsyncThrow(job, {job[j].parent}, ChildException)
<1>1. ChildException \in Exception /\ ChildException # NoException /\ job \in Table
  BY ExceptionType DEF ChildException, NoException, Joinable
<1>2. kb \in Table /\ \A x \in Job : Told(job, kb, x)
  BY <1>1, AsyncThrowType, AsyncThrowTold
<1>3. Joinable(kb, j)
  <2> HIDE DEF kb
  <2> QED BY <1>2, ToldJoinable
<1>4. DieOfError(job, j) \in {Die(job, j), Die(kb, j)}
  BY DEF DieOfError
<1> QED
  BY <1>3, <1>4, JoinDie

(* yield_until_terminated enrolls the current job. *)
LEMMA JoinEnroll ==
  ASSUME NEW j \in Job, Joinable(job, j), NEW o \in Job, Join(j, o)
  PROVE  JoinersInv'
<1> DEFINE queued == IF o = j THEN job ELSE [job EXCEPT ![o].wake = @ \cup {j}]
           kb == [queued EXCEPT ![j].target = o]
           lb == [kb EXCEPT ![j] = [@ EXCEPT !.state = "joining", !.save = kb[j].sef]]
<1>1. /\ job \in Table /\ JoinTable(job) /\ job[j].target = NoJob
      /\ job[j].state \notin {"zombie", "unborn"}
      /\ job[o].state \notin {"unborn", "zombie"}
  BY DEF Joinable, Alive, Join
<1>2. job' = lb /\ current' = NoJob
  BY DEF Join, Suspend, Leave
<1>3. ASSUME NEW x \in Job
      PROVE  /\ queued[x] \in JobRecord
             /\ queued[x].state = job[x].state /\ queued[x].exc = job[x].exc
             /\ queued[x].target = job[x].target
             /\ queued[x].wake = IF x = o /\ o # j THEN job[x].wake \cup {j} ELSE job[x].wake
  <2> DEFINE r == [job[o] EXCEPT !.wake = @ \cup {j}]
  <2>1. job[x] \in JobRecord /\ job[o] \in JobRecord
    BY <1>1 DEF Table
  <2>2. /\ r \in JobRecord /\ r.state = job[o].state /\ r.exc = job[o].exc
        /\ r.target = job[o].target /\ r.wake = job[o].wake \cup {j}
    BY <2>1 DEF JobRecord
  <2>3. CASE o = j
    BY <2>1, <2>3
  <2>4. CASE o # j /\ x # o
    <3>1. queued[x] = job[x]
      BY <1>1, <2>4 DEF Table
    <3> QED BY <2>1, <2>4, <3>1
  <2>5. CASE o # j /\ x = o
    <3>1. queued[x] = r
      BY <1>1, <2>5 DEF Table
    <3> HIDE DEF r
    <3> QED BY <2>2, <2>5, <3>1
  <2> QED BY <2>3, <2>4, <2>5
<1>4. DOMAIN queued = Job
  BY <1>1 DEF Table
<1> HIDE DEF queued
<1>5. ASSUME NEW x \in Job
      PROVE  /\ kb[x] \in JobRecord
             /\ kb[x].state = queued[x].state /\ kb[x].exc = queued[x].exc
             /\ kb[x].target = IF x = j THEN o ELSE queued[x].target
             /\ kb[x].wake = queued[x].wake
  <2>1. CASE x # j
    <3>1. kb[x] = queued[x]
      BY <1>4, <2>1
    <3> HIDE DEF kb
    <3> QED BY <1>3, <2>1, <3>1
  <2>2. CASE x = j
    <3> DEFINE r == [queued[j] EXCEPT !.target = o]
    <3>1. queued[j] \in JobRecord
      BY <1>3
    <3>2. /\ r \in JobRecord /\ r.state = queued[j].state /\ r.exc = queued[j].exc
          /\ r.target = o /\ r.wake = queued[j].wake
      BY <3>1 DEF JobRecord
    <3>3. kb[x] = r
      BY <1>4, <2>2
    <3> HIDE DEF kb, r
    <3> QED BY <2>2, <3>2, <3>3
  <2> QED BY <2>1, <2>2
<1>6. DOMAIN kb = Job
  BY <1>4
<1> HIDE DEF kb
<1>7. ASSUME NEW x \in Job
      PROVE  /\ lb[x].state = IF x = j THEN "joining" ELSE kb[x].state
             /\ lb[x].exc = kb[x].exc
             /\ lb[x].target = kb[x].target /\ lb[x].wake = kb[x].wake
  BY <1>5, <1>6 DEF JobRecord
<1> HIDE DEF lb
<1>8. ASSUME NEW x \in Job
      PROVE  /\ lb[x].state = IF x = j THEN "joining" ELSE job[x].state
             /\ lb[x].exc = job[x].exc
             /\ lb[x].target = IF x = j THEN o ELSE job[x].target
             /\ lb[x].wake = IF x = o /\ o # j THEN job[x].wake \cup {j} ELSE job[x].wake
  BY <1>3, <1>5, <1>7
<1>9. \A x \in Job : job[x].target \in Job \cup {NoJob} /\ job[x].wake \subseteq Job
                      /\ Joined(job, x) /\ Enrolled(job, x)
  BY <1>1 DEF Table, JobRecord, JoinTable
<1>10. ASSUME NEW x \in Job PROVE Joined(lb, x)
  <2>1. CASE x = j
    BY <1>1, <1>8, <2>1 DEF Joined
  <2>2. CASE x # j
    <3> DEFINE p == job[x].target
    <3>1. /\ lb[x].target = p /\ lb[x].state = job[x].state /\ lb[x].exc = job[x].exc
          /\ p \in Job \cup {NoJob} /\ Joined(job, x)
      BY <1>8, <1>9, <2>2
    <3>2. ASSUME p \in Job
          PROVE  /\ job[p].wake \subseteq lb[p].wake
                 /\ lb[p].state = "zombie" <=> job[p].state = "zombie"
      BY <1>1, <1>8, <3>2
    <3> HIDE DEF p
    <3>3. p = job[x].target
      BY DEF p
    <3> QED BY <3>1, <3>2, <3>3 DEF Joined, Alive
  <2> QED BY <2>1, <2>2
<1>11. ASSUME NEW x \in Job PROVE Enrolled(lb, x)
  <2>1. \A y \in job[x].wake : y # j
    BY <1>1, <1>9, NoJobAssumption DEF Enrolled
  <2>2. ASSUME NEW y \in lb[x].wake PROVE y # x /\ lb[y].target = x
    <3>1. CASE y \in job[x].wake
      <4>1. y \in Job /\ y # j /\ y # x /\ job[y].target = x
        BY <1>9, <2>1, <3>1 DEF Enrolled
      <4> QED BY <1>8, <4>1
    <3>2. CASE y \notin job[x].wake
      <4>1. y = j /\ x = o /\ o # j
        BY <1>8, <2>2, <3>2
      <4> QED BY <1>8, <4>1
    <3> QED BY <3>1, <3>2
  <2>3. ASSUME lb[x].target # NoJob PROVE lb[lb[x].target].state # "unborn"
    <3> DEFINE p == lb[x].target
    <3>1. p \in Job /\ job[p].state # "unborn"
      <4>1. CASE x = j
        BY <1>1, <1>8, <4>1
      <4>2. CASE x # j
        <5>1. p = job[x].target
          BY <1>8, <4>2
        <5> QED BY <1>9, <2>3, <5>1 DEF Enrolled
      <4> QED BY <4>1, <4>2
    <3> HIDE DEF p
    <3>2. lb[p].state # "unborn"
      BY <1>8, <3>1
    <3> QED BY <3>2 DEF p
  <2>4. lb[x].state \in {"unborn", "to_start", "removed"} => lb[x].target = NoJob
    BY <1>8, <1>9 DEF Enrolled
  <2>5. lb[x].state = "zombie" => lb[x].wake = {}
    BY <1>1, <1>8, <1>9 DEF Enrolled
  <2> QED BY <2>2, <2>3, <2>4, <2>5 DEF Enrolled
<1> QED
  BY <1>2, <1>10, <1>11 DEF JoinersInv, JoinTable

(* What ends a quantum. *)
LEMMA JoinReturn ==
  ASSUME QueueInv, JoinersInv, NEW j \in Job, Return(j)
  PROVE  JoinersInv'
<1>1. Joinable(job, j)
  BY QuantumStep, JoinableNow
<1> QED
  BY <1>1, JoinSuspend, JoinDie, JoinDieOfError, JoinEnroll
  DEF Return, Yield, Sleep, WaitForChanges, Fail, Finish, DieOfException, DieOfChild

(* What ends the propagation of an exception. *)
LEMMA JoinCatch ==
  ASSUME QueueInv, JoinersInv, NEW j \in Job, Catch(j)
  PROVE  JoinersInv'
<1>1. Joinable(job, j) /\ current = j
  BY QuantumStep, JoinableNow
<1>2. /\ job \in Table /\ DepthInv(job) /\ Started(job, j) /\ Alive(job, j)
      /\ thrown.kind = "stop" => thrown.depth < Len(job[j].tags)
  BY <1>1, CurrentJob
<1>3. Len(job[j].tags) \in Nat /\ thrown.depth \in Nat /\ job[j].base \in Nat
  <2>1. job[j].tags \in Seq(Tag) /\ job[j].base \in Nat
    BY <1>2 DEF Table, JobRecord
  <2> QED BY <2>1 DEF QueueInv, TypeOK, Exception
<1>4. ASSUME CatchStop(j) PROVE JoinersInv'
  <2> DEFINE d == thrown.depth
             jb == Unwind(job, j, d, d + 1)
  <2>1. d \in 0..Len(job[j].tags)
    BY <1>2, <1>3, <1>4 DEF CatchStop
  <2>2. jb \in Table
    BY <1>2, <2>1, UnwindMoved
  <2>3. Joinable(jb, j)
    BY <1>1, <2>2, UnwindJoinable
  <2>4. Suspend(jb, j, "running") \/ Continue(jb)
    BY <1>4 DEF CatchStop
  <2> HIDE DEF jb
  <2> QED BY <1>1, <2>3, <2>4, JoinSuspend, JoinStay DEF Continue
<1>5. ASSUME NEW d \in 0..MaxDepth, CatchChild(j, d) PROVE JoinersInv'
  <2> DEFINE jb == Unwind(job, j, d, d)
  <2>1. d \in 0..Len(job[j].tags)
    BY <1>3, <1>5, MaxDepthAssumption DEF CatchChild
  <2>2. jb \in Table
    BY <1>2, <2>1, UnwindMoved
  <2>3. Joinable(jb, j)
    BY <1>1, <2>2, UnwindJoinable
  <2>4. Continue(jb)
    BY <1>5 DEF CatchChild
  <2> HIDE DEF jb
  <2> QED BY <1>1, <2>3, <2>4, JoinStay DEF Continue
<1> QED
  BY <1>4, <1>5 DEF Catch

(* What an operation leaves: Told, for the executing job, which stays. *)
LEMMA JoinTold ==
  ASSUME NEW kb \in Table, NEW j \in Job, Joinable(job, j), current' = j,
         job' \in {job, kb}, \A x \in Job : Told(job, kb, x)
  PROVE  JoinersInv'
BY ToldJoinable, JoinStay

(* terminate_now on the current job keeps the joiners. *)
LEMMA JoinTerminateSelf ==
  ASSUME NEW jb, NEW j \in Job, Joinable(jb, j), TerminateSelf(jb, j), current' = j
  PROVE  JoinersInv'
<1> DEFINE T == TerminateNow(jb, jb[j].children)
           r == [T[j] EXCEPT !.children = {}, !.sef = FALSE, !.nonint = FALSE]
<1>1. T \in Table /\ Joinable(T, j)
  BY TerminateNowType, TerminateNowTold, ToldJoinable DEF Joinable
<1>2. job' = [T EXCEPT ![j] = r]
  BY DEF TerminateSelf
<1> HIDE DEF T
<1>3. /\ r \in JobRecord /\ r.state = T[j].state /\ r.exc = T[j].exc
      /\ r.target = T[j].target /\ r.wake = T[j].wake
  <2>1. T[j] \in JobRecord
    BY <1>1 DEF Table
  <2> QED BY <2>1 DEF JobRecord
<1> HIDE DEF r
<1>4. job' \in Table
  BY <1>1, <1>2, <1>3 DEF Table
<1>5. \A x \in Job : Told(T, job', x)
  BY <1>1, <1>2, <1>3, OtherFieldsTold
<1>6. Joinable(job', j)
  BY <1>1, <1>4, <1>5, ToldJoinable
<1> QED
  BY <1>6, JoinStay

(* A new job, added by the current one or by the server. *)
LEMMA BirthJoinable ==
  ASSUME NEW jb \in Table, NEW j \in Job, Joinable(jb, j), NEW c \in Job,
         jb[c].state = "unborn", NEW s \in Seq(Tag), NEW p \in Job \cup {NoJob},
         NEW l \in Nat
  PROVE  Joinable([jb EXCEPT ![c] = NewJob(s, p, l)], j)
<1> DEFINE r == NewJob(s, p, l)
           kb == [jb EXCEPT ![c] = r]
<1>1. r \in JobRecord /\ r.state = "to_start" /\ r.target = NoJob /\ r.wake = {}
  BY NewJobType DEF NewJob, Unborn
<1> HIDE DEF r
<1>2. JoinTable(kb)
  BY <1>1, BirthJoin DEF Joinable
<1>3. j # c
  BY DEF Joinable, Alive
<1> QED
  BY <1>1, <1>2, <1>3 DEF Joinable, Table, Alive, r

(* Every operation of the current job. *)
LEMMA JoinOperation ==
  ASSUME QueueInv, QueueInv', JoinersInv, NEW j \in Job, Operation(j)
  PROVE  JoinersInv'
<1>1. Joinable(job, j) /\ current = j
  BY QuantumStep, JoinableNow
<1>2. /\ job \in Table /\ DepthInv(job) /\ Started(job, j) /\ Alive(job, j)
      /\ job[j] \in JobRecord
  BY <1>1, CurrentJob DEF Table
<1>3. job' \in Table
  BY DEF QueueInv, TypeOK, Table
<1>4. ASSUME NEW t \in Tag, EnterTag(j, t) PROVE JoinersInv'
  <2> DEFINE s == Append(job[j].tags, t)
             u == Urgent(s)
             r == [job[j] EXCEPT !.tags = s, !.rt = u]
             jb == [job EXCEPT ![j] = r]
  <2>1. Suspend(jb, j, "running") \/ (Continue(jb) /\ current' = j)
    BY <1>1, <1>4 DEF EnterTag, Continue
  <2>2. s \in Seq(Tag) /\ u \in BOOLEAN
    BY <1>2 DEF JobRecord, Urgent
  <2>3. /\ r \in JobRecord /\ r.state = job[j].state /\ r.exc = job[j].exc
        /\ r.target = job[j].target /\ r.wake = job[j].wake
    <3> HIDE DEF s, u
    <3> QED BY <1>2, <2>2 DEF JobRecord
  <2> HIDE DEF r
  <2>4. jb \in Table /\ \A x \in Job : Told(job, jb, x)
    BY <1>2, <2>3, OtherFieldsTold DEF Table
  <2>5. Joinable(jb, j)
    <3> HIDE DEF jb
    <3> QED BY <1>1, <2>4, ToldJoinable
  <2> HIDE DEF jb
  <2> QED BY <2>1, <2>5, JoinSuspend, JoinStay DEF Continue
<1>5. ASSUME NEW t \in Tag, Freeze(j, t) \/ Unfreeze(j, t) PROVE JoinersInv'
  <2>1. Suspend(job, j, "running") \/ (job' = job /\ current' = j)
    BY <1>1, <1>5 DEF Freeze, Unfreeze, Continue
  <2> QED BY <1>1, <2>1, JoinSuspend, JoinStay
<1>6. ASSUME NEW t \in Tag, SignalStop(j, t) PROVE JoinersInv'
  <2> DEFINE K == Nodes(pending) \ {j}
             R == Withdrawn(K, t)
             told == RegisterStoppedTag(job, K \ NotStarted(K), t)
             p == StopPosition(job, j, t)
  <2>1. /\ current' = j
        /\ job' = [x \in Job |->
                  IF x \in R THEN [job[x] EXCEPT !.state = "removed"]
                  ELSE IF x = j /\ p > 0
                  THEN [job[j] EXCEPT !.sef = FALSE, !.nonint = FALSE]
                  ELSE told[x]]
    BY <1>1, <1>6 DEF SignalStop
  <2>2. \A x \in Job : Told(job, told, x)
    BY <1>2, StoppedTold
  <2>3. \A x \in R : x # j /\ job[x].state = "to_start"
    BY DEF Withdrawn
  <2> HIDE DEF R, told, p
  <2>4. ASSUME NEW x \in Job PROVE Told(job, job', x)
    <3>0. job[x] \in JobRecord
      BY <1>2 DEF Table
    <3>1. CASE x \in R
      <4>1. job'[x] = [job[x] EXCEPT !.state = "removed"]
        BY <2>1, <3>1
      <4> QED BY <2>3, <3>0, <3>1, <4>1 DEF JobRecord, Told
    <3>2. CASE x \notin R /\ x = j /\ p > 0
      <4>1. job'[x] = [job[x] EXCEPT !.sef = FALSE, !.nonint = FALSE]
        BY <2>1, <3>2
      <4> QED BY <3>0, <4>1 DEF JobRecord, Told
    <3>3. CASE x \notin R /\ ~(x = j /\ p > 0)
      <4>1. job'[x] = told[x]
        BY <2>1, <3>3
      <4> QED BY <2>2, <4>1 DEF Told
    <3> QED BY <3>1, <3>2, <3>3
  <2> QED BY <1>1, <1>3, <2>1, <2>4, ToldJoinable, JoinStay
<1>7. ASSUME LeaveTag(j) PROVE JoinersInv'
  <2> DEFINE n == Len(job[j].tags)
             jb == Unwind(job, j, n - 1, n)
  <2>1. job' = jb /\ current' = j
    BY <1>1, <1>7 DEF LeaveTag, Continue
  <2>2. Joinable(jb, j)
    BY <1>1, <1>3, <2>1, UnwindJoinable
  <2> QED BY <2>1, <2>2, JoinStay
<1>8. ASSUME NEW b \in BOOLEAN, SetSideEffectFree(j, b) \/ SetNonInterruptible(j, b)
      PROVE  JoinersInv'
  <2>1. /\ current' = j
        /\ job' \in {[job EXCEPT ![j].sef = b], [job EXCEPT ![j].nonint = b]}
    BY <1>1, <1>8 DEF SetSideEffectFree, SetNonInterruptible, Continue
  <2>2. \A x \in Job : Told(job, job', x)
    BY <1>2, <2>1 DEF Table, JobRecord, Told
  <2> QED BY <1>1, <1>3, <2>1, <2>2, ToldJoinable, JoinStay
<1>9. ASSUME NEW c \in Job, StartChild(j, c) PROVE JoinersInv'
  <2> DEFINE s == job[j].tags
             new == NewJob(s, j, Len(s))
             jb == [job EXCEPT ![c] = new]
             r == [jb[j] EXCEPT !.children = @ \cup {c}]
             kb == [jb EXCEPT ![j] = r]
  <2>1. job[c].state = "unborn" /\ s \in Seq(Tag) /\ Len(s) \in Nat
    BY <1>2, <1>9 DEF StartChild, JobRecord
  <2>2. job' \in {job, kb} /\ current' = j
    BY <1>1, <1>9 DEF StartChild, AddJob
  <2>3. jb \in Table /\ Joinable(jb, j)
    <3>1. Joinable(jb, j)
      BY <1>1, <1>2, <2>1, BirthJoinable
    <3> QED BY <3>1 DEF Joinable
  <2> HIDE DEF jb
  <2>4. /\ r.state = jb[j].state /\ r.exc = jb[j].exc
        /\ r.target = jb[j].target /\ r.wake = jb[j].wake
    BY <2>3 DEF Table, JobRecord
  <2> HIDE DEF r
  <2>5. \A x \in Job : Told(jb, kb, x)
    BY <2>3, <2>4, OtherFieldsTold
  <2>6. CASE job' = kb
    BY <1>3, <2>2, <2>3, <2>5, <2>6, ToldJoinable, JoinStay
  <2> QED BY <1>1, <2>2, <2>6, JoinStay
<1>10. ASSUME NEW c \in Job, NEW b \in BOOLEAN, Spawn(j, c, b) PROVE JoinersInv'
  <2> DEFINE s == IF b THEN << >> ELSE job[j].tags
             kb == [job EXCEPT ![c] = NewJob(s, NoJob, 0)]
  <2>1. job[c].state = "unborn" /\ s \in Seq(Tag)
    BY <1>2, <1>10 DEF Spawn, JobRecord
  <2>2. job' \in {job, kb} /\ current' = j
    BY <1>1, <1>10 DEF Spawn, AddJob
  <2>3. Joinable(kb, j)
    <3> HIDE DEF s
    <3> QED BY <1>1, <1>2, <2>1, BirthJoinable
  <2> QED BY <1>1, <2>2, <2>3, JoinStay
<1>11. ASSUME NEW o \in Job, TerminateJob(j, o) PROVE JoinersInv'
  <2>1. job' = TerminateNow(job, {o}) /\ current' = j
    BY <1>1, <1>11 DEF TerminateJob, Continue
  <2> QED BY <1>1, <1>2, <1>3, <2>1, TerminateNowTold, ToldJoinable, JoinStay
<1>12. CASE TerminateCurrent(j)
  BY <1>1, <1>12, JoinTerminateSelf DEF TerminateCurrent
<1>13. CASE KillallJobs(j)
  <2>1. PICK anc \in [0..Len(pending) -> Job] :
          KillallFrom(j, anc[Len(pending)])
    BY <1>13 DEF KillallJobs
  <2> DEFINE a == anc[Len(pending)]
             jb == TerminateNow(job, {x \in Nodes(pending) : ~AncesterOf(a, x)})
  <2>2. current' = j
    BY <1>1, <1>13 DEF KillallJobs
  <2>3. jb \in Table /\ Joinable(jb, j)
    BY <1>1, <1>2, TerminateNowType, TerminateNowTold, ToldJoinable
  <2>4. TerminateSelf(jb, j) \/ job' \in {jb, AsyncThrow(jb, {a}, TerminateException)}
    BY <2>1 DEF KillallFrom
  <2> HIDE DEF jb
  <2>5. TerminateException \in Exception /\ TerminateException # NoException
    BY NoExceptionKind
  <2>6. CASE job' = AsyncThrow(jb, {a}, TerminateException)
    BY <1>3, <2>2, <2>3, <2>5, <2>6, AsyncThrowTold, ToldJoinable, JoinStay
  <2> QED BY <2>2, <2>3, <2>4, <2>6, JoinTerminateSelf, JoinStay
<1> QED
  BY <1>4, <1>5, <1>6, <1>7, <1>8, <1>9, <1>10, <1>11, <1>12, <1>13 DEF Operation

(* The round enters a job. *)
LEMMA JoinRound ==
  ASSUME QueueInv, QueueInv', JoinersInv, NEW j \in Job,
         StartJob(j) \/ ResumeThrow(j) \/ ResumeFrozen(j) \/ ResumeJob(j)
  PROVE  JoinersInv'
<1>1. /\ job \in Table /\ job' \in Table /\ job[j] \in JobRecord
      /\ JoinTable(job) /\ Joined(job, j) /\ Enrolled(job, j)
  BY DEF QueueInv, TypeOK, Table, JoinersInv, JoinTable
<1>2. current = NoJob /\ job[j].state \notin {"unborn", "removed", "zombie"}
  BY AtNodeFacts DEF StartJob, ResumeThrow, ResumeFrozen, ResumeJob
<1>3. CASE StartJob(j)
  <2> DEFINE r == [job[j] EXCEPT !.state = "running", !.exc = NoException]
  <2>1. job' = [job EXCEPT ![j] = r] /\ current' = j /\ job[j].state = "to_start"
    BY <1>3 DEF StartJob
  <2>2. r.state = "running" /\ r.target = job[j].target /\ r.wake = job[j].wake
    BY <1>1 DEF JobRecord
  <2>3. job[j].target = NoJob
    BY <1>1, <2>1 DEF Enrolled
  <2> HIDE DEF r
  <2>4. JoinTable([job EXCEPT ![j] = r])
    BY <1>1, <1>2, <2>2, <2>3, RestateJoin
  <2>5. job'[j].target = NoJob
    BY <1>1, <2>1, <2>2, <2>3 DEF Table
  <2> QED BY <2>1, <2>4, <2>5 DEF JoinersInv
<1>4. CASE ResumeThrow(j)
  <2> DEFINE r == [job[j] EXCEPT !.exc = NoException]
             jb == [job EXCEPT ![j] = r]
             o == jb[j].target
             left == [x \in Job |->
                 IF x = o THEN [jb[x] EXCEPT !.wake = @ \ {j}] ELSE jb[x]]
             kb == [left EXCEPT ![j].target = NoJob]
  <2>1. job' = kb /\ current' = j
    BY <1>1, <1>4 DEF ResumeThrow, Dequeue, Table
  <2>2. /\ r \in JobRecord /\ r.state = job[j].state
        /\ r.target = job[j].target /\ r.wake = job[j].wake
    BY <1>1, NoExceptionKind DEF JobRecord
  <2> HIDE DEF r
  <2>3. jb[j] = r /\ \A x \in Job : jb[x] \in JobRecord /\ (x # j => jb[x] = job[x])
    BY <1>1, <2>2 DEF Table
  <2>4. o = job[j].target
    BY <2>2, <2>3
  <2> HIDE DEF jb, o
  <2>5. ASSUME NEW x \in Job
        PROVE  /\ left[x] \in JobRecord
               /\ left[x].state = jb[x].state /\ left[x].exc = jb[x].exc
               /\ left[x].target = jb[x].target
               /\ left[x].wake = IF x = o THEN jb[x].wake \ {j} ELSE jb[x].wake
    BY <2>3 DEF JobRecord
  <2>6. DOMAIN left = Job
    OBVIOUS
  <2> HIDE DEF left
  <2>7. ASSUME NEW x \in Job
        PROVE  /\ kb[x].state = left[x].state /\ kb[x].exc = left[x].exc
               /\ kb[x].target = IF x = j THEN NoJob ELSE left[x].target
               /\ kb[x].wake = left[x].wake
    BY <2>5, <2>6 DEF JobRecord
  <2> HIDE DEF kb
  <2>8. ASSUME NEW x \in Job PROVE kb[x].wake = job[x].wake \ {j}
    <3>1. jb[x].wake = job[x].wake
      BY <2>2, <2>3
    <3>2. CASE x = o
      BY <2>5, <2>7, <3>1, <3>2
    <3>3. CASE x # o
      <4>1. j \notin job[x].wake
        BY <1>1, <2>4, <3>3 DEF JoinTable, Enrolled
      <4> QED BY <2>5, <2>7, <3>1, <3>3, <4>1
    <3> QED BY <3>2, <3>3
  <2>9. \A x \in Job : /\ x # j => kb[x].target = job[x].target /\ kb[x].exc = job[x].exc
                       /\ kb[x].state = job[x].state
    BY <2>2, <2>3, <2>5, <2>7
  <2>10. kb[j].target = NoJob /\ kb \in Table
    BY <1>1, <2>1, <2>7
  <2>11. JoinTable(kb)
    BY <1>1, <2>8, <2>9, <2>10, QuitJoin
  <2> QED BY <2>1, <2>10, <2>11 DEF JoinersInv
<1>5. CASE ResumeFrozen(j)
  <2> DEFINE r == [job[j] EXCEPT !.sef = TRUE, !.state = "waiting"]
  <2>1. job' = [job EXCEPT ![j] = r] /\ current' = NoJob
    BY <1>2, <1>5 DEF ResumeFrozen
  <2>2. r.state = "waiting" /\ r.target = job[j].target /\ r.wake = job[j].wake
        /\ r.exc = job[j].exc
    BY <1>1 DEF JobRecord
  <2>3. Alive(job, j) /\ job[j].state # "joining"
    BY <1>2, <1>5 DEF Alive, ResumeFrozen, MayStart
  <2> HIDE DEF r
  <2>4. JoinTable([job EXCEPT ![j] = r])
    BY <1>1, <1>2, <2>2, <2>3, RestateJoin
  <2> QED BY <2>1, <2>4 DEF JoinersInv
<1>6. CASE ResumeJob(j)
  <2> DEFINE r == [job[j] EXCEPT !.sef = job[j].save, !.target = NoJob]
             kb == [job EXCEPT ![j] = r]
  <2>1. job' = kb /\ current' = j
    BY <1>6 DEF ResumeJob
  <2>2. r.state = job[j].state /\ r.target = NoJob /\ r.wake = job[j].wake
    BY <1>1 DEF JobRecord
  <2> HIDE DEF r
  <2>3. kb[j] = r /\ \A x \in Job : x # j => kb[x] = job[x]
    BY <1>1 DEF Table
  <2> HIDE DEF kb
  <2>4. job[j].exc = NoException /\ job[j].state # "joining" /\ Alive(job, j)
    BY <1>2, <1>6 DEF Alive, ResumeJob, MayStart
  <2>5. ASSUME NEW x \in Job PROVE kb[x].wake = job[x].wake \ {j}
    <3>1. kb[x].wake = job[x].wake
      BY <2>2, <2>3
    <3>2. ASSUME j \in job[x].wake PROVE FALSE
      <4>1. job[j].target = x /\ x # j /\ x # NoJob
        BY <1>1, <3>2, NoJobAssumption DEF JoinTable, Enrolled
      <4>2. job[x].state = "zombie"
        BY <1>1, <2>4, <4>1 DEF Joined
      <4> QED BY <1>1, <3>2, <4>2 DEF JoinTable, Enrolled
    <3> QED BY <3>1, <3>2
  <2>6. \A x \in Job : /\ x # j => kb[x].target = job[x].target /\ kb[x].exc = job[x].exc
                       /\ kb[x].state = job[x].state
    BY <2>2, <2>3
  <2>7. kb[j].target = NoJob /\ kb \in Table
    BY <1>1, <2>1, <2>2, <2>3
  <2>8. JoinTable(kb)
    BY <1>1, <2>5, <2>6, <2>7, QuitJoin
  <2> QED BY <2>1, <2>7, <2>8 DEF JoinersInv
<1> QED
  BY <1>3, <1>4, <1>5, <1>6

(* Between two rounds. *)
LEMMA JoinServer ==
  ASSUME QueueInv, QueueInv', JoinersInv, ServerStep
  PROVE  JoinersInv'
<1>1. job \in Table /\ job' \in Table /\ JoinTable(job)
  BY DEF QueueInv, TypeOK, Table, JoinersInv
<1>2. current' = NoJob
  <2>1. current = NoJob
    BY NoJobAssumption DEF ServerStep, AddRootJob, WorldChange, ServerUnfreeze,
       ServerStop, ServerKillall, Outside, QueueInv, CurrentInv
  <2> QED BY <2>1 DEF ServerStep, AddRootJob, WorldChange, ServerUnfreeze, ServerStop,
             ServerKillall
<1>3. SUFFICES JoinTable(job')
  BY <1>2 DEF JoinersInv
<1>4. ASSUME NEW c \in Job, NEW s \in {<< >>} \cup {<<t>> : t \in Tag}, AddRootJob(c, s)
      PROVE  JoinTable(job')
  <2> DEFINE new == NewJob(s, NoJob, 0)
             u == Urgent(s)
             r == [new EXCEPT !.rt = u]
  <2>1. job' = [job EXCEPT ![c] = r] /\ job[c].state = "unborn"
    BY <1>4 DEF AddRootJob
  <2>2. new.state = "to_start" /\ new.target = NoJob /\ new.wake = {}
    BY DEF NewJob, Unborn
  <2>3. r.state = "to_start" /\ r.target = NoJob /\ r.wake = {}
    <3>1. r.state = new.state /\ r.target = new.target /\ r.wake = new.wake
      BY DEF NewJob, Unborn
    <3> QED BY <2>2, <3>1
  <2> HIDE DEF r
  <2> QED BY <1>1, <2>1, <2>3, BirthJoin
<1>5. ASSUME NEW t \in Tag, ServerStop(t) PROVE JoinTable(job')
  BY <1>1, <1>5, StoppedTold, ToldTable DEF ServerStop
<1>6. CASE ServerKillall
  BY <1>1, <1>6, TerminateNowTold, ToldTable DEF ServerKillall
<1>7. CASE WorldChange \/ \E t \in Tag : ServerUnfreeze(t)
  BY <1>1, <1>7 DEF WorldChange, ServerUnfreeze
<1> QED
  BY <1>4, <1>5, <1>6, <1>7 DEF ServerStep

(* Every step keeps the joiners where they should be. *)
LEMMA JoinStep == QueueInv /\ JoinersInv /\ [Next]_vars => JoinersInv'
<1> SUFFICES ASSUME QueueInv, JoinersInv, [Next]_vars PROVE JoinersInv'
  OBVIOUS
<1>0. QueueInv'
  BY NextInv
<1>1. CASE job' = job /\ current' = current
  BY <1>1 DEF JoinersInv
<1>2. ASSUME UNCHANGED vars \/ BeginRound \/ EndRound \/ IdleReturn \/ Over
             \/ \E j \in Job : KeepJob(j)
      PROVE  JoinersInv'
  BY <1>1, <1>2 DEF vars, BeginRound, EndRound, IdleReturn, Over, KeepJob
<1>3. ASSUME NEW j \in Job, Return(j) \/ Catch(j) \/ Operation(j) PROVE JoinersInv'
  BY <1>0, <1>3, JoinReturn, JoinCatch, JoinOperation
<1> QED
  BY <1>0, <1>2, <1>3, JoinRound, JoinServer DEF Next, RoundStep

(* Joining never misses a termination: a job suspended in                    *)
(* yield_until_terminated is in the to_wake_up_ list of a job that has not   *)
(* terminated, and one that leaves it normally joined a terminated job.      *)
THEOREM SpecJoinIsExact == Spec => []JoinIsExact
<1>1. Init => JoinersInv
  BY DEF Init, Unborn, JoinersInv, JoinTable, Joined, Enrolled, Alive
<1>2. JoinersInv => JoinIsExact
  BY DEF JoinersInv, JoinTable, JoinIsExact
<1> QED
  BY <1>1, <1>2, SpecQueueInv, JoinStep, PTL DEF Spec

=============================================================================
