-------------------------- MODULE SchedulerHistory --------------------------
(***************************************************************************)
(* Scheduler with two history variables that the properties about          *)
(* several rounds need.  They record what happened and disable no step.    *)
(***************************************************************************)
EXTENDS Scheduler

VARIABLES
  stale,  \* the waiting jobs that have not run since a job changed the world
  doomed  \* the jobs that were alive when killall_jobs was called

history == <<stale, doomed>>

(* A quantum begins or ends, and the job is not side-effect free then.  The   *)
(* first quantum of a job is not counted: execute_round does not remember it. *)
ChangesWorld ==
  \/ /\ current = NoJob /\ current' # NoJob
     /\ ~job[current'].sef /\ ~first'
  \/ /\ current # NoJob /\ current' = NoJob
     /\ ~job'[current].sef /\ ~first

Watching(jb, j) == jb[j].state = "waiting" /\ jb[j].exc = NoException

HistoryInit == stale = {} /\ doomed = {}

HistoryNext ==
  /\ stale' = {j \in Job \ {current, current'} :
                 /\ j \in stale \/ ChangesWorld
                 /\ Watching(job', j)
                 /\ ~FrozenBy(frozenTag', job', j)}
  /\ doomed' = IF ready_to_die' /\ ~ready_to_die
               THEN {j \in Job : Alive(job, j)} ELSE doomed

HInit == Init /\ HistoryInit
HNext == Next /\ HistoryNext
HSpec == HInit /\ [][HNext]_<<vars, history>>
HFairSpec == HSpec /\ Fairness

(* execute_round: "start waiting jobs if previous jobs in the run have had a *)
(* possible side effect or if the previous run may have had some"           *)
(* (scheduler.cc:231).  A job waiting for changes that has not run since a   *)
(* job may have changed the world is run again: the flag that makes the next *)
(* round start it is set, or it is still ahead in this one.                  *)
WaitersAreRechecked ==
  current = NoJob => \A j \in stale :
    \/ pse
    \/ start_waiting /\ \E i \in Ahead : pending[i] = j

(* The same during a quantum: the one that runs has been counted on entry.   *)
StaleInv ==
  \A j \in stale :
    pse \/ (start_waiting /\ \E i \in Ahead : pending[i] = j)

(* killall_jobs, from a job or from the server: every job alive at that time *)
(* eventually terminates, including the one that called it, its ancesters    *)
(* and the jobs they hold.                                                   *)
KillallTerminates == \A j \in Job : j \in doomed ~> ~Alive(job, j)

(* A job that received a fatal exception (terminate_now, or the stop of a    *)
(* tag it inherited) terminates, whatever state it was in.                   *)
FatalExceptionKills ==
  \A j \in Job :
    (\/ job[j].exc.kind = "terminate"
     \/ job[j].exc.kind = "stop" /\ job[j].exc.depth < job[j].base)
      ~> ~Alive(job, j)

(* Every job that asked for the processor with yield() gets it or dies.      *)
NoStarvation ==
  \A j \in Job : (job[j].state = "running" /\ ~Frozen(job, j))
                   ~> (current = j \/ ~Alive(job, j) \/ Frozen(job, j))

=============================================================================
