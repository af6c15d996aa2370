-------------------------- MODULE SchedulerProofs --------------------------
(***************************************************************************)
(* Proofs about Scheduler: QueueInv is inductive, hence TypeOK,            *)
(* NeverQueuedTwice, NoJobLost, OnlyLiveJobsQueued and RoundKnowsAllJobs   *)
(* hold for every set of jobs and tags, every MaxDepth and every set of    *)
(* operations.                                                             *)
(*                                                                         *)
(* First the operators on tables of Job objects: what they keep well-typed, *)
(* and what they leave alone (Same, Moved).  Then one lemma per way a step  *)
(* moves jobs between the lists (Leave, Pass, Enter, AddJob...), and one    *)
(* per action.                                                             *)
(***************************************************************************)
EXTENDS Scheduler, SequenceTheorems, WellFoundedInduction, TLAPS

(* The type of the variable job. *)
Table == [Job -> JobRecord]

(* The exceptions the code throws are exceptions. *)
LEMMA ExceptionType ==
  /\ NoException \in Exception
  /\ TerminateException \in Exception
  /\ ChildException \in Exception
  /\ \A d \in Nat : StopException(d) \in Exception
BY DEF NoException, TerminateException, ChildException, StopException, Exception

(* The states by name; JobState is expanded nowhere else. *)
LEMMA StateType ==
  \A q \in {"unborn", "to_start", "running", "sleeping", "waiting", "joining",
            "zombie", "removed"} : q \in JobState
BY DEF JobState

(* The Job objects before their creation are well-typed. *)
LEMMA UnbornType == Unborn \in JobRecord
BY ExceptionType DEF Unborn, JobRecord, JobState

(* async_throw keeps the table of jobs well-typed. *)
LEMMA AsyncThrowType ==
  ASSUME NEW jb \in Table, NEW S, NEW e \in Exception
  PROVE  AsyncThrow(jb, S, e) \in Table
<1>1. SUFFICES ASSUME NEW x \in Job, x \in S
               PROVE  AsyncThrow(jb, S, e)[x] \in JobRecord
  BY DEF AsyncThrow, Table
<1> DEFINE q == IF Alive(jb, x) /\ jb[x].state # "to_start" THEN "running" ELSE jb[x].state
<1>2. jb[x] \in JobRecord
  BY DEF Table
<1>3. q \in JobState
  BY <1>2, StateType DEF JobRecord
<1>4. AsyncThrow(jb, S, e)[x] = [jb[x] EXCEPT !.sef = FALSE, !.nonint = FALSE, !.exc = e, !.state = q]
  BY <1>1 DEF AsyncThrow
<1> HIDE DEF q
<1> QED
  BY <1>2, <1>3, <1>4 DEF JobRecord

(* terminate_now, on any set of jobs, keeps it well-typed. *)
LEMMA TerminateNowType ==
  ASSUME NEW jb \in Table, NEW S
  PROVE  TerminateNow(jb, S) \in Table
<1> DEFINE F == Family(jb, S)
           cleared == [x \in Job |->
              IF x \in F THEN [jb[x] EXCEPT !.children = {}] ELSE jb[x]]
<1>1. cleared \in Table
  BY DEF Table, JobRecord
<1> QED
  BY <1>1, AsyncThrowType, ExceptionType DEF TerminateNow

(* The destructor of a collector keeps it well-typed. *)
LEMMA UncollectType ==
  ASSUME NEW jb \in Table, NEW j \in Job, NEW d
  PROVE  Uncollect(jb, j, d) \in Table
<1> DEFINE C == {c \in jb[j].children : jb[c].level >= d}
           T == TerminateNow(jb, C)
<1>1. T \in Table
  BY TerminateNowType
<1>2. [T EXCEPT ![j].children = @ \ C] \in Table
  <2> HIDE DEF T, C
  <2> QED BY <1>1, ZenonT(30) DEF Table, JobRecord
<1> QED
  BY <1>2 DEF Uncollect

(* Leaving a to_wake_up_ list keeps it well-typed. *)
LEMMA DequeueType ==
  ASSUME NEW jb \in Table, NEW j \in Job
  PROVE  Dequeue(jb, j) \in Table
<1> DEFINE o == jb[j].target
           left == [x \in Job |->
                 IF x = o THEN [jb[x] EXCEPT !.wake = @ \ {j}] ELSE jb[x]]
<1>1. left \in Table
  BY DEF Table, JobRecord
<1>2. [left EXCEPT ![j].target = NoJob] \in Table
  <2> HIDE DEF left
  <2> QED BY <1>1, ZenonT(30) DEF Table, JobRecord
<1> QED
  BY <1>2 DEF Dequeue

(* A new Job is well-typed. *)
LEMMA NewJobType ==
  ASSUME NEW s \in Seq(Tag), NEW p \in Job \cup {NoJob}, NEW l \in Nat
  PROVE  NewJob(s, p, l) \in JobRecord
<1>1. Unborn \in JobRecord /\ Len(s) \in Nat /\ "to_start" \in JobState
  BY UnbornType, StateType
<1>2. [Unborn EXCEPT !.state = "to_start", !.tags = s, !.base = Len(s)] \in JobRecord
  BY <1>1 DEF JobRecord
<1> QED
  BY <1>2 DEF NewJob, JobRecord

(* A non-empty set of numbers has a least element. *)
LEMMA Minimum ==
  ASSUME NEW P \in SUBSET Nat, P # {}
  PROVE  \E i \in P : \A k \in P : i <= k
<1> DEFINE less == {ss \in Nat \X Nat : ss[1] < ss[2]}
<1>1. IsWellFoundedOn(less, Nat)
  BY NatLessThanWellFounded DEF OpToRel
<1>2. \E i \in P : \A k \in P : ~(<<k, i>> \in less)
  <2> HIDE DEF less
  <2> QED BY <1>1, WFMin
<1>3. PICK i \in P : \A k \in P : ~(<<k, i>> \in less)
  BY <1>2
<1>4. ASSUME NEW k \in P PROVE i <= k
  <2>1. ~(<<k, i>> \in less) /\ i \in Nat /\ k \in Nat
    BY <1>3
  <2>2. <<k, i>> \in Nat \X Nat /\ <<k, i>>[1] = k /\ <<k, i>>[2] = i
    BY <2>1
  <2>3. ~(k < i)
    BY <2>1, <2>2
  <2> QED BY <2>1, <2>3
<1> QED
  BY <1>4

(* has_tag returns 0 or a position of the stack, at most max. *)
LEMMA HasTagRange ==
  ASSUME NEW s \in Seq(Tag), NEW t, NEW max \in Nat
  PROVE  /\ HasTag(s, t, max) \in 0..Len(s)
         /\ HasTag(s, t, max) <= max
<1> DEFINE P == {i \in DOMAIN s : i <= max /\ s[i] = t}
<1>1. P \subseteq 1..Len(s)
  OBVIOUS
<1>2. CASE P = {}
  BY <1>2 DEF HasTag
<1>3. CASE P # {}
  <2>1. P \in SUBSET Nat
    BY <1>1
  <2>2. \E i \in P : \A k \in P : i <= k
    BY <1>3, <2>1, Minimum
  <2>3. (CHOOSE i \in P : \A k \in P : i <= k) \in P
    BY <2>2
  <2>4. HasTag(s, t, max) = CHOOSE i \in P : \A k \in P : i <= k
    BY <1>3 DEF HasTag
  <2> QED
    BY <2>3, <2>4, <1>1
<1> QED
  BY <1>2, <1>3

(* The depth test of register_stopped_tag returns such a position. *)
LEMMA StopPositionRange ==
  ASSUME NEW jb \in Table, NEW j \in Job, NEW t
  PROVE  StopPosition(jb, j, t) \in 0..Len(jb[j].tags)
<1>1. /\ jb[j].tags \in Seq(Tag) /\ jb[j].exc.depth \in Nat
      /\ Len(jb[j].tags) \in Nat
  BY DEF Table, JobRecord, Exception
<1> QED
  BY <1>1, HasTagRange DEF StopPosition

-----------------------------------------------------------------------------
(* What the operations on Job objects keep *)

(* x is unborn, not started or dead in kb as it is in jb.                   *)
SameLife(jb, kb, x) ==
  /\ Alive(kb, x) <=> Alive(jb, x)
  /\ kb[x].state = "unborn" <=> jb[x].state = "unborn"
  /\ kb[x].state = "to_start" => jb[x].state = "to_start"
  /\ kb[x].state = "removed" => jb[x].state = "removed"

(* The same for every job; the stacks are the same too, and kb has no        *)
(* StopException that jb has not.                                           *)
Kept(jb, kb, x) ==
  /\ SameLife(jb, kb, x)
  /\ kb[x].tags = jb[x].tags
  /\ kb[x].exc.kind = "stop" => kb[x].exc = jb[x].exc
Same(jb, kb) == \A x \in Job : Kept(jb, kb, x)

(* An exception that is not a StopException kills and starts nobody. *)
LEMMA AsyncThrowSame ==
  ASSUME NEW jb \in Table, NEW S, NEW e \in Exception, e.kind # "stop"
  PROVE  Same(jb, AsyncThrow(jb, S, e))
<1> SUFFICES ASSUME NEW x \in Job PROVE Kept(jb, AsyncThrow(jb, S, e), x)
  BY DEF Same
<1>1. jb[x] \in JobRecord
  BY DEF Table
<1>2. CASE x \notin S
  BY <1>2 DEF AsyncThrow, Kept, SameLife, Alive
<1>3. CASE x \in S
  <2> DEFINE q == IF Alive(jb, x) /\ jb[x].state # "to_start" THEN "running" ELSE jb[x].state
             r == [jb[x] EXCEPT !.sef = FALSE, !.nonint = FALSE, !.exc = e, !.state = q]
  <2>1. AsyncThrow(jb, S, e)[x] = r
    BY <1>3 DEF AsyncThrow
  <2>2. r.state = q /\ r.tags = jb[x].tags /\ r.exc = e
    <3> HIDE DEF q
    <3> QED BY <1>1 DEF JobRecord
  <2> HIDE DEF r
  <2> QED BY <2>1, <2>2 DEF Kept, SameLife, Alive
<1> QED
  BY <1>2, <1>3

(* Same composes. *)
LEMMA SameTransitive ==
  ASSUME NEW a, NEW b, NEW c, Same(a, b), Same(b, c)
  PROVE  Same(a, c)
BY DEF Same, Kept, SameLife

(* terminate_now kills nobody at once: it only leaves exceptions. *)
LEMMA TerminateNowSame ==
  ASSUME NEW jb \in Table, NEW S
  PROVE  Same(jb, TerminateNow(jb, S))
<1> DEFINE F == Family(jb, S)
           cleared == [x \in Job |->
              IF x \in F THEN [jb[x] EXCEPT !.children = {}] ELSE jb[x]]
           Z == {x \in F : jb[x].state # "zombie"}
<1>1. cleared \in Table
  BY DEF Table, JobRecord
<1>2. Same(jb, cleared)
  <2> SUFFICES ASSUME NEW x \in Job PROVE Kept(jb, cleared, x)
    BY DEF Same
  <2>1. cleared[x].state = jb[x].state /\ cleared[x].tags = jb[x].tags /\ cleared[x].exc = jb[x].exc
    BY DEF Table, JobRecord
  <2> HIDE DEF cleared
  <2> QED BY <2>1 DEF Kept, SameLife, Alive
<1>3. TerminateException \in Exception /\ TerminateException.kind # "stop"
  BY ExceptionType DEF TerminateException
<1>4. Same(cleared, AsyncThrow(cleared, Z, TerminateException))
  <2> HIDE DEF cleared, Z
  <2> QED BY <1>1, <1>3, AsyncThrowSame
<1>5. TerminateNow(jb, S) = AsyncThrow(cleared, Z, TerminateException)
  BY DEF TerminateNow
<1> HIDE DEF cleared, Z
<1> QED
  BY <1>2, <1>4, <1>5, SameTransitive

(* Neither does the destructor of a collector. *)
LEMMA UncollectSame ==
  ASSUME NEW jb \in Table, NEW j \in Job, NEW d
  PROVE  Same(jb, Uncollect(jb, j, d))
<1> DEFINE C == {c \in jb[j].children : jb[c].level >= d}
           T == TerminateNow(jb, C)
           U == [T EXCEPT ![j].children = @ \ C]
<1>1. T \in Table /\ Same(jb, T)
  BY TerminateNowType, TerminateNowSame
<1>2. U = Uncollect(jb, j, d)
  BY DEF Uncollect
<1>3. Same(T, U)
  <2> HIDE DEF T, C
  <2> SUFFICES ASSUME NEW x \in Job PROVE Kept(T, U, x)
    BY DEF Same
  <2>1. U[x].state = T[x].state /\ U[x].tags = T[x].tags /\ U[x].exc = T[x].exc
    BY <1>1 DEF Table, JobRecord
  <2> HIDE DEF U
  <2> QED BY <2>1 DEF Kept, SameLife, Alive
<1> HIDE DEF T, U
<1> QED
  BY <1>1, <1>2, <1>3, SameTransitive

(* Leaving a to_wake_up_ list changes no state, stack or exception. *)
LEMMA DequeueSame ==
  ASSUME NEW jb \in Table, NEW j \in Job
  PROVE  Same(jb, Dequeue(jb, j))
<1> DEFINE o == jb[j].target
           left == [x \in Job |->
                 IF x = o THEN [jb[x] EXCEPT !.wake = @ \ {j}] ELSE jb[x]]
           D == [left EXCEPT ![j].target = NoJob]
<1>1. left \in Table
  BY DEF Table, JobRecord
<1>2. \A x \in Job : left[x].state = jb[x].state /\ left[x].tags = jb[x].tags
                      /\ left[x].exc = jb[x].exc
  BY DEF Table, JobRecord
<1>3. \A x \in Job : D[x].state = left[x].state /\ D[x].tags = left[x].tags
                      /\ D[x].exc = left[x].exc
  <2> HIDE DEF left
  <2> QED BY <1>1 DEF Table, JobRecord
<1>4. D = Dequeue(jb, j)
  BY DEF Dequeue
<1> HIDE DEF left, D
<1> QED
  BY <1>2, <1>3, <1>4 DEF Same, Kept, SameLife, Alive

(* What a step of the current job j may do to the Job objects: the others    *)
(* stay alive or not, j has been started and has no pending StopException.   *)
Started(jb, j) ==
  /\ jb[j].state \notin {"unborn", "to_start", "removed"}
  /\ jb[j].exc.kind # "stop"
Moved(jb, kb, j) ==
  /\ kb \in Table /\ DepthInv(kb)
  /\ \A x \in Job \ {j} : SameLife(jb, kb, x)
  /\ Started(kb, j)

(* Same keeps the depths of the StopExceptions inside the stacks. *)
LEMMA SameDepth ==
  ASSUME NEW jb \in Table, NEW kb \in Table, Same(jb, kb), DepthInv(jb)
  PROVE  DepthInv(kb)
BY DEF Same, Kept, DepthInv

(* A change that kills and starts nobody is a legal step of j. *)
LEMMA MovedBySame ==
  ASSUME NEW jb \in Table, NEW kb \in Table, NEW j \in Job, Same(jb, kb),
         DepthInv(jb), Started(jb, j), Alive(jb, j)
  PROVE  Moved(jb, kb, j) /\ Alive(kb, j)
<1>1. DepthInv(kb)
  BY SameDepth
<1>2. SameLife(jb, kb, j) /\ kb[j].exc.kind # "stop"
  BY DEF Same, Kept, Started
<1> QED
  BY <1>1, <1>2 DEF Moved, Same, Kept, Started, SameLife, Alive

(* Legal steps of j compose. *)
LEMMA MovedTransitive ==
  ASSUME NEW a, NEW b, NEW c, NEW j \in Job, Moved(a, b, j), Moved(b, c, j)
  PROVE  Moved(a, c, j)
BY DEF Moved, SameLife

(* The record of j itself may be replaced by that of a started job. *)
LEMMA MovedSelf ==
  ASSUME NEW a, NEW b \in Table, NEW j \in Job, NEW r \in JobRecord, Moved(a, b, j),
         r.state \notin {"unborn", "to_start", "removed"}, r.exc.kind # "stop"
  PROVE  Moved(a, [b EXCEPT ![j] = r], j)
<1> DEFINE c == [b EXCEPT ![j] = r]
<1>1. c \in Table /\ c[j] = r /\ \A x \in Job \ {j} : c[x] = b[x]
  BY DEF Table
<1>2. DepthInv(c)
  BY <1>1 DEF DepthInv, Moved
<1> HIDE DEF c
<1>3. Moved(a, c, j)
  BY <1>1, <1>2 DEF Moved, SameLife, Started, Alive
<1> QED
  BY <1>3 DEF c

(* terminate_cleanup is a legal step: it wakes live jobs only. *)
LEMMA CleanupMoved ==
  ASSUME NEW jb \in Table, NEW j \in Job, DepthInv(jb), Started(jb, j)
  PROVE  Moved(jb, TerminateCleanup(jb, j), j)
<1> DEFINE woken == [x \in Job |->
                  IF x \in jb[j].wake /\ Alive(jb, x)
                  THEN [jb[x] EXCEPT !.state = "running"] ELSE jb[x]]
           r == [woken[j] EXCEPT !.wake = {}, !.state = "zombie", !.tags = << >>]
<1>1. woken \in Table
  <2>1. ASSUME NEW x \in Job PROVE [jb[x] EXCEPT !.state = "running"] \in JobRecord
    BY StateType DEF Table, JobRecord
  <2> QED BY <2>1 DEF Table
<1>2. Moved(jb, woken, j)
  <2>1. ASSUME NEW x \in Job
        PROVE  /\ SameLife(jb, woken, x)
               /\ woken[x].tags = jb[x].tags /\ woken[x].exc = jb[x].exc
               /\ woken[x].state \in {jb[x].state, "running"}
    <3>1. CASE x \in jb[j].wake /\ Alive(jb, x)
      BY <3>1 DEF Table, JobRecord, SameLife, Alive
    <3>2. CASE ~(x \in jb[j].wake /\ Alive(jb, x))
      BY <3>2 DEF SameLife, Alive
    <3> QED BY <3>1, <3>2
  <2> HIDE DEF woken
  <2>2. DepthInv(woken)
    BY <2>1 DEF DepthInv
  <2>3. Started(woken, j)
    BY <2>1 DEF Started
  <2> QED BY <1>1, <2>1, <2>2, <2>3 DEF Moved
<1>3. r \in JobRecord /\ r.state = "zombie" /\ r.exc.kind # "stop"
  <2>1. woken[j] \in JobRecord /\ woken[j].exc.kind # "stop"
    BY <1>1, <1>2 DEF Table, Moved, Started
  <2>2. << >> \in Seq(Tag)
    OBVIOUS
  <2> HIDE DEF woken
  <2> QED BY <2>1, <2>2, StateType DEF JobRecord
<1>4. TerminateCleanup(jb, j) = [woken EXCEPT ![j] = r]
  BY DEF TerminateCleanup
<1> HIDE DEF woken, r
<1>5. r.state \notin {"unborn", "to_start", "removed"}
  BY <1>3
<1>6. Moved(jb, [woken EXCEPT ![j] = r], j)
  BY <1>1, <1>2, <1>3, <1>5, MovedSelf
<1> QED
  BY <1>4, <1>6

(* The end of Job::run is a legal step of j. *)
LEMMA DieMoved ==
  ASSUME NEW jb \in Table, NEW j \in Job, DepthInv(jb), Started(jb, j), Alive(jb, j)
  PROVE  Moved(jb, Die(jb, j), j)
<1> DEFINE U == Uncollect(jb, j, 0)
<1>1. U \in Table /\ Moved(jb, U, j)
  BY UncollectType, UncollectSame, MovedBySame
<1>2. Moved(U, TerminateCleanup(U, j), j)
  BY <1>1, CleanupMoved DEF Moved
<1> QED
  BY <1>1, <1>2, MovedTransitive DEF Die

(* So is the death that throws a ChildException into the parent. *)
LEMMA DieOfErrorMoved ==
  ASSUME NEW jb \in Table, NEW j \in Job, DepthInv(jb), Started(jb, j), Alive(jb, j)
  PROVE  Moved(jb, DieOfError(jb, j), j)
<1> DEFINE T == AsyncThrow(jb, {jb[j].parent}, ChildException)
<1>1. ChildException \in Exception /\ ChildException.kind # "stop"
  BY ExceptionType DEF ChildException
<1>2. T \in Table /\ Moved(jb, T, j) /\ Alive(T, j)
  BY <1>1, AsyncThrowType, AsyncThrowSame, MovedBySame
<1>3. Moved(T, Die(T, j), j)
  BY <1>2, DieMoved DEF Moved
<1>4. Moved(jb, Die(T, j), j)
  BY <1>2, <1>3, MovedTransitive
<1>5. Moved(jb, Die(jb, j), j)
  BY DieMoved
<1> QED
  BY <1>4, <1>5 DEF DieOfError

(* The unwinding of the scopes above depth d. *)
LEMMA UnwindMoved ==
  ASSUME NEW jb \in Table, NEW j \in Job, DepthInv(jb), Started(jb, j), Alive(jb, j),
         NEW l, NEW d \in 0..Len(jb[j].tags)
  PROVE  /\ Unwind(jb, j, d, l) \in Table
         /\ Moved(jb, Unwind(jb, j, d, l), j)
         /\ Alive(Unwind(jb, j, d, l), j)
<1> DEFINE s == SubSeq(jb[j].tags, 1, d)
           u == Urgent(s)
           U == Uncollect(jb, j, l)
           r == [U[j] EXCEPT !.tags = s, !.rt = u]
<1>1. U \in Table /\ Moved(jb, U, j) /\ Alive(U, j)
  BY UncollectType, UncollectSame, MovedBySame
<1>2. s \in Seq(Tag)
  <2>1. jb[j].tags \in Seq(Tag)
    BY DEF Table, JobRecord
  <2> QED BY <2>1
<1>3. u \in BOOLEAN
  BY DEF Urgent
<1>4. r \in JobRecord /\ r.state = U[j].state /\ r.exc = U[j].exc
  <2>1. U[j] \in JobRecord
    BY <1>1 DEF Table
  <2>2. ASSUME NEW b \in BOOLEAN, b = u
        PROVE  r \in JobRecord /\ r.state = U[j].state /\ r.exc = U[j].exc
    <3>1. r = [U[j] EXCEPT !.tags = s, !.rt = b]
      BY <2>2
    <3> HIDE DEF U, s, u, r
    <3> QED BY <2>1, <1>2, <3>1 DEF JobRecord
  <2> HIDE DEF r, u, U
  <2> QED BY <1>3, <2>2
<1>5. Unwind(jb, j, d, l) = [U EXCEPT ![j] = r]
  BY DEF Unwind
<1> HIDE DEF r, U
<1>6. Moved(jb, [U EXCEPT ![j] = r], j)
  BY <1>1, <1>4, MovedSelf DEF Moved, Started
<1>7. [U EXCEPT ![j] = r] \in Table /\ [U EXCEPT ![j] = r][j] = r
  BY <1>1, <1>4 DEF Table
<1>8. Alive([U EXCEPT ![j] = r], j)
  BY <1>1, <1>4, <1>7 DEF Alive
<1> QED
  BY <1>5, <1>6, <1>7, <1>8

(* Tag::stop gives each concerned job the depth of the tag in its stack. *)
LEMMA RegisterStoppedTagLife ==
  ASSUME NEW jb \in Table, NEW S, NEW t, DepthInv(jb)
  PROVE  /\ RegisterStoppedTag(jb, S, t) \in Table
         /\ DepthInv(RegisterStoppedTag(jb, S, t))
         /\ \A x \in Job : SameLife(jb, RegisterStoppedTag(jb, S, t), x)
<1> DEFINE kb == RegisterStoppedTag(jb, S, t)
<1>1. ASSUME NEW x \in Job
      PROVE  /\ kb[x] \in JobRecord /\ SameLife(jb, kb, x)
             /\ kb[x].exc.kind = "stop" => kb[x].exc.depth < Len(kb[x].tags)
  <2> DEFINE p == StopPosition(jb, x, t)
             e == StopException(p - 1)
             T == AsyncThrow(jb, {x}, e)
             q == IF Alive(jb, x) /\ jb[x].state # "to_start" THEN "running" ELSE jb[x].state
  <2>1. p \in 0..Len(jb[x].tags) /\ jb[x] \in JobRecord /\ Len(jb[x].tags) \in Nat
    BY StopPositionRange DEF Table, JobRecord
  <2>2. CASE x \in S /\ p > 0
    <3>1. kb[x] = T[x]
      BY <2>2 DEF RegisterStoppedTag
    <3>2. p - 1 \in Nat
      BY <2>1, <2>2
    <3>3. e \in Exception /\ e.depth = p - 1
      BY <3>2, ExceptionType DEF StopException
    <3>4. T \in Table
      BY <3>3, AsyncThrowType
    <3>5. T[x] = [jb[x] EXCEPT !.sef = FALSE, !.nonint = FALSE, !.exc = e, !.state = q]
      BY DEF AsyncThrow
    <3>6. T[x].state = q /\ T[x].tags = jb[x].tags /\ T[x].exc = e
      <4> HIDE DEF q, e, T
      <4> QED BY <2>1, <3>5 DEF JobRecord
    <3> HIDE DEF p, e, T, kb
    <3>7. SameLife(jb, kb, x)
      BY <3>1, <3>6 DEF SameLife, Alive
    <3> QED
      BY <2>1, <3>1, <3>3, <3>4, <3>6, <3>7 DEF Table
  <2>3. CASE ~(x \in S /\ p > 0)
    <3>1. kb[x] = jb[x]
      BY <2>3 DEF RegisterStoppedTag
    <3> HIDE DEF kb
    <3> QED BY <2>1, <3>1 DEF SameLife, Alive, DepthInv
  <2> QED BY <2>2, <2>3
<1>2. kb = [x \in Job |-> kb[x]]
  BY DEF RegisterStoppedTag
<1> HIDE DEF kb
<1>3. kb \in Table /\ DepthInv(kb) /\ \A x \in Job : SameLife(jb, kb, x)
  BY <1>1, <1>2 DEF Table, DepthInv
<1> QED
  BY <1>3 DEF kb

-----------------------------------------------------------------------------
(* The lists of jobs *)

(* push_back adds one job to a list, and no duplicate if it was not there. *)
LEMMA AppendNodes ==
  ASSUME NEW q \in Seq(Job), NEW j \in Job
  PROVE  /\ Append(q, j) \in Seq(Job)
         /\ Nodes(Append(q, j)) = Nodes(q) \cup {j}
         /\ (NoDuplicate(q) /\ j \notin Nodes(q)) => NoDuplicate(Append(q, j))
<1> DEFINE r == Append(q, j)
<1>1. /\ r \in Seq(Job) /\ Len(r) = Len(q) + 1 /\ Len(q) \in Nat
      /\ \A i \in 1..Len(q) : r[i] = q[i]
      /\ r[Len(q) + 1] = j
      /\ DOMAIN r = 1..(Len(q) + 1) /\ DOMAIN q = 1..Len(q)
  OBVIOUS
<1> HIDE DEF r
<1>2. Nodes(r) = Nodes(q) \cup {j}
  <2>1. \A x \in Nodes(r) : x \in Nodes(q) \cup {j}
    BY <1>1 DEF Nodes
  <2>2. \A x \in Nodes(q) : x \in Nodes(r)
    BY <1>1 DEF Nodes
  <2>3. j \in Nodes(r)
    BY <1>1, NoJobAssumption DEF Nodes
  <2> QED BY <2>1, <2>2, <2>3
<1>3. ASSUME NoDuplicate(q), j \notin Nodes(q) PROVE NoDuplicate(r)
  <2>1. \A i \in 1..Len(q) : q[i] # j
    BY <1>1, <1>3, NoJobAssumption DEF Nodes
  <2>2. \A i \in 1..(Len(q) + 1) : i \in 1..Len(q) \/ i = Len(q) + 1
    BY <1>1
  <2> QED BY <1>1, <1>3, <2>1, <2>2 DEF NoDuplicate
<1> QED
  BY <1>1, <1>2, <1>3 DEF r

(* The current job gives the processor back. *)
LEMMA LeaveInv ==
  ASSUME QueueInv, NEW j \in Job, phase = "round", current = j,
         NEW kb, Moved(job, kb, j), Leave(kb, j), frozenTag' \subseteq Tag
  PROVE  QueueInv'
<1> USE NoJobAssumption
<1>0. /\ TypeOK /\ CurrentInv /\ ThrownInv /\ BornInv /\ RoundInv
      /\ NeverQueuedTwice /\ NoJobLost /\ OnlyLiveJobsQueued
  BY DEF QueueInv
<1>1. PICK k \in (job_p + 1)..(Len(pending) + 1) :
         IsNext(pending, job_p, k) /\ job_p' = k
  BY DEF Leave, Advance
<1>2. /\ job' = kb /\ current' = NoJob /\ thrown' = NoException /\ phase' = "round"
      /\ pending' = pending /\ next_job_p' = next_job_p
      /\ jobs' = IF kb[j].state # "zombie" THEN Append(jobs, j) ELSE jobs
  BY DEF Leave, Requeued
<1>3. /\ kb \in Table /\ DepthInv(kb) /\ Started(kb, j)
      /\ \A x \in Job \ {j} : SameLife(job, kb, x)
  BY DEF Moved
<1>4. /\ job_p \in 1..Len(pending) /\ pending[job_p] = j /\ j \notin Nodes(jobs)
      /\ jobs \in Seq(Job) /\ Len(pending) \in Nat /\ DOMAIN pending = 1..Len(pending)
      /\ NoDuplicate(jobs)
  BY <1>0 DEF CurrentInv, TypeOK, NeverQueuedTwice
<1>5. Ahead' = Ahead
  BY <1>1, <1>2, <1>4 DEF Ahead, IsNext
<1>6. /\ jobs' \in Seq(Job) /\ Nodes(jobs') \subseteq Nodes(jobs) \cup {j}
      /\ NoDuplicate(jobs') /\ Nodes(jobs) \subseteq Nodes(jobs')
      /\ kb[j].state # "zombie" => j \in Nodes(jobs')
  BY <1>2, <1>4, AppendNodes
<1>7. TypeOK'
  <2>1. pse' \in BOOLEAN /\ deadline' \in {"immediate", "later", "exit"}
        /\ first' \in BOOLEAN /\ start_waiting' = start_waiting
        /\ ready_to_die' = ready_to_die
    BY <1>0 DEF Leave, TypeOK, Changed
  <2>2. job_p' \in Nat
    BY <1>1, <1>4
  <2> QED
    BY <1>0, <1>2, <1>3, <1>6, <2>1, <2>2, ExceptionType DEF TypeOK, Table, Phase
<1>8. CurrentInv' /\ ThrownInv'
  BY <1>2 DEF CurrentInv, ThrownInv, NoException
<1>9. BornInv' /\ RoundInv'
  <2>1. \A x \in Nodes(jobs) \cup Nodes(pending) : job'[x].state \notin {"unborn", "removed"}
    <3>1. \A x \in Nodes(jobs) \cup Nodes(pending) : x \in Job
      BY <1>0, <1>4 DEF Nodes, TypeOK
    <3> QED BY <1>0, <1>2, <1>3, <3>1 DEF BornInv, SameLife, Started
  <2>2. \A x \in Nodes(jobs) : x \in Job
    BY <1>4 DEF Nodes
  <2>3. j \in Nodes(pending)
    BY <1>4 DEF Nodes
  <2>4. \A x \in Nodes(jobs) \cup {j} : x \in Nodes(pending) /\ job'[x].state # "to_start"
    BY <1>0, <1>2, <1>3, <2>2, <2>3 DEF RoundInv, SameLife, Started
  <2>5. job_p' >= 1
    BY <1>1, <1>4
  <2>6. job'[j].state \notin {"unborn", "removed"}
    BY <1>2, <1>3 DEF Started
  <2> QED
    BY <1>2, <1>6, <2>1, <2>4, <2>5, <2>6 DEF BornInv, RoundInv
<1>10. NeverQueuedTwice'
  <2>1. NoDuplicate(pending) /\ \A i \in Ahead : pending[i] \notin Nodes(jobs) \cup {j}
    BY <1>0 DEF NeverQueuedTwice
  <2>2. NoJob \notin Nodes(jobs')
    BY DEF Nodes
  <2>3. \A i \in Ahead : pending[i] # NoJob
    BY DEF Ahead
  <2> QED
    BY <1>2, <1>5, <1>6, <2>1, <2>2, <2>3 DEF NeverQueuedTwice
<1>11. NoJobLost'
  <2> SUFFICES ASSUME NEW x \in Job, Alive(job', x)
               PROVE  x \in Nodes(jobs') \/ \E i \in Ahead' : pending'[i] = x
    BY DEF NoJobLost
  <2>1. CASE x = j
    BY <1>2, <1>6, <2>1 DEF Alive
  <2>2. CASE x # j
    <3>1. Alive(job, x)
      BY <1>2, <1>3, <2>2 DEF SameLife
    <3> QED BY <1>0, <1>2, <1>5, <1>6, <2>2, <3>1 DEF NoJobLost
  <2> QED BY <2>1, <2>2
<1>12. OnlyLiveJobsQueued'
  <2>1. \A x \in Nodes(jobs) : x \in Job \ {j}
    BY <1>4 DEF Nodes
  <2>2. \A i \in Ahead : pending[i] \in Job \ {j}
    BY <1>0, <1>4 DEF Ahead, NeverQueuedTwice, TypeOK
  <2>3. jobs' = jobs \/ Alive(kb, j)
    BY <1>2, <1>3 DEF Started, Alive
  <2>4. \A x \in Nodes(jobs') : x \in Nodes(jobs) \/ (x = j /\ Alive(kb, j))
    BY <1>6, <2>3
  <2> QED
    BY <1>0, <1>2, <1>3, <1>5, <2>1, <2>2, <2>4 DEF OnlyLiveJobsQueued, SameLife
<1> QED
  BY <1>2, <1>3, <1>7, <1>8, <1>9, <1>10, <1>11, <1>12 DEF QueueInv

(* The current job goes on: it, the others and the exceptions may change,    *)
(* the lists do not.                                                         *)
LEMMA ContinueInv ==
  ASSUME QueueInv, TypeOK', NEW j \in Job, phase = "round", current = j,
         NEW kb, Moved(job, kb, j), Alive(kb, j), job' = kb,
         thrown'.kind = "stop" => thrown'.depth < Len(kb[j].tags),
         UNCHANGED <<jobs, pending, job_p, next_job_p, current, phase>>
  PROVE  QueueInv'
<1> USE NoJobAssumption
<1>0. /\ TypeOK /\ CurrentInv /\ ThrownInv /\ BornInv /\ RoundInv
      /\ NeverQueuedTwice /\ NoJobLost /\ OnlyLiveJobsQueued
  BY DEF QueueInv
<1>1. /\ kb \in Table /\ DepthInv(kb) /\ Started(kb, j)
      /\ \A x \in Job \ {j} : SameLife(job, kb, x)
  BY DEF Moved
<1>2. Ahead' = Ahead
  BY DEF Ahead
<1>3. CurrentInv' /\ ThrownInv'
  BY <1>0, <1>1 DEF CurrentInv, ThrownInv, Started
<1>4. \A x \in Nodes(jobs) \cup Nodes(pending) : x \in Job
  BY <1>0 DEF Nodes, TypeOK
<1>5. BornInv' /\ RoundInv'
  BY <1>0, <1>1, <1>4 DEF BornInv, RoundInv, SameLife, Started
<1>6. NeverQueuedTwice'
  BY <1>0, <1>2 DEF NeverQueuedTwice
<1>7. NoJobLost'
  BY <1>0, <1>1, <1>2 DEF NoJobLost, SameLife
<1>8. OnlyLiveJobsQueued'
  <2>1. \A i \in Ahead : pending[i] \in Job
    BY <1>0 DEF Ahead, TypeOK
  <2> QED BY <1>0, <1>1, <1>2, <1>4, <2>1 DEF OnlyLiveJobsQueued, SameLife
<1> QED
  BY <1>1, <1>3, <1>5, <1>6, <1>7, <1>8 DEF QueueInv

(* What the invariant says of the job that executes. *)
LEMMA CurrentJob ==
  ASSUME QueueInv, NEW j \in Job, current = j
  PROVE  /\ job \in Table /\ DepthInv(job) /\ Started(job, j) /\ Alive(job, j)
         /\ Moved(job, job, j)
         /\ thrown.kind = "stop" => thrown.depth < Len(job[j].tags)
BY NoJobAssumption
   DEF QueueInv, TypeOK, Table, CurrentInv, ThrownInv, Started, Alive, Moved, SameLife

(* The current job suspends itself in resume_scheduler. *)
LEMMA SuspendInv ==
  ASSUME QueueInv, NEW j \in Job, phase = "round", current = j,
         NEW kb \in Table, Moved(job, kb, j),
         NEW s \in {"running", "sleeping", "waiting", "joining"},
         Suspend(kb, j, s), frozenTag' \subseteq Tag
  PROVE  QueueInv'
<1> DEFINE r == [kb[j] EXCEPT !.state = s, !.save = kb[j].sef]
           lb == [kb EXCEPT ![j] = r]
<1>1. kb[j] \in JobRecord /\ s \in JobState
  BY StateType DEF Table
<1>2. r \in JobRecord /\ r.state = s /\ r.exc = kb[j].exc
  BY <1>1 DEF JobRecord
<1>3. Leave(lb, j)
  BY DEF Suspend
<1>4. Moved(job, lb, j)
  <2>1. r.state \notin {"unborn", "to_start", "removed"} /\ r.exc.kind # "stop"
    BY <1>2 DEF Moved, Started
  <2> HIDE DEF r
  <2> QED BY <1>2, <2>1, MovedSelf
<1> HIDE DEF lb
<1> QED
  BY <1>3, <1>4, LeaveInv

-----------------------------------------------------------------------------
(* The steps of the round *)

(* What the invariant says of the node the round is at. *)
LEMMA AtNodeFacts ==
  ASSUME QueueInv, NEW j \in Job, AtNode(j)
  PROVE  /\ phase = "round" /\ current = NoJob
         /\ job_p \in 1..Len(pending) /\ pending[job_p] = j
         /\ Len(pending) \in Nat /\ DOMAIN pending = 1..Len(pending)
         /\ job_p \in Ahead /\ j \notin Nodes(jobs) /\ j \in Nodes(pending)
         /\ Ahead \ {job_p} = {i \in 1..Len(pending) : pending[i] # NoJob /\ i > job_p}
         /\ \A i \in Ahead \ {job_p} : pending[i] # j
         /\ jobs \in Seq(Job) /\ pending \in Seq(Job \cup {NoJob})
         /\ job[j].state \notin {"unborn", "removed"}
<1> USE NoJobAssumption
<1>1. TypeOK /\ RoundInv /\ NeverQueuedTwice /\ BornInv
  BY DEF QueueInv
<1>2. /\ phase = "round" /\ current = NoJob /\ job_p <= Len(pending) /\ pending[job_p] = j
      /\ jobs \in Seq(Job) /\ pending \in Seq(Job \cup {NoJob})
  BY <1>1 DEF AtNode, TypeOK
<1>3. job_p \in 1..Len(pending) /\ Len(pending) \in Nat /\ DOMAIN pending = 1..Len(pending)
  BY <1>1, <1>2 DEF RoundInv, TypeOK
<1>4. job_p \in Ahead
  BY <1>2, <1>3 DEF Ahead
<1>5. Ahead \ {job_p} = {i \in 1..Len(pending) : pending[i] # NoJob /\ i > job_p}
  BY <1>2, <1>3 DEF Ahead
<1>6. j \notin Nodes(jobs) /\ j \in Nodes(pending) /\ job[j].state \notin {"unborn", "removed"}
  <2>1. j \in Nodes(pending)
    BY <1>2, <1>3 DEF Nodes
  <2> QED BY <1>1, <1>2, <1>4, <2>1 DEF NeverQueuedTwice, BornInv
<1>7. \A i \in Ahead \ {job_p} : pending[i] # j
  BY <1>1, <1>2, <1>3, <1>5 DEF NeverQueuedTwice, NoDuplicate
<1> QED
  BY <1>2, <1>3, <1>4, <1>5, <1>6, <1>7

(* The round passes the node of j, which is not switched to or gives the     *)
(* processor back at once: j is requeued unless it has terminated.           *)
LEMMA PassInv ==
  ASSUME QueueInv, TypeOK', NEW j \in Job, AtNode(j),
         NEW kb \in Table, job' = kb, DepthInv(kb),
         \A x \in Job : SameLife(job, kb, x),
         \/ job[j].state = "zombie" /\ jobs' = jobs
         \/ job[j].state # "to_start" /\ jobs' = Append(jobs, j),
         Advance, UNCHANGED <<pending, current, thrown, phase>>
  PROVE  QueueInv'
<1> USE NoJobAssumption
<1>0. /\ TypeOK /\ CurrentInv /\ ThrownInv /\ BornInv /\ RoundInv
      /\ NeverQueuedTwice /\ NoJobLost /\ OnlyLiveJobsQueued
  BY DEF QueueInv
<1>1. PICK k \in (job_p + 1)..(Len(pending) + 1) :
         IsNext(pending, job_p, k) /\ job_p' = k
  BY DEF Advance
<1>2. /\ phase = "round" /\ current = NoJob
      /\ job_p \in 1..Len(pending) /\ pending[job_p] = j
      /\ Len(pending) \in Nat /\ DOMAIN pending = 1..Len(pending)
      /\ j \notin Nodes(jobs) /\ j \in Nodes(pending) /\ jobs \in Seq(Job)
      /\ Ahead \ {job_p} = {i \in 1..Len(pending) : pending[i] # NoJob /\ i > job_p}
      /\ \A i \in Ahead \ {job_p} : pending[i] # j
      /\ job[j].state \notin {"unborn", "removed"}
  BY AtNodeFacts
<1>3. Ahead' = Ahead \ {job_p}
  <2>1. Ahead' = {i \in 1..Len(pending) : pending[i] # NoJob /\ i >= k}
    BY <1>1, <1>2 DEF Ahead
  <2> QED BY <1>1, <1>2, <2>1 DEF IsNext
<1>4. /\ Nodes(jobs') \subseteq Nodes(jobs) \cup {j} /\ Nodes(jobs) \subseteq Nodes(jobs')
      /\ NoDuplicate(jobs')
      /\ job[j].state = "zombie" \/ j \in Nodes(jobs')
      /\ j \in Nodes(jobs') => job[j].state # "to_start"
  <2>1. NoDuplicate(jobs)
    BY <1>0 DEF NeverQueuedTwice
  <2>2. CASE job[j].state = "zombie" /\ jobs' = jobs
    BY <1>2, <2>1, <2>2
  <2>3. CASE job[j].state # "to_start" /\ jobs' = Append(jobs, j)
    BY <1>2, <2>1, <2>3, AppendNodes
  <2> QED BY <2>2, <2>3
<1>5. CurrentInv' /\ ThrownInv'
  BY <1>0, <1>2 DEF CurrentInv, ThrownInv
<1>6. BornInv' /\ RoundInv'
  <2>1. \A x \in Nodes(jobs) \cup Nodes(pending) : x \in Job
    BY <1>0 DEF Nodes, TypeOK
  <2>2. job_p' >= 1
    BY <1>1, <1>2
  <2>3. BornInv'
    BY <1>0, <1>2, <1>4, <2>1 DEF BornInv, SameLife
  <2>4. RoundInv'
    BY <1>0, <1>2, <1>4, <2>1, <2>2 DEF RoundInv, SameLife
  <2> QED BY <2>3, <2>4
<1>7. NeverQueuedTwice'
  <2>1. NoDuplicate(pending) /\ \A i \in Ahead : pending[i] \notin Nodes(jobs) \cup {NoJob}
    BY <1>0, <1>2 DEF NeverQueuedTwice
  <2>2. NoJob \notin Nodes(jobs')
    BY DEF Nodes
  <2> QED
    BY <1>2, <1>3, <1>4, <2>1, <2>2 DEF NeverQueuedTwice
<1>8. NoJobLost'
  <2> SUFFICES ASSUME NEW x \in Job, Alive(job', x)
               PROVE  x \in Nodes(jobs') \/ \E i \in Ahead' : pending'[i] = x
    BY DEF NoJobLost
  <2>1. Alive(job, x)
    BY DEF SameLife
  <2>2. CASE x = j
    BY <1>4, <2>1, <2>2 DEF Alive
  <2>3. CASE x # j
    BY <1>0, <1>2, <1>3, <1>4, <2>1, <2>3 DEF NoJobLost
  <2> QED BY <2>2, <2>3
<1>9. OnlyLiveJobsQueued'
  <2>1. job_p \in Ahead
    BY <1>2 DEF Ahead
  <2>2. \A i \in Ahead : pending[i] \in Job /\ Alive(job, pending[i])
    BY <1>0 DEF OnlyLiveJobsQueued, Ahead, TypeOK
  <2>3. \A x \in Nodes(jobs) : x \in Job /\ Alive(job, x)
    BY <1>0, <1>2 DEF OnlyLiveJobsQueued, Nodes
  <2>4. \A x \in Nodes(jobs') : x \in Job /\ Alive(job, x)
    BY <1>2, <1>4, <2>1, <2>2, <2>3
  <2>5. \A x \in Job : Alive(job, x) => Alive(job', x)
    BY DEF SameLife
  <2> QED BY <1>3, <2>2, <2>4, <2>5 DEF OnlyLiveJobsQueued
<1> QED
  BY <1>5, <1>6, <1>7, <1>8, <1>9 DEF QueueInv

(* The round switches to j. *)
LEMMA EnterInv ==
  ASSUME QueueInv, TypeOK', NEW j \in Job, AtNode(j),
         NEW kb, job' = kb, Moved(job, kb, j), Alive(kb, j),
         thrown'.kind = "stop" => thrown'.depth < Len(kb[j].tags),
         current' = j, StoreNext, UNCHANGED <<jobs, pending, job_p, phase>>
  PROVE  QueueInv'
<1> USE NoJobAssumption
<1>0. /\ TypeOK /\ CurrentInv /\ ThrownInv /\ BornInv /\ RoundInv
      /\ NeverQueuedTwice /\ NoJobLost /\ OnlyLiveJobsQueued
  BY DEF QueueInv
<1>1. next_job_p' \in (job_p + 1)..(Len(pending) + 1)
  BY DEF StoreNext
<1>2. /\ phase = "round" /\ current = NoJob
      /\ job_p \in 1..Len(pending) /\ pending[job_p] = j
      /\ Len(pending) \in Nat /\ DOMAIN pending = 1..Len(pending)
      /\ j \notin Nodes(jobs) /\ j \in Nodes(pending) /\ jobs \in Seq(Job)
      /\ Ahead \ {job_p} = {i \in 1..Len(pending) : pending[i] # NoJob /\ i > job_p}
      /\ \A i \in Ahead \ {job_p} : pending[i] # j
  BY AtNodeFacts
<1>3. Ahead' = Ahead \ {job_p}
  BY <1>2 DEF Ahead
<1>4. /\ kb \in Table /\ DepthInv(kb) /\ Started(kb, j)
      /\ \A x \in Job \ {j} : SameLife(job, kb, x)
  BY DEF Moved
<1>5. CurrentInv' /\ ThrownInv'
  BY <1>1, <1>2, <1>4 DEF CurrentInv, ThrownInv, Started
<1>6. BornInv' /\ RoundInv'
  <2>1. \A x \in Nodes(jobs) \cup Nodes(pending) : x \in Job
    BY <1>0 DEF Nodes, TypeOK
  <2> QED BY <1>0, <1>2, <1>4, <2>1 DEF BornInv, RoundInv, SameLife, Started
<1>7. NeverQueuedTwice'
  BY <1>0, <1>2, <1>3 DEF NeverQueuedTwice
<1>8. NoJobLost'
  BY <1>0, <1>2, <1>3, <1>4 DEF NoJobLost, SameLife
<1>9. OnlyLiveJobsQueued'
  <2>1. /\ \A x \in Nodes(jobs) : x \in Job \ {j}
        /\ \A i \in Ahead \ {job_p} : pending[i] \in Job \ {j}
    BY <1>0, <1>2 DEF Nodes, Ahead, TypeOK
  <2>2. \A x \in Job \ {j} : Alive(job, x) => Alive(job', x)
    BY <1>4 DEF SameLife
  <2> QED BY <1>0, <1>3, <2>1, <2>2 DEF OnlyLiveJobsQueued
<1> QED
  BY <1>4, <1>5, <1>6, <1>7, <1>8, <1>9 DEF QueueInv

(* The kinds of the constant exceptions. *)
LEMMA NoExceptionKind ==
  /\ NoException.kind = "none" /\ TerminateException.kind = "terminate"
  /\ ChildException.kind = "child"
  /\ NoException \in Exception /\ TerminateException \in Exception
BY ExceptionType DEF NoException, TerminateException, ChildException

(* swap and stable_sort make pending_ a permutation of jobs_. *)
LEMMA BeginRoundInv == QueueInv /\ BeginRound => QueueInv'
<1> SUFFICES ASSUME QueueInv, BeginRound PROVE QueueInv'
  OBVIOUS
<1> USE NoJobAssumption
<1>0. /\ TypeOK /\ CurrentInv /\ ThrownInv /\ BornInv /\ RoundInv /\ DepthInv(job)
      /\ NeverQueuedTwice /\ NoJobLost /\ OnlyLiveJobsQueued
  BY DEF QueueInv
<1>1. PICK p \in [1..Len(jobs) -> 1..Len(jobs)] :
        /\ StableSort(jobs, p)
        /\ pending' = [i \in 1..Len(jobs) |-> jobs[p[i]]]
  BY DEF BeginRound
<1>2. /\ phase = "main" /\ phase' = "round" /\ jobs' = << >> /\ job_p' = 1
      /\ next_job_p' = 1 /\ job' = job /\ current' = current /\ thrown' = thrown
      /\ jobs \in Seq(Job) /\ Len(jobs) \in Nat
  BY <1>0 DEF BeginRound, TypeOK
<1>3. current = NoJob
  BY <1>0, <1>2 DEF CurrentInv
<1>4. /\ pending' \in Seq(Job \cup {NoJob}) /\ Len(pending') = Len(jobs)
      /\ DOMAIN pending' = 1..Len(jobs)
      /\ \A i \in 1..Len(jobs) : pending'[i] = jobs[p[i]] /\ pending'[i] \in Job
  <2>1. \A i \in 1..Len(jobs) : p[i] \in 1..Len(jobs) /\ jobs[p[i]] \in Job
    BY <1>2
  <2> QED BY <1>1, <1>2, <2>1
<1>5. Nodes(pending') = Nodes(jobs)
  <2>1. \A x \in Nodes(pending') : x \in Nodes(jobs)
    BY <1>2, <1>4 DEF Nodes
  <2>2. \A m \in 1..Len(jobs) : \E i \in 1..Len(jobs) : p[i] = m
    BY <1>1 DEF StableSort
  <2>3. \A x \in Nodes(jobs) : x \in Nodes(pending')
    BY <1>2, <1>4, <2>2 DEF Nodes
  <2> QED BY <2>1, <2>3
<1>6. NoDuplicate(pending')
  <2>1. \A i, k \in 1..Len(jobs) : p[i] = p[k] => i = k
    <3>1. ASSUME NEW i \in 1..Len(jobs), NEW k \in 1..Len(jobs), i < k PROVE p[i] # p[k]
      <4>1. job[jobs[p[k]]].rt = job[jobs[p[i]]].rt => p[i] < p[k]
        BY <1>1, <3>1 DEF StableSort
      <4>2. p[i] \in Nat /\ p[k] \in Nat
        BY <1>2
      <4> QED BY <4>1, <4>2
    <3> QED BY <1>2, <3>1
  <2>2. \A i, k \in 1..Len(jobs) : jobs[i] = jobs[k] => i = k
    BY <1>0, <1>2 DEF NeverQueuedTwice, NoDuplicate
  <2> QED BY <1>1, <1>4, <2>1, <2>2 DEF NoDuplicate
<1>7. Ahead' = 1..Len(jobs)
  BY <1>2, <1>3, <1>4 DEF Ahead
<1>8. TypeOK'
  <2>1. /\ start_waiting' \in BOOLEAN /\ pse' \in BOOLEAN /\ deadline' = "later"
        /\ frozenTag' = frozenTag /\ first' = first /\ ready_to_die' = ready_to_die
    BY <1>0 DEF BeginRound, TypeOK
  <2>2. jobs' \in Seq(Job)
    BY <1>2
  <2> QED BY <1>0, <1>2, <1>4, <2>1, <2>2 DEF TypeOK, Phase
<1>9. CurrentInv' /\ ThrownInv'
  BY <1>0, <1>2, <1>3 DEF CurrentInv, ThrownInv
<1>10. Nodes(jobs') = {} /\ NoDuplicate(jobs')
  BY <1>2 DEF Nodes, NoDuplicate
<1>11. BornInv' /\ RoundInv'
  BY <1>0, <1>2, <1>5, <1>10 DEF BornInv, RoundInv
<1>12. NeverQueuedTwice'
  BY <1>2, <1>3, <1>4, <1>6, <1>7, <1>10 DEF NeverQueuedTwice
<1>13. NoJobLost'
  <2> SUFFICES ASSUME NEW x \in Job, Alive(job, x)
               PROVE  \E i \in Ahead' : pending'[i] = x
    BY <1>2 DEF NoJobLost
  <2>1. x \in Nodes(jobs)
    BY <1>0, <1>2, <1>3 DEF NoJobLost, Ahead
  <2>2. \E i \in DOMAIN pending' : pending'[i] = x
    BY <1>5, <2>1 DEF Nodes
  <2> QED BY <1>4, <1>7, <2>2
<1>14. OnlyLiveJobsQueued'
  <2>1. \A i \in Ahead' : pending'[i] \in Nodes(jobs)
    BY <1>4, <1>5, <1>7 DEF Nodes
  <2> QED BY <1>0, <1>2, <1>10, <2>1 DEF OnlyLiveJobsQueued
<1> QED
  BY <1>0, <1>2, <1>8, <1>9, <1>11, <1>12, <1>13, <1>14 DEF QueueInv

(* The steps that leave the jobs and the lists alone. *)
LEMMA EndRoundInv == QueueInv /\ (EndRound \/ IdleReturn) => QueueInv'
<1> SUFFICES ASSUME QueueInv, EndRound \/ IdleReturn PROVE QueueInv'
  OBVIOUS
<1> USE NoJobAssumption
<1>0. /\ TypeOK /\ CurrentInv /\ ThrownInv /\ BornInv /\ RoundInv /\ DepthInv(job)
      /\ NeverQueuedTwice /\ NoJobLost /\ OnlyLiveJobsQueued
  BY DEF QueueInv
<1>1. /\ UNCHANGED <<job, frozenTag, jobs, pending, job_p, next_job_p, current, thrown, first>>
      /\ current = NoJob /\ phase' \in {"idle", "main", "exit"}
      /\ phase = "idle" \/ (phase = "round" /\ job_p > Len(pending))
  BY <1>0 DEF EndRound, IdleReturn, round, CurrentInv
<1>2. TypeOK'
  BY <1>0, <1>1 DEF TypeOK, EndRound, IdleReturn, flags, Phase
<1>3. Ahead = {} /\ Ahead' = {}
  <2>1. Ahead' = {}
    BY <1>1 DEF Ahead
  <2>2. Len(pending) \in Nat /\ DOMAIN pending = 1..Len(pending) /\ job_p \in Nat
    BY <1>0 DEF TypeOK
  <2>3. Ahead = {}
    BY <1>1, <2>2 DEF Ahead
  <2> QED BY <2>1, <2>3
<1>4. CurrentInv' /\ ThrownInv' /\ BornInv' /\ RoundInv'
  BY <1>0, <1>1 DEF CurrentInv, ThrownInv, BornInv, RoundInv
<1>5. NeverQueuedTwice' /\ NoJobLost' /\ OnlyLiveJobsQueued'
  BY <1>0, <1>1, <1>3 DEF NeverQueuedTwice, NoJobLost, OnlyLiveJobsQueued
<1> QED
  BY <1>0, <1>1, <1>2, <1>4, <1>5 DEF QueueInv

(* A job that is not started is kept in the queues, unless it is a zombie. *)
LEMMA KeepJobInv ==
  ASSUME QueueInv, NEW j \in Job, KeepJob(j) PROVE QueueInv'
<1>1. TypeOK /\ DepthInv(job) /\ job \in Table /\ jobs \in Seq(Job)
  BY DEF QueueInv, TypeOK, Table
<1>2. job_p' \in Nat /\ next_job_p' \in Nat
  BY <1>1 DEF KeepJob, Advance, StoreNext, TypeOK
<1>3. TypeOK'
  BY <1>1, <1>2, AppendNodes DEF KeepJob, TypeOK, flags
<1> QED
  BY <1>1, <1>3, PassInv DEF KeepJob, MayStay, SameLife, flags

(* A frozen job goes back to the queue at once. *)
LEMMA ResumeFrozenInv ==
  ASSUME QueueInv, NEW j \in Job, ResumeFrozen(j) PROVE QueueInv'
<1> DEFINE r == [job[j] EXCEPT !.sef = TRUE, !.state = "waiting"]
           kb == [job EXCEPT ![j] = r]
<1>1. TypeOK /\ DepthInv(job) /\ job \in Table /\ jobs \in Seq(Job)
  BY DEF QueueInv, TypeOK, Table
<1>2. job_p' \in Nat /\ next_job_p' \in Nat
  BY <1>1 DEF ResumeFrozen, Advance, StoreNext, TypeOK
<1>3. r \in JobRecord /\ r.state = "waiting" /\ r.exc = job[j].exc
      /\ r.tags = job[j].tags
  <2>1. job[j] \in JobRecord /\ "waiting" \in JobState
    BY <1>1, StateType DEF Table
  <2> QED BY <2>1 DEF JobRecord
<1>4. /\ job' = kb /\ job[j].state \notin {"zombie", "to_start", "removed", "unborn"}
  BY DEF ResumeFrozen, MayStart, NoException
<1>5. kb \in Table /\ kb[j] = r /\ \A x \in Job \ {j} : kb[x] = job[x]
  BY <1>1, <1>3 DEF Table
<1> HIDE DEF kb, r
<1>6. DepthInv(kb) /\ \A x \in Job : SameLife(job, kb, x)
  BY <1>1, <1>3, <1>4, <1>5 DEF DepthInv, SameLife, Alive
<1>7. pse' \in BOOLEAN
  BY DEF ResumeFrozen
<1>8. TypeOK'
  BY <1>1, <1>2, <1>4, <1>5, <1>7, AppendNodes DEF ResumeFrozen, TypeOK, Table
<1> QED
  BY <1>1, <1>4, <1>5, <1>6, <1>8, PassInv DEF ResumeFrozen

(* coroutine_start keeps the invariant; the exception thrown fits the stack. *)
LEMMA StartJobInv ==
  ASSUME QueueInv, NEW j \in Job, StartJob(j) PROVE QueueInv'
<1> DEFINE r == [job[j] EXCEPT !.state = "running", !.exc = NoException]
           kb == [job EXCEPT ![j] = r]
<1>1. TypeOK /\ DepthInv(job) /\ job \in Table
  BY DEF QueueInv, TypeOK, Table
<1>2. r \in JobRecord /\ r.state = "running" /\ r.exc = NoException
      /\ r.tags = job[j].tags
  <2>1. job[j] \in JobRecord /\ "running" \in JobState /\ NoException \in Exception
    BY <1>1, StateType, NoExceptionKind DEF Table
  <2> QED BY <2>1 DEF JobRecord
<1>3. job' = kb
  BY DEF StartJob
<1>4. kb \in Table /\ kb[j] = r /\ \A x \in Job \ {j} : kb[x] = job[x]
  BY <1>1, <1>2 DEF Table
<1> HIDE DEF kb, r
<1>5. Moved(job, kb, j) /\ Alive(kb, j)
  <2>1. DepthInv(kb)
    BY <1>1, <1>2, <1>4, NoExceptionKind DEF DepthInv
  <2> QED
    BY <1>2, <1>4, <2>1, NoExceptionKind DEF Moved, SameLife, Started, Alive
<1>6. thrown' = job[j].exc /\ thrown' \in Exception
  BY <1>1 DEF StartJob, Table, JobRecord
<1>7. next_job_p' \in Nat
  BY <1>1 DEF StartJob, StoreNext, TypeOK
<1>8. TypeOK'
  BY <1>1, <1>3, <1>4, <1>6, <1>7 DEF StartJob, TypeOK, Table, flags
<1>9. thrown'.kind = "stop" => thrown'.depth < Len(kb[j].tags)
  BY <1>1, <1>2, <1>4, <1>6 DEF DepthInv
<1> QED
  BY <1>3, <1>5, <1>8, <1>9, EnterInv DEF StartJob

(* So does the switch to a job with a pending exception. *)
LEMMA ResumeThrowInv ==
  ASSUME QueueInv, NEW j \in Job, ResumeThrow(j) PROVE QueueInv'
<1> DEFINE r == [job[j] EXCEPT !.exc = NoException]
           cb == [job EXCEPT ![j] = r]
           kb == Dequeue(cb, j)
<1>1. TypeOK /\ DepthInv(job) /\ job \in Table /\ job[j].state \notin {"unborn", "removed"}
  BY AtNodeFacts DEF QueueInv, TypeOK, Table, ResumeThrow
<1>2. r \in JobRecord /\ r.state = job[j].state /\ r.exc = NoException
      /\ r.tags = job[j].tags
  <2>1. job[j] \in JobRecord /\ NoException \in Exception
    BY <1>1, NoExceptionKind DEF Table
  <2> QED BY <2>1 DEF JobRecord
<1>3. job' = kb
  BY DEF ResumeThrow
<1>4. cb \in Table /\ cb[j] = r /\ \A x \in Job \ {j} : cb[x] = job[x]
  BY <1>1, <1>2 DEF Table
<1>5. Alive(job, j) /\ job[j].state # "to_start"
  BY <1>1 DEF ResumeThrow, Alive
<1> HIDE DEF cb, r
<1>6. DepthInv(cb) /\ Started(cb, j) /\ Alive(cb, j)
      /\ \A x \in Job \ {j} : SameLife(job, cb, x)
  BY <1>1, <1>2, <1>4, <1>5, NoExceptionKind DEF DepthInv, Started, Alive, SameLife
<1>7. kb \in Table /\ Moved(cb, kb, j) /\ Alive(kb, j) /\ Same(cb, kb)
  BY <1>4, <1>6, DequeueType, DequeueSame, MovedBySame
<1> HIDE DEF kb
<1>8. Moved(job, kb, j)
  BY <1>6, <1>7 DEF Moved, SameLife
<1>9. thrown' = job[j].exc /\ thrown' \in Exception
  BY <1>1 DEF ResumeThrow, Table, JobRecord
<1>10. next_job_p' \in Nat /\ pse' \in BOOLEAN
  BY <1>1 DEF ResumeThrow, StoreNext, TypeOK
<1>11. TypeOK'
  BY <1>1, <1>3, <1>7, <1>9, <1>10 DEF ResumeThrow, TypeOK, Table
<1>12. thrown'.kind = "stop" => thrown'.depth < Len(kb[j].tags)
  BY <1>1, <1>2, <1>4, <1>7, <1>9 DEF DepthInv, Same, Kept
<1> QED
  BY <1>3, <1>7, <1>8, <1>11, <1>12, EnterInv DEF ResumeThrow

(* So does the switch to a job that goes on. *)
LEMMA ResumeJobInv ==
  ASSUME QueueInv, NEW j \in Job, ResumeJob(j) PROVE QueueInv'
<1> DEFINE r == [job[j] EXCEPT !.sef = job[j].save, !.target = NoJob]
           kb == [job EXCEPT ![j] = r]
<1>1. TypeOK /\ DepthInv(job) /\ job \in Table /\ job[j].state \notin {"unborn", "removed"}
  BY AtNodeFacts DEF QueueInv, TypeOK, Table, ResumeJob
<1>2. r \in JobRecord /\ r.state = job[j].state /\ r.exc = job[j].exc
      /\ r.tags = job[j].tags
  <2>1. job[j] \in JobRecord
    BY <1>1 DEF Table
  <2> QED BY <2>1 DEF JobRecord
<1>3. job' = kb /\ job[j].exc = NoException /\ job[j].state \notin {"zombie", "to_start"}
  BY DEF ResumeJob
<1>4. kb \in Table /\ kb[j] = r /\ \A x \in Job \ {j} : kb[x] = job[x]
  BY <1>1, <1>2 DEF Table
<1> HIDE DEF kb, r
<1>5. Moved(job, kb, j) /\ Alive(kb, j)
  <2>1. DepthInv(kb)
    BY <1>1, <1>2, <1>4 DEF DepthInv
  <2> QED
    BY <1>1, <1>2, <1>3, <1>4, <2>1, NoExceptionKind DEF Moved, SameLife, Started, Alive
<1>6. next_job_p' \in Nat /\ pse' \in BOOLEAN
  BY <1>1 DEF ResumeJob, StoreNext, TypeOK
<1>7. TypeOK'
  BY <1>1, <1>3, <1>4, <1>6 DEF ResumeJob, TypeOK, Table
<1>8. thrown' = thrown /\ thrown.kind # "stop"
  BY NoJobAssumption DEF ResumeJob, AtNode, QueueInv, ThrownInv
<1> QED
  BY <1>3, <1>5, <1>7, <1>8, EnterInv DEF ResumeJob

-----------------------------------------------------------------------------
(* The steps of the current job *)

(* ContinueInv, for the steps that also leave the flags alone. *)
LEMMA ContinueStep ==
  ASSUME QueueInv, NEW j \in Job, phase = "round", current = j,
         NEW kb, Moved(job, kb, j), Alive(kb, j), Continue(kb),
         frozenTag' \subseteq Tag, thrown' \in Exception,
         thrown'.kind = "stop" => thrown'.depth < Len(kb[j].tags)
  PROVE  QueueInv'
<1>1. /\ job' = kb /\ UNCHANGED <<jobs, pending, job_p, next_job_p, current, first,
                                  pse, start_waiting, deadline, ready_to_die, phase>>
  BY DEF Continue, round, flags
<1>2. TypeOK /\ kb \in Table
  BY DEF QueueInv, Moved
<1>3. TypeOK'
  BY <1>1, <1>2 DEF TypeOK, Table
<1> QED
  BY <1>1, <1>3, ContinueInv

(* While a job executes no StopException is propagating. *)
LEMMA ThrownNow ==
  ASSUME QueueInv, UNCHANGED thrown, thrown = NoException
  PROVE  thrown' \in Exception /\ thrown'.kind # "stop"
BY NoExceptionKind

(* The set of frozen tags keeps its type when it does not change. *)
LEMMA FrozenTagType ==
  ASSUME QueueInv, UNCHANGED frozenTag
  PROVE  frozenTag' \subseteq Tag
BY DEF QueueInv, TypeOK

(* yield, yield_until and yield_until_things_changed. *)
LEMMA YieldsInv ==
  ASSUME QueueInv, NEW j \in Job, Yield(j) \/ Sleep(j) \/ WaitForChanges(j)
  PROVE  QueueInv'
<1>1. phase = "round" /\ current = j /\ UNCHANGED frozenTag
  BY DEF Yield, Sleep, WaitForChanges, Executing
<1>2. \E s \in {"running", "sleeping", "waiting", "joining"} : Suspend(job, j, s)
  BY DEF Yield, Sleep, WaitForChanges
<1>3. PICK s \in {"running", "sleeping", "waiting", "joining"} : Suspend(job, j, s)
  BY <1>2
<1>4. job \in Table /\ Moved(job, job, j)
  BY <1>1, CurrentJob
<1>5. frozenTag' \subseteq Tag
  BY <1>1, FrozenTagType
<1> QED
  BY <1>1, <1>3, <1>4, <1>5, SuspendInv

(* yield_until_terminated. *)
LEMMA JoinInv ==
  ASSUME QueueInv, NEW j \in Job, NEW o \in Job, Join(j, o)
  PROVE  QueueInv'
<1> DEFINE q == [job[o] EXCEPT !.wake = @ \cup {j}]
           queued == IF o = j THEN job ELSE [job EXCEPT ![o] = q]
           r == [queued[j] EXCEPT !.target = o]
           kb == [queued EXCEPT ![j] = r]
<1>1. phase = "round" /\ current = j /\ UNCHANGED frozenTag
  BY DEF Join, Executing
<1>2. Suspend(kb, j, "joining")
  BY DEF Join
<1>3. /\ job \in Table /\ Moved(job, job, j) /\ DepthInv(job)
      /\ Started(job, j) /\ Alive(job, j)
  BY <1>1, CurrentJob
<1>4. q \in JobRecord /\ q.state = job[o].state /\ q.exc = job[o].exc /\ q.tags = job[o].tags
  <2>1. job[o] \in JobRecord
    BY <1>3 DEF Table
  <2> QED BY <2>1 DEF JobRecord
<1>5. /\ queued \in Table
      /\ \A x \in Job : queued[x].state = job[x].state /\ queued[x].exc = job[x].exc
                        /\ queued[x].tags = job[x].tags
  <2> HIDE DEF q
  <2> QED BY <1>3, <1>4 DEF Table
<1> HIDE DEF q, queued
<1>6. Moved(job, queued, j)
  BY <1>3, <1>5 DEF Moved, SameLife, Started, Alive, DepthInv
<1>7. r \in JobRecord /\ r.state = queued[j].state /\ r.exc = queued[j].exc
  <2>1. queued[j] \in JobRecord
    BY <1>5 DEF Table
  <2> QED BY <2>1 DEF JobRecord
<1> HIDE DEF r
<1>8. Moved(job, kb, j) /\ kb \in Table
  <2>1. r.state \notin {"unborn", "to_start", "removed"} /\ r.exc.kind # "stop"
    BY <1>6, <1>7 DEF Moved, Started
  <2>2. Moved(job, kb, j)
    BY <1>5, <1>6, <1>7, <2>1, MovedSelf
  <2> QED BY <2>2 DEF Moved
<1> HIDE DEF kb
<1>9. frozenTag' \subseteq Tag
  BY <1>1, FrozenTagType
<1> QED
  BY <1>1, <1>2, <1>8, <1>9, SuspendInv

(* The four ways a job dies. *)
LEMMA DieInv ==
  ASSUME QueueInv, NEW j \in Job,
         Fail(j) \/ Finish(j) \/ DieOfException(j) \/ DieOfChild(j)
  PROVE  QueueInv'
<1>1. phase = "round" /\ current = j /\ UNCHANGED frozenTag
  BY DEF Fail, Finish, DieOfException, DieOfChild, Executing, Throwing
<1>2. Leave(Die(job, j), j) \/ Leave(DieOfError(job, j), j)
  BY DEF Fail, Finish, DieOfException, DieOfChild
<1>3. job \in Table /\ DepthInv(job) /\ Started(job, j) /\ Alive(job, j)
  BY <1>1, CurrentJob
<1>4. Moved(job, Die(job, j), j) /\ Moved(job, DieOfError(job, j), j)
  BY <1>3, DieMoved, DieOfErrorMoved
<1>5. frozenTag' \subseteq Tag
  BY <1>1, FrozenTagType
<1> QED
  BY <1>1, <1>2, <1>4, <1>5, LeaveInv

(* A tagged statement catches its StopException. *)
LEMMA CatchStopInv ==
  ASSUME QueueInv, NEW j \in Job, CatchStop(j) PROVE QueueInv'
<1> DEFINE d == thrown.depth
           kb == Unwind(job, j, d, d + 1)
<1>1. phase = "round" /\ current = j /\ UNCHANGED frozenTag /\ thrown.kind = "stop"
  BY DEF CatchStop, Throwing
<1>2. /\ job \in Table /\ DepthInv(job) /\ Started(job, j) /\ Alive(job, j)
      /\ d < Len(job[j].tags)
  BY <1>1, CurrentJob
<1>3. d \in 0..Len(job[j].tags)
  <2>1. d \in Nat /\ Len(job[j].tags) \in Nat
    BY <1>2 DEF QueueInv, TypeOK, Exception, Table, JobRecord
  <2> QED BY <1>2, <2>1
<1>4. kb \in Table /\ Moved(job, kb, j) /\ Alive(kb, j)
  BY <1>2, <1>3, UnwindMoved
<1>5. Suspend(kb, j, "running") \/ (Continue(kb) /\ thrown' = NoException)
  BY DEF CatchStop
<1>6. frozenTag' \subseteq Tag
  BY <1>1, FrozenTagType
<1> HIDE DEF kb
<1>7. CASE Suspend(kb, j, "running")
  BY <1>1, <1>4, <1>6, <1>7, SuspendInv
<1>8. CASE Continue(kb) /\ thrown' = NoException
  BY <1>1, <1>4, <1>6, <1>8, ContinueStep, NoExceptionKind
<1> QED
  BY <1>5, <1>7, <1>8

(* A scope catches the error of a child. *)
LEMMA CatchChildInv ==
  ASSUME QueueInv, NEW j \in Job, NEW d, CatchChild(j, d) PROVE QueueInv'
<1> DEFINE kb == Unwind(job, j, d, d)
<1>1. /\ phase = "round" /\ current = j /\ UNCHANGED frozenTag
      /\ d \in job[j].base..Len(job[j].tags) /\ Continue(kb) /\ thrown' = NoException
  BY DEF CatchChild, Throwing
<1>2. job \in Table /\ DepthInv(job) /\ Started(job, j) /\ Alive(job, j)
  BY <1>1, CurrentJob
<1>3. d \in 0..Len(job[j].tags)
  <2>1. job[j].base \in Nat /\ Len(job[j].tags) \in Nat
    BY <1>2 DEF Table, JobRecord
  <2> QED BY <1>1, <2>1
<1>4. kb \in Table /\ Moved(job, kb, j) /\ Alive(kb, j)
  BY <1>2, <1>3, UnwindMoved
<1>5. frozenTag' \subseteq Tag
  BY <1>1, FrozenTagType
<1> HIDE DEF kb
<1> QED
  BY <1>1, <1>4, <1>5, ContinueStep, NoExceptionKind

(* A record of the current job changes, but not its state or exception.     *)
LEMMA SelfMoved ==
  ASSUME NEW j \in Job, job \in Table, DepthInv(job), Started(job, j), Alive(job, j),
         NEW r \in JobRecord, r.state = job[j].state, r.exc = job[j].exc
  PROVE  /\ Moved(job, [job EXCEPT ![j] = r], j)
         /\ Alive([job EXCEPT ![j] = r], j)
         /\ [job EXCEPT ![j] = r] \in Table
         /\ [job EXCEPT ![j] = r][j] = r
<1> DEFINE kb == [job EXCEPT ![j] = r]
<1>1. kb \in Table /\ kb[j] = r
  BY DEF Table
<1>2. Moved(job, job, j)
  BY DEF Moved, SameLife
<1>3. r.state \notin {"unborn", "to_start", "removed"} /\ r.exc.kind # "stop"
  BY DEF Started
<1>4. Moved(job, kb, j)
  BY <1>2, <1>3, MovedSelf
<1> HIDE DEF kb
<1>5. Alive(kb, j)
  BY <1>1 DEF Alive
<1> QED
  BY <1>1, <1>4, <1>5 DEF kb

(* A tag is applied. *)
LEMMA EnterTagInv ==
  ASSUME QueueInv, NEW j \in Job, NEW t \in Tag, EnterTag(j, t) PROVE QueueInv'
<1> DEFINE s == Append(job[j].tags, t)
           u == Urgent(s)
           r == [job[j] EXCEPT !.tags = s, !.rt = u]
           kb == [job EXCEPT ![j] = r]
<1>1. phase = "round" /\ current = j /\ UNCHANGED frozenTag /\ thrown = NoException
  BY DEF EnterTag, Executing
<1>2. job \in Table /\ DepthInv(job) /\ Started(job, j) /\ Alive(job, j)
      /\ job[j] \in JobRecord
  BY <1>1, CurrentJob DEF Table
<1>3. s \in Seq(Tag)
  <2>1. job[j].tags \in Seq(Tag)
    BY <1>2 DEF JobRecord
  <2> QED BY <2>1
<1>4. r \in JobRecord /\ r.state = job[j].state /\ r.exc = job[j].exc
  <2>1. u \in BOOLEAN
    BY DEF Urgent
  <2>2. ASSUME NEW b \in BOOLEAN, b = u
        PROVE  r \in JobRecord /\ r.state = job[j].state /\ r.exc = job[j].exc
    <3>1. r = [job[j] EXCEPT !.tags = s, !.rt = b]
      BY <2>2
    <3> HIDE DEF s, u, r
    <3> QED BY <1>2, <1>3, <3>1 DEF JobRecord
  <2> HIDE DEF r, u
  <2> QED BY <2>1, <2>2
<1>5. Suspend(kb, j, "running") \/ (Continue(kb) /\ UNCHANGED thrown)
  BY DEF EnterTag
<1> HIDE DEF r
<1>6. Moved(job, kb, j) /\ Alive(kb, j) /\ kb \in Table
  BY <1>2, <1>4, SelfMoved
<1> HIDE DEF kb
<1>7. frozenTag' \subseteq Tag
  BY <1>1, FrozenTagType
<1>8. CASE Suspend(kb, j, "running")
  BY <1>1, <1>6, <1>7, <1>8, SuspendInv
<1>9. CASE Continue(kb) /\ UNCHANGED thrown
  BY <1>1, <1>6, <1>7, <1>9, ContinueStep, ThrownNow
<1> QED
  BY <1>5, <1>8, <1>9

(* A tagged statement ends. *)
LEMMA LeaveTagInv ==
  ASSUME QueueInv, NEW j \in Job, LeaveTag(j) PROVE QueueInv'
<1> DEFINE n == Len(job[j].tags)
           kb == Unwind(job, j, n - 1, n)
<1>1. /\ phase = "round" /\ current = j /\ UNCHANGED <<frozenTag, thrown>>
      /\ thrown = NoException /\ n > job[j].base /\ Continue(kb)
  BY DEF LeaveTag, Executing
<1>2. job \in Table /\ DepthInv(job) /\ Started(job, j) /\ Alive(job, j)
  BY <1>1, CurrentJob
<1>3. n - 1 \in 0..Len(job[j].tags)
  <2>1. job[j].base \in Nat /\ n \in Nat
    BY <1>2 DEF Table, JobRecord
  <2> QED BY <1>1, <2>1
<1>4. kb \in Table /\ Moved(job, kb, j) /\ Alive(kb, j)
  BY <1>2, <1>3, UnwindMoved
<1>5. frozenTag' \subseteq Tag
  BY <1>1, FrozenTagType
<1> HIDE DEF kb
<1> QED
  BY <1>1, <1>4, <1>5, ContinueStep, ThrownNow

(* A job freezes or unfreezes a tag. *)
LEMMA FreezeInv ==
  ASSUME QueueInv, NEW j \in Job, NEW t \in Tag, Freeze(j, t) \/ Unfreeze(j, t)
  PROVE  QueueInv'
<1>1. phase = "round" /\ current = j /\ thrown = NoException
  BY DEF Freeze, Unfreeze, Executing
<1>2. job \in Table /\ Moved(job, job, j) /\ Alive(job, j)
  BY <1>1, CurrentJob
<1>3. frozenTag' \subseteq Tag
  BY DEF QueueInv, TypeOK, Freeze, Unfreeze
<1>4. Suspend(job, j, "running") \/ (Continue(job) /\ UNCHANGED thrown)
  BY DEF Freeze, Unfreeze
<1>5. CASE Suspend(job, j, "running")
  BY <1>1, <1>2, <1>3, <1>5, SuspendInv
<1>6. CASE Continue(job) /\ UNCHANGED thrown
  BY <1>1, <1>2, <1>3, <1>6, ContinueStep, ThrownNow
<1> QED
  BY <1>4, <1>5, <1>6

(* A job sets its side_effect_free_ or non_interruptible_ flag. *)
LEMMA SetFlagInv ==
  ASSUME QueueInv, NEW j \in Job, NEW b \in BOOLEAN,
         SetSideEffectFree(j, b) \/ SetNonInterruptible(j, b)
  PROVE  QueueInv'
<1> DEFINE r == [job[j] EXCEPT !.sef = b]
           q == [job[j] EXCEPT !.nonint = b]
<1>1. /\ phase = "round" /\ current = j /\ thrown = NoException
      /\ UNCHANGED <<frozenTag, thrown>>
  BY DEF SetSideEffectFree, SetNonInterruptible, Executing
<1>2. job \in Table /\ DepthInv(job) /\ Started(job, j) /\ Alive(job, j)
      /\ job[j] \in JobRecord
  BY <1>1, CurrentJob DEF Table
<1>3. r \in JobRecord /\ r.state = job[j].state /\ r.exc = job[j].exc
  BY <1>2 DEF JobRecord
<1>4. q \in JobRecord /\ q.state = job[j].state /\ q.exc = job[j].exc
  BY <1>2 DEF JobRecord
<1>5. Continue([job EXCEPT ![j] = r]) \/ Continue([job EXCEPT ![j] = q])
  BY DEF SetSideEffectFree, SetNonInterruptible
<1>6. frozenTag' \subseteq Tag /\ thrown' \in Exception /\ thrown'.kind # "stop"
  BY <1>1, FrozenTagType, ThrownNow
<1> HIDE DEF r, q
<1>7. CASE Continue([job EXCEPT ![j] = r])
  BY <1>1, <1>2, <1>3, <1>6, <1>7, SelfMoved, ContinueStep
<1>8. CASE Continue([job EXCEPT ![j] = q])
  BY <1>1, <1>2, <1>4, <1>6, <1>8, SelfMoved, ContinueStep
<1> QED
  BY <1>5, <1>7, <1>8

(* A job terminates another one. *)
LEMMA TerminateJobInv ==
  ASSUME QueueInv, NEW j \in Job, NEW o \in Job, TerminateJob(j, o)
  PROVE  QueueInv'
<1> DEFINE kb == TerminateNow(job, {o})
<1>1. /\ phase = "round" /\ current = j /\ thrown = NoException
      /\ UNCHANGED <<frozenTag, thrown>> /\ Continue(kb)
  BY DEF TerminateJob, Executing
<1>2. job \in Table /\ DepthInv(job) /\ Started(job, j) /\ Alive(job, j)
  BY <1>1, CurrentJob
<1>3. kb \in Table /\ Moved(job, kb, j) /\ Alive(kb, j)
  BY <1>2, TerminateNowType, TerminateNowSame, MovedBySame
<1>4. frozenTag' \subseteq Tag
  BY <1>1, FrozenTagType
<1> HIDE DEF kb
<1> QED
  BY <1>1, <1>3, <1>4, ContinueStep, ThrownNow

(* terminate_now on the current job is a legal step of it. *)
LEMMA TerminateSelfMoved ==
  ASSUME NEW j \in Job, NEW jb \in Table, Moved(job, jb, j), Alive(jb, j), TerminateSelf(jb, j)
  PROVE  /\ Moved(job, job', j) /\ Alive(job', j) /\ job' \in Table
         /\ thrown' = TerminateException
<1> DEFINE T == TerminateNow(jb, jb[j].children)
           r == [T[j] EXCEPT !.children = {}, !.sef = FALSE, !.nonint = FALSE]
           kb == [T EXCEPT ![j] = r]
<1>1. job' = kb /\ thrown' = TerminateException
  BY DEF TerminateSelf
<1>2. DepthInv(jb) /\ Started(jb, j)
  BY DEF Moved
<1>3. T \in Table /\ Moved(jb, T, j) /\ Alive(T, j)
  BY <1>2, TerminateNowType, TerminateNowSame, MovedBySame
<1> HIDE DEF T
<1>4. r \in JobRecord /\ r.state = T[j].state /\ r.exc = T[j].exc
  <2>1. T[j] \in JobRecord
    BY <1>3 DEF Table
  <2> QED BY <2>1 DEF JobRecord
<1> HIDE DEF r
<1>5. Moved(job, T, j)
  BY <1>3, MovedTransitive
<1>6. r.state \notin {"unborn", "to_start", "removed"} /\ r.exc.kind # "stop"
  BY <1>4, <1>5 DEF Moved, Started
<1>7. Moved(job, kb, j)
  BY <1>3, <1>4, <1>5, <1>6, MovedSelf
<1>8. kb[j] = r /\ kb \in Table
  BY <1>3, <1>4 DEF Table
<1> HIDE DEF kb
<1>9. Alive(kb, j)
  BY <1>3, <1>4, <1>8 DEF Alive
<1> QED
  BY <1>1, <1>7, <1>8, <1>9

(* A job terminates itself. *)
LEMMA TerminateCurrentInv ==
  ASSUME QueueInv, NEW j \in Job, TerminateCurrent(j) PROVE QueueInv'
<1>1. /\ phase = "round" /\ current = j /\ UNCHANGED frozenTag /\ TerminateSelf(job, j)
      /\ UNCHANGED <<jobs, pending, job_p, next_job_p, current, first, pse,
                     start_waiting, deadline, ready_to_die, phase>>
  BY DEF TerminateCurrent, Executing, round, flags
<1>2. job \in Table /\ Moved(job, job, j) /\ Alive(job, j)
  BY <1>1, CurrentJob
<1>3. /\ Moved(job, job', j) /\ Alive(job', j) /\ job' \in Table
      /\ thrown' = TerminateException
  BY <1>1, <1>2, TerminateSelfMoved
<1>4. TypeOK'
  BY <1>1, <1>3, NoExceptionKind DEF QueueInv, TypeOK, Table
<1> QED
  BY <1>1, <1>3, <1>4, ContinueInv, NoExceptionKind

(* killall_jobs called from a job. *)
LEMMA KillallJobsInv ==
  ASSUME QueueInv, NEW j \in Job, KillallJobs(j) PROVE QueueInv'
<1>1. /\ phase = "round" /\ current = j /\ UNCHANGED frozenTag /\ thrown = NoException
      /\ UNCHANGED <<jobs, pending, job_p, next_job_p, current, first, pse,
                     start_waiting, deadline, phase>>
      /\ ready_to_die' = TRUE
  BY DEF KillallJobs, Executing, round
<1>2. PICK anc \in [0..Len(pending) -> Job] : KillallFrom(j, anc[Len(pending)])
  BY DEF KillallJobs
<1>3. job \in Table /\ DepthInv(job) /\ Started(job, j) /\ Alive(job, j)
  BY <1>1, CurrentJob
<1> DEFINE a == anc[Len(pending)]
           jb == TerminateNow(job, {x \in Nodes(pending) : ~AncesterOf(a, x)})
           kb == AsyncThrow(jb, {a}, TerminateException)
<1>4. jb \in Table /\ Moved(job, jb, j) /\ Alive(jb, j)
  BY <1>3, TerminateNowType, TerminateNowSame, MovedBySame
<1>5. DepthInv(jb) /\ Started(jb, j)
  BY <1>4 DEF Moved
<1> HIDE DEF jb, a
<1>6. kb \in Table /\ Moved(jb, kb, j) /\ Alive(kb, j)
  BY <1>4, <1>5, AsyncThrowType, AsyncThrowSame, MovedBySame, NoExceptionKind
<1>7. Moved(job, kb, j)
  BY <1>4, <1>6, MovedTransitive
<1> HIDE DEF kb
<1>8. \/ TerminateSelf(jb, j)
      \/ job' \in {jb, kb} /\ UNCHANGED thrown
  BY <1>2 DEF KillallFrom, jb, kb, a
<1>9. /\ Moved(job, job', j) /\ Alive(job', j) /\ job' \in Table
      /\ thrown' \in {NoException, TerminateException}
  <2>1. CASE TerminateSelf(jb, j)
    BY <1>4, <2>1, TerminateSelfMoved
  <2>2. CASE job' \in {jb, kb} /\ UNCHANGED thrown
    BY <1>1, <1>4, <1>6, <1>7, <2>2
  <2> QED BY <1>8, <2>1, <2>2
<1>10. TypeOK'
  BY <1>1, <1>9, NoExceptionKind DEF QueueInv, TypeOK, Table
<1> QED
  BY <1>1, <1>9, <1>10, ContinueInv, NoExceptionKind

(* add_job from a job. *)
LEMMA AddJobInv ==
  ASSUME QueueInv, NEW j \in Job, NEW c \in Job, phase = "round", current = j,
         NEW kb \in Table, DepthInv(kb), job[c].state = "unborn",
         kb[c].state = "to_start",
         \A x \in Job \ {c} : /\ kb[x].state = job[x].state /\ kb[x].exc = job[x].exc
                              /\ kb[x].tags = job[x].tags,
         AddJob(kb, c), UNCHANGED <<frozenTag, thrown>>
  PROVE  QueueInv'
<1> USE NoJobAssumption
<1>0. /\ TypeOK /\ CurrentInv /\ ThrownInv /\ BornInv /\ RoundInv /\ DepthInv(job)
      /\ NeverQueuedTwice /\ NoJobLost /\ OnlyLiveJobsQueued
  BY DEF QueueInv
<1> DEFINE n == next_job_p
           L == Len(pending)
<1>1. CASE /\ phase' = "undefined"
           /\ UNCHANGED <<job, jobs, pending, job_p, next_job_p, current, first, pse,
                          start_waiting, deadline, ready_to_die>>
  <2>1. Ahead' = Ahead
    BY <1>1 DEF Ahead
  <2>2. TypeOK'
    BY <1>0, <1>1 DEF TypeOK, Phase
  <2>3. CurrentInv' /\ ThrownInv' /\ BornInv' /\ RoundInv'
    BY <1>0, <1>1 DEF CurrentInv, ThrownInv, BornInv, RoundInv
  <2>4. NeverQueuedTwice' /\ NoJobLost' /\ OnlyLiveJobsQueued'
    BY <1>0, <1>1, <2>1 DEF NeverQueuedTwice, NoJobLost, OnlyLiveJobsQueued
  <2> QED BY <1>0, <1>1, <2>2, <2>3, <2>4 DEF QueueInv
<1>2. CASE /\ job' = kb /\ pending' = InsertNode(pending, n, c) /\ next_job_p' = n + 1
           /\ UNCHANGED <<jobs, job_p, current, first, pse, start_waiting, deadline,
                          ready_to_die, phase>>
  <2>1. /\ job_p \in 1..L /\ pending[job_p] = j /\ n \in (job_p + 1)..(L + 1)
        /\ L \in Nat /\ DOMAIN pending = 1..L /\ n \in Nat /\ job_p \in Nat
        /\ \A i \in 1..L : pending[i] \in Job \cup {NoJob}
        /\ Alive(job, j) /\ job[j].state # "to_start" /\ job[j].exc.kind # "stop"
    BY <1>0 DEF CurrentInv, TypeOK
  <2>2. /\ DOMAIN pending' = 1..(L + 1)
        /\ \A i \in 1..(L + 1) :
             pending'[i] = IF i < n THEN pending[i] ELSE IF i = n THEN c ELSE pending[i - 1]
    BY <1>2 DEF InsertNode
  <2>3. \A i \in 1..(L + 1) : \/ i < n /\ i \in 1..L /\ pending'[i] = pending[i]
                              \/ i = n /\ pending'[i] = c
                              \/ i > n /\ i - 1 \in 1..L /\ pending'[i] = pending[i - 1]
    BY <2>1, <2>2
  <2>4. /\ \A i \in 1..L : i < n => pending'[i] = pending[i]
        /\ pending'[n] = c
        /\ \A i \in 1..L : i >= n => i + 1 \in 1..(L + 1) /\ pending'[i + 1] = pending[i]
    BY <2>1, <2>2
  <2>5. pending' \in Seq(Job \cup {NoJob}) /\ Len(pending') = L + 1
    <3>1. \A i \in 1..(L + 1) : pending'[i] \in Job \cup {NoJob}
      BY <2>1, <2>3
    <3>2. pending' = [i \in 1..(L + 1) |-> pending'[i]]
      BY <1>2 DEF InsertNode
    <3>3. L + 1 \in Nat
      BY <2>1
    <3> HIDE DEF L
    <3> QED BY <3>1, <3>2, <3>3
  <2>6. c \notin Nodes(jobs) \cup Nodes(pending) /\ c # j
    BY <1>0, <2>1 DEF BornInv, Alive
  <2>7. Nodes(pending') = Nodes(pending) \cup {c}
    <3>1. \A x \in Nodes(pending') : x \in Nodes(pending) \cup {c}
      BY <2>1, <2>2, <2>3, SMTT(30) DEF Nodes
    <3>2. ASSUME NEW x \in Nodes(pending) PROVE x \in Nodes(pending')
      <4>1. PICK i \in 1..L : pending[i] = x /\ x # NoJob
        BY <2>1 DEF Nodes
      <4>2. \E k \in 1..(L + 1) : pending'[k] = x
        <5>1. CASE i < n
          BY <2>1, <2>4, <4>1, <5>1
        <5>2. CASE i >= n
          BY <2>1, <2>4, <4>1, <5>2
        <5> QED BY <2>1, <5>1, <5>2
      <4> QED BY <2>2, <4>1, <4>2 DEF Nodes
    <3>3. c \in Nodes(pending')
      BY <2>1, <2>2, <2>4 DEF Nodes
    <3> QED BY <3>1, <3>2, <3>3
  <2>8. NoDuplicate(pending')
    <3>1. \A i, k \in 1..L : pending[i] = pending[k] /\ pending[i] # NoJob => i = k
      BY <1>0, <2>1 DEF NeverQueuedTwice, NoDuplicate
    <3>2. \A i \in 1..L : pending[i] # c
      BY <2>1, <2>6 DEF Nodes
    <3> SUFFICES ASSUME NEW i \in 1..(L + 1), NEW k \in 1..(L + 1),
                        pending'[i] = pending'[k], pending'[i] # NoJob
                 PROVE  i = k
      BY <2>2 DEF NoDuplicate
    <3>3. CASE i < n
      BY <2>1, <2>3, <3>1, <3>2, <3>3
    <3>4. CASE i = n
      BY <2>1, <2>3, <3>1, <3>2, <3>4
    <3>5. CASE i > n
      BY <2>1, <2>3, <3>1, <3>2, <3>5
    <3> QED BY <2>1, <3>3, <3>4, <3>5
  <2>9. Ahead = {i \in 1..L : pending[i] # NoJob /\ i > job_p}
    BY <2>1 DEF Ahead
  <2>10. Ahead' = {i \in 1..(L + 1) : pending'[i] # NoJob /\ i > job_p}
    BY <1>2, <2>1, <2>2 DEF Ahead
  <2>11. TypeOK'
    BY <1>0, <1>2, <2>1, <2>5 DEF TypeOK, Table
  <2>12. CurrentInv' /\ ThrownInv'
    <3>1. pending'[job_p] = j
      BY <2>1, <2>4
    <3>2. n + 1 \in (job_p + 1)..(L + 2) /\ job_p \in 1..(L + 1)
      BY <2>1
    <3>3. kb[j].state = job[j].state /\ kb[j].exc = job[j].exc /\ kb[j].tags = job[j].tags
      BY <2>6
    <3>4. (L + 1) + 1 = L + 2
      BY <2>1
    <3> HIDE DEF L
    <3>5. CurrentInv'
      BY <1>2, <2>1, <2>5, <3>1, <3>2, <3>3, <3>4 DEF CurrentInv, Alive
    <3>6. ThrownInv'
      BY <1>0, <1>2, <3>3 DEF ThrownInv
    <3> QED BY <3>5, <3>6
  <2>13. \A x \in Nodes(jobs) \cup Nodes(pending) : x \in Job \ {c}
    BY <1>0, <2>6 DEF Nodes, TypeOK
  <2>14. BornInv' /\ RoundInv'
    BY <1>0, <1>2, <2>7, <2>13 DEF BornInv, RoundInv
  <2>15. NeverQueuedTwice'
    <3>1. \A i \in Ahead : pending[i] \notin Nodes(jobs) \cup {j}
      BY <1>0 DEF NeverQueuedTwice
    <3>2. ASSUME NEW i \in Ahead' PROVE pending'[i] \notin Nodes(jobs) \cup {j}
      <4>1. i \in 1..(L + 1) /\ pending'[i] # NoJob /\ i > job_p
        BY <2>10
      <4>2. CASE i < n
        BY <2>1, <2>3, <2>9, <3>1, <4>1, <4>2
      <4>3. CASE i = n
        BY <2>4, <2>6, <4>3
      <4>4. CASE i > n
        <5>1. i - 1 \in Ahead /\ pending'[i] = pending[i - 1]
          BY <2>1, <2>3, <2>9, <4>1, <4>4
        <5> QED BY <3>1, <5>1
      <4> QED BY <2>1, <4>1, <4>2, <4>3, <4>4
    <3> QED BY <1>0, <1>2, <2>8, <3>2 DEF NeverQueuedTwice
  <2>16. NoJobLost'
    <3> SUFFICES ASSUME NEW x \in Job, Alive(job', x), x # j, x \notin Nodes(jobs)
                 PROVE  \E i \in Ahead' : pending'[i] = x
      BY <1>2 DEF NoJobLost
    <3>1. CASE x = c
      <4>1. n \in 1..(L + 1) /\ n > job_p
        BY <2>1
      <4>2. n \in Ahead'
        BY <2>4, <2>10, <4>1
      <4> QED BY <2>4, <3>1, <4>2
    <3>2. CASE x # c
      <4>1. Alive(job, x)
        BY <1>2, <3>2 DEF Alive
      <4>2. PICK i \in Ahead : pending[i] = x
        BY <1>0, <4>1 DEF NoJobLost
      <4>3. i \in 1..L /\ i > job_p
        BY <2>9
      <4>4. CASE i < n
        BY <2>1, <2>4, <2>10, <4>2, <4>3, <4>4
      <4>5. CASE i >= n
        BY <2>1, <2>4, <2>10, <4>2, <4>3, <4>5
      <4> QED BY <2>1, <4>3, <4>4, <4>5
    <3> QED BY <3>1, <3>2
  <2>17. OnlyLiveJobsQueued'
    <3>1. \A x \in Job \ {c} : Alive(job, x) => Alive(kb, x)
      BY DEF Alive
    <3>2. Alive(kb, c)
      BY DEF Alive
    <3>3. ASSUME NEW i \in Ahead' PROVE Alive(kb, pending'[i])
      <4>1. i \in 1..(L + 1) /\ pending'[i] # NoJob /\ i > job_p
        BY <2>10
      <4>2. CASE i < n
        BY <1>0, <2>1, <2>3, <2>9, <3>1, <3>2, <4>1, <4>2 DEF OnlyLiveJobsQueued
      <4>3. CASE i = n
        BY <2>4, <3>2, <4>3
      <4>4. CASE i > n
        <5>1. i - 1 \in Ahead /\ pending'[i] = pending[i - 1] /\ pending[i - 1] \in Job
          BY <2>1, <2>3, <2>9, <4>1, <4>4
        <5> QED BY <1>0, <3>1, <3>2, <5>1 DEF OnlyLiveJobsQueued
      <4> QED BY <2>1, <4>1, <4>2, <4>3, <4>4
    <3> QED BY <1>0, <1>2, <2>13, <3>1, <3>3 DEF OnlyLiveJobsQueued
  <2> QED
    BY <1>2, <2>11, <2>12, <2>14, <2>15, <2>16, <2>17 DEF QueueInv
<1> QED
  BY <1>1, <1>2 DEF AddJob, round, flags

(* A new job is to be started and has no exception. *)
LEMMA NewJobFacts ==
  ASSUME NEW s \in Seq(Tag), NEW p \in Job \cup {NoJob}, NEW l \in Nat
  PROVE  /\ NewJob(s, p, l) \in JobRecord
         /\ NewJob(s, p, l).state = "to_start" /\ NewJob(s, p, l).exc = NoException
<1>1. NewJob(s, p, l) \in JobRecord
  BY NewJobType
<1> QED
  BY <1>1 DEF NewJob, Unborn

(* A job starts a child. *)
LEMMA StartChildInv ==
  ASSUME QueueInv, NEW j \in Job, NEW c \in Job, StartChild(j, c) PROVE QueueInv'
<1> DEFINE s == job[j].tags
           new == NewJob(s, j, Len(s))
           r == [job[j] EXCEPT !.children = @ \cup {c}]
           kb == [job EXCEPT ![c] = new, ![j] = r]
<1>1. /\ phase = "round" /\ current = j /\ job[c].state = "unborn"
      /\ UNCHANGED <<frozenTag, thrown>>
  BY DEF StartChild, Executing
<1>2. job \in Table /\ DepthInv(job) /\ Alive(job, j) /\ job[j] \in JobRecord
  BY <1>1, CurrentJob DEF Table
<1>3. c # j
  BY <1>1, <1>2 DEF Alive
<1>4. AddJob(kb, c)
  BY <1>2, <1>3 DEF StartChild, Table
<1>5. new \in JobRecord /\ new.state = "to_start" /\ new.exc = NoException
  <2>1. s \in Seq(Tag) /\ Len(s) \in Nat
    BY <1>2 DEF JobRecord
  <2> QED BY <2>1, NewJobFacts
<1>6. r \in JobRecord /\ r.state = job[j].state /\ r.exc = job[j].exc /\ r.tags = job[j].tags
  BY <1>2 DEF JobRecord
<1> HIDE DEF new, r
<1>7. /\ kb \in Table /\ kb[c] = new /\ kb[j] = r
      /\ \A x \in Job \ {c, j} : kb[x] = job[x]
  BY <1>2, <1>3, <1>5, <1>6 DEF Table
<1> HIDE DEF kb
<1>8. DepthInv(kb)
  BY <1>2, <1>5, <1>6, <1>7, NoExceptionKind DEF DepthInv
<1> QED
  BY <1>1, <1>4, <1>5, <1>6, <1>7, <1>8, AddJobInv

(* A job spawns another one. *)
LEMMA SpawnInv ==
  ASSUME QueueInv, NEW j \in Job, NEW c \in Job, NEW b \in BOOLEAN, Spawn(j, c, b)
  PROVE  QueueInv'
<1> DEFINE s == IF b THEN << >> ELSE job[j].tags
           new == NewJob(s, NoJob, 0)
           kb == [job EXCEPT ![c] = new]
<1>1. /\ phase = "round" /\ current = j /\ job[c].state = "unborn"
      /\ UNCHANGED <<frozenTag, thrown>> /\ AddJob(kb, c)
  BY DEF Spawn, Executing
<1>2. job \in Table /\ DepthInv(job) /\ job[j] \in JobRecord
  BY <1>1, CurrentJob DEF Table
<1>3. new \in JobRecord /\ new.state = "to_start" /\ new.exc = NoException
  <2>1. s \in Seq(Tag)
    BY <1>2 DEF JobRecord
  <2> QED BY <2>1, NewJobFacts
<1> HIDE DEF new
<1>4. kb \in Table /\ kb[c] = new /\ \A x \in Job \ {c} : kb[x] = job[x]
  BY <1>2, <1>3 DEF Table
<1> HIDE DEF kb
<1>5. DepthInv(kb)
  BY <1>2, <1>3, <1>4, NoExceptionKind DEF DepthInv
<1> QED
  BY <1>1, <1>3, <1>4, <1>5, AddJobInv

(* Tag::stop: only jobs that are not started are withdrawn from pending_. *)
LEMMA SignalStopInv ==
  ASSUME QueueInv, NEW j \in Job, NEW t \in Tag, SignalStop(j, t) PROVE QueueInv'
<1> USE NoJobAssumption
<1> DEFINE K == Nodes(pending) \ {j}
           R == Withdrawn(K, t)
           told == RegisterStoppedTag(job, K \ NotStarted(K), t)
           p == StopPosition(job, j, t)
           L == Len(pending)
<1>0. /\ TypeOK /\ CurrentInv /\ ThrownInv /\ BornInv /\ RoundInv /\ DepthInv(job)
      /\ NeverQueuedTwice /\ NoJobLost /\ OnlyLiveJobsQueued
  BY DEF QueueInv
<1>1. /\ phase = "round" /\ current = j /\ thrown = NoException
      /\ pending' = Erase(pending, R)
      /\ thrown' = IF p > 0 THEN StopException(p - 1) ELSE NoException
      /\ job' = [x \in Job |->
                  IF x \in R THEN [job[x] EXCEPT !.state = "removed"]
                  ELSE IF x = j /\ p > 0
                  THEN [job[j] EXCEPT !.sef = FALSE, !.nonint = FALSE]
                  ELSE told[x]]
      /\ UNCHANGED <<frozenTag, jobs, job_p, next_job_p, current, first, pse,
                     start_waiting, deadline, ready_to_die, phase>>
  BY DEF SignalStop, Executing, flags
<1>2. job \in Table /\ Alive(job, j) /\ Started(job, j) /\ job[j] \in JobRecord
  BY <1>1, CurrentJob DEF Table
<1>3. told \in Table /\ DepthInv(told) /\ \A x \in Job : SameLife(job, told, x)
  BY <1>0, <1>2, RegisterStoppedTagLife
<1>4. told[j] = job[j]
  BY DEF RegisterStoppedTag
<1>5. \A x \in R : x \in Nodes(pending) /\ x # j /\ job[x].state = "to_start"
  BY DEF Withdrawn
<1>6. p \in 0..Len(job[j].tags) /\ Len(job[j].tags) \in Nat
  BY <1>2, StopPositionRange DEF JobRecord
<1> HIDE DEF R, told, p
<1>7. ASSUME NEW x \in Job \ R, x # j
      PROVE  job'[x] = told[x]
  BY <1>1, <1>7
<1>8. ASSUME NEW x \in R, x \in Job
      PROVE  job'[x] \in JobRecord /\ job'[x].state = "removed"
             /\ job'[x].exc = job[x].exc /\ job'[x].tags = job[x].tags
  <2>1. job'[x] = [job[x] EXCEPT !.state = "removed"] /\ job[x] \in JobRecord
    BY <1>1, <1>2, <1>8 DEF Table
  <2> QED BY <2>1, StateType DEF JobRecord
<1>9. /\ job'[j] \in JobRecord /\ job'[j].state = job[j].state
      /\ job'[j].exc = job[j].exc /\ job'[j].tags = job[j].tags
  <2>1. job'[j] = IF p > 0 THEN [job[j] EXCEPT !.sef = FALSE, !.nonint = FALSE] ELSE job[j]
    BY <1>1, <1>4, <1>5
  <2>2. CASE p > 0
    BY <1>2, <2>1, <2>2 DEF JobRecord
  <2>3. CASE ~(p > 0)
    BY <1>2, <2>1, <2>3
  <2> QED BY <2>2, <2>3
<1>10. job' \in Table /\ DepthInv(job')
  <2>1. ASSUME NEW x \in Job
        PROVE  /\ job'[x] \in JobRecord
               /\ job'[x].exc.kind = "stop" => job'[x].exc.depth < Len(job'[x].tags)
    <3>1. CASE x \in R
      BY <1>0, <1>8, <3>1 DEF DepthInv
    <3>2. CASE x = j
      BY <1>0, <1>9, <3>2 DEF DepthInv
    <3>3. CASE x \notin R /\ x # j
      BY <1>3, <1>7, <3>3 DEF DepthInv, Table
    <3> QED BY <3>1, <3>2, <3>3
  <2>2. job' = [x \in Job |-> job'[x]]
    BY <1>1
  <2> QED BY <2>1, <2>2 DEF Table, DepthInv
<1>11. /\ DOMAIN pending = 1..L /\ L \in Nat
       /\ DOMAIN pending' = 1..L /\ Len(pending') = L
       /\ pending' \in Seq(Job \cup {NoJob})
       /\ \A i \in 1..L : pending'[i] = IF pending[i] \in R THEN NoJob ELSE pending[i]
  BY <1>0, <1>1 DEF TypeOK, Erase
<1>12. Nodes(pending') = Nodes(pending) \ R
  BY <1>11 DEF Nodes
<1>13. NoDuplicate(pending')
  BY <1>0, <1>11 DEF NeverQueuedTwice, NoDuplicate
<1>14. Ahead' = {i \in Ahead : pending[i] \notin R}
  BY <1>1, <1>11 DEF Ahead
<1>15. thrown' \in Exception /\ (thrown'.kind = "stop" => thrown'.depth < Len(job[j].tags))
  <2>1. CASE p > 0
    <3>1. p - 1 \in Nat /\ p - 1 < Len(job[j].tags)
      BY <1>6, <2>1
    <3> QED BY <1>1, <2>1, <3>1, ExceptionType DEF StopException
  <2>2. CASE ~(p > 0)
    BY <1>1, <2>2, NoExceptionKind
  <2> QED BY <2>1, <2>2
<1>16. TypeOK'
  BY <1>0, <1>1, <1>10, <1>11, <1>15 DEF TypeOK, Table
<1>17. CurrentInv' /\ ThrownInv'
  <2>1. job_p \in 1..L /\ pending[job_p] = j /\ j \notin R
    BY <1>0, <1>1, <1>5 DEF CurrentInv
  <2>2. pending'[job_p] = j
    BY <1>11, <2>1
  <2>3. CurrentInv'
    BY <1>0, <1>1, <1>9, <1>11, <2>2 DEF CurrentInv, Alive
  <2>4. ThrownInv'
    BY <1>1, <1>9, <1>15 DEF ThrownInv
  <2> QED BY <2>3, <2>4
<1>18. \A x \in Job \ R : SameLife(job, job', x)
  BY <1>3, <1>7, <1>9 DEF SameLife, Alive
<1>19. \A x \in Nodes(jobs) : x \in Job \ R
  BY <1>0, <1>1, <1>5 DEF RoundInv, Nodes, TypeOK
<1>20. \A x \in Nodes(pending) : x \in Job
  BY <1>0 DEF Nodes, TypeOK
<1>21. BornInv' /\ RoundInv'
  BY <1>0, <1>1, <1>12, <1>18, <1>19, <1>20 DEF BornInv, RoundInv, SameLife
<1>22. NeverQueuedTwice'
  <2>1. \A i \in Ahead' : i \in Ahead /\ pending'[i] = pending[i]
    BY <1>11, <1>14 DEF Ahead
  <2> QED BY <1>0, <1>1, <1>13, <2>1 DEF NeverQueuedTwice
<1>23. NoJobLost'
  <2> SUFFICES ASSUME NEW x \in Job, Alive(job', x), x # j, x \notin Nodes(jobs)
               PROVE  \E i \in Ahead' : pending'[i] = x
    BY <1>1 DEF NoJobLost
  <2>1. x \notin R
    BY <1>8 DEF Alive
  <2>2. Alive(job, x)
    BY <1>18, <2>1 DEF SameLife
  <2>3. PICK i \in Ahead : pending[i] = x
    BY <1>0, <1>1, <2>2 DEF NoJobLost
  <2>4. i \in 1..L
    BY <1>11 DEF Ahead
  <2> QED BY <1>11, <1>14, <2>1, <2>3, <2>4
<1>24. OnlyLiveJobsQueued'
  <2>1. \A i \in Ahead' : i \in Ahead /\ pending'[i] = pending[i] /\ pending[i] \in Job \ R
    BY <1>0, <1>11, <1>14 DEF Ahead, TypeOK
  <2> QED BY <1>0, <1>1, <1>18, <1>19, <2>1 DEF OnlyLiveJobsQueued, SameLife
<1> QED
  BY <1>10, <1>16, <1>17, <1>21, <1>22, <1>23, <1>24 DEF QueueInv

-----------------------------------------------------------------------------
(* The steps of the server's thread *)

(* Between two rounds, a step that kills and starts nobody. *)
LEMMA OutsideInv ==
  ASSUME QueueInv, TypeOK', phase \in {"main", "idle"}, DepthInv(job'),
         \A x \in Job : SameLife(job, job', x),
         UNCHANGED <<jobs, pending, job_p, next_job_p, current, thrown, phase>>
  PROVE  QueueInv'
<1> USE NoJobAssumption
<1>0. /\ TypeOK /\ CurrentInv /\ ThrownInv /\ BornInv /\ RoundInv /\ DepthInv(job)
      /\ NeverQueuedTwice /\ NoJobLost /\ OnlyLiveJobsQueued
  BY DEF QueueInv
<1>1. Ahead = {} /\ Ahead' = {}
  BY DEF Ahead
<1>2. current = NoJob
  BY <1>0 DEF CurrentInv
<1>3. CurrentInv' /\ ThrownInv' /\ RoundInv'
  BY <1>0, <1>2 DEF CurrentInv, ThrownInv, RoundInv
<1>4. BornInv'
  <2>1. \A x \in Nodes(jobs) \cup Nodes(pending) : x \in Job
    BY <1>0 DEF Nodes, TypeOK
  <2> QED BY <1>0, <2>1 DEF BornInv, SameLife
<1>5. NeverQueuedTwice' /\ NoJobLost'
  BY <1>0, <1>1 DEF NeverQueuedTwice, NoJobLost, SameLife
<1>6. OnlyLiveJobsQueued'
  <2>1. \A x \in Nodes(jobs) : x \in Job
    BY <1>0 DEF Nodes, TypeOK
  <2> QED BY <1>0, <1>1, <2>1 DEF OnlyLiveJobsQueued, SameLife
<1> QED
  BY <1>3, <1>4, <1>5, <1>6 DEF QueueInv

(* The steps of the server other than add_job. *)
LEMMA ServerStepInv ==
  ASSUME QueueInv,
         WorldChange \/ ServerKillall \/ \E t \in Tag : ServerUnfreeze(t) \/ ServerStop(t)
  PROVE  QueueInv'
<1>1. TypeOK /\ DepthInv(job) /\ job \in Table
  BY DEF QueueInv, TypeOK, Table
<1>2. \A x \in Job : SameLife(job, job, x)
  BY DEF SameLife
<1>3. CASE WorldChange
  <2>1. TypeOK'
    BY <1>1, <1>3 DEF WorldChange, TypeOK, round
  <2> QED BY <1>1, <1>2, <1>3, <2>1, OutsideInv DEF WorldChange, Outside, round
<1>4. ASSUME NEW t \in Tag, ServerUnfreeze(t) PROVE QueueInv'
  <2>1. TypeOK'
    BY <1>1, <1>4 DEF ServerUnfreeze, TypeOK, round, flags
  <2> QED BY <1>1, <1>2, <1>4, <2>1, OutsideInv DEF ServerUnfreeze, Outside, round
<1>5. ASSUME NEW t \in Tag, ServerStop(t) PROVE QueueInv'
  <2> DEFINE kb == RegisterStoppedTag(job, Nodes(jobs) \ NotStarted(Nodes(jobs)), t)
  <2>1. job' = kb
    BY <1>5 DEF ServerStop
  <2>2. kb \in Table /\ DepthInv(kb) /\ \A x \in Job : SameLife(job, kb, x)
    BY <1>1, RegisterStoppedTagLife
  <2> HIDE DEF kb
  <2>3. TypeOK'
    BY <1>1, <1>5, <2>1, <2>2 DEF ServerStop, TypeOK, round, flags, Table
  <2> QED BY <1>5, <2>1, <2>2, <2>3, OutsideInv DEF ServerStop, Outside, round
<1>6. CASE ServerKillall
  <2> DEFINE kb == TerminateNow(job, Nodes(jobs))
  <2>1. job' = kb
    BY <1>6 DEF ServerKillall
  <2>2. kb \in Table /\ Same(job, kb)
    BY <1>1, TerminateNowType, TerminateNowSame
  <2> HIDE DEF kb
  <2>3. DepthInv(kb) /\ \A x \in Job : SameLife(job, kb, x)
    BY <1>1, <2>2, SameDepth DEF Same, Kept
  <2>4. TypeOK'
    BY <1>1, <1>6, <2>1, <2>2 DEF ServerKillall, TypeOK, round, Table
  <2> QED BY <1>6, <2>1, <2>3, <2>4, OutsideInv DEF ServerKillall, Outside, round
<1> QED
  BY <1>3, <1>4, <1>5, <1>6

(* add_job between two rounds. *)
LEMMA AddRootJobInv ==
  ASSUME QueueInv, NEW c \in Job, NEW s \in Seq(Tag), AddRootJob(c, s)
  PROVE  QueueInv'
<1> USE NoJobAssumption
<1> DEFINE new == NewJob(s, NoJob, 0)
           u == Urgent(s)
           r == [new EXCEPT !.rt = u]
<1>0. /\ TypeOK /\ CurrentInv /\ ThrownInv /\ BornInv /\ RoundInv /\ DepthInv(job)
      /\ NeverQueuedTwice /\ NoJobLost /\ OnlyLiveJobsQueued
  BY DEF QueueInv
<1>1. /\ phase \in {"main", "idle"} /\ job[c].state = "unborn"
      /\ job' = [job EXCEPT ![c] = r] /\ jobs' = Append(jobs, c)
      /\ UNCHANGED <<frozenTag, pending, job_p, next_job_p, current, thrown, first,
                     pse, start_waiting, deadline, ready_to_die, phase>>
  BY DEF AddRootJob, Outside, round, flags
<1>2. r \in JobRecord /\ r.state = "to_start" /\ r.exc = NoException
  <2>1. new \in JobRecord /\ new.state = "to_start" /\ new.exc = NoException
    BY NewJobFacts
  <2>2. u \in BOOLEAN
    BY DEF Urgent
  <2>3. ASSUME NEW b \in BOOLEAN, b = u
        PROVE  r \in JobRecord /\ r.state = "to_start" /\ r.exc = NoException
    <3>1. r = [new EXCEPT !.rt = b]
      BY <2>3
    <3> HIDE DEF new, r
    <3> QED BY <2>1, <3>1 DEF JobRecord
  <2> HIDE DEF r, u
  <2> QED BY <2>2, <2>3
<1> HIDE DEF r
<1>3. job' \in Table /\ job'[c] = r /\ \A x \in Job \ {c} : job'[x] = job[x]
  BY <1>0, <1>1, <1>2 DEF TypeOK, Table
<1>4. DepthInv(job')
  BY <1>0, <1>2, <1>3, NoExceptionKind DEF DepthInv
<1>5. current = NoJob /\ jobs \in Seq(Job)
  BY <1>0, <1>1 DEF CurrentInv, TypeOK
<1>6. c \notin Nodes(jobs) \cup Nodes(pending)
  BY <1>0, <1>1 DEF BornInv
<1>7. /\ jobs' \in Seq(Job) /\ Nodes(jobs') = Nodes(jobs) \cup {c} /\ NoDuplicate(jobs')
  BY <1>0, <1>1, <1>5, <1>6, AppendNodes DEF NeverQueuedTwice
<1>8. TypeOK'
  BY <1>0, <1>1, <1>3, <1>7 DEF TypeOK, Table
<1>9. CurrentInv' /\ ThrownInv' /\ RoundInv'
  BY <1>0, <1>1, <1>5 DEF CurrentInv, ThrownInv, RoundInv
<1>10. BornInv'
  <2>1. \A x \in Nodes(jobs) \cup Nodes(pending) : x \in Job \ {c}
    BY <1>0, <1>6 DEF Nodes, TypeOK
  <2> QED BY <1>0, <1>1, <1>2, <1>3, <1>7, <2>1 DEF BornInv
<1>11. Ahead = {} /\ Ahead' = {}
  BY <1>1 DEF Ahead
<1>12. NeverQueuedTwice'
  <2>1. NoJob \notin Nodes(jobs')
    BY DEF Nodes
  <2> QED BY <1>0, <1>1, <1>5, <1>7, <1>11, <2>1 DEF NeverQueuedTwice
<1>13. NoJobLost'
  BY <1>0, <1>1, <1>3, <1>7, <1>11 DEF NoJobLost, Alive
<1>14. OnlyLiveJobsQueued'
  <2>1. \A x \in Nodes(jobs) : x \in Job \ {c}
    BY <1>5, <1>6 DEF Nodes
  <2> QED BY <1>0, <1>2, <1>3, <1>7, <1>11, <2>1 DEF OnlyLiveJobsQueued, Alive
<1> QED
  BY <1>4, <1>8, <1>9, <1>10, <1>12, <1>13, <1>14 DEF QueueInv

-----------------------------------------------------------------------------
(* The inductive invariant *)

(* The invariant holds initially. *)
LEMMA InitInv == Init => QueueInv
<1> SUFFICES ASSUME Init PROVE QueueInv
  OBVIOUS
<1> USE NoJobAssumption DEF Init
<1>1. TypeOK
  <2>1. job \in [Job -> JobRecord]
    BY UnbornType
  <2>2. << >> \in Seq(Job) /\ << >> \in Seq(Job \cup {NoJob})
    OBVIOUS
  <2> QED BY <2>1, <2>2, NoExceptionKind DEF TypeOK, Phase
<1>2. Nodes(jobs) = {} /\ Nodes(pending) = {} /\ NoDuplicate(jobs) /\ NoDuplicate(pending)
  BY DEF Nodes, NoDuplicate
<1>3. \A x \in Job : job[x].state = "unborn" /\ job[x].exc.kind = "none"
  BY NoExceptionKind DEF Unborn
<1>4. CurrentInv /\ ThrownInv /\ DepthInv(job) /\ BornInv /\ RoundInv
  BY <1>2, <1>3, NoExceptionKind DEF CurrentInv, ThrownInv, DepthInv, BornInv, RoundInv
<1>5. NeverQueuedTwice /\ NoJobLost /\ OnlyLiveJobsQueued
  BY <1>2, <1>3 DEF NeverQueuedTwice, NoJobLost, OnlyLiveJobsQueued, Ahead, Alive
<1> QED
  BY <1>1, <1>4, <1>5 DEF QueueInv

(* Every step preserves the invariant. *)
LEMMA NextInv == QueueInv /\ [Next]_vars => QueueInv'
<1> SUFFICES ASSUME QueueInv, [Next]_vars PROVE QueueInv'
  OBVIOUS
<1>1. CASE UNCHANGED vars
  BY <1>1 DEF vars, round, flags, QueueInv, TypeOK, CurrentInv, ThrownInv, DepthInv,
              BornInv, RoundInv, NeverQueuedTwice, NoJobLost, OnlyLiveJobsQueued,
              Ahead, NoDuplicate, Nodes, Alive
<1>2. CASE RoundStep
  BY <1>2, BeginRoundInv, EndRoundInv, StartJobInv, ResumeThrowInv,
     ResumeFrozenInv, ResumeJobInv, KeepJobInv DEF RoundStep
<1>3. ASSUME NEW j \in Job, Return(j) PROVE QueueInv'
  BY <1>3, YieldsInv, JoinInv, DieInv DEF Return
<1>4. ASSUME NEW j \in Job, Catch(j) PROVE QueueInv'
  BY <1>4, CatchStopInv, CatchChildInv DEF Catch
<1>5. ASSUME NEW j \in Job, Operation(j) PROVE QueueInv'
  BY <1>5, EnterTagInv, FreezeInv, SignalStopInv, LeaveTagInv, SetFlagInv,
     StartChildInv, SpawnInv, TerminateJobInv, TerminateCurrentInv, KillallJobsInv
  DEF Operation
<1>6. CASE ServerStep
  <2>1. ASSUME NEW c \in Job, NEW s \in {<< >>} \cup {<<t>> : t \in Tag}, AddRootJob(c, s)
        PROVE  QueueInv'
    <3>1. s \in Seq(Tag)
      <4>1. CASE s = << >>
        BY <4>1
      <4>2. ASSUME NEW t \in Tag, s = <<t>> PROVE s \in Seq(Tag)
        BY <4>2
      <4> QED BY <4>1, <4>2
    <3> QED BY <2>1, <3>1, AddRootJobInv
  <2> QED BY <1>6, <2>1, ServerStepInv DEF ServerStep
<1>7. CASE Over
  BY <1>1, <1>7 DEF Over
<1> QED
  BY <1>1, <1>2, <1>3, <1>4, <1>5, <1>6, <1>7 DEF Next

(* The invariant holds in every reachable state, for any set of jobs and     *)
(* tags, any stack depth and any choice of operations.                       *)
THEOREM SpecQueueInv == Spec => []QueueInv
BY InitInv, NextInv, PTL DEF Spec

(* Every variable and every field of a Job object keeps its type; in         *)
(* particular the depth register_stopped_tag stores is never negative.       *)
THEOREM SpecTypeOK == Spec => []TypeOK
<1>1. QueueInv => TypeOK
  BY DEF QueueInv
<1> QED
  BY <1>1, SpecQueueInv, PTL

(* add_job, execute_round, resume_scheduler and signal_stop together never   *)
(* queue a job twice.                                                        *)
THEOREM SpecNeverQueuedTwice == Spec => []NeverQueuedTwice
<1>1. QueueInv => NeverQueuedTwice
  BY DEF QueueInv
<1> QED
  BY <1>1, SpecQueueInv, PTL

(* They never lose a live job either.                                        *)
THEOREM SpecNoJobLost == Spec => []NoJobLost
<1>1. QueueInv => NoJobLost
  BY DEF QueueInv
<1> QED
  BY <1>1, SpecQueueInv, PTL

(* Nor do they keep a dead one, so that the test on which SCHED_EXIT is       *)
(* returned, an empty queue, is exact.                                       *)
THEOREM SpecOnlyLiveJobsQueued == Spec => []OnlyLiveJobsQueued
<1>1. QueueInv => OnlyLiveJobsQueued
  BY DEF QueueInv
<1> QED
  BY <1>1, SpecQueueInv, PTL

(* jobs_get(), called from a job, returns every live job: signal_stop and    *)
(* killall_jobs overlook none.                                               *)
THEOREM SpecRoundKnowsAllJobs == Spec => []RoundKnowsAllJobs
<1>1. QueueInv => RoundKnowsAllJobs
  <2> SUFFICES ASSUME QueueInv, phase = "round", NEW j \in Job, Alive(job, j)
               PROVE  j \in Nodes(pending)
    BY DEF RoundKnowsAllJobs
  <2>1. CASE j \in Nodes(jobs)
    BY <2>1 DEF QueueInv, RoundInv
  <2>2. CASE j = current
    BY <2>2, NoJobAssumption DEF QueueInv, CurrentInv, Nodes, TypeOK
  <2>3. CASE \E i \in Ahead : pending[i] = j
    BY <2>3, NoJobAssumption DEF Ahead, Nodes
  <2> QED
    BY <2>1, <2>2, <2>3 DEF QueueInv, NoJobLost
<1> QED
  BY <1>1, SpecQueueInv, PTL

=============================================================================
