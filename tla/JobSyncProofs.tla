---------------------------- MODULE JobSyncProofs ----------------------------
(***************************************************************************)
(* Proofs about JobSync: whatever stops, ends or freezes the jobs, the     *)
(* semaphore loses no token and makes none up, its list and the one of the *)
(* barrier hold the jobs that are blocked, and the semaphore implements    *)
(* TokenPool.  For any number of jobs and any initial number of tokens.    *)
(***************************************************************************)
EXTENDS JobSync, ListsProofs

SemRecord == [value : Int, queue : Seq(Job), frozen : SUBSET Job]

(* A semaphore with one token more. *)
LEMMA Bumped ==
  ASSUME NEW s \in SemRecord
  PROVE  [s EXCEPT !.value = s.value + 1]
           = [value |-> s.value + 1, queue |-> s.queue, frozen |-> s.frozen]
BY DEF SemRecord

(* The token that release_and_forward gives: to the value, or to the front.  *)
LEMMA ForwardFacts ==
  ASSUME NEW s \in SemRecord, Well(s)
  PROVE  LET r == ReleaseAndForward(s, TRUE)
         IN  /\ r \in SemRecord /\ Well(r) /\ r.value = s.value + 1
             /\ s.queue = << >> => r.queue = << >> /\ r.frozen = s.frozen /\ s.value >= 0
             /\ s.queue # << >> =>
                  /\ Head(s.queue) \in s.frozen /\ r.frozen = s.frozen \ {Head(s.queue)}
                  /\ r.queue = Tail(s.queue) /\ Len(r.queue) = Len(s.queue) - 1
                  /\ s.value < 0
<1> DEFINE r == ReleaseAndForward(s, TRUE)
<1> HIDE DEF r
<1>1. s.value \in Int /\ s.queue \in Seq(Job) /\ s.frozen \subseteq Job
  BY DEF SemRecord
<1>2. CASE s.queue = << >>
  <2>1. s.value >= 0 /\ s.frozen = {} /\ Len(s.queue) = 0
    BY <1>1, <1>2, EmptyFacts DEF Well
  <2>2. r = [value |-> s.value + 1, queue |-> s.queue, frozen |-> s.frozen]
    BY <1>1, <2>1, Bumped DEF ReleaseAndForward, r
  <2>3. /\ r \in SemRecord /\ r.value = s.value + 1 /\ r.queue = s.queue
        /\ r.frozen = s.frozen
    BY <1>1, <2>2 DEF SemRecord
  <2>4. Well(r)
    BY <2>1, <2>3, <1>1 DEF Well
  <2> QED
    BY <1>2, <2>1, <2>3, <2>4 DEF r
<1>3. CASE s.queue # << >>
  <2>1. /\ Head(s.queue) \in Job /\ Tail(s.queue) \in Seq(Job)
        /\ Len(Tail(s.queue)) = Len(s.queue) - 1 /\ Len(s.queue) >= 1
        /\ Elements(s.queue) = {Head(s.queue)} \cup Elements(Tail(s.queue))
        /\ Distinct(Tail(s.queue)) /\ Head(s.queue) \notin Elements(Tail(s.queue))
    BY <1>1, <1>3, TailFacts DEF Well
  <2>2. s.value < 0 /\ s.value + 1 <= 0 /\ Len(s.queue) = -s.value
    BY <1>1, <2>1 DEF Well
  <2>3. r = [value |-> s.value + 1, queue |-> Tail(s.queue),
             frozen |-> s.frozen \ {Head(s.queue)}]
    BY <2>2 DEF ReleaseAndForward, r
  <2>4. /\ r \in SemRecord /\ r.value = s.value + 1 /\ r.queue = Tail(s.queue)
        /\ r.frozen = s.frozen \ {Head(s.queue)}
    BY <1>1, <2>1, <2>3 DEF SemRecord
  <2>5. Elements(s.queue) = s.frozen
    BY DEF Well
  <2>6. Elements(Tail(s.queue)) = s.frozen \ {Head(s.queue)} /\ Head(s.queue) \in s.frozen
    BY <2>1, <2>5
  <2>7. Len(Tail(s.queue)) = IF s.value + 1 < 0 THEN -(s.value + 1) ELSE 0
    BY <1>1, <2>1, <2>2
  <2>8. Well(r)
    BY <2>1, <2>4, <2>6, <2>7 DEF Well
  <2> QED
    BY <1>3, <2>1, <2>2, <2>4, <2>6, <2>8 DEF r
<1> QED
  BY <1>2, <1>3

(* A job that gives up while the semaphore keeps it frozen. *)
LEMMA GiveUpFacts ==
  ASSUME NEW s \in SemRecord, Well(s), NEW j \in s.frozen
  PROVE  LET r == AbortAcquire(s, j)
         IN  /\ r \in SemRecord /\ Well(r) /\ r.value = s.value + 1
             /\ r.frozen = s.frozen \ {j} /\ r.queue = Without(s.queue, j)
             /\ Len(r.queue) = Len(s.queue) - 1 /\ s.value < 0
<1> DEFINE r == AbortAcquire(s, j)
           w == Without(s.queue, j)
<1>1. /\ s.value \in Int /\ s.queue \in Seq(Job) /\ s.frozen \subseteq Job
      /\ Elements(s.queue) = s.frozen /\ Distinct(s.queue)
      /\ Len(s.queue) = IF s.value < 0 THEN -s.value ELSE 0
  BY DEF SemRecord, Well
<1>2. /\ w \in Seq(Job) /\ Distinct(w) /\ Elements(w) = s.frozen \ {j}
      /\ Len(w) = Len(s.queue) - 1 /\ Len(w) \in Nat
  <2>1. /\ w \in Seq(Job) /\ Distinct(w) /\ Elements(w) = Elements(s.queue) \ {j}
        /\ Len(w) = IF j \in Elements(s.queue) THEN Len(s.queue) - 1 ELSE Len(s.queue)
    BY <1>1, WithoutFacts
  <2> HIDE DEF w
  <2> QED
    BY <1>1, <2>1
<1>3. s.value < 0
  BY <1>1, <1>2
<1> HIDE DEF w
<1>4. ReleaseAndForward(s, FALSE)
        = [value |-> s.value + 1, queue |-> s.queue, frozen |-> s.frozen]
  BY Bumped DEF ReleaseAndForward
<1>5. r = [value |-> s.value + 1, queue |-> w, frozen |-> s.frozen \ {j}]
  <2> DEFINE b == ReleaseAndForward(s, FALSE)
  <2>1. r = [b EXCEPT !.queue = Without(b.queue, j), !.frozen = b.frozen \ {j}]
    BY DEF AbortAcquire
  <2> HIDE DEF r
  <2>2. b = [value |-> s.value + 1, queue |-> s.queue, frozen |-> s.frozen]
    BY <1>4
  <2> HIDE DEF b
  <2>3. b \in SemRecord /\ b.value = s.value + 1 /\ b.queue = s.queue /\ b.frozen = s.frozen
    BY <1>1, <2>2 DEF SemRecord
  <2> QED
    BY <2>1, <2>3 DEF SemRecord, w
<1> HIDE DEF r
<1>6. /\ r \in SemRecord /\ r.value = s.value + 1 /\ r.queue = w
      /\ r.frozen = s.frozen \ {j}
  BY <1>1, <1>2, <1>5 DEF SemRecord
<1>7. Well(r)
  BY <1>1, <1>2, <1>3, <1>6 DEF Well
<1> QED
  BY <1>2, <1>3, <1>6, <1>7 DEF r, w

(* A step that leaves the semaphore alone, and its holders. *)
LEMMA SemaphoreKept ==
  ASSUME SemaphoreInv, sem' = sem, total' = total, Holders' = Holders,
         \A j \in sem.frozen : at'[j] = "acquire",
         \A j \in inside' : at'[j] # "acquire"
  PROVE  SemaphoreInv'
BY DEF SemaphoreInv, Well

(* A step that leaves the barrier alone, and at which no job goes to it or   *)
(* comes from it.                                                           *)
LEMMA BarrierKept ==
  ASSUME TypeOK, BarrierInv, waiters' = waiters,
         \A j \in Job : (at'[j] = "wait") <=> (at[j] = "wait"),
         \A j \in Job : exc'[j] = exc[j] \/ (exc'[j] \notin {"none", "barrier"})
                                         \/ (at[j] # "wait" /\ exc'[j] = "none")
  PROVE  BarrierInv'
<1>1. waiters \in Seq(Job) /\ Elements(waiters) \subseteq Job
  BY ElementsFacts DEF TypeOK
<1> QED
  BY <1>1 DEF BarrierInv, SignalsReachWaiters, WaitersCanBeWoken

-----------------------------------------------------------------------------

(* The invariant holds at the start. *)
LEMMA InitInv == Init => SyncInv
<1> SUFFICES ASSUME Init PROVE SyncInv
  OBVIOUS
<1> USE NoJobAssumption, InitialAssumption DEF Init
<1>1. TypeOK
  BY EmptyFacts DEF TypeOK, Place, Exception
<1>2. Holders = {}
  BY DEF Holders, Granted
<1>3. SemaphoreInv
  BY <1>2, EmptyFacts, FS_EmptySet DEF SemaphoreInv, Well
<1>4. BarrierInv
  BY EmptyFacts DEF BarrierInv, SignalsReachWaiters, WaitersCanBeWoken
<1> QED
  BY <1>1, <1>3, <1>4 DEF SyncInv

(* The parts of the invariant, for the steps below. *)
LEMMA Parts ==
  ASSUME SyncInv
  PROVE  /\ TypeOK /\ SemaphoreInv /\ BarrierInv /\ Well(sem) /\ sem \in SemRecord
         /\ sem.frozen \subseteq Job /\ inside \subseteq Job
         /\ IsFiniteSet(Holders) /\ Cardinality(Holders) \in Nat
         /\ total = sem.value + Cardinality(Holders) + Len(sem.queue)
         /\ sem.value \in Int /\ Len(sem.queue) \in Nat /\ total \in Nat
         /\ \A j \in Job : Running(j) => at[j] = "ready"
         /\ \A j \in sem.frozen : at[j] = "acquire"
         /\ \A j \in inside : at[j] # "acquire"
<1>1. sem \in SemRecord
  BY DEF SyncInv, TypeOK, SemRecord
<1> QED
  BY <1>1, FS_CardinalityType, NoJobAssumption
  DEF SyncInv, SemaphoreInv, Running, SemRecord, TypeOK

(* A token goes to the front of the list or to the value: what is left to    *)
(* show about a step that gives one back.  H: the holders but for the one    *)
(* that receives the token.                                                 *)
LEMMA TokenGiven ==
  ASSUME SyncInv, sem' = ReleaseAndForward(sem, TRUE), total' \in Nat, NEW H,
         IsFiniteSet(H), H \cap sem.frozen = {}, total' = sem.value + 1 + Cardinality(H) + Len(sem.queue),
         Holders' = H \cup (sem.frozen \ sem'.frozen),
         \A j \in sem.frozen : at'[j] = "acquire",
         \A j \in inside' : at'[j] # "acquire"
  PROVE  SemaphoreInv' /\ sem' \in SemRecord
<1>1. sem \in SemRecord /\ Well(sem) /\ sem.value \in Int /\ Cardinality(H) \in Nat
  BY Parts, FS_CardinalityType
<1>2. sem' \in SemRecord /\ Well(sem)' /\ sem'.value = sem.value + 1
  BY <1>1, ForwardFacts DEF Well
<1>3. CASE sem.queue = << >>
  <2>1. sem'.queue = << >> /\ sem'.frozen = sem.frozen
    BY <1>1, <1>3, ForwardFacts
  <2>2. Holders' = H
    BY <2>1
  <2> QED
    BY <1>1, <1>2, <1>3, <2>1, <2>2 DEF SemaphoreInv, Well
<1>4. CASE sem.queue # << >>
  <2> DEFINE h == Head(sem.queue)
  <2>1. /\ h \in sem.frozen /\ sem'.frozen = sem.frozen \ {h}
        /\ Len(sem'.queue) = Len(sem.queue) - 1 /\ Len(sem.queue) \in Nat
    BY <1>1, <1>4, ForwardFacts, Parts
  <2> HIDE DEF h
  <2>2. Holders' = H \cup {h} /\ h \notin H
    BY <2>1
  <2>3. IsFiniteSet(H \cup {h}) /\ Cardinality(H \cup {h}) = Cardinality(H) + 1
    BY <2>2, FS_AddElement
  <2>4. total' = sem'.value + Cardinality(H \cup {h}) + Len(sem'.queue)
    <3>1. sem.value \in Int /\ sem'.value = sem.value + 1
      BY <1>1, <1>2
    <3>2. Len(sem'.queue) = Len(sem.queue) - 1 /\ Len(sem.queue) \in Nat
      BY <2>1
    <3>3. Cardinality(H) \in Nat
      BY <1>1
    <3>4. Cardinality(H \cup {h}) = Cardinality(H) + 1
      BY <2>3
    <3>5. (sem.value + 1) + (Cardinality(H) + 1) + (Len(sem.queue) - 1)
            = sem.value + 1 + Cardinality(H) + Len(sem.queue)
      BY <3>1, <3>2, <3>3, SMTT(30)
    <3> QED
      BY <3>1, <3>2, <3>4, <3>5
  <2> QED
    BY <1>2, <2>1, <2>2, <2>3, <2>4 DEF SemaphoreInv
<1> QED
  BY <1>3, <1>4, <1>2

(* TypeOK, from its parts. *)
LEMMA TypeFrom ==
  ASSUME sem' \in SemRecord, current' \in Job \cup {NoJob}, at' \in [Job -> Place],
         inside' \subseteq Job, exc' \in [Job -> Exception], waiters' \in Seq(Job),
         tagFrozen' \subseteq Job, total' \in Nat
  PROVE  TypeOK'
BY DEF TypeOK, SemRecord

(* The jobs that are given a token by a release, when j leaves acquire or is *)
(* not in it.                                                               *)
LEMMA GrantedForward ==
  ASSUME SyncInv, sem' = ReleaseAndForward(sem, TRUE), NEW j \in Job, j \notin sem.frozen,
         \A x \in Job \ {j} : at'[x] = at[x], at'[j] # "acquire"
  PROVE  /\ Granted' = (Granted \ {j}) \cup (sem.frozen \ sem'.frozen)
         /\ sem'.frozen \subseteq sem.frozen
<1>1. /\ sem.frozen \subseteq Job /\ \A x \in sem.frozen : at[x] = "acquire"
      /\ sem \in SemRecord /\ Well(sem)
  BY Parts
<1>2. sem'.frozen \subseteq sem.frozen
  <2>1. CASE sem.queue = << >>
    BY <1>1, <2>1, ForwardFacts
  <2>2. CASE sem.queue # << >>
    BY <1>1, <2>2, ForwardFacts
  <2> QED
    BY <2>1, <2>2
<1>3. ASSUME NEW x \in Job
      PROVE  x \in Granted' <=> x \in (Granted \ {j}) \cup (sem.frozen \ sem'.frozen)
  <2>1. x \in Granted' <=> at'[x] = "acquire" /\ x \notin sem'.frozen
    BY DEF Granted
  <2>2. x \in Granted <=> at[x] = "acquire" /\ x \notin sem.frozen
    BY DEF Granted
  <2>3. CASE x = j
    BY <2>1, <2>3
  <2>4. CASE x # j
    BY <1>1, <1>2, <2>1, <2>2, <2>4
  <2> QED
    BY <2>3, <2>4
<1>4. Granted \subseteq Job /\ Granted' \subseteq Job
  BY DEF Granted
<1> QED
  BY <1>1, <1>2, <1>3, <1>4

(* acquire: the job waits. *)
LEMMA AcquireWaits ==
  ASSUME NEW j \in Job, SyncInv, Acquire(j), sem.value - 1 < 0
  PROVE  /\ SyncInv' /\ Holders' = Holders /\ sem'.queue = Append(sem.queue, j)
         /\ sem'.value = sem.value - 1 /\ j \notin Holders /\ j \notin sem.frozen
<1>1. /\ TypeOK /\ SemaphoreInv /\ BarrierInv /\ Well(sem) /\ sem \in SemRecord
      /\ at[j] = "ready" /\ j \notin sem.frozen /\ sem.frozen \subseteq Job
      /\ sem.value \in Int /\ sem.queue \in Seq(Job)
  <2>1. sem \in SemRecord
    BY Parts
  <2> QED
    BY Parts, <2>1 DEF Acquire, SemRecord
<1>2. /\ sem' = [value |-> sem.value - 1, queue |-> Append(sem.queue, j),
                 frozen |-> sem.frozen \cup {j}]
      /\ at' = [at EXCEPT ![j] = "acquire"] /\ current' = NoJob
      /\ inside' = inside /\ exc' = exc /\ waiters' = waiters /\ tagFrozen' = tagFrozen
      /\ total' = total /\ j \notin inside
  BY DEF Acquire, Others
<1>3. /\ Elements(sem.queue) = sem.frozen /\ Distinct(sem.queue)
      /\ Len(sem.queue) = IF sem.value < 0 THEN -sem.value ELSE 0
  BY <1>1 DEF Well
<1>4. /\ Append(sem.queue, j) \in Seq(Job) /\ Len(Append(sem.queue, j)) = Len(sem.queue) + 1
      /\ Elements(Append(sem.queue, j)) = sem.frozen \cup {j} /\ Distinct(Append(sem.queue, j))
  BY <1>1, <1>3, AppendFacts
<1>5. /\ sem'.value = sem.value - 1 /\ sem'.queue = Append(sem.queue, j)
      /\ sem'.frozen = sem.frozen \cup {j}
  BY <1>2
<1>6. sem' \in SemRecord
  BY <1>1, <1>2, <1>4 DEF SemRecord
<1>7. Len(sem'.queue) = IF sem'.value < 0 THEN -sem'.value ELSE 0
  BY <1>1, <1>3, <1>4, <1>5
<1>8. Well(sem)'
  BY <1>4, <1>5, <1>7 DEF Well
<1>9. at' \in [Job -> Place] /\ at'[j] = "acquire" /\ \A x \in Job \ {j} : at'[x] = at[x]
  BY <1>1, <1>2 DEF TypeOK, Place
<1>10. Granted' = Granted /\ j \notin Granted
  BY <1>1, <1>5, <1>9 DEF Granted
<1>11. Holders' = Holders /\ j \notin Holders
  BY <1>2, <1>10 DEF Holders
<1>12. total' = sem'.value + Cardinality(Holders) + Len(sem'.queue)
  <2>1. /\ Cardinality(Holders) \in Nat /\ Len(sem.queue) \in Nat
        /\ total = sem.value + Cardinality(Holders) + Len(sem.queue)
    BY Parts
  <2>2. Len(sem'.queue) = Len(sem.queue) + 1
    BY <1>4, <1>5
  <2>3. (sem.value - 1) + Cardinality(Holders) + (Len(sem.queue) + 1)
          = sem.value + Cardinality(Holders) + Len(sem.queue)
    <3>1. sem.value \in Int
      BY <1>1
    <3> QED
      BY <2>1, <3>1
  <2> QED
    BY <1>2, <1>5, <2>1, <2>2, <2>3
<1>13. SemaphoreInv'
  BY <1>1, <1>2, <1>5, <1>8, <1>9, <1>11, <1>12 DEF SemaphoreInv, TypeOK
<1>14. BarrierInv'
  BY <1>1, <1>2, <1>9, BarrierKept
<1>15. TypeOK'
  BY <1>1, <1>2, <1>6, <1>9, TypeFrom DEF TypeOK
<1> QED
  BY <1>1, <1>2, <1>5, <1>11, <1>13, <1>14, <1>15 DEF SyncInv

(* acquire: there is a token. *)
LEMMA AcquireTakes ==
  ASSUME NEW j \in Job, SyncInv, Acquire(j), ~(sem.value - 1 < 0)
  PROVE  /\ SyncInv' /\ Holders' = Holders \cup {j} /\ j \notin Holders
         /\ sem'.value = sem.value - 1 /\ sem'.queue = sem.queue /\ sem.queue = << >>
         /\ j \notin sem.frozen
<1>1. /\ TypeOK /\ SemaphoreInv /\ BarrierInv /\ Well(sem) /\ sem \in SemRecord
      /\ at[j] = "ready" /\ j \notin sem.frozen /\ sem.frozen \subseteq Job
      /\ sem.value \in Int /\ sem.value > 0
  BY Parts DEF Acquire
<1>2. /\ sem' = [sem EXCEPT !.value = sem.value - 1] /\ inside' = inside \cup {j}
      /\ at' = at /\ current' = current /\ exc' = exc /\ waiters' = waiters
      /\ tagFrozen' = tagFrozen /\ total' = total /\ j \notin inside
  BY <1>1 DEF Acquire, Others
<1>3. /\ sem'.value = sem.value - 1 /\ sem'.queue = sem.queue /\ sem'.frozen = sem.frozen
      /\ sem' \in SemRecord
  BY <1>1, <1>2 DEF SemRecord
<1>4. Well(sem)' /\ sem.queue = << >>
  <2>1. sem.queue \in Seq(Job) /\ Len(sem.queue) = 0
    BY <1>1 DEF Well, SemRecord
  <2> QED
    BY <1>1, <1>3, <2>1, EmptySeq DEF Well
<1>5. Holders' = Holders \cup {j} /\ j \notin Holders
  BY <1>1, <1>2, <1>3 DEF Holders, Granted
<1>6. IsFiniteSet(Holders \cup {j}) /\ Cardinality(Holders \cup {j}) = Cardinality(Holders) + 1
  BY <1>1, <1>5, FS_AddElement DEF SemaphoreInv
<1>7. total' = sem'.value + Cardinality(Holders \cup {j}) + Len(sem'.queue)
  <2>1. /\ Cardinality(Holders) \in Nat /\ Len(sem.queue) \in Nat
        /\ total = sem.value + Cardinality(Holders) + Len(sem.queue)
    BY Parts
  <2>2. (sem.value - 1) + (Cardinality(Holders) + 1) + Len(sem.queue)
          = sem.value + Cardinality(Holders) + Len(sem.queue)
    BY <1>1, <2>1
  <2> QED
    BY <1>2, <1>3, <1>6, <2>1, <2>2
<1>8. SemaphoreInv'
  BY <1>1, <1>2, <1>3, <1>4, <1>5, <1>6, <1>7 DEF SemaphoreInv
<1>9. BarrierInv'
  BY <1>1, <1>2, BarrierKept
<1>10. TypeOK'
  BY <1>1, <1>2, <1>3, TypeFrom DEF TypeOK
<1> QED
  BY <1>1, <1>2, <1>3, <1>4, <1>5, <1>8, <1>9, <1>10 DEF SyncInv

(* The scope ends, the token is given back. *)
LEMMA LeaveInv ==
  ASSUME NEW j \in Job, SyncInv, Leave(j)
  PROVE  /\ SyncInv' /\ sem' = ReleaseAndForward(sem, TRUE) /\ j \in Holders
         /\ Holders' = (Holders \ {j}) \cup (sem.frozen \ sem'.frozen)
<1>1. /\ TypeOK /\ SemaphoreInv /\ BarrierInv /\ at[j] = "ready" /\ j \notin sem.frozen
      /\ sem.frozen \subseteq Job
  BY Parts DEF Leave
<1>2. /\ sem' = ReleaseAndForward(sem, TRUE) /\ inside' = inside \ {j} /\ j \in inside
      /\ current' = current /\ at' = at /\ exc' = exc /\ waiters' = waiters
      /\ tagFrozen' = tagFrozen /\ total' = total
  BY DEF Leave, LeaveScope, Others
<1>3. Granted' = Granted \cup (sem.frozen \ sem'.frozen) /\ j \notin Granted
  BY <1>1, <1>2, GrantedForward DEF Granted
<1>4. Holders' = (Holders \ {j}) \cup (sem.frozen \ sem'.frozen) /\ j \in Holders
  BY <1>1, <1>2, <1>3 DEF Holders
<1>5. (Holders \ {j}) \cap sem.frozen = {}
  BY Parts DEF Holders, Granted
<1>6. /\ IsFiniteSet(Holders \ {j})
      /\ Cardinality(Holders \ {j}) = Cardinality(Holders) - 1
  BY <1>1, <1>4, FS_RemoveElement DEF SemaphoreInv
<1>7. total' = sem.value + 1 + Cardinality(Holders \ {j}) + Len(sem.queue)
  BY <1>2, <1>6, Parts
<1>8. SemaphoreInv' /\ sem' \in SemRecord
  BY <1>1, <1>2, <1>4, <1>5, <1>6, <1>7, TokenGiven DEF SemaphoreInv, TypeOK
<1>9. BarrierInv'
  BY <1>1, <1>2, BarrierKept
<1>10. TypeOK'
  BY <1>1, <1>2, <1>8, TypeFrom DEF TypeOK
<1> QED
  BY <1>1, <1>2, <1>4, <1>8, <1>9, <1>10 DEF SyncInv

(* release by a job that acquired nothing. *)
LEMMA ReleaseInv ==
  ASSUME NEW j \in Job, SyncInv, Release(j)
  PROVE  /\ SyncInv' /\ sem' = ReleaseAndForward(sem, TRUE)
         /\ Holders' = Holders \cup (sem.frozen \ sem'.frozen)
<1>1. /\ TypeOK /\ SemaphoreInv /\ BarrierInv /\ at[j] = "ready" /\ j \notin sem.frozen
      /\ sem.frozen \subseteq Job
  BY Parts DEF Release
<1>2. /\ sem' = ReleaseAndForward(sem, TRUE) /\ inside' = inside
      /\ current' = current /\ at' = at /\ exc' = exc /\ waiters' = waiters
      /\ tagFrozen' = tagFrozen /\ total' = total + 1
  BY DEF Release, Others
<1>3. Granted' = Granted \cup (sem.frozen \ sem'.frozen)
  BY <1>1, <1>2, GrantedForward DEF Granted
<1>4. Holders' = Holders \cup (sem.frozen \ sem'.frozen)
  BY <1>2, <1>3 DEF Holders
<1>5. Holders \cap sem.frozen = {}
  BY Parts DEF Holders, Granted
<1>6. total' = sem.value + 1 + Cardinality(Holders) + Len(sem.queue) /\ total' \in Nat
  BY <1>2, Parts
<1>7. SemaphoreInv' /\ sem' \in SemRecord
  BY <1>1, <1>2, <1>4, <1>5, <1>6, TokenGiven DEF SemaphoreInv
<1>8. BarrierInv'
  BY <1>1, <1>2, BarrierKept
<1>9. TypeOK'
  BY <1>1, <1>2, <1>6, <1>7, TypeFrom DEF TypeOK
<1> QED
  BY <1>1, <1>2, <1>4, <1>7, <1>8, <1>9 DEF SyncInv

-----------------------------------------------------------------------------

(* Steps that have nothing to do with the semaphore. *)
LEMMA Elsewhere ==
  ASSUME SyncInv, sem' = sem, total' = total, inside' = inside,
         \A x \in Job : (at'[x] = "acquire") <=> (at[x] = "acquire")
  PROVE  SemaphoreInv' /\ Holders' = Holders
<1>1. Granted' = Granted
  BY DEF Granted
<1>2. Holders' = Holders
  BY <1>1 DEF Holders
<1> QED
  BY <1>2, Parts, SemaphoreKept

(* A job enrols in the barrier. *)
LEMMA BarrierWaitInv ==
  ASSUME NEW j \in Job, SyncInv, BarrierWait(j)
  PROVE  SyncInv' /\ Holders' = Holders
<1>1. TypeOK /\ BarrierInv /\ at[j] = "ready" /\ sem \in SemRecord
  BY Parts DEF BarrierWait
<1>2. /\ waiters' = Append(waiters, j) /\ at' = [at EXCEPT ![j] = "wait"]
      /\ current' = NoJob /\ inside' = inside /\ exc' = exc /\ sem' = sem
      /\ tagFrozen' = tagFrozen /\ total' = total
  BY DEF BarrierWait
<1>3. at' \in [Job -> Place] /\ at'[j] = "wait" /\ \A x \in Job \ {j} : at'[x] = at[x]
  BY <1>1, <1>2 DEF TypeOK, Place
<1>4. SemaphoreInv' /\ Holders' = Holders
  BY <1>1, <1>2, <1>3, Elsewhere
<1>5. /\ waiters \in Seq(Job) /\ Elements(waiters) \subseteq Job
      /\ j \notin Elements(waiters) /\ exc[j] # "barrier"
  BY <1>1, ElementsFacts DEF TypeOK, BarrierInv, SignalsReachWaiters
<1>6. /\ waiters' \in Seq(Job) /\ Elements(waiters') = Elements(waiters) \cup {j}
      /\ Distinct(waiters')
  BY <1>1, <1>2, <1>5, AppendFacts DEF BarrierInv
<1>7. BarrierInv'
  BY <1>1, <1>2, <1>3, <1>5, <1>6 DEF BarrierInv, SignalsReachWaiters, WaitersCanBeWoken
<1>8. TypeOK'
  BY <1>1, <1>2, <1>3, <1>6, TypeFrom DEF TypeOK
<1> QED
  BY <1>2, <1>4, <1>7, <1>8 DEF SyncInv

(* The first of the waiting jobs is thrown a BarrierException. *)
LEMMA SignalInv ==
  ASSUME NEW j \in Job, SyncInv, Signal(j)
  PROVE  SyncInv' /\ Holders' = Holders
<1> DEFINE h == Head(waiters)
<1>1. TypeOK /\ BarrierInv /\ sem \in SemRecord /\ waiters \in Seq(Job)
  BY Parts DEF TypeOK
<1>2. /\ exc' = [exc EXCEPT ![h] = "barrier"] /\ waiters' = Tail(waiters)
      /\ current' = current /\ at' = at /\ inside' = inside /\ sem' = sem
      /\ tagFrozen' = tagFrozen /\ total' = total /\ waiters # << >>
  BY DEF Signal
<1>3. /\ h \in Job /\ waiters' \in Seq(Job) /\ Elements(waiters) = {h} \cup Elements(waiters')
      /\ Distinct(waiters') /\ h \notin Elements(waiters')
  BY <1>1, <1>2, TailFacts DEF BarrierInv
<1> HIDE DEF h
<1>4. exc' \in [Job -> Exception] /\ exc'[h] = "barrier" /\ \A x \in Job \ {h} : exc'[x] = exc[x]
  BY <1>1, <1>2, <1>3 DEF TypeOK, Exception
<1>5. SemaphoreInv' /\ Holders' = Holders
  BY <1>2, Elsewhere
<1>6. Elements(waiters) \subseteq Job
  BY <1>1, ElementsFacts
<1>7. BarrierInv'
  BY <1>1, <1>2, <1>3, <1>4, <1>6 DEF BarrierInv, SignalsReachWaiters, WaitersCanBeWoken
<1>8. TypeOK'
  BY <1>1, <1>2, <1>3, <1>4, TypeFrom DEF TypeOK
<1> QED
  BY <1>2, <1>5, <1>7, <1>8 DEF SyncInv

(* All of them are. *)
LEMMA SignalAllInv ==
  ASSUME NEW j \in Job, SyncInv, SignalAll(j)
  PROVE  SyncInv' /\ Holders' = Holders
<1>1. TypeOK /\ BarrierInv /\ sem \in SemRecord
  BY Parts
<1>2. /\ exc' = [x \in Job |-> IF x \in Elements(waiters) THEN "barrier" ELSE exc[x]]
      /\ waiters' = << >>
      /\ current' = current /\ at' = at /\ inside' = inside /\ sem' = sem
      /\ tagFrozen' = tagFrozen /\ total' = total
  BY DEF SignalAll
<1>3. exc' \in [Job -> Exception]
  BY <1>1, <1>2 DEF TypeOK, Exception
<1>4. SemaphoreInv' /\ Holders' = Holders
  BY <1>2, Elsewhere
<1>5. waiters' \in Seq(Job) /\ Elements(waiters') = {} /\ Distinct(waiters')
  BY <1>2, EmptyFacts
<1>6. BarrierInv'
  BY <1>1, <1>2, <1>5 DEF BarrierInv, SignalsReachWaiters, WaitersCanBeWoken
<1>7. TypeOK'
  BY <1>1, <1>2, <1>3, <1>5, TypeFrom DEF TypeOK
<1> QED
  BY <1>2, <1>4, <1>6, <1>7 DEF SyncInv

(* A stop, a termination: an exception that is not a BarrierException. *)
LEMMA ThrowInv ==
  ASSUME NEW k \in Job, SyncInv, NEW e \in {"stop", "terminate"},
         exc' = [exc EXCEPT ![k] = e],
         UNCHANGED <<current, at, inside, sem, waiters, tagFrozen, total>>
  PROVE  SyncInv' /\ Holders' = Holders
<1>1. TypeOK /\ BarrierInv /\ sem \in SemRecord
  BY Parts
<1>2. exc' \in [Job -> Exception] /\ exc'[k] = e /\ \A x \in Job \ {k} : exc'[x] = exc[x]
  BY <1>1 DEF TypeOK, Exception
<1>3. SemaphoreInv' /\ Holders' = Holders
  BY Elsewhere
<1>4. BarrierInv'
  BY <1>1, <1>2, BarrierKept
<1>5. TypeOK'
  BY <1>1, <1>2, TypeFrom DEF TypeOK
<1> QED
  BY <1>3, <1>4, <1>5 DEF SyncInv

(* The steps that only change who runs, or whose tags are frozen. *)
LEMMA TagsInv ==
  ASSUME SyncInv, tagFrozen' \subseteq Job, current' \in {current, NoJob},
         UNCHANGED <<at, inside, exc, sem, waiters, total>>
  PROVE  SyncInv' /\ Holders' = Holders
<1>1. TypeOK /\ BarrierInv /\ sem \in SemRecord
  BY Parts
<1>2. SemaphoreInv' /\ Holders' = Holders
  BY Elsewhere
<1>3. BarrierInv'
  BY <1>1, BarrierKept
<1>4. TypeOK'
  BY <1>1, TypeFrom DEF TypeOK
<1> QED
  BY <1>2, <1>3, <1>4 DEF SyncInv

-----------------------------------------------------------------------------

(* A job comes back without an exception, from acquire with its token. *)
LEMMA ResumeInv ==
  ASSUME NEW j \in Job, SyncInv, Resume(j)
  PROVE  SyncInv' /\ Holders' = Holders
<1>1. TypeOK /\ BarrierInv /\ SemaphoreInv /\ sem \in SemRecord
  BY Parts
<1>2. /\ current' = j /\ at' = [at EXCEPT ![j] = "ready"]
      /\ inside' = IF at[j] = "acquire" THEN inside \cup {j} ELSE inside
      /\ exc' = exc /\ sem' = sem /\ waiters' = waiters /\ tagFrozen' = tagFrozen
      /\ total' = total /\ at[j] \in {"ready", "acquire"} /\ j \notin sem.frozen
  BY DEF Resume, Others, Frozen
<1>3. at' \in [Job -> Place] /\ at'[j] = "ready" /\ \A x \in Job \ {j} : at'[x] = at[x]
  BY <1>1, <1>2 DEF TypeOK, Place
<1>4. Granted' = Granted \ {j}
  BY <1>2, <1>3 DEF Granted
<1>5. j \in Granted <=> at[j] = "acquire"
  BY <1>2 DEF Granted
<1>6. Holders' = Holders
  BY <1>2, <1>4, <1>5 DEF Holders
<1>7. inside' \subseteq Job
  BY <1>1, <1>2 DEF TypeOK
<1>8. SemaphoreInv'
  <2>1. \A x \in sem.frozen : at'[x] = "acquire"
    BY <1>1, <1>2, <1>3, Parts
  <2>2. \A x \in inside' : at'[x] # "acquire"
    BY <1>1, <1>2, <1>3, Parts
  <2> QED
    BY <1>1, <1>2, <1>6, <2>1, <2>2, SemaphoreKept
<1>9. BarrierInv'
  BY <1>1, <1>2, <1>3, BarrierKept
<1>10. TypeOK'
  BY <1>1, <1>2, <1>3, <1>7, TypeFrom DEF TypeOK
<1> QED
  BY <1>2, <1>3, <1>6, <1>8, <1>9, <1>10 DEF SyncInv

(* A signalled job comes back from wait. *)
LEMMA ResumeSignalledInv ==
  ASSUME NEW j \in Job, SyncInv, ResumeSignalled(j)
  PROVE  SyncInv' /\ Holders' = Holders
<1>1. TypeOK /\ BarrierInv /\ SemaphoreInv /\ sem \in SemRecord
  BY Parts
<1>2. /\ current' = j /\ at' = [at EXCEPT ![j] = "ready"]
      /\ exc' = [exc EXCEPT ![j] = "none"]
      /\ inside' = inside /\ sem' = sem /\ waiters' = waiters /\ tagFrozen' = tagFrozen
      /\ total' = total /\ at[j] = "wait" /\ exc[j] = "barrier"
  BY DEF ResumeSignalled, Others
<1>3. /\ at' \in [Job -> Place] /\ at'[j] = "ready" /\ \A x \in Job \ {j} : at'[x] = at[x]
      /\ exc' \in [Job -> Exception] /\ exc'[j] = "none"
      /\ \A x \in Job \ {j} : exc'[x] = exc[x]
  BY <1>1, <1>2 DEF TypeOK, Place, Exception
<1>4. SemaphoreInv' /\ Holders' = Holders
  BY <1>2, <1>3, Elsewhere
<1>5. j \notin Elements(waiters) /\ Elements(waiters) \subseteq Job
  BY <1>1, <1>2, ElementsFacts DEF BarrierInv, TypeOK
<1>6. BarrierInv'
  BY <1>1, <1>2, <1>3, <1>5 DEF BarrierInv, SignalsReachWaiters, WaitersCanBeWoken
<1>7. TypeOK'
  BY <1>1, <1>2, <1>3, TypeFrom DEF TypeOK
<1> QED
  BY <1>2, <1>3, <1>4, <1>6, <1>7 DEF SyncInv

(* An exception goes through the job: what becomes of its token, or of its   *)
(* place in the list.                                                       *)
GivesUp(j) ==
  /\ j \in sem.frozen /\ sem'.queue = Without(sem.queue, j) /\ Holders' = Holders
  /\ sem'.value = sem.value + 1 /\ sem.value < 0
GivesBack(j) ==
  /\ j \in Holders /\ sem' = ReleaseAndForward(sem, TRUE)
  /\ Holders' = (Holders \ {j}) \cup (sem.frozen \ sem'.frozen)
HadNone(j) == sem' = sem /\ Holders' = Holders

(* What ResumeThrow does, apart from the semaphore. *)
LEMMA ThrowFacts ==
  ASSUME NEW j \in Job, SyncInv, ResumeThrow(j)
  PROVE  /\ at' \in [Job -> Place] /\ at'[j] \in {"ready", "dead"}
         /\ \A x \in Job \ {j} : at'[x] = at[x]
         /\ exc' \in [Job -> Exception] /\ exc'[j] = "none"
         /\ \A x \in Job \ {j} : exc'[x] = exc[x]
         /\ current' \in Job \cup {NoJob} /\ (current' # NoJob => at'[current'] = "ready")
         /\ inside' = inside \ {j} /\ tagFrozen' \subseteq Job /\ total' = total
<1>1. TypeOK
  BY Parts
<1>2. /\ exc' = [exc EXCEPT ![j] = "none"] /\ inside' = inside \ {j} /\ total' = total
      /\ \/ /\ current' = j /\ at' = [at EXCEPT ![j] = "ready"] /\ tagFrozen' = tagFrozen
         \/ /\ current' = NoJob /\ at' = [at EXCEPT ![j] = "dead"]
            /\ tagFrozen' = tagFrozen \ {j}
  BY DEF ResumeThrow
<1> QED
  BY <1>1, <1>2, NoJobAssumption DEF TypeOK, Place, Exception

(* The barrier: the job leaves the list. *)
LEMMA ThrowBarrier ==
  ASSUME NEW j \in Job, SyncInv, ResumeThrow(j)
  PROVE  BarrierInv' /\ waiters' \in Seq(Job)
<1>1. TypeOK /\ BarrierInv /\ waiters \in Seq(Job)
  BY Parts DEF TypeOK
<1>2. CASE at[j] # "wait"
  <2>1. waiters' = waiters
    BY <1>2 DEF ResumeThrow
  <2> QED
    BY <1>1, <1>2, <2>1, ThrowFacts, BarrierKept
<1>3. CASE at[j] = "wait"
  <2>1. waiters' = Without(waiters, j)
    BY <1>3 DEF ResumeThrow, WaitersWithout
  <2>2. /\ waiters' \in Seq(Job) /\ Distinct(waiters')
        /\ Elements(waiters') = Elements(waiters) \ {j} /\ Elements(waiters) \subseteq Job
    BY <1>1, <2>1, WithoutFacts, ElementsFacts DEF BarrierInv
  <2>3. /\ at'[j] # "wait" /\ exc'[j] = "none"
        /\ \A x \in Job \ {j} : at'[x] = at[x] /\ exc'[x] = exc[x]
    BY ThrowFacts
  <2> QED
    BY <1>1, <2>2, <2>3 DEF BarrierInv, SignalsReachWaiters, WaitersCanBeWoken
<1> QED
  BY <1>2, <1>3

(* The semaphore, when the job gives a token back. *)
LEMMA ThrowGivesBack ==
  ASSUME NEW j \in Job, SyncInv, ResumeThrow(j), j \in Holders, j \notin sem.frozen,
         sem' = ReleaseAndForward(sem, TRUE)
  PROVE  SemaphoreInv' /\ sem' \in SemRecord /\ GivesBack(j)
<1>1. /\ SemaphoreInv /\ inside \subseteq Job /\ sem.frozen \subseteq Job
      /\ \A x \in sem.frozen : at[x] = "acquire"
      /\ \A x \in inside : at[x] # "acquire"
  BY Parts
<1>2. /\ at'[j] # "acquire" /\ \A x \in Job \ {j} : at'[x] = at[x]
      /\ inside' = inside \ {j} /\ total' = total
  BY ThrowFacts
<1>3. Granted' = (Granted \ {j}) \cup (sem.frozen \ sem'.frozen)
  BY <1>1, <1>2, GrantedForward
<1>4. Holders' = (Holders \ {j}) \cup (sem.frozen \ sem'.frozen)
  BY <1>2, <1>3 DEF Holders
<1>5. (Holders \ {j}) \cap sem.frozen = {}
  BY <1>1 DEF Holders, Granted
<1>6. /\ IsFiniteSet(Holders \ {j})
      /\ Cardinality(Holders \ {j}) = Cardinality(Holders) - 1
  BY <1>1, FS_RemoveElement DEF SemaphoreInv
<1>7. total' = sem.value + 1 + Cardinality(Holders \ {j}) + Len(sem.queue) /\ total' \in Nat
  BY <1>2, <1>6, Parts
<1>8. SemaphoreInv' /\ sem' \in SemRecord
  BY <1>1, <1>2, <1>4, <1>5, <1>6, <1>7, TokenGiven
<1> QED
  BY <1>4, <1>8 DEF GivesBack

(* ... when it leaves the list. *)
LEMMA ThrowGivesUp ==
  ASSUME NEW j \in Job, SyncInv, ResumeThrow(j), j \in sem.frozen,
         sem' = AbortAcquire(sem, j)
  PROVE  SemaphoreInv' /\ sem' \in SemRecord /\ GivesUp(j)
<1>1. /\ SemaphoreInv /\ Well(sem) /\ sem \in SemRecord /\ sem.frozen \subseteq Job
      /\ \A x \in sem.frozen : at[x] = "acquire"
      /\ \A x \in inside : at[x] # "acquire"
      /\ inside \subseteq Job
  BY Parts
<1>2. /\ at'[j] # "acquire" /\ \A x \in Job \ {j} : at'[x] = at[x]
      /\ inside' = inside \ {j} /\ total' = total
  BY ThrowFacts
<1>3. /\ sem' \in SemRecord /\ Well(sem)' /\ sem'.value = sem.value + 1
      /\ sem'.frozen = sem.frozen \ {j} /\ sem'.queue = Without(sem.queue, j)
      /\ Len(sem'.queue) = Len(sem.queue) - 1 /\ sem.value < 0
  BY <1>1, GiveUpFacts DEF Well
<1>4. Granted' = Granted /\ j \notin inside
  BY <1>1, <1>2, <1>3 DEF Granted
<1>5. Holders' = Holders
  BY <1>2, <1>4 DEF Holders
<1>6. total' = sem'.value + Cardinality(Holders) + Len(sem'.queue)
  <2>1. total = sem.value + Cardinality(Holders) + Len(sem.queue)
    BY Parts
  <2>3. Cardinality(Holders) \in Nat /\ Len(sem.queue) \in Nat /\ sem.value \in Int
    BY Parts
  <2>2. (sem.value + 1) + Cardinality(Holders) + (Len(sem.queue) - 1)
          = sem.value + Cardinality(Holders) + Len(sem.queue)
    BY <2>3
  <2> QED
    BY <1>2, <1>3, <2>1, <2>2
<1>7. SemaphoreInv'
  BY <1>1, <1>2, <1>3, <1>5, <1>6 DEF SemaphoreInv
<1> QED
  BY <1>3, <1>5, <1>7 DEF GivesUp

(* An exception goes through the job. *)
LEMMA ResumeThrowInv ==
  ASSUME NEW j \in Job, SyncInv, ResumeThrow(j)
  PROVE  SyncInv' /\ (GivesUp(j) \/ GivesBack(j) \/ HadNone(j))
<1>1. /\ TypeOK /\ SemaphoreInv /\ sem \in SemRecord /\ inside \subseteq Job
      /\ sem.frozen \subseteq Job
      /\ \A x \in sem.frozen : at[x] = "acquire"
      /\ \A x \in inside : at[x] # "acquire"
  BY Parts
<1>2. sem' = LeaveScope(IF at[j] = "acquire" THEN AbortAcquire(sem, j) ELSE sem, j)
  BY DEF ResumeThrow
<1>3. SemaphoreInv' /\ sem' \in SemRecord /\ (GivesUp(j) \/ GivesBack(j) \/ HadNone(j))
  <2>1. CASE j \in sem.frozen
    <3>1. sem' = AbortAcquire(sem, j)
      BY <1>1, <1>2, <2>1 DEF LeaveScope
    <3> QED
      BY <2>1, <3>1, ThrowGivesUp
  <2>2. CASE j \notin sem.frozen /\ at[j] = "acquire"
    <3>1. sem' = ReleaseAndForward(sem, TRUE)
      BY <1>1, <1>2, <2>2 DEF LeaveScope, AbortAcquire
    <3>2. j \in Holders
      BY <2>2 DEF Holders, Granted
    <3> QED
      BY <2>2, <3>1, <3>2, ThrowGivesBack
  <2>3. CASE j \notin sem.frozen /\ at[j] # "acquire" /\ j \in inside
    <3>1. sem' = ReleaseAndForward(sem, TRUE)
      BY <1>2, <2>3 DEF LeaveScope
    <3>2. j \in Holders
      BY <2>3 DEF Holders
    <3> QED
      BY <2>3, <3>1, <3>2, ThrowGivesBack
  <2>4. CASE j \notin sem.frozen /\ at[j] # "acquire" /\ j \notin inside
    <3>1. sem' = sem
      BY <1>2, <2>4 DEF LeaveScope
    <3>2. /\ at'[j] # "acquire" /\ \A x \in Job \ {j} : at'[x] = at[x]
          /\ inside' = inside /\ total' = total
      BY <2>4, ThrowFacts
    <3>3. \A x \in Job : (at'[x] = "acquire") <=> (at[x] = "acquire")
      BY <2>4, <3>2
    <3> QED
      BY <1>1, <3>1, <3>2, <3>3, Elsewhere DEF HadNone
  <2> QED
    BY <2>1, <2>2, <2>3, <2>4
<1>4. BarrierInv' /\ waiters' \in Seq(Job)
  BY ThrowBarrier
<1>5. TypeOK'
  BY <1>1, <1>3, <1>4, ThrowFacts, TypeFrom DEF TypeOK
<1>6. current' # NoJob => at'[current'] = "ready"
  BY ThrowFacts
<1> QED
  BY <1>3, <1>4, <1>5, <1>6 DEF SyncInv

-----------------------------------------------------------------------------

(* The actions of a job on itself and on another one. *)
LEMMA OtherInv ==
  ASSUME SyncInv,
         \/ \E j \in Job : \/ BarrierWait(j) \/ Signal(j) \/ SignalAll(j) \/ Yield(j)
                           \/ Unfreeze(j) \/ Resume(j) \/ ResumeSignalled(j)
         \/ \E j, k \in Job : Stop(j, k) \/ Terminate(j, k) \/ Freeze(j, k)
  PROVE  SyncInv' /\ Holders' = Holders /\ sem' = sem
<1>1. ASSUME NEW j \in Job, BarrierWait(j) \/ Signal(j) \/ SignalAll(j)
      PROVE  SyncInv' /\ Holders' = Holders /\ sem' = sem
  BY <1>1, BarrierWaitInv, SignalInv, SignalAllInv DEF BarrierWait, Signal, SignalAll
<1>2. ASSUME NEW j \in Job, Yield(j) \/ Unfreeze(j)
      PROVE  SyncInv' /\ Holders' = Holders /\ sem' = sem
  <2>1. /\ tagFrozen' \subseteq Job /\ current' \in {current, NoJob}
        /\ UNCHANGED <<at, inside, exc, sem, waiters, total>>
    BY <1>2, Parts DEF Yield, Unfreeze, Others, TypeOK
  <2> QED
    BY <2>1, TagsInv
<1>3. ASSUME NEW j \in Job, Resume(j) \/ ResumeSignalled(j)
      PROVE  SyncInv' /\ Holders' = Holders /\ sem' = sem
  BY <1>3, ResumeInv, ResumeSignalledInv DEF Resume, ResumeSignalled
<1>4. ASSUME NEW j \in Job, NEW k \in Job, Stop(j, k) \/ Terminate(j, k)
      PROVE  SyncInv' /\ Holders' = Holders /\ sem' = sem
  <2>1. /\ \E e \in {"stop", "terminate"} : exc' = [exc EXCEPT ![k] = e]
        /\ UNCHANGED <<current, at, inside, sem, waiters, tagFrozen, total>>
    BY <1>4 DEF Stop, Terminate, Others
  <2> QED
    BY <2>1, ThrowInv
<1>5. ASSUME NEW j \in Job, NEW k \in Job, Freeze(j, k)
      PROVE  SyncInv' /\ Holders' = Holders /\ sem' = sem
  <2>1. /\ tagFrozen' \subseteq Job
        /\ UNCHANGED <<current, at, inside, exc, sem, waiters, total>>
    BY <1>5, Parts DEF Freeze, TypeOK
  <2> QED
    BY <2>1, TagsInv
<1> QED
  BY <1>1, <1>2, <1>3, <1>4, <1>5

(* The actions of a step that are about tokens, and the others. *)
LEMMA NextCases ==
  ASSUME Next
  PROVE  \/ \E j \in Job : Acquire(j) \/ Leave(j) \/ Release(j) \/ ResumeThrow(j)
         \/ \E j \in Job : \/ BarrierWait(j) \/ Signal(j) \/ SignalAll(j) \/ Yield(j)
                           \/ Unfreeze(j) \/ Resume(j) \/ ResumeSignalled(j)
         \/ \E j, k \in Job : Stop(j, k) \/ Terminate(j, k) \/ Freeze(j, k)
BY DEF Next, Schedule

(* The invariant is inductive. *)
LEMMA NextInv == SyncInv /\ [Next]_vars => SyncInv'
<1> SUFFICES ASSUME SyncInv, [Next]_vars PROVE SyncInv'
  OBVIOUS
<1>1. CASE UNCHANGED vars
  <2>1. /\ tagFrozen' \subseteq Job /\ current' \in {current, NoJob}
        /\ UNCHANGED <<at, inside, exc, sem, waiters, total>>
    BY <1>1, Parts DEF vars, TypeOK
  <2> QED
    BY <2>1, TagsInv
<1>2. CASE Next
  <2>1. ASSUME NEW j \in Job, Acquire(j) \/ Leave(j) \/ Release(j) \/ ResumeThrow(j)
        PROVE  SyncInv'
    BY <2>1, AcquireWaits, AcquireTakes, LeaveInv, ReleaseInv, ResumeThrowInv
  <2> QED
    BY <1>2, <2>1, NextCases, OtherInv
<1> QED
  BY <1>1, <1>2

(* The whole invariant, in every behaviour of semaphore.cc and barrier.cc. *)
THEOREM SpecSyncInv == Spec => []SyncInv
BY InitInv, NextInv, PTL DEF Spec

(* Every variable has its type. *)
THEOREM SpecTypeOK == Spec => []TypeOK
<1>1. SyncInv => TypeOK
  BY DEF SyncInv
<1> QED
  BY <1>1, SpecSyncInv, PTL

(* Semaphore::acquire, release, criticalSection and the catch clause of       *)
(* acquire: no token is lost and none is made up.                            *)
THEOREM SpecTokensConserved == Spec => []TokensConserved
<1>1. SyncInv => TokensConserved
  <2> SUFFICES ASSUME SyncInv PROVE TokensConserved
    OBVIOUS
  <2>1. /\ Cardinality(Holders) \in Nat /\ Len(sem.queue) \in Nat /\ sem.value \in Int
        /\ total = sem.value + Cardinality(Holders) + Len(sem.queue)
    BY Parts
  <2> QED
    BY <2>1 DEF TokensConserved
<1> QED
  BY <1>1, SpecSyncInv, PTL

(* Semaphore: the list is the set of the jobs that acquire froze, each once,  *)
(* and as long as the debt of the value.                                     *)
THEOREM SpecQueueIsExact == Spec => []QueueIsExact
<1>1. SyncInv => QueueIsExact
  <2> SUFFICES ASSUME SyncInv PROVE QueueIsExact
    OBVIOUS
  <2>1. /\ sem.queue \in Seq(Job) /\ sem.value \in Int /\ Elements(sem.queue) = sem.frozen
        /\ Distinct(sem.queue)
        /\ Len(sem.queue) = IF sem.value < 0 THEN -sem.value ELSE 0
        /\ \A j \in sem.frozen : at[j] = "acquire"
    BY Parts DEF Well, SemRecord
  <2>2. Cardinality(sem.frozen) = Len(sem.queue)
    BY <2>1, DistinctCount
  <2>3. sem.queue # << >> => sem.value = -Len(sem.queue)
    BY <2>1, EmptySeq
  <2> QED
    BY <2>1, <2>2, <2>3 DEF QueueIsExact
<1> QED
  BY <1>1, SpecSyncInv, PTL

(* Barrier::signal and wait: a BarrierException only meets a job in wait. *)
THEOREM SpecSignalsReachWaiters == Spec => []SignalsReachWaiters
<1>1. SyncInv => SignalsReachWaiters
  BY DEF SyncInv, BarrierInv
<1> QED
  BY <1>1, SpecSyncInv, PTL

(* Barrier::wait: no signal can miss a job that is blocked in it. *)
THEOREM SpecWaitersCanBeWoken == Spec => []WaitersCanBeWoken
<1>1. SyncInv => WaitersCanBeWoken
  BY DEF SyncInv, BarrierInv
<1> QED
  BY <1>1, SpecSyncInv, PTL

-----------------------------------------------------------------------------
(* The refinement *)

(* The tokens that nobody has. *)
FreeTokens == IF sem.value > 0 THEN sem.value ELSE 0

LEMMA OneMore ==
  ASSUME sem.value \in Int, sem'.value = sem.value + 1
  PROVE  /\ sem.value >= 0 => FreeTokens' = FreeTokens + 1
         /\ sem.value < 0 => FreeTokens' = FreeTokens
BY DEF FreeTokens

(* A token that is given to the jobs of H: Give of TokenPool. *)
LEMMA GiveStep ==
  ASSUME SyncInv, sem' = ReleaseAndForward(sem, TRUE), NEW H,
         Holders' = H \cup (sem.frozen \ sem'.frozen)
  PROVE  Pool!Give(H)
<1>1. sem \in SemRecord /\ Well(sem) /\ sem.value \in Int
  BY Parts
<1>2. CASE sem.queue = << >>
  <2>1. /\ sem'.value = sem.value + 1 /\ sem'.queue = sem.queue /\ sem'.frozen = sem.frozen
        /\ sem.value >= 0
    BY <1>1, <1>2, ForwardFacts
  <2>2. FreeTokens' = FreeTokens + 1
    BY <1>1, <2>1, OneMore
  <2>3. Holders' = H
    BY <2>1
  <2> QED
    BY <1>2, <2>1, <2>2, <2>3 DEF Pool!Give, FreeTokens
<1>3. CASE sem.queue # << >>
  <2>1. /\ sem'.value = sem.value + 1 /\ sem'.queue = Tail(sem.queue)
        /\ Head(sem.queue) \in sem.frozen /\ sem'.frozen = sem.frozen \ {Head(sem.queue)}
        /\ sem.value < 0
    BY <1>1, <1>3, ForwardFacts
  <2>2. FreeTokens' = FreeTokens
    BY <1>1, <2>1, OneMore
  <2>3. Holders' = H \cup {Head(sem.queue)}
    BY <2>1
  <2> QED
    BY <1>3, <2>1, <2>2, <2>3 DEF Pool!Give, FreeTokens
<1> QED
  BY <1>2, <1>3

(* A job waits in TokenPool when it is in the list. *)
LEMMA WaitingJobs ==
  ASSUME SyncInv, NEW j \in Job
  PROVE  Pool!Waiting(j) <=> j \in sem.frozen
BY Parts DEF Well, Elements, Pool!Waiting

(* acquire is Wait or Take. *)
LEMMA AcquireStep ==
  ASSUME SyncInv, NEW j \in Job, Acquire(j)
  PROVE  Pool!Take(j) \/ Pool!Wait(j)
<1>1. sem.value \in Int
  BY Parts
<1>2. CASE sem.value - 1 < 0
  <2>1. /\ Holders' = Holders /\ sem'.queue = Append(sem.queue, j)
        /\ sem'.value = sem.value - 1 /\ j \notin Holders /\ j \notin sem.frozen
    BY <1>2, AcquireWaits
  <2>2. FreeTokens = 0 /\ FreeTokens' = FreeTokens
    BY <1>1, <1>2, <2>1 DEF FreeTokens
  <2> QED
    BY <2>1, <2>2, WaitingJobs DEF Pool!Wait, FreeTokens
<1>3. CASE ~(sem.value - 1 < 0)
  <2>1. /\ Holders' = Holders \cup {j} /\ sem'.queue = sem.queue
        /\ sem'.value = sem.value - 1 /\ j \notin Holders /\ j \notin sem.frozen
    BY <1>3, AcquireTakes
  <2>2. FreeTokens > 0 /\ FreeTokens' = FreeTokens - 1
    BY <1>1, <1>3, <2>1 DEF FreeTokens
  <2> QED
    BY <2>1, <2>2, WaitingJobs DEF Pool!Take, FreeTokens
<1> QED
  BY <1>2, <1>3

(* An exception that goes through a job is GiveUp, GiveBack, or nothing. *)
LEMMA ThrowStep ==
  ASSUME SyncInv, NEW j \in Job, ResumeThrow(j)
  PROVE  Pool!GiveUp(j) \/ Pool!GiveBack(j) \/ UNCHANGED Pool!vars
<1>1. CASE GivesUp(j)
  <2> DEFINE p == Position(sem.queue, j)
  <2>1. /\ sem'.queue = Without(sem.queue, j) /\ Holders' = Holders
        /\ sem'.value = sem.value + 1 /\ sem.value < 0 /\ sem.value \in Int
        /\ j \in Elements(sem.queue)
    BY <1>1, Parts DEF GivesUp, Well
  <2>2. p \in DOMAIN sem.queue /\ sem.queue[p] = j
    BY <2>1 DEF Elements, Position
  <2>3. sem'.queue = SubSeq(sem.queue, 1, p - 1) \o SubSeq(sem.queue, p + 1, Len(sem.queue))
    BY <2>1 DEF Without, SeqExt!RemoveAt
  <2>4. FreeTokens' = FreeTokens
    BY <2>1 DEF FreeTokens
  <2> HIDE DEF p
  <2> QED
    BY <2>1, <2>2, <2>3, <2>4 DEF Pool!GiveUp, FreeTokens
<1>2. CASE GivesBack(j)
  BY <1>2, GiveStep DEF GivesBack, Pool!GiveBack
<1>3. CASE HadNone(j)
  BY <1>3 DEF HadNone, Pool!vars
<1> QED
  BY <1>1, <1>2, <1>3, ResumeThrowInv

(* Every step of the semaphore is a step of TokenPool, or changes nothing. *)
LEMMA PoolStep == SyncInv /\ [Next]_vars => [Pool!Next]_(Pool!vars)
<1> SUFFICES ASSUME SyncInv, [Next]_vars PROVE [Pool!Next]_(Pool!vars)
  OBVIOUS
<1>1. CASE UNCHANGED vars
  <2>1. Holders' = Holders /\ sem' = sem
    BY <1>1 DEF vars, Holders, Granted
  <2> QED
    BY <2>1 DEF Pool!vars
<1>2. CASE Next
  <2>1. ASSUME NEW j \in Job, Acquire(j) PROVE Pool!Next
    BY <2>1, AcquireStep DEF Pool!Next
  <2>2. ASSUME NEW j \in Job, Leave(j) PROVE Pool!Next
    BY <2>2, LeaveInv, GiveStep DEF Pool!Next, Pool!GiveBack
  <2>3. ASSUME NEW j \in Job, Release(j) PROVE Pool!Next
    BY <2>3, ReleaseInv, GiveStep DEF Pool!Next, Pool!Make
  <2>4. ASSUME NEW j \in Job, ResumeThrow(j) PROVE [Pool!Next]_(Pool!vars)
    BY <2>4, ThrowStep DEF Pool!Next
  <2>5. ASSUME Holders' = Holders, sem' = sem PROVE UNCHANGED Pool!vars
    BY <2>5 DEF Pool!vars
  <2> QED
    BY <1>2, <2>1, <2>2, <2>3, <2>4, <2>5, NextCases, OtherInv
<1> QED
  BY <1>1, <1>2

(* The semaphore implements TokenPool: a token given back goes to the job     *)
(* that has waited longest, and a job that gives up takes none with it.      *)
THEOREM SpecImplementsTokenPool == Spec => ImplementsTokenPool
<1>1. Init => Pool!Init
  BY InitialAssumption DEF Init, Pool!Init, Holders, Granted
<1> QED
  BY <1>1, PoolStep, SpecSyncInv, PTL DEF Spec, ImplementsTokenPool, Pool!Spec

=============================================================================
