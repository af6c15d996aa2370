----------------------------- MODULE EventProofs -----------------------------
(***************************************************************************)
(* Proofs about Event, for any listeners, handlers, emissions and tags and *)
(* whatever the guards match: a handler looks at every listener, at an     *)
(* asynchronous one only once; every enter part is followed by its leave   *)
(* part; the count of frozen tags is exact; waiters_ holds live pointers.  *)
(***************************************************************************)
EXTENDS Event, ListsProofs

Counts == [Occurrence -> [Listener -> Nat]]

-----------------------------------------------------------------------------
(* Operators *)

LEMMA MoreFacts ==
  ASSUME NEW f \in Counts, NEW o \in Occurrence, NEW l \in Listener
  PROVE  /\ More(f, o, l) \in Counts
         /\ More(f, o, l)[o][l] = f[o][l] + 1
         /\ \A p \in Occurrence, m \in Listener :
              p # o \/ m # l => More(f, o, l)[p][m] = f[p][m]
BY DEF More, Counts

LEMMA PutFacts ==
  ASSUME NEW A, NEW R, NEW f \in [A -> R], NEW a \in A, NEW r \in R, NEW g,
         g = [f EXCEPT ![a] = r]
  PROVE  /\ g \in [A -> R] /\ g[a] = r
         /\ \A b \in A \ {a} : g[b] = f[b]
OBVIOUS

(* The records of occurrences and listeners, field by field. *)
OccState == {"none", "trigger", "leave", "ready", "stopping", "stopped"}
IsOcc(r, a, q, s) == r \in OccRecord /\ r.state = a /\ r.todo = q /\ r.stop_jobs = s

LEMMA OccRecordFacts ==
  ASSUME NEW r \in OccRecord, NEW a \in OccState, NEW q \in Seq(Listener),
         NEW s \in Seq(Listener)
  PROVE  /\ r.state \in OccState /\ r.todo \in Seq(Listener)
         /\ r.stop_jobs \in Seq(Listener)
         /\ IsOcc([r EXCEPT !.state = a], a, r.todo, r.stop_jobs)
         /\ IsOcc([r EXCEPT !.todo = q], r.state, q, r.stop_jobs)
         /\ IsOcc([r EXCEPT !.stop_jobs = s], r.state, r.todo, s)
         /\ IsOcc([r EXCEPT !.state = a, !.todo = q], a, q, r.stop_jobs)
         /\ IsOcc([r EXCEPT !.state = a, !.stop_jobs = s], a, r.todo, s)
         /\ IsOcc([r EXCEPT !.todo = q, !.stop_jobs = s], r.state, q, s)
<1>1. IsOcc([r EXCEPT !.state = a], a, r.todo, r.stop_jobs)
  BY DEF IsOcc, OccRecord, OccState
<1>2. IsOcc([r EXCEPT !.todo = q], r.state, q, r.stop_jobs)
  BY DEF IsOcc, OccRecord, OccState
<1>3. IsOcc([r EXCEPT !.stop_jobs = s], r.state, r.todo, s)
  BY DEF IsOcc, OccRecord, OccState
<1>4. IsOcc([r EXCEPT !.state = a, !.todo = q], a, q, r.stop_jobs)
  BY DEF IsOcc, OccRecord, OccState
<1>5. IsOcc([r EXCEPT !.state = a, !.stop_jobs = s], a, r.todo, s)
  BY DEF IsOcc, OccRecord, OccState
<1>6. IsOcc([r EXCEPT !.todo = q, !.stop_jobs = s], r.state, q, s)
  BY DEF IsOcc, OccRecord, OccState
<1>7. /\ r.state \in OccState /\ r.todo \in Seq(Listener)
      /\ r.stop_jobs \in Seq(Listener)
  BY DEF OccRecord, OccState
<1> QED
  BY <1>1, <1>2, <1>3, <1>4, <1>5, <1>6, <1>7

LEMMA SubRecordFacts ==
  ASSUME NEW r \in SubRecord, NEW d \in SUBSET Handler, NEW h \in Handler
  PROVE  LET n == [r EXCEPT !.done = d, !.at = h]
         IN  n \in SubRecord /\ n.state = r.state /\ n.all = r.all /\ n.done = d
BY DEF SubRecord

(* How often a listener is in a list. *)
LEMMA CountFacts ==
  ASSUME NEW q \in Seq(Listener), NEW y \in Listener
  PROVE  /\ \A x : Count(q, x) \in Nat /\ Count(<< >>, x) = 0
         /\ Count(Append(q, y), y) = Count(q, y) + 1
         /\ \A x : x # y => Count(Append(q, y), x) = Count(q, x)
<1> DEFINE r == Append(q, y)
           At(p, x) == {i \in DOMAIN p : p[i] = x}
<1>1. /\ Len(q) \in Nat /\ DOMAIN q = 1..Len(q)
      /\ DOMAIN r = 1..Len(q) + 1 /\ r[Len(q) + 1] = y
      /\ \A i \in 1..Len(q) : r[i] = q[i]
  OBVIOUS
<1>2. \A x : IsFiniteSet(At(q, x))
  <2>1. IsFiniteSet(1..Len(q))
    BY <1>1, FS_Interval
  <2>2. \A x : At(q, x) \subseteq 1..Len(q)
    BY <1>1
  <2> HIDE DEF At
  <2> QED
    BY <2>1, <2>2, FS_Subset
<1>3. \A x : Count(q, x) \in Nat
  BY <1>2, FS_CardinalityType DEF Count
<1>4. \A x : Count(<< >>, x) = 0
  <2>1. \A x : At(<< >>, x) = {}
    OBVIOUS
  <2> QED
    BY <2>1, FS_EmptySet DEF Count
<1> HIDE DEF r
<1>5. At(r, y) = At(q, y) \cup {Len(q) + 1} /\ Len(q) + 1 \notin At(q, y)
  BY <1>1
<1>6. \A x : x # y => At(r, x) = At(q, x)
  BY <1>1
<1>7. Cardinality(At(r, y)) = Cardinality(At(q, y)) + 1
  <2> HIDE DEF At
  <2> QED
    BY <1>2, <1>5, FS_AddElement
<1> QED
  BY <1>3, <1>4, <1>6, <1>7 DEF Count, r

(* The number of the tags of S that are frozen, when t becomes frozen. *)
LEMMA FrozenTagsFacts ==
  ASSUME NEW S, IsFiniteSet(S), NEW F, NEW t, t \notin F
  PROVE  /\ Cardinality(S \cap F) \in Nat
         /\ Cardinality(S \cap F) = 0 <=> S \cap F = {}
         /\ Cardinality(S \cap (F \cup {t}))
              = Cardinality(S \cap F) + (IF t \in S THEN 1 ELSE 0)
<1>1. IsFiniteSet(S \cap F)
  BY FS_Subset
<1>2. /\ Cardinality(S \cap F) \in Nat
      /\ Cardinality(S \cap F) = 0 <=> S \cap F = {}
  BY <1>1, FS_CardinalityType, FS_EmptySet
<1>3. CASE t \in S
  <2>1. S \cap (F \cup {t}) = (S \cap F) \cup {t} /\ t \notin S \cap F
    BY <1>3
  <2>2. Cardinality((S \cap F) \cup {t}) = Cardinality(S \cap F) + 1
    BY <1>1, <2>1, FS_AddElement
  <2> QED
    BY <1>2, <1>3, <2>1, <2>2
<1>4. CASE t \notin S
  <2>1. S \cap (F \cup {t}) = S \cap F
    BY <1>4
  <2> QED
    BY <1>2, <1>4, <2>1
<1> QED
  BY <1>3, <1>4
-----------------------------------------------------------------------------
(* What each action does, field by field *)

(* trigger_job for the listener l. *)
LEMMA TriggerJobFacts ==
  ASSUME TypeOK, NEW o \in Occurrence, NEW l \in Listener, NEW match \in BOOLEAN,
         NEW x, NEW c \in BOOLEAN, TriggerJob(o, l, match, x, c)
  PROVE  /\ match => frozen[l] = 0
         /\ seen' \in Counts /\ entered' \in Counts /\ left' \in Counts
         /\ seen'[o][l] = seen[o][l] + 1
         /\ match => entered'[o][l] = entered[o][l] + 1
         /\ ~match => entered'[o][l] = entered[o][l]
         /\ match /\ o \in Emission /\ ~c => left'[o][l] = left[o][l] + 1
         /\ ~(match /\ o \in Emission /\ ~c) => left'[o][l] = left[o][l]
         /\ \A p \in Occurrence, m \in Listener : p # o \/ m # l =>
              /\ seen'[p][m] = seen[p][m] /\ entered'[p][m] = entered[p][m]
              /\ left'[p][m] = left[p][m]
         /\ current' = None \/ current' = x
         /\ ~c => current' = x
<1>1. seen \in Counts /\ entered \in Counts /\ left \in Counts /\ frozen[l] \in Nat
  BY DEF TypeOK, Counts
<1>2. /\ seen' = More(seen, o, l)
      /\ entered' = IF match THEN More(entered, o, l) ELSE entered
      /\ left' = IF match /\ o \in Emission /\ ~c THEN More(left, o, l) ELSE left
      /\ current' = IF match /\ c THEN None ELSE x
      /\ match => frozen[l] = 0
  BY <1>1 DEF TriggerJob, IsFrozen
<1>3. \A f \in Counts :
        /\ More(f, o, l) \in Counts /\ More(f, o, l)[o][l] = f[o][l] + 1
        /\ \A p \in Occurrence, m \in Listener :
             p # o \/ m # l => More(f, o, l)[p][m] = f[p][m]
  BY MoreFacts
<1> QED
  BY <1>1, <1>2, <1>3

LEMMA StopJobsFacts ==
  ASSUME TypeOK, NEW o \in Occurrence, NEW l \in Listener, NEW match \in BOOLEAN
  PROVE  LET q == StopJobs(o, l, match)
             s == occ[o].stop_jobs
         IN  /\ q \in Seq(Listener)
             /\ \A m \in Listener : Count(s, m) \in Nat
             /\ match /\ o \in Handler => Count(q, l) = Count(s, l) + 1
             /\ ~match => Count(q, l) = Count(s, l)
             /\ \A m \in Listener : m # l => Count(q, m) = Count(s, m)
<1>1. occ[o].stop_jobs \in Seq(Listener)
  BY DEF TypeOK, OccRecord
<1>2. \/ match /\ o \in Handler /\ StopJobs(o, l, match) = Append(occ[o].stop_jobs, l)
      \/ ~(match /\ o \in Handler) /\ StopJobs(o, l, match) = occ[o].stop_jobs
  BY DEF StopJobs, Registers
<1> QED
  <2> DEFINE s == occ[o].stop_jobs
             q == StopJobs(o, l, match)
  <2>1. \A m \in Listener : Count(s, m) \in Nat
    BY <1>1, CountFacts
  <2>2. CASE match /\ o \in Handler
    <3>1. q = Append(s, l)
      BY <1>2, <2>2
    <3>2. s \in Seq(Listener)
      BY <1>1
    <3> HIDE DEF s, q
    <3>3. q \in Seq(Listener)
      BY <3>1, <3>2
    <3>4. Count(q, l) = Count(s, l) + 1 /\ \A m \in Listener : m # l => Count(q, m) = Count(s, m)
      BY <3>1, <3>2, CountFacts
    <3> QED
      BY <2>1, <2>2, <3>3, <3>4 DEF s, q
  <2>3. CASE ~(match /\ o \in Handler)
    <3>1. q = s
      BY <1>2, <2>3
    <3> HIDE DEF q
    <3> QED
      BY <1>1, <2>1, <2>3, <3>1 DEF q
  <2> QED
    BY <2>2, <2>3

LEMMA OnEventFacts ==
  ASSUME TypeOK, NEW l \in Listener, OnEvent(l)
  PROVE  /\ TypeOK'
         /\ current = None /\ current' = l
         /\ sub[l].state = "none" /\ TagsOf[l] \cap frozenTag = {}
         /\ sub'[l].state = "loop" /\ sub'[l].all = active /\ sub'[l].done = {}
         /\ \A m \in Listener \ {l} : sub'[m] = sub[m]
         /\ listeners' = Append(listeners, l)
         /\ UNCHANGED <<frozen, frozenTag, active, occ, waiters, wait, history>>
<1>1. /\ Begins /\ sub[l].state = "none" /\ ~FrozenBy(l)
      /\ listeners' = Append(listeners, l) /\ current' = l
      /\ sub' = [sub EXCEPT ![l] = [NotLooping("loop") EXCEPT !.all = active]]
      /\ UNCHANGED <<frozen, frozenTag, active, occ, waiters, wait, undefined, history>>
  BY DEF OnEvent
<1>2. [NotLooping("loop") EXCEPT !.all = active]
        = [state |-> "loop", all |-> active, done |-> {}, at |-> None]
  BY DEF NotLooping
<1>3. sub' \in [Listener -> SubRecord]
  BY <1>1, <1>2 DEF TypeOK, SubRecord
<1>4. listeners' \in Seq(Listener)
  BY <1>1, AppendFacts DEF TypeOK
<1>5. TypeOK'
  BY <1>1, <1>3, <1>4 DEF TypeOK, history
<1> QED
  BY <1>1, <1>2, <1>5 DEF TypeOK, Begins, FrozenBy

(* The steps of the loop of onEvent for the listener l. *)
LEMMA OnEventNextFacts ==
  ASSUME TypeOK, NEW l \in Listener, OnEventNext(l)
  PROVE  \E h \in active \ sub[l].done, match \in BOOLEAN :
         /\ TypeOK'
         /\ h \in Handler /\ current \in {None, l}
         /\ current' = None \/ current' = l
         /\ l \notin SyncListener => current' = l
         /\ sub[l].state = "loop" /\ TagsOf[l] \cap frozenTag = {}
         /\ sub'[l].state = "loop" /\ sub'[l].all = sub[l].all
         /\ sub'[l].done = sub[l].done \cup {h}
         /\ \A m \in Listener \ {l} : sub'[m] = sub[m]
         /\ \A p \in Occurrence : occ'[p].state = occ[p].state /\ occ'[p].todo = occ[p].todo
         /\ \A p \in Occurrence \ {h} : occ'[p] = occ[p]
         /\ occ'[h].stop_jobs = StopJobs(h, l, match)
         /\ TriggerJob(h, l, match, l, l \in SyncListener)
         /\ UNCHANGED <<listeners, frozen, frozenTag, active, waiters, wait>>
<1>1. /\ InLoop(l)
      /\ UNCHANGED <<listeners, frozen, frozenTag, active, waiters, wait, undefined>>
  BY DEF OnEventNext
<1>2. PICK h \in active \ sub[l].done, match \in BOOLEAN :
        /\ TriggerJob(h, l, match, l, l \in SyncListener)
        /\ sub' = [sub EXCEPT ![l] = [sub[l] EXCEPT !.done = sub[l].done \cup {h}, !.at = h]]
        /\ occ' = [occ EXCEPT ![h].stop_jobs = StopJobs(h, l, match)]
  BY DEF OnEventNext
<1>3. h \in Handler /\ h \in Occurrence
  BY DEF TypeOK, Occurrence
<1>4. sub[l] \in SubRecord /\ occ[h] \in OccRecord /\ StopJobs(h, l, match) \in Seq(Listener)
  BY <1>3, StopJobsFacts DEF TypeOK
<1> DEFINE r == [sub[l] EXCEPT !.done = sub[l].done \cup {h}, !.at = h]
           s == [occ[h] EXCEPT !.stop_jobs = StopJobs(h, l, match)]
<1>5. /\ sub' = [sub EXCEPT ![l] = r] /\ r \in SubRecord /\ r.state = sub[l].state
      /\ r.all = sub[l].all /\ r.done = sub[l].done \cup {h}
  <2>1. sub[l].done \cup {h} \in SUBSET Handler
    BY <1>3, <1>4 DEF SubRecord
  <2>2. sub' = [sub EXCEPT ![l] = r]
    BY <1>2
  <2>3. /\ r \in SubRecord /\ r.state = sub[l].state
        /\ r.all = sub[l].all /\ r.done = sub[l].done \cup {h}
    <3> DEFINE d == sub[l].done \cup {h}
    <3> HIDE DEF d
    <3>1. d \in SUBSET Handler
      BY <2>1 DEF d
    <3>2. LET n == [sub[l] EXCEPT !.done = d, !.at = h]
          IN  n \in SubRecord /\ n.state = sub[l].state /\ n.all = sub[l].all /\ n.done = d
      <4> DEFINE b == sub[l]
      <4>1. b \in SubRecord
        BY <1>4
      <4> HIDE DEF b
      <4>2. LET n == [b EXCEPT !.done = d, !.at = h]
            IN  n \in SubRecord /\ n.state = b.state /\ n.all = b.all /\ n.done = d
        BY <1>3, <3>1, <4>1, SubRecordFacts
      <4> QED
        BY <4>2 DEF b
    <3> QED
      BY <3>2 DEF d
  <2> HIDE DEF r
  <2> QED
    BY <2>2, <2>3
<1>6. /\ occ' = [occ EXCEPT ![h] = s]
      /\ IsOcc(s, occ[h].state, occ[h].todo, StopJobs(h, l, match))
  BY <1>2, <1>4, OccRecordFacts DEF OccRecord, OccState
<1> HIDE DEF r, s
<1>7. /\ sub' \in [Listener -> SubRecord] /\ sub'[l] = r
      /\ \A m \in Listener \ {l} : sub'[m] = sub[m]
  BY <1>5, PutFacts DEF TypeOK
<1>8. /\ occ' \in [Occurrence -> OccRecord] /\ occ'[h] = s
      /\ \A p \in Occurrence \ {h} : occ'[p] = occ[p]
  BY <1>3, <1>6, PutFacts DEF TypeOK, IsOcc
<1>9. /\ seen' \in Counts /\ entered' \in Counts /\ left' \in Counts
      /\ current' = None \/ current' = l
      /\ l \notin SyncListener => current' = l
  <2> DEFINE c == l \in SyncListener
  <2>1. c \in BOOLEAN /\ TriggerJob(h, l, match, l, c) /\ (c <=> l \in SyncListener)
    BY <1>2
  <2> HIDE DEF c
  <2> QED
    BY <2>1, <1>3, TriggerJobFacts
<1>10. TypeOK'
  BY <1>1, <1>7, <1>8, <1>9 DEF TypeOK, Counts
<1>11. /\ current \in {None, l} /\ sub[l].state = "loop" /\ TagsOf[l] \cap frozenTag = {}
  BY <1>1 DEF InLoop, Goes, FrozenBy
<1>12. \A p \in Occurrence : occ'[p].state = occ[p].state /\ occ'[p].todo = occ[p].todo
  BY <1>6, <1>8 DEF IsOcc
<1>13. /\ sub'[l].state = "loop" /\ sub'[l].all = sub[l].all
       /\ sub'[l].done = sub[l].done \cup {h}
       /\ occ'[h].stop_jobs = StopJobs(h, l, match)
  BY <1>5, <1>6, <1>7, <1>8, <1>11 DEF IsOcc
<1> QED
  BY <1>1, <1>2, <1>3, <1>7, <1>8, <1>9, <1>10, <1>11, <1>12, <1>13

LEMMA OnEventEndFacts ==
  ASSUME TypeOK, NEW l \in Listener, OnEventEnd(l)
  PROVE  /\ TypeOK'
         /\ current \in {None, l} /\ current' = None
         /\ sub[l].state = "loop" /\ sub[l].all \cap active \subseteq sub[l].done
         /\ sub'[l].state = "in"
         /\ \A m \in Listener \ {l} : sub'[m] = sub[m]
         /\ UNCHANGED <<listeners, frozen, frozenTag, active, occ, waiters, wait, history>>
<1>1. /\ InLoop(l) /\ sub[l].all \cap active \subseteq sub[l].done
      /\ sub' = [sub EXCEPT ![l] = NotLooping("in")] /\ current' = None
      /\ UNCHANGED <<listeners, frozen, frozenTag, active, occ, waiters, wait, undefined,
                     history>>
  BY DEF OnEventEnd
<1>2. sub' \in [Listener -> SubRecord]
  BY <1>1 DEF TypeOK, SubRecord, NotLooping
<1>3. TypeOK'
  BY <1>1, <1>2 DEF TypeOK, history
<1> QED
  BY <1>1, <1>3 DEF InLoop, Goes, NotLooping, TypeOK

(* The records after a step of the occurrence o. *)
OccStep(o, a, q, s) ==
  /\ occ' \in [Occurrence -> OccRecord]
  /\ occ'[o].state = a /\ occ'[o].todo = q /\ occ'[o].stop_jobs = s
  /\ \A p \in Occurrence \ {o} : occ'[p] = occ[p]

LEMMA PutOcc ==
  ASSUME TypeOK, NEW o \in Occurrence, NEW r, NEW a, NEW q, NEW s, IsOcc(r, a, q, s),
         occ' = [occ EXCEPT ![o] = r]
  PROVE  OccStep(o, a, q, s)
<1>1. r \in OccRecord /\ r.state = a /\ r.todo = q /\ r.stop_jobs = s
  BY DEF IsOcc
<1>2. /\ occ' \in [Occurrence -> OccRecord] /\ occ'[o] = r
      /\ \A p \in Occurrence \ {o} : occ'[p] = occ[p]
  BY <1>1, PutFacts DEF TypeOK
<1> QED
  BY <1>1, <1>2 DEF OccStep

(* The fields of the record of an occurrence. *)
LEMMA OccTypes ==
  ASSUME TypeOK, NEW o \in Occurrence
  PROVE  /\ occ[o] \in OccRecord /\ occ[o].state \in OccState
         /\ occ[o].todo \in Seq(Listener) /\ occ[o].stop_jobs \in Seq(Listener)
BY DEF TypeOK, OccRecord, OccState

(* waituntil_release. *)
LEMMA ReleaseFacts ==
  ASSUME TypeOK, Release
  PROVE  /\ waiters' \subseteq waiters
         /\ wait' \in [Waiter -> {"none", "blocked", "released", "thrown", "done"}]
         /\ WaitersAreLive => WaitersAreLive'
<1>1. PICK M \in SUBSET {w \in waiters : ~FrozenBy(w)} :
        /\ waiters' = waiters \ M
        /\ wait' = [w \in Waiter |-> IF w \in M /\ wait[w] = "blocked" THEN "released"
                                     ELSE wait[w]]
  BY DEF Release
<1>2. waiters \subseteq Waiter /\ M \subseteq waiters
  BY DEF TypeOK
<1>3. wait' \in [Waiter -> {"none", "blocked", "released", "thrown", "done"}]
  BY <1>1 DEF TypeOK
<1>4. WaitersAreLive => WaitersAreLive'
  BY <1>1, <1>2 DEF WaitersAreLive
<1> QED
  BY <1>1, <1>3, <1>4

LEMMA TriggerFacts ==
  ASSUME TypeOK, NEW o \in Occurrence, Trigger(o)
  PROVE  /\ TypeOK' /\ current = None /\ current' = o
         /\ occ[o].state = "none" /\ OccStep(o, "trigger", listeners, occ[o].stop_jobs)
         /\ active' = IF o \in Handler THEN active \cup {o} ELSE active
         /\ Release
         /\ UNCHANGED <<listeners, frozen, frozenTag, sub, history>>
<1>1. /\ Begins /\ occ[o].state = "none" /\ Release /\ active' = Begun(o) /\ current' = o
      /\ occ' = [occ EXCEPT ![o] = [occ[o] EXCEPT !.state = "trigger", !.todo = listeners]]
      /\ UNCHANGED <<listeners, frozen, frozenTag, sub, undefined, history>>
  BY DEF Trigger
<1> DEFINE r == [occ[o] EXCEPT !.state = "trigger", !.todo = listeners]
<1>2. IsOcc(r, "trigger", listeners, occ[o].stop_jobs)
  <2>1. "trigger" \in OccState /\ listeners \in Seq(Listener)
    BY DEF OccState, TypeOK
  <2> QED
    BY <2>1, OccTypes, OccRecordFacts
<1>3. occ' = [occ EXCEPT ![o] = r]
  BY <1>1
<1> HIDE DEF r
<1>4. OccStep(o, "trigger", listeners, occ[o].stop_jobs)
  BY <1>2, <1>3, PutOcc
<1>5. active' \subseteq Handler /\ active' = IF o \in Handler THEN active \cup {o} ELSE active
  BY <1>1 DEF Begun, TypeOK
<1>6. waiters' \subseteq Waiter
      /\ wait' \in [Waiter -> {"none", "blocked", "released", "thrown", "done"}]
  BY <1>1, ReleaseFacts DEF TypeOK
<1>7. TypeOK'
  BY <1>1, <1>4, <1>5, <1>6 DEF TypeOK, OccStep, history
<1> QED
  BY <1>1, <1>4, <1>5, <1>7 DEF Begins

(* The next listener of the copy: it stays there while an emission is between *)
(* its enter and its leave part.                                             *)
LEMMA TriggerNextFacts ==
  ASSUME TypeOK, NEW o \in Occurrence, TriggerNext(o)
  PROVE  \E match \in BOOLEAN, c \in BOOLEAN, l \in Listener :
         /\ TypeOK' /\ current \in {None, o}
         /\ occ[o].state = "trigger" /\ occ[o].todo # << >> /\ l = Head(occ[o].todo)
         /\ TriggerJob(o, l, match, o, c)
         /\ \/ match /\ o \in Emission /\ c
               /\ OccStep(o, "leave", occ[o].todo, occ[o].stop_jobs)
            \/ ~(match /\ o \in Emission /\ c)
               /\ OccStep(o, "trigger", Tail(occ[o].todo), StopJobs(o, l, match))
         /\ UNCHANGED <<listeners, frozen, frozenTag, active, sub, waiters, wait>>
<1> DEFINE l == Head(occ[o].todo)
           c == InCaller(o, l)
<1>1. /\ Goes(o) /\ occ[o].state = "trigger" /\ occ[o].todo # << >>
      /\ UNCHANGED <<listeners, frozen, frozenTag, active, sub, waiters, wait, undefined>>
  BY DEF TriggerNext
<1>2. PICK match \in BOOLEAN :
        /\ TriggerJob(o, l, match, o, c)
        /\ occ' = [occ EXCEPT ![o] =
                     IF match /\ o \in Emission /\ c
                     THEN [occ[o] EXCEPT !.state = "leave"]
                     ELSE [occ[o] EXCEPT !.todo = Tail(occ[o].todo),
                                         !.stop_jobs = StopJobs(o, l, match)]]
  BY DEF TriggerNext
<1>3. l \in Listener /\ c \in BOOLEAN
  BY <1>1, OccTypes, TailFacts DEF InCaller
<1>4. Tail(occ[o].todo) \in Seq(Listener) /\ StopJobs(o, l, match) \in Seq(Listener)
  <2> HIDE DEF l
  <2> QED
    BY <1>1, <1>3, OccTypes, TailFacts, StopJobsFacts
<1> HIDE DEF c, l
<1>5. \/ match /\ o \in Emission /\ c
         /\ OccStep(o, "leave", occ[o].todo, occ[o].stop_jobs)
      \/ ~(match /\ o \in Emission /\ c)
         /\ OccStep(o, "trigger", Tail(occ[o].todo), StopJobs(o, l, match))
  <2>1. CASE match /\ o \in Emission /\ c
    <3> DEFINE r == [occ[o] EXCEPT !.state = "leave"]
    <3>1. IsOcc(r, "leave", occ[o].todo, occ[o].stop_jobs)
      BY OccTypes, OccRecordFacts DEF OccState
    <3>2. occ' = [occ EXCEPT ![o] = r]
      BY <1>2, <2>1
    <3> HIDE DEF r
    <3> QED
      BY <2>1, <3>1, <3>2, PutOcc
  <2>2. CASE ~(match /\ o \in Emission /\ c)
    <3> DEFINE r == [occ[o] EXCEPT !.todo = Tail(occ[o].todo),
                                   !.stop_jobs = StopJobs(o, l, match)]
    <3>1. IsOcc(r, "trigger", Tail(occ[o].todo), StopJobs(o, l, match))
      BY <1>1, <1>4, OccTypes, OccRecordFacts
    <3>2. occ' = [occ EXCEPT ![o] = r]
      BY <1>2, <2>2
    <3> HIDE DEF r
    <3> QED
      BY <2>2, <3>1, <3>2, PutOcc
  <2> QED
    BY <2>1, <2>2
<1>6. occ' \in [Occurrence -> OccRecord]
  BY <1>5 DEF OccStep
<1>7. /\ seen' \in Counts /\ entered' \in Counts /\ left' \in Counts
      /\ current' = None \/ current' = o
  BY <1>2, <1>3, TriggerJobFacts
<1>8. TypeOK'
  BY <1>1, <1>6, <1>7 DEF TypeOK, Counts
<1>9. current \in {None, o}
  BY <1>1 DEF Goes
<1>10. l = Head(occ[o].todo)
  BY DEF l
<1> QED
  BY <1>1, <1>2, <1>3, <1>5, <1>8, <1>9, <1>10

LEMMA TriggerEndFacts ==
  ASSUME TypeOK, NEW o \in Occurrence, TriggerEnd(o)
  PROVE  /\ TypeOK' /\ current \in {None, o} /\ current' = None
         /\ occ[o].state = "trigger" /\ occ[o].todo = << >>
         /\ OccStep(o, "ready", << >>, occ[o].stop_jobs)
         /\ UNCHANGED <<listeners, frozen, frozenTag, active, sub, waiters, wait, history>>
<1> DEFINE r == [occ[o] EXCEPT !.state = "ready"]
<1>1. /\ Goes(o) /\ occ[o].state = "trigger" /\ occ[o].todo = << >>
      /\ occ' = [occ EXCEPT ![o] = r] /\ current' = None
      /\ UNCHANGED <<listeners, frozen, frozenTag, active, sub, waiters, wait, undefined,
                     history>>
  BY DEF TriggerEnd
<1>2. IsOcc(r, "ready", << >>, occ[o].stop_jobs)
  BY <1>1, OccTypes, OccRecordFacts, ZenonT(30) DEF OccState
<1> HIDE DEF r
<1>3. OccStep(o, "ready", << >>, occ[o].stop_jobs)
  BY <1>1, <1>2, PutOcc
<1>4. TypeOK'
  BY <1>1, <1>3 DEF TypeOK, OccStep, history
<1> QED
  BY <1>1, <1>3, <1>4 DEF Goes

LEMMA EmitLeaveFacts ==
  ASSUME TypeOK, NEW e \in Emission, EmitLeave(e), occ[e].todo # << >>
  PROVE  /\ TypeOK' /\ current \in {None, e} /\ current' = None
         /\ occ[e].state = "leave"
         /\ OccStep(e, "trigger", Tail(occ[e].todo), occ[e].stop_jobs)
         /\ LET l == Head(occ[e].todo)
            IN  /\ l \in Listener /\ left'[e][l] = left[e][l] + 1
                /\ \A p \in Occurrence, m \in Listener :
                     p # e \/ m # l => left'[p][m] = left[p][m]
         /\ UNCHANGED <<listeners, frozen, frozenTag, active, sub, waiters, wait, seen, entered>>
<1> DEFINE r == [occ[e] EXCEPT !.state = "trigger", !.todo = Tail(occ[e].todo)]
           l == Head(occ[e].todo)
<1>1. /\ Goes(e) /\ occ[e].state = "leave" /\ left' = More(left, e, l)
      /\ occ' = [occ EXCEPT ![e] = r] /\ current' = None
      /\ UNCHANGED <<listeners, frozen, frozenTag, active, sub, waiters, wait, undefined,
                     seen, entered>>
  BY DEF EmitLeave
<1>2. e \in Occurrence
  BY DEF Occurrence
<1>3. l \in Listener /\ Tail(occ[e].todo) \in Seq(Listener)
  BY <1>2, OccTypes, TailFacts
<1>4. IsOcc(r, "trigger", Tail(occ[e].todo), occ[e].stop_jobs)
  BY <1>2, <1>3, OccTypes, OccRecordFacts DEF OccState
<1> HIDE DEF r, l
<1>5. OccStep(e, "trigger", Tail(occ[e].todo), occ[e].stop_jobs)
  BY <1>1, <1>2, <1>4, PutOcc
<1>6. /\ left' \in Counts /\ left'[e][l] = left[e][l] + 1
      /\ \A p \in Occurrence, m \in Listener : p # e \/ m # l => left'[p][m] = left[p][m]
  <2>1. left \in Counts
    BY DEF TypeOK, Counts
  <2>2. left' = More(left, e, l)
    BY <1>1
  <2>3. /\ More(left, e, l) \in Counts /\ More(left, e, l)[e][l] = left[e][l] + 1
        /\ \A p \in Occurrence, m \in Listener :
             p # e \/ m # l => More(left, e, l)[p][m] = left[p][m]
    BY <1>2, <1>3, <2>1, MoreFacts
  <2> QED
    BY <2>2, <2>3
<1>7. TypeOK'
  BY <1>1, <1>5, <1>6 DEF TypeOK, OccStep, Counts
<1> QED
  BY <1>1, <1>3, <1>5, <1>6, <1>7 DEF Goes, l

LEMMA StopFacts ==
  ASSUME TypeOK, NEW h \in Handler, Stop(h)
  PROVE  /\ TypeOK' /\ current = None /\ current' = None
         /\ occ[h].state = "ready" /\ h \notin SyncOccurrence
         /\ OccStep(h, "stopped", occ[h].todo, << >>)
         /\ active' = active \ {h}
         /\ \A l \in Listener : left'[h][l] = left[h][l] + Count(occ[h].stop_jobs, l)
         /\ \A p \in Occurrence \ {h} : left'[p] = left[p]
         /\ UNCHANGED <<listeners, frozen, frozenTag, sub, waiters, wait, seen, entered>>
<1> DEFINE r == [occ[h] EXCEPT !.state = "stopped", !.stop_jobs = << >>]
           c == [l \in Listener |-> left[h][l] + Count(occ[h].stop_jobs, l)]
<1>1. /\ Begins /\ occ[h].state = "ready" /\ h \notin SyncOccurrence
      /\ left' = [left EXCEPT ![h] = c]
      /\ occ' = [occ EXCEPT ![h] = r] /\ active' = active \ {h}
      /\ UNCHANGED <<listeners, frozen, frozenTag, sub, waiters, wait, current, undefined,
                     seen, entered>>
  BY DEF Stop
<1>2. h \in Occurrence
  BY DEF Occurrence
<1>3. IsOcc(r, "stopped", occ[h].todo, << >>)
  BY <1>2, OccTypes, OccRecordFacts, EmptyFacts DEF OccState
<1>4. left \in [Occurrence -> [Listener -> Nat]]
  BY DEF TypeOK
<1>5. \A l \in Listener : left[h][l] \in Nat /\ Count(occ[h].stop_jobs, l) \in Nat
  <2>1. \A l \in Listener : Count(occ[h].stop_jobs, l) \in Nat
    BY <1>2, OccTypes, CountFacts
  <2> QED
    BY <1>2, <1>4, <2>1
<1>6. c \in [Listener -> Nat]
  BY <1>5
<1>7. \A l \in Listener : c[l] = left[h][l] + Count(occ[h].stop_jobs, l)
  OBVIOUS
<1> HIDE DEF r, c
<1>8. OccStep(h, "stopped", occ[h].todo, << >>)
  BY <1>1, <1>2, <1>3, PutOcc
<1>9. /\ left' \in [Occurrence -> [Listener -> Nat]] /\ left'[h] = c
      /\ \A p \in Occurrence \ {h} : left'[p] = left[p]
  BY <1>1, <1>2, <1>4, <1>6, PutFacts
<1>10. TypeOK'
  BY <1>1, <1>8, <1>9 DEF TypeOK, OccStep
<1> QED
  BY <1>1, <1>7, <1>8, <1>9, <1>10 DEF Begins

LEMMA SyncStopFacts ==
  ASSUME TypeOK, NEW h \in Handler, SyncStop(h)
  PROVE  /\ TypeOK' /\ current = None /\ current' = h
         /\ occ[h].state = "ready" /\ h \in SyncOccurrence
         /\ OccStep(h, "stopping", occ[h].stop_jobs, occ[h].stop_jobs)
         /\ UNCHANGED <<listeners, frozen, frozenTag, active, sub, waiters, wait, history>>
<1> DEFINE r == [occ[h] EXCEPT !.state = "stopping", !.todo = occ[h].stop_jobs]
<1>1. /\ Begins /\ occ[h].state = "ready" /\ h \in SyncOccurrence
      /\ occ' = [occ EXCEPT ![h] = r] /\ current' = h
      /\ UNCHANGED <<listeners, frozen, frozenTag, active, sub, waiters, wait, undefined,
                     history>>
  BY DEF SyncStop
<1>2. h \in Occurrence
  BY DEF Occurrence
<1>3. IsOcc(r, "stopping", occ[h].stop_jobs, occ[h].stop_jobs)
  BY <1>2, OccTypes, OccRecordFacts DEF OccState
<1> HIDE DEF r
<1>4. OccStep(h, "stopping", occ[h].stop_jobs, occ[h].stop_jobs)
  BY <1>1, <1>2, <1>3, PutOcc
<1>5. TypeOK'
  BY <1>1, <1>2, <1>4 DEF TypeOK, OccStep, history
<1> QED
  BY <1>1, <1>4, <1>5 DEF Begins

LEMMA SyncStopNextFacts ==
  ASSUME TypeOK, NEW h \in Handler, SyncStopNext(h)
  PROVE  /\ TypeOK' /\ current \in {None, h} /\ current' = None
         /\ occ[h].state = "stopping"
         /\ OccStep(h, "stopping", Tail(occ[h].todo), occ[h].stop_jobs)
         /\ \A p \in Occurrence \ {h}, m \in Listener : left'[p][m] = left[p][m]
         /\ UNCHANGED <<listeners, frozen, frozenTag, active, sub, waiters, wait, seen, entered>>
<1> DEFINE r == [occ[h] EXCEPT !.todo = Tail(occ[h].todo)]
           l == Head(occ[h].todo)
<1>1. /\ Goes(h) /\ occ[h].state = "stopping" /\ occ[h].todo # << >>
      /\ left' = More(left, h, l) /\ occ' = [occ EXCEPT ![h] = r] /\ current' = None
      /\ UNCHANGED <<listeners, frozen, frozenTag, active, sub, waiters, wait, undefined,
                     seen, entered>>
  BY DEF SyncStopNext
<1>2. h \in Occurrence
  BY DEF Occurrence
<1>3. l \in Listener /\ Tail(occ[h].todo) \in Seq(Listener)
  BY <1>1, <1>2, OccTypes, TailFacts
<1>4. IsOcc(r, "stopping", Tail(occ[h].todo), occ[h].stop_jobs)
  BY <1>1, <1>2, <1>3, OccTypes, OccRecordFacts
<1> HIDE DEF r, l
<1>5. OccStep(h, "stopping", Tail(occ[h].todo), occ[h].stop_jobs)
  BY <1>1, <1>2, <1>4, PutOcc
<1>6. /\ left' \in Counts
      /\ \A p \in Occurrence, m \in Listener : p # h \/ m # l => left'[p][m] = left[p][m]
  <2>1. left \in Counts
    BY DEF TypeOK, Counts
  <2>2. left' = More(left, h, l)
    BY <1>1
  <2>3. /\ More(left, h, l) \in Counts /\ More(left, h, l)[h][l] = left[h][l] + 1
        /\ \A p \in Occurrence, m \in Listener :
             p # h \/ m # l => More(left, h, l)[p][m] = left[p][m]
    BY <1>2, <1>3, <2>1, MoreFacts
  <2> QED
    BY <2>2, <2>3
<1>7. TypeOK'
  BY <1>1, <1>5, <1>6 DEF TypeOK, OccStep, Counts
<1> QED
  BY <1>1, <1>5, <1>6, <1>7 DEF Goes

LEMMA SyncStopEndFacts ==
  ASSUME TypeOK, NEW h \in Handler, SyncStopEnd(h)
  PROVE  /\ TypeOK' /\ current \in {None, h} /\ current' = None
         /\ occ[h].state = "stopping"
         /\ OccStep(h, "stopped", occ[h].todo, << >>)
         /\ active' = active \ {h}
         /\ UNCHANGED <<listeners, frozen, frozenTag, sub, waiters, wait, history>>
<1> DEFINE r == [occ[h] EXCEPT !.state = "stopped", !.stop_jobs = << >>]
<1>1. /\ Goes(h) /\ occ[h].state = "stopping"
      /\ occ' = [occ EXCEPT ![h] = r] /\ active' = active \ {h} /\ current' = None
      /\ UNCHANGED <<listeners, frozen, frozenTag, sub, waiters, wait, undefined, history>>
  BY DEF SyncStopEnd
<1>2. h \in Occurrence
  BY DEF Occurrence
<1>3. IsOcc(r, "stopped", occ[h].todo, << >>)
  BY <1>2, OccTypes, OccRecordFacts, EmptyFacts DEF OccState
<1> HIDE DEF r
<1>4. OccStep(h, "stopped", occ[h].todo, << >>)
  BY <1>1, <1>2, <1>3, PutOcc
<1>5. TypeOK'
  BY <1>1, <1>4 DEF TypeOK, OccStep, history
<1> QED
  BY <1>1, <1>4, <1>5 DEF Goes

LEMMA TagStopFacts ==
  ASSUME TypeOK, NEW t \in Tag, TagStop(t)
  PROVE  /\ TypeOK' /\ current = None /\ current' = None
         /\ Elements(listeners') = Elements(listeners) \ Tagged(t)
         /\ Distinct(listeners) => Distinct(listeners')
         /\ \A l \in Tagged(t) : Subscribed(l) /\ sub'[l].state = "gone"
         /\ \A l \in Listener \ Tagged(t) : sub'[l] = sub[l]
         /\ WaitersAreLive => WaitersAreLive'
         /\ UNCHANGED <<frozen, frozenTag, active, occ, history>>
<1>1. /\ Begins /\ listeners' = WithoutAll(listeners, Tagged(t))
      /\ sub' = [l \in Listener |-> IF l \in Tagged(t) THEN NotLooping("gone") ELSE sub[l]]
      /\ wait' = [w \in Waiter |-> IF t \in TagsOf[w] /\ wait[w] \in {"blocked", "released"}
                                   THEN "thrown" ELSE wait[w]]
      /\ UNCHANGED <<frozen, frozenTag, active, occ, waiters, current, undefined, history>>
  BY DEF TagStop
<1>2. /\ listeners' \in Seq(Listener)
      /\ Elements(listeners') = Elements(listeners) \ Tagged(t)
      /\ Distinct(listeners) => Distinct(listeners')
  BY <1>1, WithoutAllFacts DEF TypeOK
<1>3. NotLooping("gone") \in SubRecord /\ NotLooping("gone").state = "gone"
  BY DEF NotLooping, SubRecord
<1>4. sub' \in [Listener -> SubRecord]
  BY <1>1, <1>3 DEF TypeOK
<1>5. wait' \in [Waiter -> {"none", "blocked", "released", "thrown", "done"}]
  BY <1>1 DEF TypeOK
<1>6. TypeOK'
  BY <1>1, <1>2, <1>4, <1>5 DEF TypeOK, history
<1>7. WaitersAreLive => WaitersAreLive'
  BY <1>1 DEF WaitersAreLive, TypeOK
<1>8. /\ \A l \in Tagged(t) : Subscribed(l) /\ sub'[l].state = "gone"
      /\ \A l \in Listener \ Tagged(t) : sub'[l] = sub[l]
  BY <1>1, <1>3 DEF Tagged, Subscribed
<1> QED
  BY <1>1, <1>2, <1>6, <1>7, <1>8 DEF Begins

LEMMA WaituntilFacts ==
  ASSUME TypeOK, NEW w \in Waiter, Waituntil(w)
  PROVE  /\ TypeOK' /\ current = None
         /\ WaitersAreLive => WaitersAreLive'
         /\ UNCHANGED <<listeners, frozen, frozenTag, active, occ, sub, current, history>>
<1>1. /\ Begins /\ wait[w] = "none"
      /\ \/ wait' = [wait EXCEPT ![w] = "done"] /\ UNCHANGED waiters
         \/ wait' = [wait EXCEPT ![w] = "blocked"] /\ waiters' = waiters \cup {w}
      /\ UNCHANGED <<listeners, frozen, frozenTag, active, occ, sub, current, undefined, history>>
  BY DEF Waituntil
<1>2. TypeOK'
  BY <1>1 DEF TypeOK, history
<1>3. WaitersAreLive => WaitersAreLive'
  BY <1>1 DEF WaitersAreLive, TypeOK
<1> QED
  BY <1>1, <1>2, <1>3 DEF Begins

LEMMA WaituntilEndFacts ==
  ASSUME TypeOK, NEW w \in Waiter, WaituntilEnd(w)
  PROVE  /\ TypeOK' /\ current = None
         /\ WaitersAreLive => WaitersAreLive'
         /\ UNCHANGED <<listeners, frozen, frozenTag, active, occ, sub, current, history>>
<1>1. /\ Begins /\ wait[w] \in {"thrown", "released"}
      /\ wait' = [wait EXCEPT ![w] = "done"] /\ waiters' = waiters \ {w}
      /\ UNCHANGED <<listeners, frozen, frozenTag, active, occ, sub, current, undefined, history>>
  BY DEF WaituntilEnd, WaituntilRemove
<1>2. TypeOK'
  BY <1>1 DEF TypeOK, history
<1>3. WaitersAreLive => WaitersAreLive'
  BY <1>1 DEF WaitersAreLive, TypeOK
<1> QED
  BY <1>1, <1>2, <1>3 DEF Begins

-----------------------------------------------------------------------------
(* Freezing *)

(* A listener's count follows the tags, whatever other tags it has. *)
LEMMA FreezeFacts ==
  ASSUME TypeOK, FreezeInv, NEW t \in Tag, Freeze(t)
  PROVE  /\ TypeOK' /\ FreezeInv' /\ current = None
         /\ UNCHANGED <<listeners, active, occ, sub, waiters, wait, current, history>>
<1>1. /\ Begins /\ t \notin frozenTag /\ frozenTag' = frozenTag \cup {t}
      /\ frozen' = [l \in Listener |-> IF l \in Tagged(t) THEN frozen[l] + 1 ELSE frozen[l]]
      /\ UNCHANGED <<listeners, active, occ, sub, waiters, wait, current, undefined, history>>
  BY DEF Freeze
<1>2. \A l \in Listener : frozen[l] \in Nat
  BY DEF TypeOK
<1>3. TypeOK'
  BY <1>1, <1>2 DEF TypeOK, history
<1>4. ASSUME NEW l \in Listener
      PROVE  /\ sub'[l].state = "none" => frozen'[l] = 0
             /\ Subscribed(l)' => frozen'[l] = Cardinality(TagsOf[l] \cap frozenTag')
  <2>1. IsFiniteSet(TagsOf[l])
    BY TagsAssumption
  <2>2. /\ Cardinality(TagsOf[l] \cap frozenTag) \in Nat
        /\ Cardinality(TagsOf[l] \cap frozenTag')
             = Cardinality(TagsOf[l] \cap frozenTag) + (IF t \in TagsOf[l] THEN 1 ELSE 0)
    BY <1>1, <2>1, FrozenTagsFacts
  <2>3. /\ sub[l].state = "none" => frozen[l] = 0
        /\ Subscribed(l) => frozen[l] = Cardinality(TagsOf[l] \cap frozenTag)
        /\ sub'[l] = sub[l] /\ (Subscribed(l)' <=> Subscribed(l))
        /\ l \in Tagged(t) <=> t \in TagsOf[l] /\ Subscribed(l)
        /\ Subscribed(l) => sub[l].state # "none"
    BY <1>1 DEF FreezeInv, Subscribed, Tagged
  <2>4. frozen'[l] = IF l \in Tagged(t) THEN frozen[l] + 1 ELSE frozen[l]
    BY <1>1
  <2> QED
    BY <1>2, <2>2, <2>3, <2>4
<1> QED
  BY <1>1, <1>3, <1>4 DEF FreezeInv, Begins

LEMMA UnfreezeFacts ==
  ASSUME TypeOK, FreezeInv, NEW t \in Tag, Unfreeze(t)
  PROVE  /\ TypeOK' /\ FreezeInv' /\ current = None
         /\ UNCHANGED <<listeners, active, occ, sub, waiters, wait, current, history>>
<1>1. /\ Begins /\ t \in frozenTag /\ frozenTag' = frozenTag \ {t}
      /\ frozen' = [l \in Listener |-> IF l \in Tagged(t) THEN frozen[l] - 1 ELSE frozen[l]]
      /\ UNCHANGED <<listeners, active, occ, sub, waiters, wait, current, undefined, history>>
  BY DEF Unfreeze
<1>2. ASSUME NEW l \in Listener
      PROVE  /\ frozen'[l] \in Nat
             /\ sub'[l].state = "none" => frozen'[l] = 0
             /\ Subscribed(l)' => frozen'[l] = Cardinality(TagsOf[l] \cap frozenTag')
  <2>1. IsFiniteSet(TagsOf[l]) /\ frozen[l] \in Nat
    BY TagsAssumption DEF TypeOK
  <2>2. frozenTag = frozenTag' \cup {t} /\ t \notin frozenTag'
    BY <1>1
  <2>3. /\ Cardinality(TagsOf[l] \cap frozenTag') \in Nat
        /\ Cardinality(TagsOf[l] \cap (frozenTag' \cup {t}))
             = Cardinality(TagsOf[l] \cap frozenTag') + (IF t \in TagsOf[l] THEN 1 ELSE 0)
    BY <2>1, <2>2, FrozenTagsFacts
  <2>4. /\ sub[l].state = "none" => frozen[l] = 0
        /\ Subscribed(l) => frozen[l] = Cardinality(TagsOf[l] \cap frozenTag)
        /\ sub'[l] = sub[l] /\ (Subscribed(l)' <=> Subscribed(l))
        /\ l \in Tagged(t) <=> t \in TagsOf[l] /\ Subscribed(l)
        /\ Subscribed(l) => sub[l].state # "none"
    BY <1>1 DEF FreezeInv, Subscribed, Tagged
  <2>5. frozen'[l] = IF l \in Tagged(t) THEN frozen[l] - 1 ELSE frozen[l]
    BY <1>1
  <2>6. Cardinality(TagsOf[l] \cap frozenTag)
          = Cardinality(TagsOf[l] \cap frozenTag') + (IF t \in TagsOf[l] THEN 1 ELSE 0)
    BY <2>2, <2>3
  <2> QED
    BY <2>1, <2>3, <2>4, <2>5, <2>6
<1>3. frozen' \in [Listener -> Nat]
  BY <1>1, <1>2
<1>4. TypeOK'
  BY <1>1, <1>3 DEF TypeOK, history
<1> QED
  BY <1>1, <1>2, <1>4 DEF FreezeInv, Begins

-----------------------------------------------------------------------------
(* The invariant, action by action *)

LEMMA Kinds ==
  /\ Occurrence = Handler \cup Emission /\ Handler \cap Emission = {}
  /\ \A l \in Listener : l \notin Occurrence /\ l # None
  /\ None \notin Occurrence
BY NoneAssumption DEF Occurrence

(* The invariants that do not depend on the tags and on the waiting jobs. *)
ListenInv == ListsInv /\ TodoInv /\ OnceInv /\ SeenInv /\ LeaveInv

LEMMA Quiet ==
  ASSUME ListenInv, UNCHANGED <<listeners, active, occ, sub, current, history>>
  PROVE  ListenInv'
BY DEF ListenInv, ListsInv, Subscribed, Running, TodoInv, TodoOf, OnceInv, LooksOnce,
       SeenInv, Sees, LeaveInv, LeavesLater, LeavesNext, history

LEMMA OnEventKept ==
  ASSUME EventInv, NEW l \in Listener, OnEvent(l)
  PROVE  EventInv'
<1>1. /\ TypeOK' /\ current = None /\ current' = l
      /\ sub[l].state = "none" /\ TagsOf[l] \cap frozenTag = {}
      /\ sub'[l].state = "loop" /\ sub'[l].all = active /\ sub'[l].done = {}
      /\ \A m \in Listener \ {l} : sub'[m] = sub[m]
      /\ listeners' = Append(listeners, l)
      /\ UNCHANGED <<frozen, frozenTag, active, occ, waiters, wait, history>>
  BY OnEventFacts DEF EventInv
<1>3. WaitersAreLive'
  BY <1>1 DEF EventInv, WaitersAreLive
<1>4. ListsInv'
  <2>1. /\ Elements(listeners') = Elements(listeners) \cup {l}
        /\ Distinct(listeners') <=> Distinct(listeners) /\ l \notin Elements(listeners)
    BY <1>1, AppendFacts DEF EventInv, TypeOK
  <2> QED
    BY <1>1, <2>1 DEF EventInv, ListsInv, Subscribed, Running
<1>5. FreezeInv'
  <2>1. Cardinality({}) = 0
    BY FS_EmptySet
  <2>2. frozen[l] = 0
    BY <1>1 DEF EventInv, FreezeInv
  <2> QED
    BY <1>1, <2>1, <2>2 DEF EventInv, FreezeInv, Subscribed
<1>6. TodoInv'
  <2>1. \A m \in Listener : sub[m].state # "none" => sub'[m].state # "none"
    BY <1>1
  <2>2. \A p \in Occurrence : Elements(occ[p].todo) \subseteq Listener
    BY OccTypes, ElementsFacts DEF EventInv
  <2> QED
    BY <1>1, <2>1, <2>2 DEF EventInv, TodoInv, TodoOf
<1>7. OnceInv'
  <2>1. ASSUME NEW m \in Listener \ SyncListener
        PROVE  sub'[m].state = "loop" => current' = m
    BY <1>1, Kinds DEF EventInv, OnceInv
  <2>2. ASSUME NEW m \in Listener \ SyncListener, NEW h \in Handler
        PROVE  LooksOnce(h, m)'
    <3>1. LooksOnce(h, m) /\ TodoOf(h)
      BY DEF EventInv, OnceInv, TodoInv, Occurrence
    <3> QED
      BY <1>1, <3>1 DEF LooksOnce, TodoOf, history
  <2> QED
    BY <2>1, <2>2 DEF OnceInv
<1>8. SeenInv'
  <2>1. ASSUME NEW m \in Listener, NEW h \in Handler
        PROVE  Sees(h, m)'
    <3>1. Sees(h, m) /\ (h \in active <=> Running(h))
      BY DEF EventInv, SeenInv, ListsInv
    <3> QED
      BY <1>1, <3>1 DEF Sees, Running, history
  <2> QED
    BY <2>1 DEF SeenInv
<1>9. LeaveInv'
  BY <1>1 DEF EventInv, LeaveInv, LeavesLater, LeavesNext, history
<1> QED
  BY <1>1, <1>3, <1>4, <1>5, <1>6, <1>7, <1>8, <1>9 DEF EventInv

LEMMA OnEventNextKept ==
  ASSUME EventInv, NEW l \in Listener, OnEventNext(l)
  PROVE  EventInv'
<1>1. PICK h \in active \ sub[l].done, match \in BOOLEAN :
         /\ TypeOK'
         /\ h \in Handler /\ current \in {None, l}
         /\ current' = None \/ current' = l
         /\ l \notin SyncListener => current' = l
         /\ sub[l].state = "loop" /\ TagsOf[l] \cap frozenTag = {}
         /\ sub'[l].state = "loop" /\ sub'[l].all = sub[l].all
         /\ sub'[l].done = sub[l].done \cup {h}
         /\ \A m \in Listener \ {l} : sub'[m] = sub[m]
         /\ \A p \in Occurrence : occ'[p].state = occ[p].state /\ occ'[p].todo = occ[p].todo
         /\ \A p \in Occurrence \ {h} : occ'[p] = occ[p]
         /\ occ'[h].stop_jobs = StopJobs(h, l, match)
         /\ TriggerJob(h, l, match, l, l \in SyncListener)
         /\ UNCHANGED <<listeners, frozen, frozenTag, active, waiters, wait>>
  BY OnEventNextFacts DEF EventInv
<1>2. h \in Occurrence /\ h \notin Emission
  BY <1>1, Kinds
<1>3. /\ seen'[h][l] = seen[h][l] + 1
      /\ match => entered'[h][l] = entered[h][l] + 1
      /\ ~match => entered'[h][l] = entered[h][l]
      /\ left'[h][l] = left[h][l]
      /\ \A p \in Occurrence, m \in Listener : p # h \/ m # l =>
           /\ seen'[p][m] = seen[p][m] /\ entered'[p][m] = entered[p][m]
           /\ left'[p][m] = left[p][m]
  <2> DEFINE c == l \in SyncListener
  <2>1. c \in BOOLEAN /\ TriggerJob(h, l, match, l, c)
    BY <1>1
  <2> HIDE DEF c
  <2> QED
    BY <2>1, <1>2, TriggerJobFacts DEF EventInv
<1>4. \A p \in Occurrence, m \in Listener : seen[p][m] \in Nat
  BY DEF EventInv, TypeOK
<1>5. WaitersAreLive' /\ ListsInv' /\ FreezeInv' /\ TodoInv'
  <2>1. WaitersAreLive'
    BY <1>1 DEF EventInv, WaitersAreLive
  <2>2. \A m \in Listener : sub'[m].state = sub[m].state
    BY <1>1
  <2>3. ListsInv'
    BY <1>1, <2>2, Kinds DEF EventInv, ListsInv, Subscribed, Running
  <2>4. FreezeInv'
    BY <1>1, <2>2 DEF EventInv, FreezeInv, Subscribed
  <2>5. TodoInv'
    <3>1. \A p \in Occurrence : Elements(occ[p].todo) \subseteq Listener
      BY OccTypes, ElementsFacts DEF EventInv
    <3> QED
      BY <1>1, <2>2, <3>1 DEF EventInv, TodoInv, TodoOf
  <2> QED
    BY <2>1, <2>3, <2>4, <2>5
<1>6. OnceInv'
  <2>1. ASSUME NEW m \in Listener \ SyncListener
        PROVE  sub'[m].state = "loop" => current' = m
    BY <1>1, Kinds DEF EventInv, OnceInv
  <2>2. ASSUME NEW m \in Listener \ SyncListener, NEW g \in Handler
        PROVE  LooksOnce(g, m)'
    <3>1. LooksOnce(g, m) /\ (g \in active <=> Running(g)) /\ g \in Occurrence
      BY Kinds DEF EventInv, OnceInv, ListsInv
    <3>2. CASE m = l /\ g = h
      <4>1. seen[h][l] = 0 /\ seen'[h][l] = 1 /\ occ[h].state # "none"
        BY <1>1, <1>3, <3>1, <3>2 DEF LooksOnce, Running
      <4> QED
        BY <1>1, <1>2, <3>1, <3>2, <4>1 DEF LooksOnce
    <3>3. CASE m # l \/ g # h
      <4>1. seen'[g][m] = seen[g][m]
        BY <1>3, <3>1, <3>3
      <4>2. /\ sub'[m].state = sub[m].state /\ sub[m].done \subseteq sub'[m].done
            /\ occ'[g].state = occ[g].state /\ occ'[g].todo = occ[g].todo /\ active' = active
        BY <1>1, <3>1
      <4> QED
        BY <3>1, <4>1, <4>2 DEF LooksOnce
    <3> QED
      BY <3>2, <3>3
  <2> QED
    BY <2>1, <2>2 DEF OnceInv
<1>7. SeenInv'
  <2>1. ASSUME NEW m \in Listener, NEW g \in Handler
        PROVE  Sees(g, m)'
    <3>1. Sees(g, m) /\ g \in Occurrence
      BY Kinds DEF EventInv, SeenInv
    <3>2. /\ sub'[m].state = sub[m].state /\ sub'[m].all = sub[m].all
          /\ occ'[g].state = occ[g].state /\ occ'[g].todo = occ[g].todo
      BY <1>1, <3>1
    <3>3. CASE m = l /\ g = h
      <4>1. seen'[g][m] >= 1
        BY <1>2, <1>3, <1>4, <3>3
      <4> QED
        BY <4>1 DEF Sees
    <3>4. CASE m # l \/ g # h
      <4>1. seen'[g][m] = seen[g][m] /\ (g \in sub'[m].done => g \in sub[m].done)
        BY <1>1, <1>3, <3>1, <3>4
      <4> QED
        BY <3>1, <3>2, <4>1 DEF Sees
    <3> QED
      BY <3>3, <3>4
  <2> QED
    BY <2>1 DEF SeenInv
<1>8. LeaveInv'
  <2>1. ASSUME NEW m \in Listener, NEW g \in Handler
        PROVE  LeavesLater(g, m)'
    <3>1. LeavesLater(g, m) /\ g \in Occurrence /\ occ'[g].state = occ[g].state
      BY <1>1, Kinds DEF EventInv, LeaveInv
    <3>2. /\ Count(occ[h].stop_jobs, l) \in Nat
          /\ match => Count(occ'[h].stop_jobs, l) = Count(occ[h].stop_jobs, l) + 1
          /\ ~match => Count(occ'[h].stop_jobs, l) = Count(occ[h].stop_jobs, l)
          /\ \A n \in Listener : n # l =>
               Count(occ'[h].stop_jobs, n) = Count(occ[h].stop_jobs, n)
      BY <1>1, <1>2, StopJobsFacts DEF EventInv
    <3>3. g # h => occ'[g] = occ[g]
      BY <1>1, <3>1
    <3>4. h \in active /\ (h \in active <=> Running(h))
      BY <1>1 DEF EventInv, ListsInv
    <3>5. CASE m = l /\ g = h
      BY <1>3, <3>1, <3>2, <3>4, <3>5 DEF LeavesLater, Running
    <3>6. CASE m # l \/ g # h
      <4>1. left'[g][m] = left[g][m] /\ entered'[g][m] = entered[g][m]
        BY <1>3, <3>1, <3>6
      <4>2. Count(occ'[g].stop_jobs, m) = Count(occ[g].stop_jobs, m)
        BY <3>2, <3>3, <3>6
      <4> QED
        BY <3>1, <4>1, <4>2 DEF LeavesLater
    <3> QED
      BY <3>5, <3>6
  <2>2. ASSUME NEW m \in Listener, NEW e \in Emission
        PROVE  LeavesNext(e, m)'
    <3>1. LeavesNext(e, m) /\ e \in Occurrence /\ e # h
      BY <1>2, Kinds DEF EventInv, LeaveInv
    <3> QED
      BY <1>1, <1>3, <3>1 DEF LeavesNext
  <2> QED
    BY <2>1, <2>2 DEF LeaveInv
<1> QED
  BY <1>1, <1>5, <1>6, <1>7, <1>8 DEF EventInv

LEMMA OnEventEndKept ==
  ASSUME EventInv, NEW l \in Listener, OnEventEnd(l)
  PROVE  EventInv'
<1>1. /\ TypeOK'
      /\ current \in {None, l} /\ current' = None
      /\ sub[l].state = "loop" /\ sub[l].all \cap active \subseteq sub[l].done
      /\ sub'[l].state = "in"
      /\ \A m \in Listener \ {l} : sub'[m] = sub[m]
      /\ UNCHANGED <<listeners, frozen, frozenTag, active, occ, waiters, wait, history>>
  BY OnEventEndFacts DEF EventInv
<1>2. WaitersAreLive' /\ FreezeInv'
  BY <1>1 DEF EventInv, WaitersAreLive, FreezeInv, Subscribed
<1>3. ListsInv'
  BY <1>1 DEF EventInv, ListsInv, Subscribed, Running
<1>4. TodoInv'
  <2>1. \A m \in Listener : sub[m].state # "none" => sub'[m].state # "none"
    BY <1>1
  <2>2. \A p \in Occurrence : Elements(occ[p].todo) \subseteq Listener
    BY OccTypes, ElementsFacts DEF EventInv
  <2> QED
    BY <1>1, <2>1, <2>2 DEF EventInv, TodoInv, TodoOf
<1>5. OnceInv'
  <2>1. ASSUME NEW m \in Listener \ SyncListener
        PROVE  sub'[m].state = "loop" => current' = m
    BY <1>1, Kinds DEF EventInv, OnceInv
  <2>2. ASSUME NEW m \in Listener \ SyncListener, NEW h \in Handler
        PROVE  LooksOnce(h, m)'
    <3>1. LooksOnce(h, m)
      BY DEF EventInv, OnceInv
    <3> QED
      BY <1>1, <3>1 DEF LooksOnce, history
  <2> QED
    BY <2>1, <2>2 DEF OnceInv
<1>6. SeenInv'
  <2>1. ASSUME NEW m \in Listener, NEW h \in Handler
        PROVE  Sees(h, m)'
    <3>1. Sees(h, m) /\ (h \in active <=> Running(h))
      BY DEF EventInv, SeenInv, ListsInv
    <3> QED
      BY <1>1, <3>1 DEF Sees, Running, history
  <2> QED
    BY <2>1 DEF SeenInv
<1>7. LeaveInv'
  BY <1>1 DEF EventInv, LeaveInv, LeavesLater, LeavesNext, history
<1> QED
  BY <1>1, <1>2, <1>3, <1>4, <1>5, <1>6, <1>7 DEF EventInv

(* The steps of an occurrence o leave the listeners alone.  While it has the  *)
(* processor, or takes it, no asynchronous listener is in the loop of onEvent. *)
LEMMA NoLoop ==
  ASSUME EventInv, NEW o \in Occurrence, current \in {None, o}
  PROVE  \A l \in Listener \ SyncListener : sub[l].state # "loop"
BY Kinds DEF EventInv, OnceInv

(* The invariants on the lists and the tags, when the record of o changes. *)
LEMMA OccStepKept ==
  ASSUME EventInv, NEW o \in Occurrence, NEW a, NEW q, NEW s, OccStep(o, a, q, s),
         UNCHANGED <<listeners, frozen, frozenTag, sub>>,
         o \in Handler => (o \in active' <=> a \in {"trigger", "ready", "stopping"}),
         \A h \in Handler \ {o} : h \in active' <=> h \in active
  PROVE  ListsInv' /\ FreezeInv'
<1>1. FreezeInv'
  BY DEF EventInv, FreezeInv, Subscribed
<1>2. ASSUME NEW h \in Handler
      PROVE  h \in active' <=> Running(h)'
  BY Kinds DEF EventInv, ListsInv, OccStep, Running
<1>3. ListsInv'
  BY <1>2 DEF EventInv, ListsInv, Subscribed
<1> QED
  BY <1>1, <1>3

LEMMA TriggerKept ==
  ASSUME EventInv, NEW o \in Occurrence, Trigger(o)
  PROVE  EventInv'
<1>1. /\ TypeOK' /\ current = None /\ current' = o
      /\ occ[o].state = "none" /\ OccStep(o, "trigger", listeners, occ[o].stop_jobs)
      /\ active' = IF o \in Handler THEN active \cup {o} ELSE active
      /\ Release
      /\ UNCHANGED <<listeners, frozen, frozenTag, sub, history>>
  BY TriggerFacts DEF EventInv
<1>2. /\ occ'[o].state = "trigger" /\ occ'[o].todo = listeners
      /\ occ'[o].stop_jobs = occ[o].stop_jobs
      /\ \A p \in Occurrence \ {o} : occ'[p] = occ[p]
  BY <1>1 DEF OccStep
<1>3. WaitersAreLive'
  BY <1>1, ReleaseFacts DEF EventInv
<1>4. ListsInv' /\ FreezeInv'
  BY <1>1, OccStepKept
<1>5. /\ \A l \in Listener : l \in Elements(listeners) <=> Subscribed(l)
      /\ Distinct(listeners) /\ Elements(listeners) \subseteq Listener
  BY ElementsFacts DEF EventInv, ListsInv, TypeOK
<1>6. TodoInv'
  <2>1. ASSUME NEW p \in Occurrence PROVE TodoOf(p)'
    <3>1. TodoOf(p)
      BY DEF EventInv, TodoInv
    <3>2. CASE p = o
      BY <1>1, <1>2, <1>5, <3>2 DEF TodoOf, Subscribed
    <3>3. CASE p # o
      BY <1>1, <1>2, <3>1, <3>3 DEF TodoOf
    <3> QED
      BY <3>2, <3>3
  <2> QED
    BY <2>1 DEF TodoInv
<1>7. OnceInv'
  <2>1. ASSUME NEW m \in Listener \ SyncListener
        PROVE  sub'[m].state # "loop"
    BY <1>1, NoLoop
  <2>2. ASSUME NEW m \in Listener \ SyncListener, NEW h \in Handler
        PROVE  LooksOnce(h, m)'
    <3>1. LooksOnce(h, m) /\ h \in Occurrence
      BY Kinds DEF EventInv, OnceInv
    <3>2. CASE h = o
      BY <1>1, <1>2, <2>1, <3>1, <3>2 DEF LooksOnce, history
    <3>3. CASE h # o
      BY <1>1, <1>2, <2>1, <3>1, <3>3 DEF LooksOnce, history
    <3> QED
      BY <3>2, <3>3
  <2> QED
    BY <2>1, <2>2 DEF OnceInv
<1>8. SeenInv'
  <2>1. ASSUME NEW m \in Listener, NEW h \in Handler
        PROVE  Sees(h, m)'
    <3>1. Sees(h, m) /\ h \in Occurrence
      BY Kinds DEF EventInv, SeenInv
    <3>2. CASE h = o
      BY <1>1, <1>2, <1>5, <3>1, <3>2 DEF Sees, Subscribed, history
    <3>3. CASE h # o
      BY <1>1, <1>2, <3>1, <3>3 DEF Sees, history
    <3> QED
      BY <3>2, <3>3
  <2> QED
    BY <2>1 DEF SeenInv
<1>9. LeaveInv'
  <2>1. ASSUME NEW m \in Listener, NEW h \in Handler
        PROVE  LeavesLater(h, m)'
    <3>1. LeavesLater(h, m) /\ h \in Occurrence
      BY Kinds DEF EventInv, LeaveInv
    <3>2. CASE h = o
      BY <1>1, <1>2, <3>1, <3>2 DEF LeavesLater, history
    <3>3. CASE h # o
      BY <1>1, <1>2, <3>1, <3>3 DEF LeavesLater, history
    <3> QED
      BY <3>2, <3>3
  <2>2. ASSUME NEW m \in Listener, NEW e \in Emission
        PROVE  LeavesNext(e, m)'
    <3>1. LeavesNext(e, m) /\ e \in Occurrence
      BY Kinds DEF EventInv, LeaveInv
    <3> QED
      BY <1>1, <1>2, <3>1 DEF LeavesNext, history
  <2> QED
    BY <2>1, <2>2 DEF LeaveInv
<1> QED
  BY <1>1, <1>3, <1>4, <1>6, <1>7, <1>8, <1>9 DEF EventInv

LEMMA TriggerEndKept ==
  ASSUME EventInv, NEW o \in Occurrence, TriggerEnd(o)
  PROVE  EventInv'
<1>1. /\ TypeOK' /\ current \in {None, o} /\ current' = None
      /\ occ[o].state = "trigger" /\ occ[o].todo = << >>
      /\ OccStep(o, "ready", << >>, occ[o].stop_jobs)
      /\ UNCHANGED <<listeners, frozen, frozenTag, active, sub, waiters, wait, history>>
  BY TriggerEndFacts DEF EventInv
<1>2. /\ occ'[o].state = "ready" /\ occ'[o].stop_jobs = occ[o].stop_jobs
      /\ \A p \in Occurrence \ {o} : occ'[p] = occ[p]
  BY <1>1 DEF OccStep
<1>3. WaitersAreLive'
  BY <1>1 DEF EventInv, WaitersAreLive
<1>4. ListsInv' /\ FreezeInv'
  <2>1. o \in Handler => o \in active
    BY <1>1 DEF EventInv, ListsInv, Running
  <2> QED
    BY <1>1, <2>1, OccStepKept
<1>5. TodoInv'
  <2>1. ASSUME NEW p \in Occurrence PROVE TodoOf(p)'
    <3>1. TodoOf(p)
      BY DEF EventInv, TodoInv
    <3>2. CASE p = o
      BY <1>1, <1>2, <3>2 DEF TodoOf
    <3>3. CASE p # o
      BY <1>1, <1>2, <3>1, <3>3 DEF TodoOf
    <3> QED
      BY <3>2, <3>3
  <2> QED
    BY <2>1 DEF TodoInv
<1>6. OnceInv'
  <2>1. ASSUME NEW m \in Listener \ SyncListener
        PROVE  sub'[m].state # "loop"
    BY <1>1, NoLoop
  <2>2. ASSUME NEW m \in Listener \ SyncListener, NEW h \in Handler
        PROVE  LooksOnce(h, m)'
    <3>1. LooksOnce(h, m) /\ h \in Occurrence
      BY Kinds DEF EventInv, OnceInv
    <3> QED
      BY <1>1, <1>2, <2>1, <3>1 DEF LooksOnce, history
  <2> QED
    BY <2>1, <2>2 DEF OnceInv
<1>7. SeenInv'
  <2>1. ASSUME NEW m \in Listener, NEW h \in Handler
        PROVE  Sees(h, m)'
    <3>1. Sees(h, m) /\ h \in Occurrence
      BY Kinds DEF EventInv, SeenInv
    <3>2. Elements(<< >>) = {}
      BY EmptyFacts
    <3>3. CASE h = o
      BY <1>1, <1>2, <3>1, <3>2, <3>3 DEF Sees, history
    <3>4. CASE h # o
      BY <1>1, <1>2, <3>1, <3>4 DEF Sees, history
    <3> QED
      BY <3>3, <3>4
  <2> QED
    BY <2>1 DEF SeenInv
<1>8. LeaveInv'
  <2>1. ASSUME NEW m \in Listener, NEW h \in Handler
        PROVE  LeavesLater(h, m)'
    <3>1. LeavesLater(h, m) /\ h \in Occurrence
      BY Kinds DEF EventInv, LeaveInv
    <3> QED
      BY <1>1, <1>2, <3>1 DEF LeavesLater, history
  <2>2. ASSUME NEW m \in Listener, NEW e \in Emission
        PROVE  LeavesNext(e, m)'
    <3>1. LeavesNext(e, m) /\ e \in Occurrence
      BY Kinds DEF EventInv, LeaveInv
    <3> QED
      BY <1>1, <1>2, <3>1 DEF LeavesNext, history
  <2> QED
    BY <2>1, <2>2 DEF LeaveInv
<1> QED
  BY <1>1, <1>3, <1>4, <1>5, <1>6, <1>7, <1>8 DEF EventInv

LEMMA TriggerNextKept ==
  ASSUME EventInv, NEW o \in Occurrence, TriggerNext(o)
  PROVE  EventInv'
<1>1. PICK match \in BOOLEAN, c \in BOOLEAN, l \in Listener :
         /\ TypeOK' /\ current \in {None, o}
         /\ occ[o].state = "trigger" /\ occ[o].todo # << >> /\ l = Head(occ[o].todo)
         /\ TriggerJob(o, l, match, o, c)
         /\ \/ match /\ o \in Emission /\ c
               /\ OccStep(o, "leave", occ[o].todo, occ[o].stop_jobs)
            \/ ~(match /\ o \in Emission /\ c)
               /\ OccStep(o, "trigger", Tail(occ[o].todo), StopJobs(o, l, match))
         /\ UNCHANGED <<listeners, frozen, frozenTag, active, sub, waiters, wait>>
  BY TriggerNextFacts DEF EventInv
<1>2. /\ seen'[o][l] = seen[o][l] + 1
      /\ match => entered'[o][l] = entered[o][l] + 1
      /\ ~match => entered'[o][l] = entered[o][l]
      /\ match /\ o \in Emission /\ ~c => left'[o][l] = left[o][l] + 1
      /\ ~(match /\ o \in Emission /\ ~c) => left'[o][l] = left[o][l]
      /\ \A p \in Occurrence, m \in Listener : p # o \/ m # l =>
           /\ seen'[p][m] = seen[p][m] /\ entered'[p][m] = entered[p][m]
           /\ left'[p][m] = left[p][m]
  BY <1>1, TriggerJobFacts DEF EventInv
<1>3. /\ occ[o].todo \in Seq(Listener) /\ Tail(occ[o].todo) \in Seq(Listener)
      /\ Elements(occ[o].todo) = {l} \cup Elements(Tail(occ[o].todo))
      /\ Distinct(occ[o].todo)
      /\ Distinct(Tail(occ[o].todo)) /\ l \notin Elements(Tail(occ[o].todo))
      /\ TodoOf(o)
  <2>1. Distinct(occ[o].todo) /\ TodoOf(o)
    BY <1>1 DEF EventInv, TodoInv, TodoOf
  <2> QED
    BY <1>1, <2>1, OccTypes, TailFacts DEF EventInv
<1>4. \A p \in Occurrence \ {o} : occ'[p] = occ[p]
  BY <1>1 DEF OccStep
<1>6. /\ o \in Handler => /\ occ'[o].state = "trigger" /\ occ'[o].todo = Tail(occ[o].todo)
                          /\ occ'[o].stop_jobs = StopJobs(o, l, match)
      /\ \/ match /\ o \in Emission /\ c
            /\ occ'[o].state = "leave" /\ occ'[o].todo = occ[o].todo
         \/ ~(match /\ o \in Emission /\ c)
            /\ occ'[o].state = "trigger" /\ occ'[o].todo = Tail(occ[o].todo)
  BY <1>1, Kinds DEF OccStep
<1>7. WaitersAreLive'
  BY <1>1 DEF EventInv, WaitersAreLive
<1>8. ListsInv' /\ FreezeInv'
  <2>1. o \in Handler => o \in active
    BY <1>1 DEF EventInv, ListsInv, Running
  <2>2. ~(match /\ o \in Emission /\ c) =>
          OccStep(o, "trigger", Tail(occ[o].todo), StopJobs(o, l, match))
    BY <1>1
  <2>3. match /\ o \in Emission /\ c => OccStep(o, "leave", occ[o].todo, occ[o].stop_jobs)
    BY <1>1
  <2>4. o \in Emission => o \notin Handler
    BY Kinds
  <2>5. CASE match /\ o \in Emission /\ c
    BY <1>1, <2>1, <2>3, <2>4, <2>5, OccStepKept
  <2>6. CASE ~(match /\ o \in Emission /\ c)
    BY <1>1, <2>1, <2>2, <2>6, OccStepKept
  <2> QED
    BY <2>5, <2>6
<1>9. TodoInv'
  <2>1. ASSUME NEW p \in Occurrence PROVE TodoOf(p)'
    <3>1. TodoOf(p)
      BY DEF EventInv, TodoInv
    <3>2. CASE p = o
      BY <1>1, <1>3, <1>6, <3>2, Kinds DEF TodoOf
    <3>3. CASE p # o
      BY <1>1, <1>4, <3>1, <3>3 DEF TodoOf
    <3> QED
      BY <3>2, <3>3
  <2> QED
    BY <2>1 DEF TodoInv
<1>10. OnceInv'
  <2>1. ASSUME NEW m \in Listener \ SyncListener
        PROVE  sub'[m].state # "loop"
    BY <1>1, NoLoop
  <2>2. ASSUME NEW m \in Listener \ SyncListener, NEW h \in Handler
        PROVE  LooksOnce(h, m)'
    <3>1. LooksOnce(h, m) /\ h \in Occurrence
      BY Kinds DEF EventInv, OnceInv
    <3>2. CASE h = o
      <4>1. CASE m = l
        <5>1. seen[h][m] = 0 /\ seen'[h][m] = 1 /\ sub[m].state # "none"
          BY <1>1, <1>2, <1>3, <3>1, <3>2, <4>1 DEF LooksOnce, TodoOf
        <5> QED
          BY <1>1, <1>3, <1>6, <2>1, <3>2, <4>1, <5>1 DEF LooksOnce
      <4>2. CASE m # l
        <5>1. seen'[h][m] = seen[h][m]
          BY <1>2, <3>1, <4>2
        <5> QED
          BY <1>1, <1>3, <1>6, <2>1, <3>1, <3>2, <4>2, <5>1 DEF LooksOnce
      <4> QED
        BY <4>1, <4>2
    <3>3. CASE h # o
      <4>1. seen'[h][m] = seen[h][m]
        BY <1>2, <3>1, <3>3
      <4> QED
        BY <1>1, <1>4, <2>1, <3>1, <3>3, <4>1 DEF LooksOnce
    <3> QED
      BY <3>2, <3>3
  <2> QED
    BY <2>1, <2>2 DEF OnceInv
<1>11. SeenInv'
  <2>1. ASSUME NEW m \in Listener, NEW h \in Handler
        PROVE  Sees(h, m)'
    <3>1. Sees(h, m) /\ h \in Occurrence /\ seen[h][m] \in Nat
      BY Kinds DEF EventInv, SeenInv, TypeOK
    <3>2. CASE h = o /\ m = l
      <4>1. seen'[h][m] >= 1
        BY <1>2, <3>1, <3>2
      <4> QED
        BY <4>1 DEF Sees
    <3>3. CASE h = o /\ m # l
      <4>1. seen'[h][m] = seen[h][m]
        BY <1>2, <3>1, <3>3
      <4> QED
        BY <1>1, <1>3, <1>6, <3>1, <3>3, <4>1 DEF Sees
    <3>4. CASE h # o
      <4>1. seen'[h][m] = seen[h][m]
        BY <1>2, <3>1, <3>4
      <4> QED
        BY <1>1, <1>4, <3>1, <3>4, <4>1 DEF Sees
    <3> QED
      BY <3>2, <3>3, <3>4
  <2> QED
    BY <2>1 DEF SeenInv
<1>12. LeaveInv'
  <2>1. ASSUME NEW m \in Listener, NEW h \in Handler
        PROVE  LeavesLater(h, m)'
    <3>1. LeavesLater(h, m) /\ h \in Occurrence /\ h \notin Emission
      BY Kinds DEF EventInv, LeaveInv
    <3>2. CASE h = o
      <4>1. /\ Count(occ[o].stop_jobs, m) \in Nat
            /\ match /\ m = l => Count(occ'[o].stop_jobs, m) = Count(occ[o].stop_jobs, m) + 1
            /\ ~match \/ m # l => Count(occ'[o].stop_jobs, m) = Count(occ[o].stop_jobs, m)
        BY <1>6, <3>2, StopJobsFacts DEF EventInv
      <4>2. left'[o][m] = left[o][m]
        BY <1>2, <3>1, <3>2
      <4>3. entered'[o][m] = IF match /\ m = l THEN entered[o][m] + 1 ELSE entered[o][m]
        BY <1>2
      <4> QED
        BY <1>1, <1>6, <3>1, <3>2, <4>1, <4>2, <4>3 DEF LeavesLater
    <3>3. CASE h # o
      <4>1. left'[h][m] = left[h][m] /\ entered'[h][m] = entered[h][m]
        BY <1>2, <3>1, <3>3
      <4> QED
        BY <1>4, <3>1, <3>3, <4>1 DEF LeavesLater
    <3> QED
      BY <3>2, <3>3
  <2>2. ASSUME NEW m \in Listener, NEW e \in Emission
        PROVE  LeavesNext(e, m)'
    <3>1. LeavesNext(e, m) /\ e \in Occurrence
      BY Kinds DEF EventInv, LeaveInv
    <3>2. CASE e = o /\ m = l
      <4>1. entered[e][m] = left[e][m] /\ left[e][m] \in Nat
        <5>1. left[e][m] \in Nat
          BY <3>1 DEF EventInv, TypeOK
        <5> QED
          BY <1>1, <3>1, <3>2, <5>1 DEF LeavesNext
      <4> QED
        BY <1>1, <1>2, <1>6, <3>2, <4>1 DEF LeavesNext
    <3>3. CASE e = o /\ m # l
      <4>1. left'[e][m] = left[e][m] /\ entered'[e][m] = entered[e][m]
        BY <1>2, <3>1, <3>3
      <4> QED
        BY <1>1, <1>6, <3>1, <3>3, <4>1 DEF LeavesNext
    <3>4. CASE e # o
      <4>1. left'[e][m] = left[e][m] /\ entered'[e][m] = entered[e][m]
        BY <1>2, <3>1, <3>4
      <4> QED
        BY <1>4, <3>1, <3>4, <4>1 DEF LeavesNext
    <3> QED
      BY <3>2, <3>3, <3>4
  <2> QED
    BY <2>1, <2>2 DEF LeaveInv
<1> QED
  BY <1>1, <1>7, <1>8, <1>9, <1>10, <1>11, <1>12 DEF EventInv

LEMMA EmitLeaveKept ==
  ASSUME EventInv, NEW o \in Emission, EmitLeave(o)
  PROVE  EventInv'
<1>1. TodoOf(o) /\ o \in Occurrence /\ o \notin Handler /\ occ[o].state = "leave"
  BY Kinds DEF EventInv, TodoInv, EmitLeave
<1>2. occ[o].todo # << >>
  BY <1>1 DEF TodoOf
<1> DEFINE l == Head(occ[o].todo)
<1>3. /\ TypeOK' /\ current \in {None, o} /\ current' = None
      /\ OccStep(o, "trigger", Tail(occ[o].todo), occ[o].stop_jobs)
      /\ l \in Listener /\ left'[o][l] = left[o][l] + 1
      /\ \A p \in Occurrence, m \in Listener : p # o \/ m # l => left'[p][m] = left[p][m]
      /\ UNCHANGED <<listeners, frozen, frozenTag, active, sub, waiters, wait, seen, entered>>
  BY <1>2, EmitLeaveFacts DEF EventInv
<1>4. /\ Distinct(Tail(occ[o].todo))
      /\ Elements(Tail(occ[o].todo)) \subseteq Elements(occ[o].todo)
  <2>1. Distinct(occ[o].todo)
    BY <1>1 DEF TodoOf
  <2> QED
    BY <1>1, <1>2, <2>1, OccTypes, TailFacts DEF EventInv
<1>5. /\ occ'[o].state = "trigger" /\ occ'[o].todo = Tail(occ[o].todo)
      /\ \A p \in Occurrence \ {o} : occ'[p] = occ[p]
  BY <1>3 DEF OccStep
<1> HIDE DEF l
<1>6. WaitersAreLive' /\ ListsInv' /\ FreezeInv'
  <2>1. WaitersAreLive'
    BY <1>3 DEF EventInv, WaitersAreLive
  <2> QED
    BY <1>1, <1>3, <2>1, OccStepKept
<1>7. TodoInv'
  <2>1. ASSUME NEW p \in Occurrence PROVE TodoOf(p)'
    <3>1. TodoOf(p)
      BY DEF EventInv, TodoInv
    <3>2. CASE p = o
      BY <1>1, <1>3, <1>4, <1>5, <3>2 DEF TodoOf
    <3>3. CASE p # o
      BY <1>3, <1>5, <3>1, <3>3 DEF TodoOf
    <3> QED
      BY <3>2, <3>3
  <2> QED
    BY <2>1 DEF TodoInv
<1>8. OnceInv' /\ SeenInv'
  <2>1. \A m \in Listener \ SyncListener : sub'[m].state # "loop"
    BY <1>1, <1>3, NoLoop
  <2>2. \A h \in Handler : occ'[h] = occ[h]
    BY <1>1, <1>5, Kinds
  <2>3. \A h \in Handler, m \in Listener : LooksOnce(h, m) => LooksOnce(h, m)'
    BY <1>3, <2>2 DEF LooksOnce
  <2>4. \A h \in Handler, m \in Listener : Sees(h, m) => Sees(h, m)'
    BY <1>3, <2>2 DEF Sees
  <2> QED
    BY <2>1, <2>3, <2>4 DEF EventInv, OnceInv, SeenInv
<1>9. LeaveInv'
  <2>1. ASSUME NEW m \in Listener, NEW h \in Handler
        PROVE  LeavesLater(h, m)'
    <3>1. LeavesLater(h, m) /\ h \in Occurrence /\ h # o
      BY <1>1, Kinds DEF EventInv, LeaveInv
    <3>2. left'[h][m] = left[h][m]
      BY <1>3, <3>1
    <3> QED
      BY <1>3, <1>5, <3>1, <3>2 DEF LeavesLater
  <2>2. ASSUME NEW m \in Listener, NEW e \in Emission
        PROVE  LeavesNext(e, m)'
    <3>1. LeavesNext(e, m) /\ e \in Occurrence /\ left[e][m] \in Nat
      BY Kinds DEF EventInv, LeaveInv, TypeOK
    <3>2. CASE e = o /\ m = l
      <4>1. entered[e][m] = left[e][m] + 1
        BY <1>1, <3>1, <3>2 DEF LeavesNext, l
      <4> QED
        BY <1>3, <1>5, <3>1, <3>2, <4>1 DEF LeavesNext
    <3>3. CASE e = o /\ m # l
      <4>1. left'[e][m] = left[e][m] /\ entered[e][m] = left[e][m]
        <5>1. entered[e][m] = left[e][m] + 0
          BY <3>1, <3>3 DEF LeavesNext, l
        <5> QED
          BY <1>3, <3>1, <3>3, <5>1
      <4> QED
        BY <1>3, <1>5, <3>1, <3>3, <4>1 DEF LeavesNext
    <3>4. CASE e # o
      <4>1. left'[e][m] = left[e][m]
        BY <1>3, <3>1, <3>4
      <4> QED
        BY <1>3, <1>5, <3>1, <3>4, <4>1 DEF LeavesNext
    <3> QED
      BY <3>2, <3>3, <3>4
  <2> QED
    BY <2>1, <2>2 DEF LeaveInv
<1> QED
  BY <1>3, <1>6, <1>7, <1>8, <1>9 DEF EventInv

(* The invariants of the listeners, once trigger has returned the handler o. *)
LEMMA StoppingKept ==
  ASSUME EventInv, NEW o \in Handler, NEW a \in {"stopping", "stopped"}, NEW q, NEW s,
         OccStep(o, a, q, s), current \in {None, o},
         occ[o].state # "none", active' \subseteq active,
         UNCHANGED <<listeners, frozen, frozenTag, sub, waiters, wait, seen, entered>>
  PROVE  WaitersAreLive' /\ TodoInv' /\ OnceInv' /\ SeenInv'
<1>1. /\ occ'[o].state = a /\ o \in Occurrence /\ o \notin Emission
      /\ \A p \in Occurrence \ {o} : occ'[p] = occ[p]
  BY Kinds DEF OccStep
<1>2. WaitersAreLive'
  BY DEF EventInv, WaitersAreLive
<1>3. TodoInv'
  BY <1>1 DEF EventInv, TodoInv, TodoOf
<1>4. OnceInv'
  <2>1. \A m \in Listener \ SyncListener : sub'[m].state # "loop"
    BY <1>1, NoLoop
  <2>2. ASSUME NEW m \in Listener \ SyncListener, NEW h \in Handler
        PROVE  LooksOnce(h, m)'
    <3>1. LooksOnce(h, m) /\ h \in Occurrence
      BY Kinds DEF EventInv, OnceInv
    <3> QED
      BY <1>1, <2>1, <3>1 DEF LooksOnce
  <2> QED
    BY <2>1, <2>2 DEF OnceInv
<1>5. SeenInv'
  <2>1. ASSUME NEW m \in Listener, NEW h \in Handler
        PROVE  Sees(h, m)'
    <3>1. Sees(h, m) /\ h \in Occurrence
      BY Kinds DEF EventInv, SeenInv
    <3> QED
      BY <1>1, <3>1 DEF Sees
  <2> QED
    BY <2>1 DEF SeenInv
<1> QED
  BY <1>2, <1>3, <1>4, <1>5

LEMMA StopKept ==
  ASSUME EventInv, NEW o \in Handler, Stop(o)
  PROVE  EventInv'
<1>1. /\ TypeOK' /\ current = None /\ current' = None
      /\ occ[o].state = "ready" /\ o \notin SyncOccurrence
      /\ OccStep(o, "stopped", occ[o].todo, << >>)
      /\ active' = active \ {o}
      /\ \A l \in Listener : left'[o][l] = left[o][l] + Count(occ[o].stop_jobs, l)
      /\ \A p \in Occurrence \ {o} : left'[p] = left[p]
      /\ UNCHANGED <<listeners, frozen, frozenTag, sub, waiters, wait, seen, entered>>
  BY StopFacts DEF EventInv
<1>2. o \in Occurrence /\ o \notin Emission
  BY Kinds
<1>3. WaitersAreLive' /\ TodoInv' /\ OnceInv' /\ SeenInv'
  BY <1>1, StoppingKept
<1>4. ListsInv' /\ FreezeInv'
  BY <1>1, <1>2, OccStepKept
<1>5. LeaveInv'
  <2>1. /\ occ'[o].state = "stopped" /\ \A p \in Occurrence \ {o} : occ'[p] = occ[p]
    BY <1>1 DEF OccStep
  <2>2. ASSUME NEW m \in Listener, NEW h \in Handler
        PROVE  LeavesLater(h, m)'
    <3>1. LeavesLater(h, m) /\ h \in Occurrence
      BY Kinds DEF EventInv, LeaveInv
    <3>2. CASE h = o
      <4>1. Count(occ[o].stop_jobs, m) \in Nat
        BY <1>2, OccTypes, CountFacts DEF EventInv
      <4>2. left[o][m] = 0 /\ entered[o][m] = Count(occ[o].stop_jobs, m)
        BY <1>1, <3>1, <3>2 DEF LeavesLater
      <4>3. left'[o][m] = entered'[o][m]
        BY <1>1, <4>1, <4>2
      <4> QED
        BY <2>1, <3>2, <4>3 DEF LeavesLater
    <3>3. CASE h # o
      BY <1>1, <2>1, <3>1, <3>3 DEF LeavesLater
    <3> QED
      BY <3>2, <3>3
  <2>3. ASSUME NEW m \in Listener, NEW e \in Emission
        PROVE  LeavesNext(e, m)'
    <3>1. LeavesNext(e, m) /\ e \in Occurrence /\ e # o
      BY <1>2, Kinds DEF EventInv, LeaveInv
    <3> QED
      BY <1>1, <2>1, <3>1 DEF LeavesNext
  <2> QED
    BY <2>2, <2>3 DEF LeaveInv
<1> QED
  BY <1>1, <1>3, <1>4, <1>5 DEF EventInv

(* The leave parts of a synchronous handler are not counted. *)
LEMMA SyncStopsKept ==
  ASSUME EventInv, NEW o \in Handler, o \in SyncOccurrence,
         NEW a \in {"stopping", "stopped"}, NEW q, NEW s, OccStep(o, a, q, s),
         \A p \in Occurrence \ {o}, m \in Listener : left'[p][m] = left[p][m],
         UNCHANGED entered
  PROVE  LeaveInv'
<1>1. /\ occ'[o].state = a /\ o \in Occurrence /\ o \notin Emission
      /\ \A p \in Occurrence \ {o} : occ'[p] = occ[p]
  BY Kinds DEF OccStep
<1>2. ASSUME NEW m \in Listener, NEW h \in Handler
      PROVE  LeavesLater(h, m)'
  <2>1. LeavesLater(h, m) /\ h \in Occurrence
    BY Kinds DEF EventInv, LeaveInv
  <2>2. CASE h = o
    BY <1>1, <2>2 DEF LeavesLater
  <2>3. CASE h # o
    BY <1>1, <2>1, <2>3 DEF LeavesLater
  <2> QED
    BY <2>2, <2>3
<1>3. ASSUME NEW m \in Listener, NEW e \in Emission
      PROVE  LeavesNext(e, m)'
  <2>1. LeavesNext(e, m) /\ e \in Occurrence /\ e # o
    BY <1>1, Kinds DEF EventInv, LeaveInv
  <2> QED
    BY <1>1, <2>1 DEF LeavesNext
<1> QED
  BY <1>2, <1>3 DEF LeaveInv

LEMMA SyncStopKept ==
  ASSUME EventInv, NEW o \in Handler, SyncStop(o)
  PROVE  EventInv'
<1>1. /\ TypeOK' /\ current = None /\ current' = o
      /\ occ[o].state = "ready" /\ o \in SyncOccurrence
      /\ OccStep(o, "stopping", occ[o].stop_jobs, occ[o].stop_jobs)
      /\ UNCHANGED <<listeners, frozen, frozenTag, active, sub, waiters, wait, history>>
  BY SyncStopFacts DEF EventInv
<1>2. o \in Occurrence /\ o \in active
  BY <1>1, Kinds DEF EventInv, ListsInv, Running
<1>3. UNCHANGED <<seen, entered, left>>
  BY <1>1 DEF history
<1>4. WaitersAreLive' /\ TodoInv' /\ OnceInv' /\ SeenInv'
  BY <1>1, <1>3, StoppingKept
<1>5. ListsInv' /\ FreezeInv'
  BY <1>1, <1>2, OccStepKept
<1>6. LeaveInv'
  BY <1>1, <1>3, SyncStopsKept
<1> QED
  BY <1>1, <1>4, <1>5, <1>6 DEF EventInv

LEMMA SyncStopNextKept ==
  ASSUME EventInv, NEW o \in Handler, SyncStopNext(o)
  PROVE  EventInv'
<1>1. /\ TypeOK' /\ current \in {None, o} /\ current' = None
      /\ occ[o].state = "stopping"
      /\ OccStep(o, "stopping", Tail(occ[o].todo), occ[o].stop_jobs)
      /\ \A p \in Occurrence \ {o}, m \in Listener : left'[p][m] = left[p][m]
      /\ UNCHANGED <<listeners, frozen, frozenTag, active, sub, waiters, wait, seen, entered>>
  BY SyncStopNextFacts DEF EventInv
<1>2. o \in Occurrence /\ o \in active
  BY <1>1, Kinds DEF EventInv, ListsInv, Running
<1>3. o \in SyncOccurrence
  <2>1. Listener = {} \/ \E l \in Listener : LeavesLater(o, l)
    BY DEF EventInv, LeaveInv
  <2>2. CASE Listener = {}
    BY <2>2, <1>1, <1>2, OccTypes, TailFacts DEF EventInv, SyncStopNext
  <2> QED
    BY <1>1, <2>1, <2>2 DEF LeavesLater
<1>4. WaitersAreLive' /\ TodoInv' /\ OnceInv' /\ SeenInv'
  BY <1>1, StoppingKept
<1>5. ListsInv' /\ FreezeInv'
  BY <1>1, <1>2, OccStepKept
<1>6. LeaveInv'
  BY <1>1, <1>3, SyncStopsKept
<1> QED
  BY <1>1, <1>4, <1>5, <1>6 DEF EventInv

LEMMA SyncStopEndKept ==
  ASSUME EventInv, NEW o \in Handler, SyncStopEnd(o)
  PROVE  EventInv'
<1>1. /\ TypeOK' /\ current \in {None, o} /\ current' = None
      /\ occ[o].state = "stopping"
      /\ OccStep(o, "stopped", occ[o].todo, << >>)
      /\ active' = active \ {o}
      /\ UNCHANGED <<listeners, frozen, frozenTag, sub, waiters, wait, history>>
  BY SyncStopEndFacts DEF EventInv
<1>2. o \in Occurrence
  BY Kinds
<1>3. UNCHANGED <<seen, entered, left>>
  BY <1>1 DEF history
<1>4. WaitersAreLive' /\ TodoInv' /\ OnceInv' /\ SeenInv'
  BY <1>1, <1>3, StoppingKept
<1>5. ListsInv' /\ FreezeInv'
  BY <1>1, <1>2, OccStepKept
<1>6. LeaveInv'
  <2>1. CASE o \in SyncOccurrence
    BY <1>1, <1>3, <2>1, SyncStopsKept
  <2>2. CASE o \notin SyncOccurrence
    <3>1. Listener = {}
      BY <1>1, <2>2 DEF EventInv, LeaveInv, LeavesLater
    <3> QED
      BY <3>1 DEF LeaveInv
  <2> QED
    BY <2>1, <2>2
<1> QED
  BY <1>1, <1>4, <1>5, <1>6 DEF EventInv

LEMMA TagStopKept ==
  ASSUME EventInv, NEW t \in Tag, TagStop(t)
  PROVE  EventInv'
<1>1. /\ TypeOK' /\ current = None /\ current' = None
      /\ Elements(listeners') = Elements(listeners) \ Tagged(t)
      /\ Distinct(listeners) => Distinct(listeners')
      /\ \A l \in Tagged(t) : Subscribed(l) /\ sub'[l].state = "gone"
      /\ \A l \in Listener \ Tagged(t) : sub'[l] = sub[l]
      /\ WaitersAreLive => WaitersAreLive'
      /\ UNCHANGED <<frozen, frozenTag, active, occ, history>>
  BY TagStopFacts DEF EventInv
<1>2. /\ \A l \in Listener : sub'[l].state = "gone" \/ sub'[l] = sub[l]
      /\ \A l \in Listener : sub[l].state # "none" => sub'[l].state # "none"
      /\ \A l \in Listener : Subscribed(l)' <=> Subscribed(l) /\ l \notin Tagged(t)
  BY <1>1 DEF Subscribed
<1>3. WaitersAreLive'
  BY <1>1 DEF EventInv
<1>4. ListsInv'
  BY <1>1, <1>2 DEF EventInv, ListsInv, Running
<1>5. FreezeInv'
  BY <1>1, <1>2 DEF EventInv, FreezeInv, Subscribed
<1>6. TodoInv'
  <2>1. \A p \in Occurrence : Elements(occ[p].todo) \subseteq Listener
    BY OccTypes, ElementsFacts DEF EventInv
  <2> QED
    BY <1>1, <1>2, <2>1 DEF EventInv, TodoInv, TodoOf
<1>7. OnceInv'
  <2>1. ASSUME NEW m \in Listener \ SyncListener
        PROVE  sub'[m].state # "loop"
    BY <1>1, <1>2, Kinds DEF EventInv, OnceInv
  <2>2. ASSUME NEW m \in Listener \ SyncListener, NEW h \in Handler
        PROVE  LooksOnce(h, m)'
    <3>1. LooksOnce(h, m)
      BY DEF EventInv, OnceInv
    <3> QED
      BY <1>1, <1>2, <2>1, <3>1 DEF LooksOnce, history
  <2> QED
    BY <2>1, <2>2 DEF OnceInv
<1>8. SeenInv'
  BY <1>1, <1>2 DEF EventInv, SeenInv, Sees, history
<1>9. LeaveInv'
  BY <1>1 DEF EventInv, LeaveInv, LeavesLater, LeavesNext, history
<1> QED
  BY <1>1, <1>3, <1>4, <1>5, <1>6, <1>7, <1>8, <1>9 DEF EventInv

-----------------------------------------------------------------------------
(* The theorems *)

LEMMA InitEventInv == Init => EventInv
<1> SUFFICES ASSUME Init PROVE EventInv
  OBVIOUS
<1>1. TypeOK
  <2>1. /\ [state |-> "none", todo |-> << >>, stop_jobs |-> << >>] \in OccRecord
        /\ NotLooping("none") \in SubRecord
    BY EmptyFacts DEF OccRecord, SubRecord, NotLooping
  <2>2. /\ seen \in [Occurrence -> [Listener -> Nat]] /\ entered = seen /\ left = seen
    BY DEF Init
  <2>3. /\ listeners \in Seq(Listener) /\ frozen \in [Listener -> Nat]
        /\ frozenTag \subseteq Tag /\ active \subseteq Handler
        /\ waiters \subseteq Waiter
        /\ wait \in [Waiter -> {"none", "blocked", "released", "thrown", "done"}]
        /\ current = None /\ undefined \in BOOLEAN
    BY EmptyFacts DEF Init
  <2>4. occ \in [Occurrence -> OccRecord] /\ sub \in [Listener -> SubRecord]
    BY <2>1 DEF Init
  <2> QED
    BY <2>2, <2>3, <2>4 DEF TypeOK
<1>2. /\ \A h \in Occurrence : occ[h].state = "none" /\ occ[h].stop_jobs = << >>
      /\ \A h \in Occurrence, l \in Listener :
           seen[h][l] = 0 /\ entered[h][l] = 0 /\ left[h][l] = 0
  BY DEF Init
<1>3. \A l \in Listener : sub[l].state = "none" /\ frozen[l] = 0
  BY DEF Init, NotLooping
<1>4. active = {} /\ listeners = << >> /\ waiters = {} /\ \A w \in Waiter : wait[w] = "none"
  BY DEF Init
<1>5. ListsInv
  BY <1>2, <1>3, <1>4, EmptyFacts, Kinds DEF ListsInv, Subscribed, Running
<1>6. FreezeInv /\ TodoInv /\ WaitersAreLive
  BY <1>2, <1>3, <1>4 DEF FreezeInv, TodoInv, TodoOf, Subscribed, WaitersAreLive
<1>7. OnceInv /\ SeenInv
  BY <1>2, <1>3, <1>4, Kinds DEF OnceInv, LooksOnce, SeenInv, Sees
<1>8. LeaveInv
  <2>1. \A x : Count(<< >>, x) = 0
    <3>1. \A x : {i \in DOMAIN << >> : << >>[i] = x} = {}
      OBVIOUS
    <3> QED
      BY <3>1, FS_EmptySet DEF Count
  <2> QED
    BY <1>2, <2>1, Kinds DEF LeaveInv, LeavesLater, LeavesNext
<1> QED
  BY <1>1, <1>5, <1>6, <1>7, <1>8 DEF EventInv

LEMMA FreezeKept ==
  ASSUME EventInv, NEW t \in Tag, Freeze(t) \/ Unfreeze(t)
  PROVE  EventInv'
<1>1. /\ TypeOK' /\ FreezeInv'
      /\ UNCHANGED <<listeners, active, occ, sub, waiters, wait, current, history>>
  BY FreezeFacts, UnfreezeFacts DEF EventInv
<1>2. WaitersAreLive'
  BY <1>1 DEF EventInv, WaitersAreLive
<1>3. ListenInv'
  BY <1>1, Quiet DEF EventInv, ListenInv
<1> QED
  BY <1>1, <1>2, <1>3 DEF EventInv, ListenInv

LEMMA WaitKept ==
  ASSUME EventInv, NEW w \in Waiter, Waituntil(w) \/ WaituntilEnd(w)
  PROVE  EventInv'
<1>1. /\ TypeOK' /\ WaitersAreLive'
      /\ UNCHANGED <<listeners, frozen, frozenTag, active, occ, sub, current, history>>
  <2>1. CASE Waituntil(w)
    BY <2>1, WaituntilFacts DEF EventInv
  <2>2. CASE WaituntilEnd(w)
    BY <2>2, WaituntilEndFacts DEF EventInv
  <2> QED
    BY <2>1, <2>2
<1>2. FreezeInv'
  BY <1>1 DEF EventInv, FreezeInv, Subscribed
<1>3. ListenInv'
  BY <1>1, Quiet DEF EventInv, ListenInv
<1> QED
  BY <1>1, <1>2, <1>3 DEF EventInv, ListenInv

(* An iterator was lost: only the flag changes; or nothing does. *)
LEMMA UndefinedKept ==
  ASSUME EventInv, undefined' \in BOOLEAN,
         UNCHANGED <<listeners, frozen, frozenTag, active, occ, sub, waiters, wait, current,
                     history>>
  PROVE  EventInv'
<1>1. TypeOK'
  BY DEF EventInv, TypeOK, history
<1>2. WaitersAreLive' /\ FreezeInv'
  BY DEF EventInv, WaitersAreLive, FreezeInv, Subscribed
<1>3. ListenInv'
  BY Quiet DEF EventInv, ListenInv
<1> QED
  BY <1>1, <1>2, <1>3 DEF EventInv, ListenInv

LEMMA NextEventInv == EventInv /\ [Next]_vars => EventInv'
<1> SUFFICES ASSUME EventInv, [Next]_vars PROVE EventInv'
  OBVIOUS
<1>1. CASE \E l \in Listener : OnEvent(l) \/ OnEventNext(l) \/ OnEventEnd(l)
  BY <1>1, OnEventKept, OnEventNextKept, OnEventEndKept
<1>2. CASE \E l \in Listener : OnEventInvalid(l)
  BY <1>2, UndefinedKept DEF OnEventInvalid
<1>3. CASE \E o \in Occurrence : Trigger(o) \/ TriggerNext(o) \/ TriggerEnd(o)
  BY <1>3, TriggerKept, TriggerNextKept, TriggerEndKept
<1>4. CASE \E e \in Emission : EmitLeave(e)
  BY <1>4, EmitLeaveKept
<1>5. CASE \E h \in Handler : Stop(h) \/ SyncStop(h) \/ SyncStopNext(h) \/ SyncStopEnd(h)
  BY <1>5, StopKept, SyncStopKept, SyncStopNextKept, SyncStopEndKept
<1>6. CASE \E t \in Tag : Freeze(t) \/ Unfreeze(t) \/ TagStop(t)
  BY <1>6, FreezeKept, TagStopKept
<1>7. CASE \E w \in Waiter : Waituntil(w) \/ WaituntilEnd(w)
  BY <1>7, WaitKept
<1>8. CASE UNCHANGED vars
  <2>1. undefined' \in BOOLEAN
    BY <1>8 DEF EventInv, TypeOK, vars
  <2> QED
    BY <1>8, <2>1, UndefinedKept DEF vars
<1> QED
  BY <1>1, <1>2, <1>3, <1>4, <1>5, <1>6, <1>7, <1>8 DEF Next

(* The invariant of the event, from which the others follow. *)
THEOREM SpecEventInv == Spec => []EventInv
<1>1. Init => EventInv
  BY InitEventInv
<1>2. EventInv /\ [Next]_vars => EventInv'
  BY NextEventInv
<1> QED
  BY <1>1, <1>2, PTL DEF Spec

(* Type correctness; in particular the count of Event::unfreeze does not     *)
(* become negative.                                                         *)
THEOREM SpecTypeOK == Spec => []TypeOK
<1>1. EventInv => TypeOK
  BY DEF EventInv
<1> QED
  BY <1>1, SpecEventInv, PTL

(* onEvent and trigger: a handler that trigger has returned has looked at    *)
(* every subscribed listener, at an asynchronous one only once.             *)
THEOREM SpecEveryListenerOnce == Spec => []EveryListenerOnce
<1>1. EventInv => EveryListenerOnce
  <2> SUFFICES ASSUME EventInv, NEW h \in Handler, NEW l \in Listener
               PROVE  /\ l \notin SyncListener => seen[h][l] <= 1
                      /\ occ[h].state = "ready" /\ sub[l].state = "in" => seen[h][l] >= 1
    BY DEF EveryListenerOnce
  <2>1. l \notin SyncListener => LooksOnce(h, l)
    BY DEF EventInv, OnceInv
  <2>2. Sees(h, l)
    BY DEF EventInv, SeenInv
  <2> QED
    BY <2>1, <2>2 DEF LooksOnce, Sees
<1> QED
  BY <1>1, SpecEventInv, PTL

(* stop and emit: the leave parts are started as often as the enter parts,   *)
(* and not before the stop.                                                 *)
THEOREM SpecLeaveFollowsEnter == Spec => []LeaveFollowsEnter
<1>1. EventInv => LeaveFollowsEnter
  <2> SUFFICES ASSUME EventInv
               PROVE  LeaveFollowsEnter
    OBVIOUS
  <2>1. ASSUME NEW h \in Handler \ SyncOccurrence, NEW l \in Listener
        PROVE  left[h][l] = (IF occ[h].state = "stopped" THEN entered[h][l] ELSE 0)
    <3>1. LeavesLater(h, l) /\ TodoOf(h)
      BY Kinds DEF EventInv, LeaveInv, TodoInv
    <3>2. occ[h].state \in {"none", "trigger", "leave", "ready", "stopping", "stopped"}
      BY Kinds, OccTypes DEF EventInv, OccState
    <3> QED
      BY <3>1, <3>2 DEF LeavesLater, TodoOf
  <2>2. ASSUME NEW e \in Emission, NEW l \in Listener, occ[e].state # "leave"
        PROVE  left[e][l] = entered[e][l]
    <3>1. LeavesNext(e, l) /\ left[e][l] \in Nat
      BY Kinds DEF EventInv, LeaveInv, TypeOK
    <3> QED
      BY <2>2, <3>1 DEF LeavesNext
  <2> QED
    BY <2>1, <2>2 DEF LeaveFollowsEnter
<1> QED
  BY <1>1, SpecEventInv, PTL

(* freeze and unfreeze: a listener without frozen tag is not left frozen... *)
THEOREM SpecFrozenIsReleased == Spec => []FrozenIsReleased
<1>1. EventInv => FrozenIsReleased
  <2> SUFFICES ASSUME EventInv, NEW l \in Listener, Subscribed(l), ~FrozenBy(l)
               PROVE  ~IsFrozen(l)
    BY DEF FrozenIsReleased, Subscribed
  <2>1. TagsOf[l] \cap frozenTag = {} /\ Cardinality({}) = 0
    BY FS_EmptySet DEF FrozenBy
  <2>2. frozen[l] = 0
    BY <2>1 DEF EventInv, FreezeInv
  <2> QED
    BY <2>2 DEF IsFrozen
<1> QED
  BY <1>1, SpecEventInv, PTL

(* ... and no enter part starts while a tag of its listener is frozen.       *)
THEOREM SpecFrozenNeverEnters == Spec => FrozenNeverEnters
<1> DEFINE Enters == \A o \in Occurrence, l \in Listener :
             entered'[o][l] # entered[o][l] /\ sub[l].state # "gone" => ~FrozenBy(l)
<1>1. EventInv /\ [Next]_vars => [Enters]_vars
  <2> SUFFICES ASSUME EventInv, Next, NEW o \in Occurrence, NEW l \in Listener,
                      entered'[o][l] # entered[o][l], sub[l].state # "gone"
               PROVE  ~FrozenBy(l)
    OBVIOUS
  <2>1. frozen[l] = 0 /\ sub[l].state # "none"
    <3>1. CASE \E k \in Listener : OnEventNext(k)
      <4>1. PICK k \in Listener : OnEventNext(k)
        BY <3>1
      <4>2. PICK h \in active \ sub[k].done, match \in BOOLEAN :
              /\ h \in Handler /\ sub[k].state = "loop"
              /\ TriggerJob(h, k, match, k, k \in SyncListener)
        BY <4>1, OnEventNextFacts DEF EventInv
      <4>3. /\ match => frozen[k] = 0
            /\ ~match => entered'[h][k] = entered[h][k]
            /\ \A p \in Occurrence, m \in Listener :
                 p # h \/ m # k => entered'[p][m] = entered[p][m]
        <5> DEFINE c == k \in SyncListener
        <5>1. c \in BOOLEAN /\ TriggerJob(h, k, match, k, c) /\ h \in Occurrence
          BY <4>2, Kinds
        <5> HIDE DEF c
        <5> QED
          BY <5>1, TriggerJobFacts DEF EventInv
      <4> QED
        BY <4>2, <4>3
    <3>2. CASE \E p \in Occurrence : TriggerNext(p)
      <4>1. PICK p \in Occurrence : TriggerNext(p)
        BY <3>2
      <4>2. PICK match \in BOOLEAN, c \in BOOLEAN, k \in Listener :
              /\ occ[p].state = "trigger" /\ occ[p].todo # << >> /\ k = Head(occ[p].todo)
              /\ TriggerJob(p, k, match, p, c)
        BY <4>1, TriggerNextFacts DEF EventInv
      <4>3. /\ match => frozen[k] = 0
            /\ ~match => entered'[p][k] = entered[p][k]
            /\ \A q \in Occurrence, m \in Listener :
                 q # p \/ m # k => entered'[q][m] = entered[q][m]
        BY <4>2, TriggerJobFacts DEF EventInv
      <4>4. k \in Elements(occ[p].todo) /\ TodoOf(p)
        BY <4>2, OccTypes, TailFacts DEF EventInv, TodoInv
      <4>5. sub[k].state # "none"
        BY <4>2, <4>4 DEF TodoOf
      <4> QED
        BY <4>2, <4>3, <4>5
    <3>3. CASE entered' = entered
      BY <3>3
    <3> QED
      BY <3>1, <3>2, <3>3
         DEF Next, OnEvent, OnEventEnd, OnEventInvalid, Trigger, TriggerEnd, EmitLeave, Stop,
             SyncStop, SyncStopNext, SyncStopEnd, Freeze, Unfreeze, TagStop, Waituntil,
             WaituntilEnd, history
  <2>2. Subscribed(l)
    <3>1. sub[l].state \in {"none", "loop", "in", "gone"}
      BY DEF EventInv, TypeOK, SubRecord
    <3> QED
      BY <2>1, <3>1 DEF Subscribed
  <2>3. frozen[l] = Cardinality(TagsOf[l] \cap frozenTag)
    BY <2>2 DEF EventInv, FreezeInv
  <2>4. IsFiniteSet(TagsOf[l] \cap frozenTag)
    BY TagsAssumption, FS_Subset
  <2>5. TagsOf[l] \cap frozenTag = {}
    BY <2>1, <2>3, <2>4, FS_EmptySet
  <2> QED
    BY <2>5 DEF FrozenBy
<1>2. Spec => [][Enters]_vars
  BY <1>1, SpecEventInv, PTL DEF Spec
<1> QED
  BY <1>2 DEF FrozenNeverEnters

(* waituntil: waiters_ holds the jobs that are blocked, and no job that has  *)
(* left.                                                                    *)
THEOREM SpecWaitersAreLive == Spec => []WaitersAreLive
<1>1. EventInv => WaitersAreLive
  BY DEF EventInv
<1> QED
  BY <1>1, SpecEventInv, PTL
=============================================================================
