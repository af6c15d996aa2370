-------------------------------- MODULE Event --------------------------------
(***************************************************************************)
(* An urbiscript event: its listeners (at), the handlers of its persistent *)
(* occurrences (trigger ... stop), its instantaneous occurrences (emit)    *)
(* and the jobs waiting for it (waituntil): src/object/event.cc and        *)
(* src/object/event-handler.cc.                                            *)
(*                                                                         *)
(* The callers are jobs: another job can run only where a caller yields,   *)
(* which is while it executes itself the enter or the leave part of a      *)
(* listener (a synchronous listener or a synchronous occurrence).  Guards  *)
(* and patterns match or not, as they like, and do not yield.  Every       *)
(* listener has an enter and a leave part.                                 *)
(***************************************************************************)
EXTENDS Integers, Sequences, FiniteSets, Lists

CONSTANTS
  Listener,     \* the Actions objects, one per onEvent
  Handler,      \* the EventHandler objects, one per trigger
  Emission,     \* the calls to emit and syncEmit
  Waiter,       \* the jobs that call waituntil, once
  Tag,          \* the tags
  TagsOf,       \* tag_stack of a listener or of a waiting job
  SyncListener, \* the listeners with the sync flag
  SyncOccurrence, \* those made by syncTrigger and syncEmit
  None          \* no caller has the processor

Occurrence == Handler \cup Emission

ASSUME KindAssumption ==
  SyncListener \subseteq Listener /\ SyncOccurrence \subseteq Occurrence
ASSUME TagsAssumption ==
  /\ TagsOf \in [Listener \cup Waiter -> SUBSET Tag]
  /\ \A x \in Listener \cup Waiter : IsFiniteSet(TagsOf[x])
ASSUME NoneAssumption ==
  /\ None \notin Occurrence \cup Listener
  /\ Handler \cap Emission = {} /\ Occurrence \cap Listener = {}

VARIABLES
  listeners, \* Event::listeners_
  frozen,    \* Actions::frozen of each listener
  frozenTag, \* the frozen tags
  active,    \* Event::active_
  occ,       \* the occurrences, see OccRecord
  sub,       \* the onEvent call of each listener, see SubRecord
  waiters,   \* Event::waiters_ (its order does not matter)
  wait,      \* where each waituntil call is
  current,   \* the call that keeps the processor: an occurrence or a listener
  undefined, \* an iterator on active_ was used after it became invalid
  seen,      \* history: how often trigger_job or emit looked at a listener
  entered,   \* history: how often the enter part was started
  left       \* history: how often the leave part was started

history == <<seen, entered, left>>
vars == <<listeners, frozen, frozenTag, active, occ, sub, waiters, wait, current,
          undefined, history>>

(* An occurrence: not there yet, going through its copy todo of the          *)
(* listeners ("leave": between the enter and the leave part of the first),  *)
(* returned, in stop() with its copy of stop_jobs_, stopped.                *)
OccRecord == [state : {"none", "trigger", "leave", "ready", "stopping", "stopped"},
              todo : Seq(Listener), stop_jobs : Seq(Listener)]

(* A listener: not subscribed, in the loop of onEvent on active_ (all is     *)
(* what active_ was, done what the iterator went through, at where it is),  *)
(* subscribed, unregistered.                                                *)
SubRecord == [state : {"none", "loop", "in", "gone"},
              all : SUBSET Handler, done : SUBSET Handler, at : Handler \cup {None}]
NotLooping(state) == [state |-> state, all |-> {}, done |-> {}, at |-> None]

(* Types; frozen does not become negative (the aver of Event::unfreeze).    *)
TypeOK ==
  /\ listeners \in Seq(Listener) /\ frozen \in [Listener -> Nat]
  /\ frozenTag \subseteq Tag /\ active \subseteq Handler
  /\ occ \in [Occurrence -> OccRecord] /\ sub \in [Listener -> SubRecord]
  /\ waiters \subseteq Waiter
  /\ wait \in [Waiter -> {"none", "blocked", "released", "thrown", "done"}]
  /\ current \in Occurrence \cup Listener \cup {None}
  /\ undefined \in BOOLEAN
  /\ \A f \in {seen, entered, left} : f \in [Occurrence -> [Listener -> Nat]]

Init ==
  /\ listeners = << >> /\ frozen = [l \in Listener |-> 0] /\ frozenTag = {}
  /\ active = {}
  /\ occ = [o \in Occurrence |-> [state |-> "none", todo |-> << >>, stop_jobs |-> << >>]]
  /\ sub = [l \in Listener |-> NotLooping("none")]
  /\ waiters = {} /\ wait = [w \in Waiter |-> "none"]
  /\ current = None /\ undefined = FALSE
  /\ seen = [o \in Occurrence |-> [l \in Listener |-> 0]]
  /\ entered = seen /\ left = seen

(* A call begins when no other one keeps the processor; a call goes on when  *)
(* it has it, or takes it back after a yield.                               *)
Begins == current = None /\ ~undefined
Goes(x) == current \in {None, x} /\ ~undefined

FrozenBy(x) == TagsOf[x] \cap frozenTag # {}
More(f, o, l) == [f EXCEPT ![o][l] = @ + 1]

-----------------------------------------------------------------------------
(* trigger_job, or the body of emit's loop: listener l, for occurrence o,    *)
(* called by the call x.  A frozen listener is skipped; a guard that matches *)
(* has the leave part registered (for a handler) and the enter part started: *)
(* as a job, or in the caller, which may then yield.                         *)

IsFrozen(l) == frozen[l] > 0

(* Mutant of Registers: the leave part of a synchronous listener is not      *)
(* registered.                                                              *)
RegistersDetached(o, l) == o \in Handler /\ l \notin SyncListener

Registers(o, l) == o \in Handler

(* stop_jobs_ of o once l has been looked at. *)
StopJobs(o, l, match) ==
  IF match /\ Registers(o, l) THEN Append(occ[o].stop_jobs, l) ELSE occ[o].stop_jobs

(* The caller runs the enter part itself. *)
InCaller(o, l) == o \in SyncOccurrence \/ l \in SyncListener

(* A detached emission starts the leave part together with the enter part. *)
TriggerJob(o, l, match, x, inCaller) ==
  /\ match => ~IsFrozen(l)
  /\ seen' = More(seen, o, l)
  /\ entered' = IF match THEN More(entered, o, l) ELSE entered
  /\ left' = IF match /\ o \in Emission /\ ~inCaller THEN More(left, o, l) ELSE left
  /\ current' = IF match /\ inCaller THEN None ELSE x

-----------------------------------------------------------------------------
(* onEvent *)

(* The hooks of the tags are connected, the listener is added, and the loop  *)
(* on active_ begins.  The subscribing job runs: none of its tags is frozen. *)
OnEvent(l) ==
  /\ Begins /\ sub[l].state = "none" /\ ~FrozenBy(l)
  /\ listeners' = Append(listeners, l)
  /\ sub' = [sub EXCEPT ![l] = [NotLooping("loop") EXCEPT !.all = active]]
  /\ current' = l
  /\ UNCHANGED <<frozen, frozenTag, active, occ, waiters, wait, undefined, history>>

(* The subscribing job is in the loop, and runs. *)
InLoop(l) == Goes(l) /\ sub[l].state = "loop" /\ ~FrozenBy(l)

(* The loop uses active_ itself, an unordered_set: its iterator is lost when *)
(* the handler where it is was erased, and may be lost when one was         *)
(* inserted.                                                                *)
Erased(l) == sub[l].at \notin active \cup {None}
Inserted(l) == active \ sub[l].all

(* The next handler of active_: one of those that were there at the start,   *)
(* or one inserted since.                                                   *)
OnEventNext(l) ==
  /\ InLoop(l) /\ ~Erased(l)
  /\ \E h \in active \ sub[l].done, match \in BOOLEAN :
       /\ TriggerJob(h, l, match, l, l \in SyncListener)
       /\ sub' = [sub EXCEPT ![l] = [@ EXCEPT !.done = sub[l].done \cup {h}, !.at = h]]
       /\ occ' = [occ EXCEPT ![h].stop_jobs = StopJobs(h, l, match)]
  /\ UNCHANGED <<listeners, frozen, frozenTag, active, waiters, wait, undefined>>

(* The end: the ones inserted meanwhile may have been missed. *)
OnEventEnd(l) ==
  /\ InLoop(l) /\ ~Erased(l) /\ sub[l].all \cap active \subseteq sub[l].done
  /\ sub' = [sub EXCEPT ![l] = NotLooping("in")]
  /\ current' = None
  /\ UNCHANGED <<listeners, frozen, frozenTag, active, occ, waiters, wait, undefined, history>>

(* active_ changed while the enter part, run by the loop, had yielded. *)
OnEventInvalid(l) ==
  /\ InLoop(l) /\ (Erased(l) \/ Inserted(l) # {})
  /\ undefined' = TRUE
  /\ UNCHANGED <<listeners, frozen, frozenTag, active, occ, sub, waiters, wait, current,
                 history>>

-----------------------------------------------------------------------------
(* Occurrences *)

(* waituntil_release: the waiting jobs whose pattern matches, except those   *)
(* that one of their own tags freezes.                                      *)
Release ==
  \E M \in SUBSET {w \in waiters : ~FrozenBy(w)} :
    /\ waiters' = waiters \ M
    /\ wait' = [w \in Waiter |-> IF w \in M /\ wait[w] = "blocked" THEN "released"
                                 ELSE wait[w]]

(* Mutant of Begun: the handler becomes active at the end of trigger.      *)
BegunInactive(o) == active

(* active_.insert, before the copy of the listeners. *)
Begun(o) == IF o \in Handler THEN active \cup {o} ELSE active

(* trigger, syncTrigger or emit, up to the copy of the listeners. *)
Trigger(o) ==
  /\ Begins /\ occ[o].state = "none"
  /\ Release
  /\ active' = Begun(o)
  /\ occ' = [occ EXCEPT ![o] = [@ EXCEPT !.state = "trigger", !.todo = listeners]]
  /\ current' = o
  /\ UNCHANGED <<listeners, frozen, frozenTag, sub, undefined, history>>

(* The next listener of the copy. *)
TriggerNext(o) ==
  /\ Goes(o) /\ occ[o].state = "trigger" /\ occ[o].todo # << >>
  /\ \E match \in BOOLEAN :
       LET l == Head(occ[o].todo)
       IN /\ TriggerJob(o, l, match, o, InCaller(o, l))
          /\ occ' = [occ EXCEPT ![o] =
                       IF match /\ o \in Emission /\ InCaller(o, l)
                       THEN [@ EXCEPT !.state = "leave"]
                       ELSE [@ EXCEPT !.todo = Tail(occ[o].todo),
                                      !.stop_jobs = StopJobs(o, l, match)]]
  /\ UNCHANGED <<listeners, frozen, frozenTag, active, sub, waiters, wait, undefined>>

(* An emission that ran the enter part itself runs the leave part. *)
EmitLeave(e) ==
  /\ Goes(e) /\ occ[e].state = "leave"
  /\ left' = More(left, e, Head(occ[e].todo))
  /\ occ' = [occ EXCEPT ![e] = [@ EXCEPT !.state = "trigger", !.todo = Tail(occ[e].todo)]]
  /\ current' = None
  /\ UNCHANGED <<listeners, frozen, frozenTag, active, sub, waiters, wait, undefined,
                 seen, entered>>

TriggerEnd(o) ==
  /\ Goes(o) /\ occ[o].state = "trigger" /\ occ[o].todo = << >>
  /\ occ' = [occ EXCEPT ![o].state = "ready"]
  /\ current' = None
  /\ UNCHANGED <<listeners, frozen, frozenTag, active, sub, waiters, wait, undefined, history>>

Count(q, x) == Cardinality({i \in DOMAIN q : q[i] = x})

(* EventHandler::stop, of a handler that trigger has returned: the leave     *)
(* parts are started as jobs, all at once.                                  *)
Stop(h) ==
  /\ Begins /\ occ[h].state = "ready" /\ h \notin SyncOccurrence
  /\ left' = [left EXCEPT ![h] =
                [l \in Listener |-> @[l] + Count(occ[h].stop_jobs, l)]]
  /\ occ' = [occ EXCEPT ![h] = [@ EXCEPT !.state = "stopped", !.stop_jobs = << >>]]
  /\ active' = active \ {h}
  /\ UNCHANGED <<listeners, frozen, frozenTag, sub, waiters, wait, current, undefined,
                 seen, entered>>

(* ... or are run by the caller, from a copy; it may yield in each. *)
SyncStop(h) ==
  /\ Begins /\ occ[h].state = "ready" /\ h \in SyncOccurrence
  /\ occ' = [occ EXCEPT ![h] = [@ EXCEPT !.state = "stopping", !.todo = occ[h].stop_jobs]]
  /\ current' = h
  /\ UNCHANGED <<listeners, frozen, frozenTag, active, sub, waiters, wait, undefined, history>>

SyncStopNext(h) ==
  /\ Goes(h) /\ occ[h].state = "stopping" /\ occ[h].todo # << >>
  /\ left' = More(left, h, Head(occ[h].todo))
  /\ occ' = [occ EXCEPT ![h].todo = Tail(@)]
  /\ current' = None
  /\ UNCHANGED <<listeners, frozen, frozenTag, active, sub, waiters, wait, undefined,
                 seen, entered>>

(* stop_jobs_.clear(), active_.erase. *)
SyncStopEnd(h) ==
  /\ Goes(h) /\ occ[h].state = "stopping" /\ occ[h].todo = << >>
  /\ occ' = [occ EXCEPT ![h] = [@ EXCEPT !.state = "stopped", !.stop_jobs = << >>]]
  /\ active' = active \ {h}
  /\ current' = None
  /\ UNCHANGED <<listeners, frozen, frozenTag, sub, waiters, wait, undefined, history>>

-----------------------------------------------------------------------------
(* Tags *)

Tagged(t) == {l \in Listener : t \in TagsOf[l] /\ sub[l].state \in {"loop", "in"}}

(* Mutant of Freeze: the hook is called although the tag is frozen already.  *)
FreezeAlways(t) ==
  /\ Begins
  /\ frozenTag' = frozenTag \cup {t}
  /\ frozen' = [l \in Listener |-> IF l \in Tagged(t) THEN frozen[l] + 1 ELSE frozen[l]]
  /\ UNCHANGED <<listeners, active, occ, sub, waiters, wait, current, undefined, history>>

(* The hooks of freeze and unfreeze. *)
Freeze(t) ==
  /\ Begins /\ t \notin frozenTag
  /\ frozenTag' = frozenTag \cup {t}
  /\ frozen' = [l \in Listener |-> IF l \in Tagged(t) THEN frozen[l] + 1 ELSE frozen[l]]
  /\ UNCHANGED <<listeners, active, occ, sub, waiters, wait, current, undefined, history>>

(* Mutant of Unfreeze: the count is reset.                                 *)
UnfreezeAll(t) ==
  /\ Begins /\ t \in frozenTag
  /\ frozenTag' = frozenTag \ {t}
  /\ frozen' = [l \in Listener |-> IF l \in Tagged(t) THEN 0 ELSE frozen[l]]
  /\ UNCHANGED <<listeners, active, occ, sub, waiters, wait, current, undefined, history>>

Unfreeze(t) ==
  /\ Begins /\ t \in frozenTag
  /\ frozenTag' = frozenTag \ {t}
  /\ frozen' = [l \in Listener |-> IF l \in Tagged(t) THEN frozen[l] - 1 ELSE frozen[l]]
  /\ UNCHANGED <<listeners, active, occ, sub, waiters, wait, current, undefined, history>>

(* The hook of stop: Event::unregister.  The copies of the occurrences keep  *)
(* the listener.  The waiting jobs of the tag, and a job in the loop of      *)
(* onEvent, get a StopException.                                            *)
TagStop(t) ==
  /\ Begins
  /\ listeners' = WithoutAll(listeners, Tagged(t))
  /\ sub' = [l \in Listener |-> IF l \in Tagged(t) THEN NotLooping("gone")
                                ELSE sub[l]]
  /\ wait' = [w \in Waiter |-> IF t \in TagsOf[w] /\ wait[w] \in {"blocked", "released"}
                               THEN "thrown" ELSE wait[w]]
  /\ UNCHANGED <<frozen, frozenTag, active, occ, waiters, current, undefined, history>>

-----------------------------------------------------------------------------
(* waituntil *)

(* An active handler matches, and it returns; or the job freezes itself with *)
(* the control tag.                                                         *)
Waituntil(w) ==
  /\ Begins /\ wait[w] = "none" /\ ~FrozenBy(w)
  /\ \/ active # {} /\ wait' = [wait EXCEPT ![w] = "done"] /\ UNCHANGED waiters
     \/ wait' = [wait EXCEPT ![w] = "blocked"] /\ waiters' = waiters \cup {w}
  /\ UNCHANGED <<listeners, frozen, frozenTag, active, occ, sub, current, undefined, history>>

(* Mutant of WaituntilRemove: the waiter stays in the list.                *)
WaituntilKept(w) == waiters

WaituntilRemove(w) == waiters \ {w}

(* The job runs again, released or with the exception: the Finally.        *)
WaituntilEnd(w) ==
  /\ Begins
  /\ wait[w] = "thrown" \/ (wait[w] = "released" /\ ~FrozenBy(w))
  /\ wait' = [wait EXCEPT ![w] = "done"]
  /\ waiters' = WaituntilRemove(w)
  /\ UNCHANGED <<listeners, frozen, frozenTag, active, occ, sub, current, undefined, history>>

-----------------------------------------------------------------------------
Next ==
  \/ \E l \in Listener : OnEvent(l) \/ OnEventNext(l) \/ OnEventEnd(l) \/ OnEventInvalid(l)
  \/ \E o \in Occurrence : Trigger(o) \/ TriggerNext(o) \/ TriggerEnd(o)
  \/ \E e \in Emission : EmitLeave(e)
  \/ \E h \in Handler : Stop(h) \/ SyncStop(h) \/ SyncStopNext(h) \/ SyncStopEnd(h)
  \/ \E t \in Tag : Freeze(t) \/ Unfreeze(t) \/ TagStop(t)
  \/ \E w \in Waiter : Waituntil(w) \/ WaituntilEnd(w)

Spec == Init /\ [][Next]_vars

-----------------------------------------------------------------------------
(* Properties *)

(* onEvent, trigger: however subscriptions and triggers interleave, a        *)
(* handler that trigger has returned has looked at every listener that       *)
(* onEvent has subscribed, and looks at an asynchronous listener only once.  *)
EveryListenerOnce ==
  \A h \in Handler, l \in Listener :
    /\ l \notin SyncListener => seen[h][l] <= 1
    /\ occ[h].state = "ready" /\ sub[l].state = "in" => seen[h][l] >= 1

(* EventHandler::stop, emit: when a handler made by trigger has been stopped, *)
(* or an emission has ended, the leave part was started as often as the      *)
(* enter part of each listener, those that subscribed while the handler was  *)
(* active included.                                                         *)
LeaveFollowsEnter ==
  /\ \A h \in Handler \ SyncOccurrence, l \in Listener :
       left[h][l] = (IF occ[h].state = "stopped" THEN entered[h][l] ELSE 0)
  /\ \A e \in Emission, l \in Listener :
       occ[e].state # "leave" => left[e][l] = entered[e][l]

(* Event::freeze, unfreeze: whatever the order in which several tags are     *)
(* frozen, an enter part never starts while a tag of its listener is frozen. *)
FrozenNeverEnters ==
  [][\A o \in Occurrence, l \in Listener :
       entered'[o][l] # entered[o][l] /\ sub[l].state # "gone" => ~FrozenBy(l)]_vars

(* Event::freeze, unfreeze: a listener none of whose tags is frozen is not   *)
(* left frozen.                                                             *)
FrozenIsReleased ==
  \A l \in Listener : sub[l].state \in {"loop", "in"} /\ ~FrozenBy(l) => ~IsFrozen(l)

(* waituntil: waiters_ holds no pointer to a job that has left waituntil, and *)
(* every job still blocked in it can be found there.                        *)
WaitersAreLive ==
  /\ \A w \in waiters : wait[w] \in {"blocked", "thrown"}
  /\ \A w \in Waiter : wait[w] = "blocked" => w \in waiters

(* The invariants these follow from.  listeners_ holds the listeners that    *)
(* are subscribed, active_ the handlers that are not stopped.               *)
Subscribed(l) == sub[l].state \in {"loop", "in"}
Running(h) == occ[h].state \in {"trigger", "ready", "stopping"}
ListsInv ==
  /\ Distinct(listeners)
  /\ \A l \in Listener : l \in Elements(listeners) <=> Subscribed(l)
  /\ \A h \in Handler : h \in active <=> Running(h)

(* frozen counts the frozen tags of a subscribed listener. *)
FreezeInv ==
  \A l \in Listener :
    /\ sub[l].state = "none" => frozen[l] = 0
    /\ Subscribed(l) => frozen[l] = Cardinality(TagsOf[l] \cap frozenTag)

(* What an occurrence has still to look at. *)
TodoOf(o) ==
  /\ o \in Handler => occ[o].state # "leave"
  /\ o \in Emission => occ[o].state \in {"none", "trigger", "leave", "ready"}
  /\ occ[o].state = "leave" => occ[o].todo # << >>
  /\ occ[o].state \in {"trigger", "leave"} =>
       /\ Distinct(occ[o].todo)
       /\ \A l \in Elements(occ[o].todo) : sub[l].state # "none"
TodoInv == \A o \in Occurrence : TodoOf(o)

(* An asynchronous listener keeps the processor in the loop of onEvent: a    *)
(* handler is looked at there, or has the listener in its copy, not both.    *)
LooksOnce(h, l) ==
  /\ seen[h][l] <= 1
  /\ sub[l].state = "none" \/ occ[h].state = "none" => seen[h][l] = 0
  /\ occ[h].state = "trigger" /\ l \in Elements(occ[h].todo) =>
       seen[h][l] = 0 /\ sub[l].state # "loop"
  /\ sub[l].state = "loop" /\ h \in active \ sub[l].done => seen[h][l] = 0
OnceInv ==
  \A l \in Listener \ SyncListener :
    /\ sub[l].state = "loop" => current = l
    /\ \A h \in Handler : LooksOnce(h, l)

(* A listener is looked at by each handler that has begun, but for those that *)
(* the loop of onEvent has still to come to.                                *)
Sees(h, l) ==
  /\ sub[l].state = "loop" /\ h \in sub[l].done => seen[h][l] >= 1
  /\ \/ sub[l].state = "in"
     \/ sub[l].state = "loop" /\ h \notin sub[l].all
     => /\ occ[h].state = "ready" => seen[h][l] >= 1
        /\ occ[h].state = "trigger" => seen[h][l] >= 1 \/ l \in Elements(occ[h].todo)
SeenInv == \A h \in Handler, l \in Listener : Sees(h, l)

(* The leave parts to come are in stop_jobs_, once per enter part; but one   *)
(* of an emission, after the enter part it ran itself.                      *)
LeavesLater(h, l) ==
  /\ occ[h].state \in {"none", "trigger", "ready"} =>
       left[h][l] = 0 /\ entered[h][l] = Count(occ[h].stop_jobs, l)
  /\ h \notin SyncOccurrence =>
       /\ occ[h].state # "stopping"
       /\ occ[h].state = "stopped" => left[h][l] = entered[h][l]
LeavesNext(e, l) ==
  entered[e][l] =
    left[e][l] + (IF occ[e].state = "leave" /\ l = Head(occ[e].todo) THEN 1 ELSE 0)
LeaveInv ==
  /\ \A h \in Handler, l \in Listener : LeavesLater(h, l)
  /\ \A e \in Emission, l \in Listener : LeavesNext(e, l)

EventInv ==
  /\ TypeOK /\ WaitersAreLive /\ ListsInv /\ FreezeInv /\ TodoInv
  /\ OnceInv /\ SeenInv /\ LeaveInv
=============================================================================
