----------------------------- MODULE SyncClient -----------------------------
(***************************************************************************)
(* urbi::USyncClient (sdk-remote/src/liburbi/usyncclient.cc): a client of  *)
(* an Urbi server whose user threads may ask the server for a value and    *)
(* wait for the answer (syncGet, waitForTag), while the other messages are *)
(* queued for the callbacks, which the callback thread runs, or user       *)
(* threads in processEvents.                                               *)
(*                                                                         *)
(* The threads are the socket thread, which receives the messages, the     *)
(* callback thread and the users.  queueLock_ is held across two steps     *)
(* only in processEvents, and for ever after the exception of waitForTag.  *)
(* Not modelled: setSynchronous, and waitForTag called from the socket     *)
(* thread.                                                                 *)
(***************************************************************************)
EXTENDS Integers, Sequences, FiniteSets, Lists

CONSTANTS
  User,     \* the user threads
  Event,    \* the messages the server sends on its own, each once
  Request,  \* the syncGet calls, each with its own tag; also their answers
  None      \* no message, no tag, nobody

ASSUME NoneAssumption == None \notin User \cup Event \cup Request
ASSUME MessageAssumption == Event \cap Request = {}

VARIABLES
  queue,     \* queue: the messages waiting for their callbacks
  sem,       \* sem_
  posted,    \* history: the tokens put in sem_ by stop and close
  message,   \* message_
  syncTag,   \* syncTag
  syncLock,  \* syncLock_
  stop,      \* stopCallbackThread_
  stopSem,   \* stopCallbackSem_
  cb,        \* where the callback thread is, and its message
  at,        \* where each user thread is, see Place
  held,      \* the message or the request of each user
  result,    \* the local res of waitForTag
  leak,      \* who left waitForTag by its exception, with queueLock_
  asked,     \* the requests sent
  arrived,   \* the messages received
  closed,    \* closed_
  delivered  \* history: the messages whose callbacks were called

tokens == <<sem, posted>>
sync == <<message, syncTag, syncLock>>
halt == <<stop, stopSem, closed>>
user == <<at, held, result>>
vars == <<queue, tokens, sync, halt, cb, user, leak, asked, arrived, delivered>>

Message == Event \cup Request

(* sg: in waitForTag, waiting (with or without a timeout), about to read    *)
(* message_, to reset it, to clear syncTag.  pe: in processEvents, in its   *)
(* sem_-- and in the callbacks.  st: in stopCallbackThread.                 *)
Place == {"idle", "sg_wait", "sg_timed", "sg_read", "sg_reset", "sg_clear",
          "pe_sem", "pe_call", "st_set", "st_wait"}

(* In sem_--, at the test of stopCallbackThread_, at queueLock_.lock(), in  *)
(* the callbacks, returned.                                                 *)
CbPlace == {"sem", "test", "lock", "call", "ended"}

(* Types. *)
TypeOK ==
  /\ queue \in Seq(Message) /\ sem \in Nat /\ posted \in Nat
  /\ message \in Request \cup {None} /\ syncTag \in Request \cup {None}
  /\ syncLock \in Nat /\ stop \in BOOLEAN /\ stopSem \in Nat
  /\ cb \in [at : CbPlace, held : Message \cup {None}]
  /\ at \in [User -> Place] /\ held \in [User -> Message \cup {None}]
  /\ result \in [User -> Request \cup {None}] /\ leak \in User \cup {None}
  /\ asked \subseteq Request /\ arrived \subseteq Message
  /\ closed \in BOOLEAN /\ delivered \in Seq(Message)

Init ==
  /\ queue = << >> /\ sem = 0 /\ posted = 0
  /\ message = None /\ syncTag = None /\ syncLock = 0
  /\ stop = FALSE /\ stopSem = 0 /\ closed = FALSE
  /\ cb = [at |-> "sem", held |-> None]
  /\ at = [u \in User |-> "idle"] /\ held = [u \in User |-> None]
  /\ result = [u \in User |-> None]
  /\ leak = None /\ asked = {} /\ arrived = {} /\ delivered = << >>

(* queueLock_ can be taken by x: it is a recursive mutex. *)
Available(x) == leak \in {None, x} /\ \A v \in User \ {x} : at[v] # "pe_sem"

-----------------------------------------------------------------------------
(* The socket thread *)

(* Mutant of Awaited: any message ends the wait of a user.                 *)
AwaitedAny(m) == syncTag # None /\ m \in Request

Awaited(m) == syncTag # None /\ syncTag = m

(* Mutant of Receive: only a message put in an empty queue posts a token.   *)
ReceiveFirst(m) ==
  /\ ~closed /\ m \in (Event \cup asked) \ arrived
  /\ Available(None)
  /\ arrived' = arrived \cup {m}
  /\ IF Awaited(m)
     THEN /\ message' = m /\ syncTag' = None /\ syncLock' = syncLock + 1
          /\ UNCHANGED <<queue, sem>>
     ELSE /\ queue' = Append(queue, m)
          /\ sem' = IF queue = << >> THEN sem + 1 ELSE sem
          /\ UNCHANGED sync
  /\ UNCHANGED <<posted, halt, cb, user, leak, asked, delivered>>

(* notifyCallbacks: the awaited answer is given to waitForTag, any other    *)
(* message is queued.  The server answers a request once, or never.         *)
Receive(m) ==
  /\ ~closed /\ m \in (Event \cup asked) \ arrived
  /\ Available(None)
  /\ arrived' = arrived \cup {m}
  /\ IF Awaited(m)
     THEN /\ message' = m /\ syncTag' = None /\ syncLock' = syncLock + 1
          /\ UNCHANGED <<queue, sem>>
     ELSE /\ queue' = Append(queue, m) /\ sem' = sem + 1
          /\ UNCHANGED sync
  /\ UNCHANGED <<posted, halt, cb, user, leak, asked, delivered>>

(* onClose. *)
Close ==
  /\ ~closed /\ closed' = TRUE
  /\ stop' = TRUE
  /\ sem' = sem + 1 /\ posted' = posted + 1
  /\ UNCHANGED <<queue, sync, stopSem, cb, user, leak, asked, arrived, delivered>>

-----------------------------------------------------------------------------
(* The callback thread *)

(* sem_--. *)
CbTake ==
  /\ cb.at = "sem" /\ sem > 0
  /\ sem' = sem - 1
  /\ cb' = [cb EXCEPT !.at = "test"]
  /\ UNCHANGED <<queue, posted, sync, halt, user, leak, asked, arrived, delivered>>

CbTest ==
  /\ cb.at = "test"
  /\ IF stop
     THEN cb' = [cb EXCEPT !.at = "ended"] /\ stopSem' = stopSem + 1
     ELSE cb' = [cb EXCEPT !.at = "lock"] /\ UNCHANGED stopSem
  /\ UNCHANGED <<queue, tokens, sync, stop, closed, user, leak, asked, arrived, delivered>>

(* Mutant of CbPop: the token is not given back.                           *)
CbPopKeepingToken ==
  /\ cb.at = "lock" /\ Available(None)
  /\ IF queue = << >>
     THEN cb' = [cb EXCEPT !.at = "sem"] /\ UNCHANGED queue
     ELSE cb' = [at |-> "call", held |-> Head(queue)] /\ queue' = Tail(queue)
  /\ UNCHANGED <<tokens, sync, halt, user, leak, asked, arrived, delivered>>

(* An empty queue: processEvents took the message, the token goes back.     *)
CbPop ==
  /\ cb.at = "lock" /\ Available(None)
  /\ IF queue = << >>
     THEN cb' = [cb EXCEPT !.at = "sem"] /\ sem' = sem + 1 /\ UNCHANGED queue
     ELSE /\ cb' = [at |-> "call", held |-> Head(queue)] /\ queue' = Tail(queue)
          /\ UNCHANGED sem
  /\ UNCHANGED <<posted, sync, halt, user, leak, asked, arrived, delivered>>

CbCall ==
  /\ cb.at = "call"
  /\ delivered' = Append(delivered, cb.held)
  /\ cb' = [at |-> "sem", held |-> None]
  /\ UNCHANGED <<queue, tokens, sync, halt, user, leak, asked, arrived>>

CbStep == CbTake \/ CbTest \/ CbPop \/ CbCall

-----------------------------------------------------------------------------
(* The users *)

Goes(u, place) == at' = [at EXCEPT ![u] = place]

(* syncGet: send the request with queueLock_ held, then waitForTag.  When    *)
(* another answer is awaited, or is there, it throws, and keeps the lock.    *)
SyncGet(u, r) ==
  /\ at[u] = "idle" /\ r \notin asked /\ ~closed /\ Available(u)
  /\ asked' = asked \cup {r}
  /\ IF message # None \/ syncTag # None
     THEN leak' = u /\ UNCHANGED <<at, held, syncTag>>
     ELSE /\ \E place \in {"sg_wait", "sg_timed"} : Goes(u, place)
          /\ held' = [held EXCEPT ![u] = r] /\ syncTag' = r
          /\ UNCHANGED leak
  /\ UNCHANGED <<queue, tokens, message, syncLock, halt, cb, result, arrived, delivered>>

(* syncLock_.uget: a token, or the end of the timeout. *)
SyncToken(u) ==
  /\ at[u] \in {"sg_wait", "sg_timed"} /\ syncLock > 0
  /\ syncLock' = syncLock - 1
  /\ Goes(u, "sg_read")
  /\ UNCHANGED <<queue, tokens, message, syncTag, halt, cb, held, result, leak, asked,
                 arrived, delivered>>

SyncTimeout(u) ==
  /\ at[u] = "sg_timed"
  /\ Goes(u, "sg_read")
  /\ UNCHANGED <<queue, tokens, sync, halt, cb, held, result, leak, asked, arrived,
                 delivered>>

(* The three last assignments of waitForTag, without the lock. *)
SyncRead(u) ==
  /\ at[u] = "sg_read" /\ Goes(u, "sg_reset")
  /\ result' = [result EXCEPT ![u] = message]
  /\ UNCHANGED <<queue, tokens, sync, halt, cb, held, leak, asked, arrived, delivered>>

SyncReset(u) ==
  /\ at[u] = "sg_reset" /\ Goes(u, "sg_clear")
  /\ message' = None
  /\ UNCHANGED <<queue, tokens, syncTag, syncLock, halt, cb, held, result, leak, asked,
                 arrived, delivered>>

SyncReturn(u) ==
  /\ at[u] = "sg_clear" /\ Goes(u, "idle")
  /\ syncTag' = None
  /\ held' = [held EXCEPT ![u] = None] /\ result' = [result EXCEPT ![u] = None]
  /\ UNCHANGED <<queue, tokens, message, syncLock, halt, cb, leak, asked, arrived, delivered>>

(* Mutant of ProcessEvents: the message is not popped.                     *)
ProcessEventsPeek(u) ==
  /\ at[u] = "idle" /\ Available(u) /\ queue # << >>
  /\ held' = [held EXCEPT ![u] = Head(queue)]
  /\ Goes(u, "pe_sem")
  /\ UNCHANGED <<queue, tokens, sync, halt, cb, result, leak, asked, arrived, delivered>>

(* processEvents: pop a message under the lock, and keep the lock. *)
ProcessEvents(u) ==
  /\ at[u] = "idle" /\ Available(u) /\ queue # << >>
  /\ held' = [held EXCEPT ![u] = Head(queue)] /\ queue' = Tail(queue)
  /\ Goes(u, "pe_sem")
  /\ UNCHANGED <<tokens, sync, halt, cb, result, leak, asked, arrived, delivered>>

(* sem_--, then unlock. *)
ProcessToken(u) ==
  /\ at[u] = "pe_sem" /\ sem > 0
  /\ sem' = sem - 1
  /\ Goes(u, "pe_call")
  /\ UNCHANGED <<queue, posted, sync, halt, cb, held, result, leak, asked, arrived,
                 delivered>>

(* The callbacks; then again, or return: a new call is the same.           *)
ProcessCall(u) ==
  /\ at[u] = "pe_call" /\ Goes(u, "idle")
  /\ delivered' = Append(delivered, held[u])
  /\ held' = [held EXCEPT ![u] = None]
  /\ UNCHANGED <<queue, tokens, sync, halt, cb, result, leak, asked, arrived>>

(* stopCallbackThread: the test, the two semaphores, the wait. *)
StopTest(u) ==
  /\ at[u] = "idle" /\ ~stop
  /\ Goes(u, "st_set")
  /\ UNCHANGED <<queue, tokens, sync, halt, cb, held, result, leak, asked, arrived,
                 delivered>>

StopSet(u) ==
  /\ at[u] = "st_set" /\ Goes(u, "st_wait")
  /\ stop' = TRUE
  /\ sem' = sem + 1 /\ posted' = posted + 1
  /\ syncLock' = syncLock + 1
  /\ UNCHANGED <<queue, message, syncTag, stopSem, closed, cb, held, result, leak, asked,
                 arrived, delivered>>

StopWait(u) ==
  /\ at[u] = "st_wait" /\ stopSem > 0
  /\ stopSem' = stopSem - 1
  /\ Goes(u, "idle")
  /\ UNCHANGED <<queue, tokens, sync, stop, closed, cb, held, result, leak, asked, arrived,
                 delivered>>

(* What a user goes on doing once it has begun a call.  SyncTimeout is apart: *)
(* it is the passing of time.                                               *)
UserStep(u) ==
  \/ SyncToken(u) \/ SyncRead(u) \/ SyncReset(u) \/ SyncReturn(u)
  \/ ProcessToken(u) \/ ProcessCall(u)
  \/ StopSet(u) \/ StopWait(u)

Next ==
  \/ \E m \in Message : Receive(m)
  \/ Close
  \/ CbStep
  \/ \E u \in User :
       \/ UserStep(u) \/ SyncTimeout(u) \/ ProcessEvents(u) \/ StopTest(u)
       \/ \E r \in Request : SyncGet(u, r)

Spec == Init /\ [][Next]_vars

(* The threads keep running, and a timeout expires. *)
Fairness ==
  /\ WF_vars(CbStep)
  /\ \A u \in User : WF_vars(UserStep(u)) /\ WF_vars(SyncTimeout(u))

FairSpec == Spec /\ Fairness

-----------------------------------------------------------------------------
(* Properties *)

One(b) == IF b THEN 1 ELSE 0
Sum(P) == Cardinality({u \in User : at[u] = P})
(* sem_: every message of the queue has its token, in the semaphore or in    *)
(* the hand of the callback thread, whatever processEvents, stop and close   *)
(* do: the callback thread never sleeps on a message.                       *)
TokensMatchQueue ==
  sem + One(cb.at \in {"test", "lock"})
    = Len(queue) + Sum("pe_sem") + posted - One(cb.at = "ended")

(* notifyCallbacks, processEvents, callbackThread: a message reaches one     *)
(* user, or the callbacks once; none disappears from the queue.             *)
NoMessageLost ==
  LET places == delivered \o queue
      hands == {u \in User : at[u] \in {"pe_sem", "pe_call"}}
      taken == {held[u] : u \in hands} \cup ({cb.held} \ {None})
  IN /\ Cardinality(Elements(places)) = Len(places)
     /\ Elements(places) \cap taken = {}
     /\ Event \cap arrived \subseteq Elements(places) \cup taken

(* waitForTag: what it returns is the answer to its own request, or 0. *)
AnswerIsMine == \A u \in User : result[u] \in {None, held[u]}

(* The users in waitForTag.                                                 *)
InWait(u) == at[u] \in {"sg_wait", "sg_timed", "sg_read", "sg_reset", "sg_clear"}
OneWaits == \A u, v \in User : InWait(u) /\ InWait(v) => u = v

(* waitForTag: as long as the calls of the users do not overlap, each returns *)
(* its own answer or 0, however late the answers to the earlier calls come.  *)
AnswerIsMineAlone == []OneWaits => []AnswerIsMine

(* The invariants these follow from.  A message is in one place: the queue,   *)
(* the hand of the callback thread or of a user, or delivered.               *)
Handling(u) == at[u] \in {"pe_sem", "pe_call"}
PlaceInv ==
  /\ Distinct(delivered) /\ Distinct(queue)
  /\ Elements(delivered) \cap Elements(queue) = {}
  /\ Elements(delivered) \cup Elements(queue) \subseteq arrived
  /\ IF cb.at = "call"
     THEN cb.held \in arrived \ (Elements(delivered) \cup Elements(queue))
     ELSE cb.held = None
  /\ \A u \in User : Handling(u) =>
       /\ held[u] \in arrived \ (Elements(delivered) \cup Elements(queue))
       /\ held[u] # cb.held
       /\ \A v \in User : Handling(v) /\ held[v] = held[u] => v = u
  /\ \A m \in Event \cap arrived :
       \/ m \in Elements(delivered) \cup Elements(queue) \cup {cb.held}
       \/ \E u \in User : Handling(u) /\ held[u] = m

TokenInv == IsFiniteSet({u \in User : at[u] = "pe_sem"}) /\ TokensMatchQueue

ClientInv == TypeOK /\ TokenInv /\ PlaceInv

(* While the calls do not overlap, syncTag and message_ are about the call   *)
(* in progress until it has read message_.                                  *)
AnswerInv ==
  /\ \A u \in User : at[u] \notin {"sg_reset", "sg_clear"} => result[u] = None
  /\ \A u \in User : at[u] \in {"sg_wait", "sg_timed", "sg_read"} => message \in {None, held[u]}
  /\ syncTag # None => \E u \in User : InWait(u) /\ held[u] = syncTag
  /\ AnswerIsMine

(* processEvents: once it has popped a message, its token can be taken.    *)
ProcessEventsNeverBlocks == \A u \in User : at[u] = "pe_sem" => sem > 0

(* The two ways for queueLock_ to be kept for ever. *)
LockKept == leak # None \/ \E u \in User : at[u] = "pe_sem" /\ sem = 0

(* callbackThread: a queued message is delivered, unless the thread has been *)
(* asked to stop or queueLock_ is never released.                           *)
EventsAreDelivered ==
  \A m \in Event :
    m \in Elements(queue) ~> (m \in Elements(delivered) \/ stop \/ LockKept)

(* stopCallbackThread, onClose: the callback thread ends, even when messages *)
(* or stolen tokens come first, unless queueLock_ is never released.        *)
StopEndsTheThread == stop ~> (cb.at = "ended" \/ LockKept)
=============================================================================
