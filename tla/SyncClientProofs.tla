--------------------------- MODULE SyncClientProofs ---------------------------
(***************************************************************************)
(* Proofs about SyncClient, for any number of users, events and requests:  *)
(* the tokens of sem_ match the queue, no message is lost or delivered     *)
(* twice, and calls of syncGet that do not overlap get their own answers.  *)
(***************************************************************************)
EXTENDS SyncClient, ListsProofs

(* The user that goes to a place, and the others. *)
LEMMA GoesFacts ==
  ASSUME TypeOK, NEW u \in User, NEW p \in Place, Goes(u, p)
  PROVE  /\ at' \in [User -> Place] /\ at'[u] = p
         /\ \A v \in User \ {u} : at'[v] = at[v]
BY DEF TypeOK, Goes

(* The same for what it holds. *)
LEMMA HeldFacts ==
  ASSUME TypeOK, NEW u \in User, NEW m \in Message \cup {None},
         held' = [held EXCEPT ![u] = m]
  PROVE  /\ held' \in [User -> Message \cup {None}] /\ held'[u] = m
         /\ \A v \in User \ {u} : held'[v] = held[v]
BY DEF TypeOK

(* The fields of the callback thread. *)
LEMMA CbFields ==
  ASSUME TypeOK
  PROVE  /\ cb \in [at : CbPlace, held : Message \cup {None}]
         /\ cb.at \in CbPlace /\ cb.held \in Message \cup {None}
BY DEF TypeOK

-----------------------------------------------------------------------------
(* Types *)

LEMMA InitType == Init => TypeOK
<1> SUFFICES ASSUME Init PROVE TypeOK
  OBVIOUS
<1>1. queue \in Seq(Message) /\ delivered \in Seq(Message)
  BY EmptyFacts DEF Init
<1>2. cb \in [at : CbPlace, held : Message \cup {None}]
  BY DEF Init, CbPlace
<1>3. /\ at \in [User -> Place] /\ held \in [User -> Message \cup {None}]
      /\ result \in [User -> Request \cup {None}]
  BY DEF Init, Place
<1> QED
  BY <1>1, <1>2, <1>3 DEF Init, TypeOK

LEMMA ReceiveType ==
  ASSUME TypeOK, NEW m \in Message, Receive(m)
  PROVE  TypeOK'
<1>1. Append(queue, m) \in Seq(Message)
  BY AppendFacts DEF TypeOK
<1>2. Awaited(m) => m \in Request
  BY DEF TypeOK, Awaited
<1>3. sem + 1 \in Nat /\ syncLock + 1 \in Nat
  BY DEF TypeOK
<1> QED
  BY <1>1, <1>2, <1>3 DEF TypeOK, Receive, sync, halt, user

LEMMA CloseType == TypeOK /\ Close => TypeOK'
BY DEF TypeOK, Close, sync, user

LEMMA CbType ==
  ASSUME TypeOK, PlaceInv, CbStep
  PROVE  TypeOK'
<1>1. /\ sem \in Nat /\ (sem > 0 => sem - 1 \in Nat) /\ sem + 1 \in Nat /\ stopSem + 1 \in Nat
  BY DEF TypeOK
<1>2. CASE CbTake
  <2>1. cb' \in [at : CbPlace, held : Message \cup {None}]
    BY <1>2, CbFields DEF CbTake, CbPlace
  <2> QED
    BY <1>1, <1>2, <2>1 DEF TypeOK, CbTake, sync, halt, user
<1>3. CASE CbTest
  <2>1. cb' \in [at : CbPlace, held : Message \cup {None}]
    BY <1>3, CbFields DEF CbTest, CbPlace
  <2> QED
    BY <1>1, <1>3, <2>1 DEF TypeOK, CbTest, sync, tokens, user
<1>4. CASE CbPop
  <2>1. queue # << >> => Head(queue) \in Message /\ Tail(queue) \in Seq(Message)
    BY TailFacts DEF TypeOK
  <2>2. cb' \in [at : CbPlace, held : Message \cup {None}]
    BY <1>4, <2>1, CbFields DEF CbPop, CbPlace
  <2> QED
    BY <1>1, <1>4, <2>1, <2>2 DEF TypeOK, CbPop, sync, halt, user
<1>5. CASE CbCall
  <2>1. cb' \in [at : CbPlace, held : Message \cup {None}]
    BY <1>5 DEF CbCall, CbPlace
  <2>2. cb.held \in Message => Append(delivered, cb.held) \in Seq(Message)
    BY AppendFacts DEF TypeOK
  <2>3. cb.held \in Message
    BY <1>5, CbFields DEF CbCall, PlaceInv, TypeOK
  <2> QED
    BY <1>5, <2>1, <2>2, <2>3 DEF TypeOK, CbCall, tokens, sync, halt, user
<1> QED
  BY <1>2, <1>3, <1>4, <1>5 DEF CbStep

(* syncGet and waitForTag. *)
LEMMA SyncType ==
  ASSUME TypeOK, NEW u \in User,
         \/ \E r \in Request : SyncGet(u, r)
         \/ SyncToken(u) \/ SyncTimeout(u) \/ SyncRead(u) \/ SyncReset(u) \/ SyncReturn(u)
  PROVE  TypeOK'
<1>1. ASSUME NEW r \in Request, SyncGet(u, r)
      PROVE  TypeOK'
  <2>1. r \in Message \cup {None}
    BY DEF Message
  <2>2. at' \in [User -> Place] /\ held' \in [User -> Message \cup {None}]
    BY <1>1, <2>1, GoesFacts, HeldFacts DEF TypeOK, SyncGet, Place
  <2> QED
    BY <1>1, <2>2 DEF TypeOK, SyncGet, tokens, halt
<1>2. CASE SyncToken(u) \/ SyncTimeout(u)
  <2>1. at' \in [User -> Place]
    BY <1>2, GoesFacts DEF SyncToken, SyncTimeout, Place
  <2>2. syncLock' \in Nat
    BY <1>2 DEF TypeOK, SyncToken, SyncTimeout, sync
  <2> QED
    BY <1>2, <2>1, <2>2 DEF TypeOK, SyncToken, SyncTimeout, tokens, sync, halt
<1>3. CASE SyncRead(u) \/ SyncReset(u)
  <2>1. at' \in [User -> Place]
    BY <1>3, GoesFacts DEF SyncRead, SyncReset, Place
  <2> QED
    BY <1>3, <2>1 DEF TypeOK, SyncRead, SyncReset, tokens, sync, halt
<1>4. CASE SyncReturn(u)
  <2>1. at' \in [User -> Place] /\ held' \in [User -> Message \cup {None}]
    BY <1>4, GoesFacts, HeldFacts DEF SyncReturn, Place
  <2> QED
    BY <1>4, <2>1 DEF TypeOK, SyncReturn, tokens, halt
<1> QED
  BY <1>1, <1>2, <1>3, <1>4

(* processEvents. *)
LEMMA ProcessType ==
  ASSUME TypeOK, PlaceInv, NEW u \in User,
         ProcessEvents(u) \/ ProcessToken(u) \/ ProcessCall(u)
  PROVE  TypeOK'
<1>1. CASE ProcessEvents(u)
  <2>1. Head(queue) \in Message /\ Tail(queue) \in Seq(Message)
    BY <1>1, TailFacts DEF TypeOK, ProcessEvents
  <2>2. at' \in [User -> Place] /\ held' \in [User -> Message \cup {None}]
    BY <1>1, <2>1, GoesFacts, HeldFacts DEF ProcessEvents, Place
  <2> QED
    BY <1>1, <2>1, <2>2 DEF TypeOK, ProcessEvents, tokens, sync, halt
<1>2. CASE ProcessToken(u)
  <2>1. at' \in [User -> Place]
    BY <1>2, GoesFacts DEF ProcessToken, Place
  <2>2. sem' \in Nat
    BY <1>2 DEF TypeOK, ProcessToken
  <2> QED
    BY <1>2, <2>1, <2>2 DEF TypeOK, ProcessToken, sync, halt
<1>3. CASE ProcessCall(u)
  <2>1. held[u] \in Message
    BY <1>3 DEF TypeOK, PlaceInv, Handling, ProcessCall
  <2>2. at' \in [User -> Place] /\ held' \in [User -> Message \cup {None}]
    BY <1>3, GoesFacts, HeldFacts DEF ProcessCall, Place
  <2>3. Append(delivered, held[u]) \in Seq(Message)
    BY <2>1, AppendFacts DEF TypeOK
  <2> QED
    BY <1>3, <2>2, <2>3 DEF TypeOK, ProcessCall, tokens, sync, halt
<1> QED
  BY <1>1, <1>2, <1>3

(* stopCallbackThread. *)
LEMMA StopType ==
  ASSUME TypeOK, NEW u \in User, StopTest(u) \/ StopSet(u) \/ StopWait(u)
  PROVE  TypeOK'
<1>1. at' \in [User -> Place]
  BY GoesFacts DEF StopTest, StopSet, StopWait, Place
<1>2. sem' \in Nat /\ posted' \in Nat /\ syncLock' \in Nat /\ stopSem' \in Nat
  BY DEF TypeOK, StopTest, StopSet, StopWait, tokens, sync, halt
<1> QED
  BY <1>1, <1>2 DEF TypeOK, StopTest, StopSet, StopWait, tokens, sync, halt

-----------------------------------------------------------------------------
(* The tokens of sem_ *)

Taking == {u \in User : at[u] = "pe_sem"}

(* The two sides of the equation, as numbers. *)
LEMMA TokenFacts ==
  ASSUME TypeOK, TokenInv
  PROVE  /\ IsFiniteSet(Taking) /\ Cardinality(Taking) \in Nat
         /\ sem \in Nat /\ posted \in Nat /\ Len(queue) \in Nat
         /\ sem + One(cb.at \in {"test", "lock"})
              = Len(queue) + Cardinality(Taking) + posted - One(cb.at = "ended")
<1>1. IsFiniteSet(Taking) /\ Cardinality(Taking) \in Nat
  BY FS_CardinalityType DEF TokenInv, Taking
<1>2. Len(queue) \in Nat
  BY ElementsFacts DEF TypeOK
<1> QED
  BY <1>1, <1>2 DEF TypeOK, TokenInv, TokensMatchQueue, Sum, Taking

(* A step that keeps the balance, whatever moves. *)
LEMMA TokenKept ==
  ASSUME TypeOK, TokenInv,
         IsFiniteSet(Taking'), Cardinality(Taking') \in Nat,
         sem' \in Int, posted' \in Int, Len(queue') \in Int,
         (sem' - sem) + (One(cb'.at \in {"test", "lock"}) - One(cb.at \in {"test", "lock"}))
           = (Len(queue') - Len(queue)) + (Cardinality(Taking') - Cardinality(Taking))
             + (posted' - posted) - (One(cb'.at = "ended") - One(cb.at = "ended"))
  PROVE  TokenInv'
<1>1. sem' + One(cb'.at \in {"test", "lock"})
        = Len(queue') + Cardinality(Taking') + posted' - One(cb'.at = "ended")
  <2> DEFINE a == One(cb.at \in {"test", "lock"})
             e == One(cb.at = "ended")
             a1 == One(cb'.at \in {"test", "lock"})
             e1 == One(cb'.at = "ended")
             k == Cardinality(Taking)
             k1 == Cardinality(Taking')
             l == Len(queue)
             l1 == Len(queue')
  <2>1. a \in Int /\ e \in Int /\ a1 \in Int /\ e1 \in Int
    BY DEF One
  <2>2. /\ k \in Int /\ k1 \in Int /\ l \in Int /\ l1 \in Int
        /\ sem \in Int /\ posted \in Int /\ sem' \in Int /\ posted' \in Int
    BY TokenFacts
  <2>3. sem + a = l + k + posted - e
    BY TokenFacts
  <2>4. (sem' - sem) + (a1 - a) = (l1 - l) + (k1 - k) + (posted' - posted) - (e1 - e)
    OBVIOUS
  <2> HIDE DEF a, e, a1, e1, k, k1, l, l1
  <2>5. ASSUME NEW s \in Int, NEW s1 \in Int, NEW p \in Int, NEW p1 \in Int,
               s + a = l + k + p - e,
               (s1 - s) + (a1 - a) = (l1 - l) + (k1 - k) + (p1 - p) - (e1 - e)
        PROVE  s1 + a1 = l1 + k1 + p1 - e1
    BY <2>1, <2>2, <2>5
  <2>6. sem' + a1 = l1 + k1 + posted' - e1
    BY <2>2, <2>3, <2>4, <2>5
  <2> QED
    BY <2>6 DEF a1, e1, k1, l1
<1> QED
  BY <1>1 DEF TokenInv, TokensMatchQueue, Sum, Taking

(* Steps that leave the semaphore, the queue and the callback thread alone. *)
LEMMA TokenSame ==
  ASSUME TokenInv, UNCHANGED <<sem, posted, queue>>, cb'.at = cb.at, Taking' = Taking
  PROVE  TokenInv'
BY DEF TokenInv, TokensMatchQueue, Sum, Taking

LEMMA ReceiveToken ==
  ASSUME TypeOK, TokenInv, (\E m \in Message : Receive(m)) \/ Close
  PROVE  TokenInv'
<1>1. cb' = cb /\ Taking' = Taking
  BY DEF Receive, Close, user, Taking
<1>2. CASE Close
  <2>1. sem' = sem + 1 /\ posted' = posted + 1 /\ queue' = queue
    BY <1>2 DEF Close
  <2> QED
    BY <1>1, <2>1, TokenFacts, TokenKept DEF One
<1>3. ASSUME NEW m \in Message, Receive(m)
      PROVE  TokenInv'
  <2>1. CASE Awaited(m)
    BY <1>1, <1>3, <2>1, TokenSame DEF Receive
  <2>2. CASE ~Awaited(m)
    <3>1. sem' = sem + 1 /\ posted' = posted /\ queue' = Append(queue, m)
      BY <1>3, <2>2 DEF Receive, sync
    <3>2. Len(Append(queue, m)) = Len(queue) + 1
      BY AppendFacts DEF TypeOK
    <3>3. Len(queue') = Len(queue) + 1
      BY <3>1, <3>2
    <3> QED
      BY <1>1, <3>1, <3>3, TokenFacts, TokenKept DEF One
  <2> QED
    BY <2>1, <2>2
<1> QED
  BY <1>2, <1>3

LEMMA CbToken ==
  ASSUME TypeOK, TokenInv, CbStep
  PROVE  TokenInv'
<1>1. Taking' = Taking /\ posted' = posted
  BY DEF CbStep, CbTake, CbTest, CbPop, CbCall, tokens, user, Taking
<1>2. CASE CbTake
  <2>1. sem' = sem - 1 /\ queue' = queue /\ cb.at = "sem" /\ cb'.at = "test"
    BY <1>2, CbFields DEF CbTake
  <2> QED
    BY <1>1, <2>1, TokenFacts, TokenKept DEF One
<1>3. CASE CbTest
  <2>1. sem' = sem /\ queue' = queue /\ cb.at = "test" /\ cb'.at \in {"lock", "ended"}
    BY <1>3, CbFields DEF CbTest, tokens
  <2> QED
    BY <1>1, <2>1, TokenFacts, TokenKept DEF One
<1>4. CASE CbPop /\ queue = << >>
  <2>1. sem' = sem + 1 /\ queue' = queue /\ cb.at = "lock" /\ cb'.at = "sem"
    BY <1>4, CbFields DEF CbPop
  <2> QED
    BY <1>1, <2>1, TokenFacts, TokenKept DEF One
<1>5. CASE CbPop /\ queue # << >>
  <2>1. sem' = sem /\ queue' = Tail(queue) /\ cb.at = "lock" /\ cb'.at = "call"
    BY <1>5 DEF CbPop
  <2>2. Len(Tail(queue)) = Len(queue) - 1
    BY <1>5, TailFacts DEF TypeOK
  <2>3. Len(queue') = Len(queue) - 1
    BY <2>1, <2>2
  <2>4. sem' = sem /\ cb.at = "lock" /\ cb'.at = "call"
    BY <2>1
  <2> QED
    BY <1>1, <2>3, <2>4, TokenFacts, TokenKept DEF One
<1>6. CASE CbCall
  <2>1. sem' = sem /\ queue' = queue /\ cb.at = "call" /\ cb'.at = "sem"
    BY <1>6 DEF CbCall, tokens
  <2> QED
    BY <1>1, <2>1, TokenFacts, TokenKept DEF One
<1> QED
  BY <1>2, <1>3, <1>4, <1>5, <1>6 DEF CbStep

(* A user outside sem_--. *)
LEMMA UserToken ==
  ASSUME TypeOK, TokenInv, NEW u \in User,
         \/ \E r \in Request : SyncGet(u, r)
         \/ SyncToken(u) \/ SyncTimeout(u) \/ SyncRead(u) \/ SyncReset(u) \/ SyncReturn(u)
         \/ ProcessCall(u) \/ StopTest(u) \/ StopWait(u) \/ StopSet(u)
  PROVE  TokenInv'
<1>1. Taking' = Taking
  <2>1. at[u] # "pe_sem" /\ at'[u] # "pe_sem" /\ \A v \in User \ {u} : at'[v] = at[v]
    BY GoesFacts DEF SyncGet, SyncToken, SyncTimeout, SyncRead, SyncReset, SyncReturn,
       ProcessCall, StopTest, StopWait, StopSet, Place
  <2> QED
    BY <2>1 DEF Taking
<1>2. CASE StopSet(u)
  <2>1. sem' = sem + 1 /\ posted' = posted + 1 /\ queue' = queue /\ cb' = cb
    BY <1>2 DEF StopSet
  <2> QED
    BY <1>1, <2>1, TokenFacts, TokenKept DEF One
<1>3. CASE ~StopSet(u)
  <2>1. UNCHANGED <<sem, posted, queue, cb>>
    BY <1>3 DEF SyncGet, SyncToken, SyncTimeout, SyncRead, SyncReset, SyncReturn,
       ProcessCall, StopTest, StopWait, tokens
  <2> QED
    BY <1>1, <2>1, TokenSame
<1> QED
  BY <1>2, <1>3

(* processEvents, with the lock: the message, then its token. *)
LEMMA ProcessTokenInv ==
  ASSUME TypeOK, TokenInv, NEW u \in User, ProcessEvents(u) \/ ProcessToken(u)
  PROVE  TokenInv'
<1>1. CASE ProcessEvents(u)
  <2>1. /\ sem' = sem /\ posted' = posted /\ cb' = cb /\ queue' = Tail(queue)
        /\ queue # << >> /\ at[u] = "idle"
    BY <1>1 DEF ProcessEvents, tokens
  <2>2. Len(Tail(queue)) = Len(queue) - 1
    BY <2>1, TailFacts DEF TypeOK
  <2>3. Len(queue') = Len(queue) - 1
    BY <2>1, <2>2
  <2>4. Taking' = Taking \cup {u} /\ u \notin Taking
    BY <1>1, <2>1, GoesFacts DEF ProcessEvents, Place, Taking
  <2>5. /\ IsFiniteSet(Taking \cup {u})
        /\ Cardinality(Taking \cup {u}) = Cardinality(Taking) + 1
    BY <2>4, TokenFacts, FS_AddElement
  <2>6. IsFiniteSet(Taking') /\ Cardinality(Taking') = Cardinality(Taking) + 1
    BY <2>4, <2>5
  <2> QED
    BY <2>1, <2>3, <2>6, TokenFacts, TokenKept DEF One
<1>2. CASE ProcessToken(u)
  <2>1. /\ sem' = sem - 1 /\ posted' = posted /\ cb' = cb /\ queue' = queue
        /\ at[u] = "pe_sem"
    BY <1>2 DEF ProcessToken
  <2>2. Taking' = Taking \ {u} /\ u \in Taking
    BY <1>2, <2>1, GoesFacts DEF ProcessToken, Place, Taking
  <2>3. /\ IsFiniteSet(Taking \ {u})
        /\ Cardinality(Taking \ {u}) = Cardinality(Taking) - 1
        /\ Cardinality(Taking \ {u}) \in Nat
    BY <2>2, TokenFacts, FS_RemoveElement, FS_CardinalityType
  <2>4. /\ IsFiniteSet(Taking') /\ Cardinality(Taking') = Cardinality(Taking) - 1
        /\ Cardinality(Taking') \in Nat
    BY <2>2, <2>3
  <2> QED
    BY <2>1, <2>4, TokenFacts, TokenKept DEF One
<1> QED
  BY <1>1, <1>2

-----------------------------------------------------------------------------
(* A message is in one place *)

(* Steps that move no message. *)
LEMMA PlaceSame ==
  ASSUME PlaceInv, UNCHANGED <<delivered, queue, arrived>>, cb'.held = cb.held,
         (cb'.at = "call") <=> (cb.at = "call"),
         \A u \in User : /\ (at'[u] \in {"pe_sem", "pe_call"}) <=> Handling(u)
                         /\ Handling(u) => held'[u] = held[u]
  PROVE  PlaceInv'
BY DEF PlaceInv, Handling

LEMMA ReceivePlace ==
  ASSUME TypeOK, PlaceInv, NEW m \in Message, Receive(m)
  PROVE  PlaceInv'
<1>1. /\ arrived' = arrived \cup {m} /\ m \notin arrived
      /\ UNCHANGED <<delivered, cb, at, held>>
  BY DEF Receive, user
<1>2. cb.held # m /\ \A u \in User : Handling(u) => held[u] # m
  BY <1>1, NoneAssumption DEF PlaceInv, Message
<1>3. m \notin Elements(delivered) \cup Elements(queue)
  BY <1>1 DEF PlaceInv
<1>4. CASE Awaited(m)
  <2>1. queue' = queue /\ m \notin Event
    BY <1>4, MessageAssumption, NoneAssumption DEF Receive, Awaited, TypeOK
  <2> QED
    BY <1>1, <1>2, <1>3, <2>1 DEF PlaceInv, Handling
<1>5. CASE ~Awaited(m)
  <2>1. /\ queue' = Append(queue, m) /\ Elements(Append(queue, m)) = Elements(queue) \cup {m}
        /\ Distinct(Append(queue, m))
    BY <1>3, <1>5, AppendFacts DEF Receive, TypeOK, PlaceInv
  <2>2. Elements(queue') = Elements(queue) \cup {m} /\ Distinct(queue')
    BY <2>1
  <2> QED
    BY <1>1, <1>2, <1>3, <2>2 DEF PlaceInv, Handling
<1> QED
  BY <1>4, <1>5

LEMMA CbPopPlace ==
  ASSUME TypeOK, PlaceInv, CbPop
  PROVE  PlaceInv'
<1>1. UNCHANGED <<delivered, arrived, at, held>> /\ cb.at = "lock" /\ cb.held = None
  BY DEF CbPop, user, PlaceInv
<1>2. CASE queue = << >>
  <2>1. queue' = queue /\ cb'.at = "sem" /\ cb'.held = None
    BY <1>1, <1>2, CbFields DEF CbPop
  <2> QED
    BY <1>1, <2>1, PlaceSame DEF Handling
<1>3. CASE queue # << >>
  <2> DEFINE m == Head(queue)
  <2>1. queue' = Tail(queue) /\ cb'.at = "call" /\ cb'.held = m
    BY <1>3 DEF CbPop
  <2>2. /\ m \in Message /\ Distinct(Tail(queue)) /\ m \notin Elements(Tail(queue))
        /\ Elements(queue) = {m} \cup Elements(Tail(queue))
    BY <1>3, TailFacts DEF TypeOK, PlaceInv
  <2>3. /\ m \in Message /\ Distinct(queue') /\ m \notin Elements(queue')
        /\ Elements(queue) = {m} \cup Elements(queue')
    BY <2>1, <2>2
  <2>4. cb'.at = "call" /\ cb'.held = m
    BY <2>1
  <2> HIDE DEF m
  <2>5. m \in arrived /\ m \notin Elements(delivered) /\ \A u \in User : Handling(u) => held[u] # m
    BY <2>3 DEF PlaceInv
  <2> QED
    BY <1>1, <2>3, <2>4, <2>5, NoneAssumption DEF PlaceInv, Handling
<1> QED
  BY <1>2, <1>3

LEMMA CbCallPlace ==
  ASSUME TypeOK, PlaceInv, CbCall
  PROVE  PlaceInv'
<1> DEFINE m == cb.held
<1>1. /\ delivered' = Append(delivered, m) /\ cb'.at = "sem" /\ cb'.held = None
      /\ UNCHANGED <<queue, arrived, at, held>> /\ cb.at = "call"
  BY DEF CbCall, user
<1>2. /\ m \in arrived /\ m \in Message /\ m \notin Elements(delivered)
      /\ m \notin Elements(queue) /\ \A u \in User : Handling(u) => held[u] # m
  BY <1>1 DEF PlaceInv, TypeOK
<1>3. /\ Elements(Append(delivered, m)) = Elements(delivered) \cup {m}
      /\ Distinct(Append(delivered, m))
  BY <1>2, AppendFacts DEF TypeOK, PlaceInv
<1>4. Elements(delivered') = Elements(delivered) \cup {m} /\ Distinct(delivered')
  BY <1>1, <1>3
<1>5. /\ UNCHANGED <<queue, arrived, at, held>> /\ cb.at = "call" /\ cb.held = m
      /\ cb'.at = "sem" /\ cb'.held = None
  BY <1>1
<1> HIDE DEF m
<1>6. \A u \in User : Handling(u) => held[u] \in Message
  BY DEF PlaceInv, TypeOK
<1> QED
  BY <1>2, <1>4, <1>5, <1>6, NoneAssumption DEF PlaceInv, Handling, Message

LEMMA ProcessEventsPlace ==
  ASSUME TypeOK, PlaceInv, NEW u \in User, ProcessEvents(u)
  PROVE  PlaceInv'
<1> DEFINE m == Head(queue)
<1>1. /\ queue # << >> /\ queue' = Tail(queue) /\ held' = [held EXCEPT ![u] = m]
      /\ UNCHANGED <<delivered, arrived, cb>> /\ at[u] = "idle" /\ Goes(u, "pe_sem")
  BY DEF ProcessEvents
<1>2. /\ m \in Message /\ Distinct(Tail(queue)) /\ m \notin Elements(Tail(queue))
      /\ Elements(queue) = {m} \cup Elements(Tail(queue))
  BY <1>1, TailFacts DEF TypeOK, PlaceInv
<1>3. /\ m \in Message /\ Distinct(queue') /\ m \notin Elements(queue')
      /\ Elements(queue) = {m} \cup Elements(queue')
  BY <1>1, <1>2
<1>4. /\ held'[u] = m /\ at'[u] = "pe_sem"
      /\ \A v \in User \ {u} : held'[v] = held[v] /\ at'[v] = at[v]
  BY <1>1, <1>2, GoesFacts, HeldFacts DEF Place
<1>5. UNCHANGED <<delivered, arrived, cb>> /\ at[u] = "idle"
  BY <1>1
<1> HIDE DEF m
<1>6. /\ m \in arrived /\ m \notin Elements(delivered) /\ m # cb.held
      /\ \A v \in User : Handling(v) => held[v] # m
  BY <1>3, NoneAssumption DEF PlaceInv, Message
<1>7. /\ ~Handling(u) /\ Handling(u)'
      /\ \A v \in User \ {u} : (Handling(v)' <=> Handling(v)) /\ held'[v] = held[v]
  BY <1>4, <1>5 DEF Handling
<1> QED
  BY <1>3, <1>4, <1>5, <1>6, <1>7 DEF PlaceInv

LEMMA ProcessCallPlace ==
  ASSUME TypeOK, PlaceInv, NEW u \in User, ProcessCall(u)
  PROVE  PlaceInv'
<1> DEFINE m == held[u]
<1>1. /\ delivered' = Append(delivered, m) /\ held' = [held EXCEPT ![u] = None]
      /\ UNCHANGED <<queue, arrived, cb>> /\ at[u] = "pe_call" /\ Goes(u, "idle")
  BY DEF ProcessCall
<1>2. /\ m \in arrived /\ m \in Message /\ m \notin Elements(delivered)
      /\ m \notin Elements(queue) /\ m # cb.held
      /\ \A v \in User \ {u} : Handling(v) => held[v] # m
  BY <1>1 DEF PlaceInv, TypeOK, Handling
<1>3. /\ Elements(Append(delivered, m)) = Elements(delivered) \cup {m}
      /\ Distinct(Append(delivered, m))
  BY <1>2, AppendFacts DEF TypeOK, PlaceInv
<1>4. Elements(delivered') = Elements(delivered) \cup {m} /\ Distinct(delivered')
  BY <1>1, <1>3
<1>5. \A v \in User \ {u} : held'[v] = held[v] /\ at'[v] = at[v]
  BY <1>1, GoesFacts, HeldFacts DEF Place
<1>6. UNCHANGED <<queue, arrived, cb>> /\ held[u] = m
  BY <1>1
<1>7. /\ ~Handling(u)' /\ Handling(u)
      /\ \A v \in User \ {u} : (Handling(v)' <=> Handling(v)) /\ held'[v] = held[v]
  BY <1>1, <1>5, GoesFacts DEF Handling, Place
<1> HIDE DEF m
<1> QED
  BY <1>2, <1>4, <1>6, <1>7 DEF PlaceInv

(* The other steps of a user. *)
LEMMA UserPlace ==
  ASSUME TypeOK, PlaceInv, NEW u \in User,
         \/ \E r \in Request : SyncGet(u, r)
         \/ SyncToken(u) \/ SyncTimeout(u) \/ SyncRead(u) \/ SyncReset(u) \/ SyncReturn(u)
         \/ ProcessToken(u) \/ StopTest(u) \/ StopWait(u) \/ StopSet(u)
  PROVE  PlaceInv'
<1>1. UNCHANGED <<delivered, queue, arrived, cb>>
  BY DEF SyncGet, SyncToken, SyncTimeout, SyncRead, SyncReset, SyncReturn,
     ProcessToken, StopTest, StopWait, StopSet
<1>2. \A v \in User \ {u} : at'[v] = at[v]
  BY GoesFacts DEF SyncGet, SyncToken, SyncTimeout, SyncRead, SyncReset, SyncReturn,
     ProcessToken, StopTest, StopWait, StopSet, Place
<1>3. \A v \in User : held'[v] = held[v] \/ (v = u /\ ~Handling(u))
  <2>1. ASSUME NEW r \in Request, SyncGet(u, r)
        PROVE  held' = held \/ (held' = [held EXCEPT ![u] = r] /\ ~Handling(u))
    BY <2>1 DEF SyncGet, Handling
  <2>2. CASE \E r \in Request : SyncGet(u, r)
    BY <2>1, <2>2, HeldFacts DEF Message
  <2>3. CASE SyncReturn(u)
    BY <2>3, HeldFacts DEF SyncReturn, Handling
  <2>4. CASE \/ SyncToken(u) \/ SyncTimeout(u) \/ SyncRead(u) \/ SyncReset(u)
             \/ ProcessToken(u) \/ StopTest(u) \/ StopWait(u) \/ StopSet(u)
    BY <2>4 DEF SyncToken, SyncTimeout, SyncRead, SyncReset, ProcessToken, StopTest, StopWait,
       StopSet
  <2> QED
    BY <2>2, <2>3, <2>4
<1>4. (at'[u] \in {"pe_sem", "pe_call"}) <=> Handling(u)
  BY GoesFacts DEF SyncGet, SyncToken, SyncTimeout, SyncRead, SyncReset, SyncReturn,
     ProcessToken, StopTest, StopWait, StopSet, Place, Handling
<1> QED
  BY <1>1, <1>2, <1>3, <1>4, PlaceSame DEF Handling

-----------------------------------------------------------------------------
(* The theorems *)

LEMMA InitInv == Init => ClientInv
<1> SUFFICES ASSUME Init PROVE ClientInv
  OBVIOUS
<1>1. Taking = {}
  BY DEF Init, Taking
<1>2. TokenInv
  <2>1. IsFiniteSet(Taking) /\ Cardinality(Taking) = 0
    BY <1>1, FS_EmptySet
  <2>2. /\ sem = 0 /\ posted = 0 /\ Len(queue) = 0
        /\ One(cb.at \in {"test", "lock"}) = 0 /\ One(cb.at = "ended") = 0
    BY EmptyFacts DEF Init, One
  <2> QED
    BY <2>1, <2>2 DEF TokenInv, TokensMatchQueue, Sum, Taking
<1>3. PlaceInv
  BY EmptyFacts DEF Init, PlaceInv, Handling
<1> QED
  BY <1>2, <1>3, InitType DEF ClientInv

LEMMA NextInv == ClientInv /\ [Next]_vars => ClientInv'
<1> SUFFICES ASSUME TypeOK, TokenInv, PlaceInv, [Next]_vars PROVE ClientInv'
  BY DEF ClientInv
<1>1. CASE \E m \in Message : Receive(m)
  BY <1>1, ReceiveType, ReceiveToken, ReceivePlace DEF ClientInv
<1>2. CASE Close
  <2>1. UNCHANGED <<delivered, queue, arrived, cb, at, held>>
    BY <1>2 DEF Close, user
  <2> QED
    BY <1>2, <2>1, CloseType, ReceiveToken, PlaceSame DEF ClientInv, Handling
<1>3. CASE CbStep
  <2>1. CASE CbTake \/ CbTest
    <3>1. /\ cb'.held = cb.held /\ cb.at # "call" /\ cb'.at # "call"
          /\ UNCHANGED <<delivered, queue, arrived, at, held>>
      BY <2>1, CbFields DEF CbTake, CbTest, user
    <3> QED
      BY <3>1, PlaceSame, <1>3, CbType, CbToken DEF ClientInv, Handling
  <2> QED
    BY <1>3, <2>1, CbType, CbToken, CbPopPlace, CbCallPlace DEF CbStep, ClientInv
<1>4. ASSUME NEW u \in User,
             \/ UserStep(u) \/ SyncTimeout(u) \/ ProcessEvents(u) \/ StopTest(u)
             \/ \E r \in Request : SyncGet(u, r)
      PROVE  ClientInv'
  <2>1. TypeOK'
    BY <1>4, SyncType, ProcessType, StopType DEF UserStep
  <2>2. TokenInv'
    BY <1>4, UserToken, ProcessTokenInv DEF UserStep
  <2>3. PlaceInv'
    BY <1>4, UserPlace, ProcessEventsPlace, ProcessCallPlace DEF UserStep
  <2> QED
    BY <2>1, <2>2, <2>3 DEF ClientInv
<1>5. CASE UNCHANGED vars
  <2>1. TypeOK'
    BY <1>5 DEF TypeOK, vars, tokens, sync, halt, user
  <2>2. UNCHANGED <<sem, posted, delivered, queue, arrived, cb, at, held>> /\ Taking' = Taking
    BY <1>5 DEF vars, tokens, user, Taking
  <2> QED
    BY <2>1, <2>2, TokenSame, PlaceSame DEF ClientInv, Handling
<1> QED
  BY <1>1, <1>2, <1>3, <1>4, <1>5 DEF Next

(* The inductive invariant of the client. *)
THEOREM SpecClientInv == Spec => []ClientInv
BY InitInv, NextInv, PTL DEF Spec

(* sem_: every message of the queue has its token, whatever processEvents,   *)
(* stop and close do.                                                       *)
THEOREM SpecTokensMatchQueue == Spec => []TokensMatchQueue
<1>1. ClientInv => TokensMatchQueue
  BY DEF ClientInv, TokenInv
<1> QED
  BY SpecClientInv, <1>1, PTL

(* callbackThread, processEvents: no message is lost, or delivered twice.   *)
THEOREM SpecNoMessageLost == Spec => []NoMessageLost
<1>1. ClientInv => NoMessageLost
  <2> SUFFICES ASSUME TypeOK, PlaceInv PROVE NoMessageLost
    BY DEF ClientInv
  <2> DEFINE places == delivered \o queue
             hands == {u \in User : at[u] \in {"pe_sem", "pe_call"}}
             taken == {held[u] : u \in hands} \cup ({cb.held} \ {None})
  <2>1. /\ places \in Seq(Message) /\ Distinct(places)
        /\ Elements(places) = Elements(delivered) \cup Elements(queue)
    BY ConcatFacts DEF TypeOK, PlaceInv
  <2> HIDE DEF places
  <2>2. Cardinality(Elements(places)) = Len(places)
    BY <2>1, DistinctCount
  <2>3. Elements(places) \cap taken = {}
    BY <2>1 DEF PlaceInv, Handling
  <2>4. Event \cap arrived \subseteq Elements(places) \cup taken
    BY <2>1, NoneAssumption DEF PlaceInv, Handling
  <2> QED
    BY <2>2, <2>3, <2>4 DEF NoMessageLost, places
<1> QED
  BY SpecClientInv, <1>1, PTL

-----------------------------------------------------------------------------
(* Calls of syncGet that do not overlap *)

(* What every step but those of waitForTag leaves. *)
LEMMA AnswerSame ==
  ASSUME AnswerInv, result' = result, message' = message,
         syncTag' = syncTag,
         \A u \in User : \/ at'[u] = at[u] /\ held'[u] = held[u]
                         \/ ~InWait(u) /\ ~InWait(u)'
  PROVE  AnswerInv'
<1>1. \A u \in User : InWait(u) => InWait(u)' /\ at'[u] = at[u] /\ held'[u] = held[u]
  BY DEF InWait
<1>2. \A u \in User : at'[u] \in {"sg_wait", "sg_timed", "sg_read"}
                      => at'[u] = at[u] /\ held'[u] = held[u]
  BY DEF InWait
<1>3. \A u \in User : at'[u] \notin {"sg_reset", "sg_clear"} => result'[u] = None
  BY DEF InWait, AnswerInv
<1>4. AnswerIsMine'
  BY <1>1, <1>3 DEF AnswerInv, AnswerIsMine, InWait
<1> QED
  BY <1>1, <1>2, <1>3, <1>4 DEF AnswerInv

LEMMA ReceiveAnswer ==
  ASSUME TypeOK, AnswerInv, OneWaits, NEW m \in Message, Receive(m)
  PROVE  AnswerInv'
<1>1. UNCHANGED <<at, held, result>>
  BY DEF Receive, user
<1>2. CASE Awaited(m)
  <2>1. message' = m /\ syncTag' = None /\ syncTag = m /\ m # None
    BY <1>2 DEF Receive, Awaited
  <2>2. \A u \in User : InWait(u) => held[u] = m
    BY <2>1 DEF AnswerInv, OneWaits
  <2> QED
    BY <1>1, <2>1, <2>2 DEF AnswerInv, AnswerIsMine, InWait
<1>3. CASE ~Awaited(m)
  BY <1>1, <1>3, AnswerSame DEF Receive, sync
<1> QED
  BY <1>2, <1>3

LEMMA SyncAnswer ==
  ASSUME TypeOK, AnswerInv, OneWaits, OneWaits', NEW u \in User,
         \/ \E r \in Request : SyncGet(u, r)
         \/ SyncToken(u) \/ SyncTimeout(u) \/ SyncRead(u) \/ SyncReset(u) \/ SyncReturn(u)
  PROVE  AnswerInv'
<1>0. \A v \in User \ {u} : at'[v] = at[v]
  BY GoesFacts DEF SyncGet, SyncToken, SyncTimeout, SyncRead, SyncReset, SyncReturn, Place
<1>1. ASSUME NEW r \in Request, SyncGet(u, r)
      PROVE  AnswerInv'
  <2>1. CASE message # None \/ syncTag # None
    BY <1>1, <2>1, AnswerSame DEF SyncGet
  <2>2. CASE message = None /\ syncTag = None
    <3>1. /\ at'[u] \in {"sg_wait", "sg_timed"} /\ held'[u] = r
          /\ \A v \in User \ {u} : held'[v] = held[v]
      BY <1>1, <2>2, GoesFacts, HeldFacts DEF SyncGet, Place, Message
    <3>2. at[u] = "idle" /\ syncTag' = r /\ message' = None /\ result' = result
      BY <1>1, <2>2 DEF SyncGet
    <3>3. result[u] = None
      BY <3>2 DEF AnswerInv
    <3> QED
      BY <1>0, <3>1, <3>2, <3>3 DEF AnswerInv, AnswerIsMine, InWait
  <2> QED
    BY <2>1, <2>2
<1>2. CASE SyncToken(u) \/ SyncTimeout(u)
  <2>1. /\ at[u] \in {"sg_wait", "sg_timed"} /\ at'[u] = "sg_read"
        /\ UNCHANGED <<held, result, message, syncTag>>
    BY <1>2, GoesFacts DEF SyncToken, SyncTimeout, Place, sync
  <2> QED
    BY <1>0, <2>1 DEF AnswerInv, AnswerIsMine, InWait
<1>3. CASE SyncRead(u)
  <2>1. /\ at[u] = "sg_read" /\ at'[u] = "sg_reset" /\ UNCHANGED <<held, message, syncTag>>
    BY <1>3, GoesFacts DEF SyncRead, Place, sync
  <2>2. result'[u] = message /\ \A v \in User \ {u} : result'[v] = result[v]
    BY <1>3 DEF SyncRead, TypeOK
  <2> QED
    BY <1>0, <2>1, <2>2 DEF AnswerInv, AnswerIsMine, InWait
<1>4. CASE SyncReset(u)
  <2>1. /\ at[u] = "sg_reset" /\ at'[u] = "sg_clear" /\ message' = None
        /\ UNCHANGED <<held, result, syncTag>>
    BY <1>4, GoesFacts DEF SyncReset, Place
  <2> QED
    BY <1>0, <2>1 DEF AnswerInv, AnswerIsMine, InWait
<1>5. CASE SyncReturn(u)
  <2>1. /\ at[u] = "sg_clear" /\ at'[u] = "idle" /\ message' = message /\ syncTag' = None
        /\ \A v \in User \ {u} : held'[v] = held[v]
    BY <1>5, GoesFacts, HeldFacts DEF SyncReturn, Place
  <2>2. result'[u] = None /\ \A v \in User \ {u} : result'[v] = result[v]
    BY <1>5 DEF SyncReturn, TypeOK
  <2> QED
    BY <1>0, <2>1, <2>2 DEF AnswerInv, AnswerIsMine, InWait
<1> QED
  BY <1>1, <1>2, <1>3, <1>4, <1>5

LEMMA NextAnswer ==
  ASSUME TypeOK, PlaceInv, AnswerInv, OneWaits, OneWaits', [Next]_vars
  PROVE  AnswerInv'
<1>1. CASE \E m \in Message : Receive(m)
  BY <1>1, ReceiveAnswer
<1>2. CASE Close \/ CbStep \/ UNCHANGED vars
  <2>1. UNCHANGED <<at, held, result, message, syncTag>>
    BY <1>2 DEF Close, CbStep, CbTake, CbTest, CbPop, CbCall, vars, user, sync
  <2> QED
    BY <2>1, AnswerSame
<1>3. ASSUME NEW u \in User,
             \/ ProcessEvents(u) \/ ProcessToken(u) \/ ProcessCall(u)
             \/ StopTest(u) \/ StopSet(u) \/ StopWait(u)
      PROVE  AnswerInv'
  <2>1. UNCHANGED <<result, message, syncTag>>
    BY <1>3 DEF ProcessEvents, ProcessToken, ProcessCall, StopTest, StopSet, StopWait, sync
  <2>2. /\ ~InWait(u) /\ ~InWait(u)' /\ \A v \in User \ {u} : at'[v] = at[v]
    BY <1>3, GoesFacts DEF ProcessEvents, ProcessToken, ProcessCall, StopTest, StopSet,
       StopWait, Place, InWait
  <2>3. \A v \in User \ {u} : held'[v] = held[v]
    <3>1. CASE ProcessEvents(u)
      BY <3>1, TailFacts, HeldFacts DEF ProcessEvents, TypeOK
    <3>2. CASE ProcessCall(u)
      BY <3>2, HeldFacts DEF ProcessCall
    <3>3. CASE ProcessToken(u) \/ StopTest(u) \/ StopSet(u) \/ StopWait(u)
      BY <3>3 DEF ProcessToken, StopTest, StopSet, StopWait
    <3> QED
      BY <1>3, <3>1, <3>2, <3>3
  <2> QED
    BY <2>1, <2>2, <2>3, AnswerSame
<1> QED
  BY <1>1, <1>2, <1>3, SyncAnswer DEF Next, UserStep

(* waitForTag: calls that do not overlap get their own answers, or 0.       *)
THEOREM SpecAnswerIsMineAlone == Spec => AnswerIsMineAlone
<1>1. Init => AnswerInv
  BY NoneAssumption DEF Init, AnswerInv, AnswerIsMine
<1>2. ClientInv /\ AnswerInv /\ OneWaits /\ OneWaits' /\ [Next]_vars => AnswerInv'
  BY NextAnswer DEF ClientInv
<1>3. AnswerInv => AnswerIsMine
  BY DEF AnswerInv
<1>4. Spec /\ []OneWaits => []AnswerInv
  BY <1>1, <1>2, SpecClientInv, PTL DEF Spec
<1>5. Spec /\ []OneWaits => []AnswerIsMine
  BY <1>3, <1>4, PTL
<1> QED
  BY <1>5, PTL DEF AnswerIsMineAlone
=============================================================================
