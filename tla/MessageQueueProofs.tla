------------------------- MODULE MessageQueueProofs -------------------------
(***************************************************************************)
(* For any number of connections, any bound on the queue and either side   *)
(* of the merge: the switch of handleRecievedMessage is never entered      *)
(* twice at a time, all dispatches are of the first message, client        *)
(* threads never wait for the missing notification, and all of it          *)
(* implements MessageCell.                                                 *)
(***************************************************************************)
EXTENDS MessageQueueProperties, TLAPS

\* A thread between taking the front and the end of the dispatch holds the
\* mutex, and what it dispatches is not nullptr.
HoldsLock ==
    \A t \in Threads : /\ pc[t] \in {"front", "dispatch"} => owner = t
                       /\ pc[t] = "dispatch" => rcvMsg[t] # None

\* A client thread that is about to take its turn has pushed before, and
\* nothing was taken away since.
HasPushed ==
    \A c \in Clients : /\ pc[c] # "wait"
                       /\ pc[c] = "enter" => queue # <<>>

\* A client thread has received a code before it does anything with one.
CodeAssigned == \A c \in Clients : pc[c] # "first" => msgCode[c] # None

QueueInv == /\ TypeOK
            /\ HoldsLock
            /\ OneMessageServed
            /\ HasPushed
            /\ CodeAssigned

\* What is pushed comes behind the first message, whose place does not change.
LEMMA PushKeepsFront ==
    ASSUME queue \in Seq(Message), Len(queue) <= MaxQueue, NEW m \in Message
    PROVE  /\ Pushed(m) \in Seq(Message)
           /\ Len(Pushed(m)) <= MaxQueue
           /\ Pushed(m) # <<>>
           /\ queue # <<>> => Head(Pushed(m)) = Head(queue)
  <1>1. MaxQueue \in Nat \ {0}
    BY MessageQueueAssumption
  <1>2. CASE Len(queue) < MaxQueue
    BY <1>1, <1>2 DEF Pushed
  <1>3. CASE ~(Len(queue) < MaxQueue)
    BY <1>1, <1>3 DEF Pushed
  <1> QED BY <1>2, <1>3

\* Where the threads are after one of them has moved.
LEMMA GotoPlaces ==
    ASSUME TypeOK, NEW t \in Threads, NEW place, Goto(t, place),
           t \in Clients => place \in ClientPlaces,
           t = Worker => place \in WorkerPlaces
    PROVE  /\ pc' \in [Threads -> ClientPlaces \cup WorkerPlaces]
           /\ \A c \in Clients : pc'[c] \in ClientPlaces
           /\ pc'[Worker] \in WorkerPlaces
           /\ \A u \in Threads : pc'[u] = IF u = t THEN place ELSE pc[u]
  <1>1. pc \in [Threads -> ClientPlaces \cup WorkerPlaces]
    BY DEF TypeOK
  <1>2. place \in ClientPlaces \cup WorkerPlaces
    BY DEF Threads
  <1>3. \A u \in Threads : pc'[u] = IF u = t THEN place ELSE pc[u]
    BY <1>1 DEF Goto
  <1>4. pc' \in [Threads -> ClientPlaces \cup WorkerPlaces]
    BY <1>1, <1>2 DEF Goto
  <1>5. \A c \in Clients : pc'[c] \in ClientPlaces
    BY <1>3 DEF TypeOK, Threads
  <1>6. pc'[Worker] \in WorkerPlaces
    BY <1>3 DEF TypeOK, Threads
  <1> QED BY <1>3, <1>4, <1>5, <1>6

\* A fault is all that changes in the step that the process dies in.
LEMMA FaultKeeps ==
    ASSUME QueueInv, NEW f \in Deaths, Fault(f)
    PROVE  QueueInv'
  BY DEF Fault, QueueInv, TypeOK, HoldsLock, OneMessageServed, HasPushed,
         CodeAssigned

LEMMA InitQueueInv == Init => QueueInv
  <1> SUFFICES ASSUME Init PROVE QueueInv
    OBVIOUS
  <1>1. TypeOK
    <2>1. /\ pc \in [Threads -> ClientPlaces \cup WorkerPlaces]
          /\ \A c \in Clients : pc[c] \in ClientPlaces
          /\ pc[Worker] \in WorkerPlaces
      BY MessageQueueAssumption DEF Init, Threads, ClientPlaces, WorkerPlaces
    <2>2. queue \in Seq(Message) /\ Len(queue) <= MaxQueue
      BY MessageQueueAssumption DEF Init
    <2> QED BY <2>1, <2>2 DEF Init, TypeOK
  <1>2. HoldsLock /\ OneMessageServed
    BY MessageQueueAssumption DEF Init, HoldsLock, OneMessageServed, Threads
  <1>3. HasPushed /\ CodeAssigned
    BY MessageQueueAssumption DEF Init, HasPushed, CodeAssigned, Threads
  <1> QED BY <1>1, <1>2, <1>3 DEF QueueInv

\* A client thread that only moves to a place outside the critical section.
LEMMA ClientMoves ==
    ASSUME QueueInv, NEW c \in Clients, NEW place \in ClientPlaces,
           place \notin {"enter", "wait", "front", "dispatch"}, Goto(c, place),
           msgCode' \in [Clients -> Codes \cup {None}],
           \A d \in Clients : pc'[d] # "first" => msgCode'[d] # None,
           open' \in SUBSET Clients,
           UNCHANGED <<queue, owner, rcvMsg, served, fault>>
    PROVE  QueueInv'
  <1>1. /\ pc' \in [Threads -> ClientPlaces \cup WorkerPlaces]
        /\ \A d \in Clients : pc'[d] \in ClientPlaces
        /\ pc'[Worker] \in WorkerPlaces
        /\ \A u \in Threads : pc'[u] = IF u = c THEN place ELSE pc[u]
    BY GotoPlaces, MessageQueueAssumption DEF QueueInv, Threads
  <1>2. TypeOK'
    BY <1>1 DEF QueueInv, TypeOK
  <1>3. HoldsLock'
    BY <1>1 DEF QueueInv, HoldsLock
  <1>4. OneMessageServed'
    BY DEF QueueInv, OneMessageServed
  <1>5. HasPushed'
    BY <1>1 DEF QueueInv, HasPushed, Threads
  <1>6. CodeAssigned'
    BY DEF CodeAssigned
  <1> QED BY <1>2, <1>3, <1>4, <1>5, <1>6 DEF QueueInv

\* ... after it has received a code.
LEMMA ClientReceives ==
    ASSUME QueueInv, NEW c \in Clients, NEW code \in Codes,
           msgCode' = [msgCode EXCEPT ![c] = code], Goto(c, "build"),
           UNCHANGED <<open, queue, owner, rcvMsg, served, fault>>
    PROVE  QueueInv'
  <1>1. /\ msgCode' \in [Clients -> Codes \cup {None}]
        /\ \A d \in Clients : msgCode'[d] = IF d = c THEN code ELSE msgCode[d]
    BY DEF QueueInv, TypeOK
  <1>2. code # None
    BY MessageQueueAssumption
  <1>3. \A d \in Clients : pc'[d] = IF d = c THEN "build" ELSE pc[d]
    BY GotoPlaces, MessageQueueAssumption DEF QueueInv, Threads, ClientPlaces
  <1>4. \A d \in Clients : pc'[d] # "first" => msgCode'[d] # None
    BY <1>1, <1>2, <1>3 DEF QueueInv, CodeAssigned
  <1>5. open' \in SUBSET Clients
    BY DEF QueueInv, TypeOK
  <1> QED BY <1>1, <1>4, <1>5, ClientMoves DEF ClientPlaces

\* ... with the code it has.
LEMMA ClientGoesOn ==
    ASSUME QueueInv, NEW c \in Clients, pc[c] # "first",
           NEW place \in {"add", "error", "direct", "build"}, Goto(c, place),
           open' \in SUBSET Clients,
           UNCHANGED <<msgCode, queue, owner, rcvMsg, served, fault>>
    PROVE  QueueInv'
  <1>1. msgCode' \in [Clients -> Codes \cup {None}]
    BY DEF QueueInv, TypeOK
  <1>2. \A d \in Clients : pc'[d] = IF d = c THEN place ELSE pc[d]
    BY GotoPlaces, MessageQueueAssumption DEF QueueInv, Threads, ClientPlaces
  <1>3. \A d \in Clients : pc'[d] # "first" => msgCode'[d] # None
    BY <1>2 DEF QueueInv, CodeAssigned
  <1> QED BY <1>1, <1>3, ClientMoves DEF ClientPlaces

\* A client thread that pushes and goes on to `place`.
LEMMA ClientPushes ==
    ASSUME QueueInv, NEW c \in Clients, NEW place \in {"enter", "close"},
           pc[c] # "first", Goto(c, place), NEW m \in Message, queue' = Pushed(m),
           open' \in SUBSET Clients,
           UNCHANGED <<msgCode, owner, rcvMsg, served, fault>>
    PROVE  QueueInv'
  <1>1. /\ pc' \in [Threads -> ClientPlaces \cup WorkerPlaces]
        /\ \A d \in Clients : pc'[d] \in ClientPlaces
        /\ pc'[Worker] \in WorkerPlaces
        /\ \A u \in Threads : pc'[u] = IF u = c THEN place ELSE pc[u]
    BY GotoPlaces, MessageQueueAssumption DEF QueueInv, Threads, ClientPlaces
  <1>2. /\ queue' \in Seq(Message)
        /\ Len(queue') <= MaxQueue
        /\ queue' # <<>>
        /\ queue # <<>> => Head(queue') = Head(queue)
    BY PushKeepsFront DEF QueueInv, TypeOK
  <1>3. TypeOK'
    BY <1>1, <1>2 DEF QueueInv, TypeOK
  <1>4. HoldsLock'
    BY <1>1 DEF QueueInv, HoldsLock
  <1>5. OneMessageServed'
    BY <1>2 DEF QueueInv, OneMessageServed
  <1>6. HasPushed'
    BY <1>1, <1>2 DEF QueueInv, HasPushed, Threads
  <1>7. CodeAssigned'
    BY <1>1 DEF QueueInv, CodeAssigned, Threads
  <1> QED BY <1>3, <1>4, <1>5, <1>6, <1>7 DEF QueueInv

\* A thread that takes or leaves a place in handleRecievedMessage.
LEMMA ThreadMoves ==
    ASSUME QueueInv, NEW t \in Threads, NEW place,
           t \in Clients => place \in ClientPlaces \ {"wait", "enter"},
           t = Worker => place \in WorkerPlaces,
           pc[t] # "first", Goto(t, place)
    PROVE  /\ pc' \in [Threads -> ClientPlaces \cup WorkerPlaces]
           /\ \A c \in Clients : pc'[c] \in ClientPlaces
           /\ pc'[Worker] \in WorkerPlaces
           /\ \A u \in Threads : pc'[u] = IF u = t THEN place ELSE pc[u]
           /\ queue' = queue => HasPushed'
           /\ msgCode' = msgCode => CodeAssigned'
  <1>1. /\ pc' \in [Threads -> ClientPlaces \cup WorkerPlaces]
        /\ \A c \in Clients : pc'[c] \in ClientPlaces
        /\ pc'[Worker] \in WorkerPlaces
        /\ \A u \in Threads : pc'[u] = IF u = t THEN place ELSE pc[u]
    BY GotoPlaces DEF QueueInv
  <1>2. queue' = queue => HasPushed'
    BY <1>1 DEF QueueInv, HasPushed, Threads
  <1>3. msgCode' = msgCode => CodeAssigned'
    BY <1>1 DEF QueueInv, CodeAssigned, Threads
  <1> QED BY <1>1, <1>2, <1>3

LEMMA EnterKeeps ==
    ASSUME QueueInv, NEW t \in Threads, Enter(t)
    PROVE  QueueInv'
  <1> DEFINE place == IF queue = <<>> THEN "wait" ELSE "front"
  <1>1. /\ pc[t] = "enter"
        /\ owner = None
        /\ Goto(t, place)
        /\ owner' = IF queue = <<>> THEN owner ELSE t
        /\ UNCHANGED <<msgCode, open, queue, rcvMsg, served, fault>>
    BY DEF Enter, At, LockFree
  <1>2. t \in Clients => place = "front"
    BY <1>1 DEF QueueInv, HasPushed
  <1>3. place \in {"wait", "front"}
    OBVIOUS
  <1> HIDE DEF place
  <1>4. /\ pc' \in [Threads -> ClientPlaces \cup WorkerPlaces]
        /\ \A c \in Clients : pc'[c] \in ClientPlaces
        /\ pc'[Worker] \in WorkerPlaces
        /\ \A u \in Threads : pc'[u] = IF u = t THEN place ELSE pc[u]
        /\ HasPushed'
        /\ CodeAssigned'
    BY <1>1, <1>2, <1>3, ThreadMoves DEF ClientPlaces, WorkerPlaces
  <1>5. TypeOK'
    BY <1>1, <1>4 DEF QueueInv, TypeOK
  <1>6. HoldsLock'
    <2>1. \A u \in Threads : owner # u
      BY <1>1, MessageQueueAssumption
    <2>2. \A u \in Threads \ {t} : pc'[u] \notin {"front", "dispatch"}
      BY <1>4, <2>1 DEF QueueInv, HoldsLock
    <2>3. /\ pc'[t] \in {"front", "dispatch"} => owner' = t
          /\ pc'[t] # "dispatch"
      BY <1>1, <1>3, <1>4 DEF place
    <2> QED BY <2>2, <2>3 DEF HoldsLock
  <1>7. OneMessageServed'
    BY <1>1 DEF QueueInv, OneMessageServed
  <1> QED BY <1>4, <1>5, <1>6, <1>7 DEF QueueInv

LEMMA WakeupKeeps ==
    ASSUME QueueInv, NEW t \in Threads, SpuriousWakeup(t)
    PROVE  QueueInv'
  <1>1. /\ pc[t] = "wait"
        /\ owner = None
        /\ Goto(t, "front")
        /\ owner' = t
        /\ UNCHANGED <<msgCode, open, queue, rcvMsg, served, fault>>
    BY DEF SpuriousWakeup, At, LockFree
  <1>2. /\ pc' \in [Threads -> ClientPlaces \cup WorkerPlaces]
        /\ \A c \in Clients : pc'[c] \in ClientPlaces
        /\ pc'[Worker] \in WorkerPlaces
        /\ \A u \in Threads : pc'[u] = IF u = t THEN "front" ELSE pc[u]
        /\ HasPushed'
        /\ CodeAssigned'
    BY <1>1, ThreadMoves DEF ClientPlaces, WorkerPlaces
  <1>3. TypeOK'
    BY <1>1, <1>2 DEF QueueInv, TypeOK
  <1>4. HoldsLock'
    <2>1. \A u \in Threads : owner # u
      BY <1>1, MessageQueueAssumption
    <2> QED BY <1>1, <1>2, <2>1 DEF QueueInv, HoldsLock
  <1>5. OneMessageServed'
    BY <1>1 DEF QueueInv, OneMessageServed
  <1> QED BY <1>2, <1>3, <1>4, <1>5 DEF QueueInv

LEMMA TakeFrontKeeps ==
    ASSUME QueueInv, NEW t \in Threads, TakeFront(t)
    PROVE  QueueInv'
  <1>1. CASE \E f \in Deaths : Fault(f)
    BY <1>1, FaultKeeps
  <1>2. CASE /\ queue # <<>>
             /\ rcvMsg' = [rcvMsg EXCEPT ![t] = Front]
             /\ Goto(t, "dispatch")
             /\ UNCHANGED <<msgCode, open, queue, owner, served, fault>>
    <2>1. pc[t] = "front"
      BY DEF TakeFront, At
    <2>2. /\ pc' \in [Threads -> ClientPlaces \cup WorkerPlaces]
          /\ \A c \in Clients : pc'[c] \in ClientPlaces
          /\ pc'[Worker] \in WorkerPlaces
          /\ \A u \in Threads : pc'[u] = IF u = t THEN "dispatch" ELSE pc[u]
          /\ HasPushed'
          /\ CodeAssigned'
      BY <1>2, <2>1, ThreadMoves DEF ClientPlaces, WorkerPlaces
    <2>3. Front \in Message
      BY <1>2 DEF QueueInv, TypeOK, Front
    <2>4. TypeOK'
      BY <1>2, <2>2, <2>3 DEF QueueInv, TypeOK
    <2>5. HoldsLock'
      <3>1. /\ \A u \in Threads : rcvMsg'[u] = IF u = t THEN Front ELSE rcvMsg[u]
            /\ Front # None
        BY <1>2, <2>3, MessageQueueAssumption DEF QueueInv, TypeOK
      <3> QED BY <1>2, <2>1, <2>2, <3>1 DEF QueueInv, HoldsLock
    <2>6. OneMessageServed'
      <3>1. \A u \in Threads : rcvMsg'[u] = IF u = t THEN Head(queue) ELSE rcvMsg[u]
        BY <1>2 DEF QueueInv, TypeOK, Front
      <3>2. queue' = queue /\ served' = served
        BY <1>2
      <3> QED BY <1>2, <3>1, <3>2 DEF QueueInv, OneMessageServed
    <2> QED BY <2>2, <2>4, <2>5, <2>6 DEF QueueInv
  <1> QED BY <1>1, <1>2 DEF TakeFront, Deaths

LEMMA DispatchKeeps ==
    ASSUME QueueInv, NEW t \in Threads, Dispatch(t)
    PROVE  QueueInv'
  <1> DEFINE place == IF Looping THEN "front" ELSE AfterReturn(t)
  <1>1. CASE \E f \in Deaths : Fault(f)
    BY <1>1, FaultKeeps
  <1>2. CASE /\ served' = served \cup {rcvMsg[t]}
             /\ rcvMsg' = [rcvMsg EXCEPT ![t] = None]
             /\ queue' = AfterService
             /\ owner' = OwnerAfter(t)
             /\ Goto(t, place)
             /\ Closes(rcvMsg[t])
             /\ UNCHANGED <<msgCode, fault>>
    <2>1. pc[t] = "dispatch" /\ queue' = queue
      BY <1>2 DEF Dispatch, At, AfterService
    <2>2. /\ t \in Clients => place \in {"front", "next"}
          /\ t = Worker => place \in {"front", "done"}
          /\ place = "front" => owner' = t
          /\ place # "dispatch"
      BY <1>2, MessageQueueAssumption DEF AfterReturn, OwnerAfter
    <2> HIDE DEF place
    <2>3. /\ pc' \in [Threads -> ClientPlaces \cup WorkerPlaces]
          /\ \A c \in Clients : pc'[c] \in ClientPlaces
          /\ pc'[Worker] \in WorkerPlaces
          /\ \A u \in Threads : pc'[u] = IF u = t THEN place ELSE pc[u]
          /\ HasPushed'
          /\ CodeAssigned'
      BY <1>2, <2>1, <2>2, ThreadMoves DEF ClientPlaces, WorkerPlaces
    <2>4. rcvMsg[t] \in Message
      BY <2>1 DEF QueueInv, TypeOK, HoldsLock
    <2>5. owner' \in Threads \cup {None}
      BY <1>2 DEF OwnerAfter
    <2>6. \A u \in Threads : rcvMsg'[u] = IF u = t THEN None ELSE rcvMsg[u]
      BY <1>2 DEF QueueInv, TypeOK
    <2>o. open' \in SUBSET Clients
      BY <1>2 DEF Closes, QueueInv, TypeOK
    <2>7. TypeOK'
      BY <1>2, <2>1, <2>3, <2>4, <2>5, <2>o DEF QueueInv, TypeOK
    <2>8. HoldsLock'
      <3>1. \A u \in Threads \ {t} : pc'[u] \notin {"front", "dispatch"}
        BY <2>1, <2>3 DEF QueueInv, HoldsLock
      <3> QED BY <2>2, <2>3, <3>1 DEF HoldsLock
    <2>9. OneMessageServed'
      <3>1. queue # <<>> /\ rcvMsg[t] = Head(queue)
        BY <2>1 DEF QueueInv, HoldsLock, OneMessageServed
      <3>2. served' = served \cup {rcvMsg[t]}
        BY <1>2
      <3> QED BY <2>1, <2>6, <3>1, <3>2 DEF QueueInv, OneMessageServed
    <2> QED BY <2>3, <2>7, <2>8, <2>9 DEF QueueInv
  <1>3. \/ \E f \in Deaths : Fault(f)
        \/ /\ served' = served \cup {rcvMsg[t]}
           /\ rcvMsg' = [rcvMsg EXCEPT ![t] = None]
           /\ queue' = AfterService
           /\ owner' = OwnerAfter(t)
           /\ Goto(t, place)
           /\ Closes(rcvMsg[t])
           /\ UNCHANGED <<msgCode, fault>>
    BY DEF Dispatch, Deaths
  <1> QED BY <1>1, <1>2, <1>3

LEMMA NextQueueInv == QueueInv /\ [Next]_vars => QueueInv'
  <1> SUFFICES ASSUME QueueInv, [Next]_vars
               PROVE  QueueInv'
    OBVIOUS
  <1>1. ASSUME NEW c \in Clients, First(c) PROVE QueueInv'
    <2>1. CASE /\ \E code \in Codes : msgCode' = [msgCode EXCEPT ![c] = code]
               /\ Goto(c, "build")
               /\ UNCHANGED <<open, queue, owner, rcvMsg, served, fault>>
      <3> PICK code \in Codes : msgCode' = [msgCode EXCEPT ![c] = code]
        BY <2>1
      <3> QED BY <2>1, ClientReceives
    <2>2. CASE Fault("clientHandler")
      BY <2>2, FaultKeeps DEF Deaths
    <2> QED BY <1>1, <2>1, <2>2 DEF First, Deaths
  <1>2. ASSUME NEW c \in Clients, NextCode(c) PROVE QueueInv'
    <2> PICK code \in Codes : msgCode' = [msgCode EXCEPT ![c] = code]
      BY <1>2 DEF NextCode
    <2> QED BY <1>2, ClientReceives DEF NextCode
  <1>3. ASSUME NEW c \in Clients, NextFails(c) PROVE QueueInv'
    BY <1>3, ClientGoesOn DEF NextFails, At, QueueInv, TypeOK
  <1>4. ASSUME NEW c \in Clients, Build(c) PROVE QueueInv'
    <2>1. \/ \E f \in Deaths : Fault(f)
          \/ \E place \in {"add", "error", "direct"} :
                /\ Goto(c, place)
                /\ UNCHANGED <<msgCode, open, queue, owner, rcvMsg, served, fault>>
      BY <1>4 DEF Build, Deaths
    <2>2. pc[c] # "first" /\ open \in SUBSET Clients
      BY <1>4 DEF Build, At, QueueInv, TypeOK
    <2> QED BY <2>1, <2>2, ClientGoesOn, FaultKeeps
  <1>5. ASSUME NEW c \in Clients, Direct(c) PROVE QueueInv'
    <2>1. \/ \E f \in Deaths : Fault(f)
          \/ /\ Goto(c, "add")
             /\ UNCHANGED <<msgCode, open, queue, owner, rcvMsg, served, fault>>
      BY <1>5 DEF Direct, Deaths
    <2>2. pc[c] # "first" /\ open \in SUBSET Clients
      BY <1>5 DEF Direct, At, QueueInv, TypeOK
    <2> QED BY <2>1, <2>2, ClientGoesOn, FaultKeeps
  <1>6. ASSUME NEW c \in Clients, Add(c) PROVE QueueInv'
    <2>1. pc[c] = "add" /\ msgCode[c] \in Codes
      BY <1>6 DEF Add, At, QueueInv, TypeOK, CodeAssigned
    <2>2. [from |-> c, code |-> msgCode[c]] \in Message
      BY <2>1 DEF Message
    <2>3. open' \in SUBSET Clients
      BY <1>6 DEF Add, QueueInv, TypeOK
    <2> QED BY <1>6, <2>1, <2>2, <2>3, ClientPushes DEF Add
  <1>7. ASSUME NEW c \in Clients, Error(c) PROVE QueueInv'
    <2>1. pc[c] = "error"
      BY <1>7 DEF Error, At
    <2>2. [from |-> c, code |-> ErrorCode] \in Message
      BY DEF Message
    <2>3. open' \in SUBSET Clients
      BY <1>7 DEF Error, QueueInv, TypeOK
    <2> QED BY <1>7, <2>1, <2>2, <2>3, ClientPushes DEF Error
  <1>8. ASSUME NEW c \in Clients, Close(c) PROVE QueueInv'
    <2>1. pc[c] # "first" /\ open' \in SUBSET Clients
      BY <1>8 DEF Close, At, QueueInv, TypeOK
    <2> QED BY <1>8, <2>1, ClientGoesOn DEF Close
  <1>9. CASE UNCHANGED vars
    BY <1>9 DEF vars, QueueInv, TypeOK, HoldsLock, OneMessageServed, HasPushed,
                CodeAssigned
  <1> QED
    BY <1>1, <1>2, <1>3, <1>4, <1>5, <1>6, <1>7, <1>8, <1>9, EnterKeeps, WakeupKeeps,
       TakeFrontKeeps, DispatchKeeps
    DEF Next, ClientStep, Step

THEOREM QueueInvariant == Spec => []QueueInv
  BY InitQueueInv, NextQueueInv, PTL DEF Spec

\* The types of the threads' state, for any number of connections.
THEOREM QueueTypeCorrect == Spec => []TypeOK
  BY QueueInvariant, PTL DEF QueueInv

\* handleRecievedMessage is never in its switch twice at a time: whoever is
\* there holds the mutex.
LEMMA DispatchesAlone ==
    ASSUME QueueInv, NEW t \in Threads, NEW u \in Threads,
           pc[t] = "dispatch", pc[u] \in {"front", "dispatch"}
    PROVE  t = u
  BY DEF QueueInv, HoldsLock

\* Whatever the clients send and in whatever order the threads run, only the
\* first message ever pushed is dispatched.
THEOREM OnlyFirstMessageServed == Spec => []OneMessageServed
  BY QueueInvariant, PTL DEF QueueInv

\* No client thread ever waits for the notification that nobody sends.
THEOREM NoClientWaits == Spec => []ClientsNeverWait
  <1>1. QueueInv => ClientsNeverWait
    BY DEF QueueInv, HasPushed, ClientsNeverWait
  <1> QED BY <1>1, QueueInvariant, PTL

\* What a thread has taken, or has dispatched, is not the null pointer.
KnownTaken == /\ \A t \in Threads : rcvMsg[t] # None => rcvMsg[t].code # "unknown"
              /\ \A m \in served : m.code # "unknown"

LEMMA KnownTakenSteps ==
    ASSUME QueueInv, KnownTaken, [Next]_vars
    PROVE  KnownTaken'
  <1>1. CASE UNCHANGED <<rcvMsg, served>>
    BY <1>1 DEF KnownTaken
  <1>2. CASE \E t \in Threads : TakeFront(t)
    <2> PICK t \in Threads : TakeFront(t)
      BY <1>2
    <2>1. CASE /\ Front.code # "unknown"
               /\ rcvMsg' = [rcvMsg EXCEPT ![t] = Front]
               /\ UNCHANGED served
      BY <2>1 DEF QueueInv, TypeOK, KnownTaken
    <2> QED BY <1>1, <2>1 DEF TakeFront, Fault
  <1>3. CASE \E t \in Threads : Dispatch(t)
    <2> PICK t \in Threads : Dispatch(t)
      BY <1>3
    <2>1. CASE /\ served' = served \cup {rcvMsg[t]}
               /\ rcvMsg' = [rcvMsg EXCEPT ![t] = None]
      <3>1. rcvMsg[t] # None
        BY DEF Dispatch, At, QueueInv, HoldsLock
      <3>2. \A u \in Threads : rcvMsg'[u] = IF u = t THEN None ELSE rcvMsg[u]
        BY <2>1 DEF QueueInv, TypeOK
      <3> QED BY <2>1, <3>1, <3>2 DEF KnownTaken
    <2> QED BY <1>1, <2>1 DEF Dispatch, Fault
  <1>4. ASSUME NEW c \in Clients,
               \/ First(c) \/ NextCode(c) \/ NextFails(c) \/ Build(c)
               \/ Direct(c) \/ Add(c) \/ Error(c) \/ Close(c)
        PROVE  UNCHANGED <<rcvMsg, served>>
    BY <1>4 DEF First, NextCode, NextFails, Build, Direct, Add, Error, Close, Fault
  <1>5. ASSUME NEW t \in Threads, Enter(t) \/ SpuriousWakeup(t)
        PROVE  UNCHANGED <<rcvMsg, served>>
    BY <1>5 DEF Enter, SpuriousWakeup
  <1>6. CASE UNCHANGED vars
    BY <1>1, <1>6 DEF vars
  <1> QED BY <1>1, <1>2, <1>3, <1>4, <1>5, <1>6 DEF Next, ClientStep, Step

\* The null pointer of an unknown code kills the process only before anything
\* has been dispatched: what has been dispatched is still the front, and was
\* not null.
THEOREM NullOnlyAtFront == Spec => []NullKillsOnlyFirst
  <1> DEFINE Inv == KnownTaken /\ NullKillsOnlyFirst
  <1>1. Init => Inv
    BY MessageQueueAssumption
    DEF Init, KnownTaken, NullKillsOnlyFirst, Deaths, AllCodes, Threads
  <1>2. ASSUME QueueInv, Inv, [Next]_vars
        PROVE  Inv'
    <2> SUFFICES ASSUME fault' = "nullptr dispatched"
                 PROVE  served' = {}
      BY <1>2, KnownTakenSteps DEF NullKillsOnlyFirst
    <2>1. CASE UNCHANGED vars
      BY <1>2, <2>1 DEF vars, NullKillsOnlyFirst
    <2>2. CASE \E t \in Threads : TakeFront(t)
      <3> PICK t \in Threads : TakeFront(t)
        BY <2>2
      <3>1. /\ queue # <<>>
            /\ Head(queue).code = "unknown"
            /\ served' = served
        BY MessageQueueAssumption DEF TakeFront, At, Up, Fault, Deaths, Front
      <3>2. \A m \in served : m = Head(queue) /\ m.code # "unknown"
        BY <1>2 DEF QueueInv, OneMessageServed, KnownTaken
      <3> QED BY <3>1, <3>2
    <2>3. ASSUME fault = None, NEW f \in Deaths \ {"nullptr dispatched"}, Fault(f)
          PROVE  FALSE
      BY <2>3 DEF Fault
    <2>4. ASSUME fault = None, UNCHANGED fault
          PROVE  FALSE
      BY <2>4, MessageQueueAssumption DEF Deaths
    <2>5. ASSUME NEW c \in Clients,
                 \/ First(c) \/ NextCode(c) \/ NextFails(c) \/ Build(c)
                 \/ Direct(c) \/ Add(c) \/ Error(c) \/ Close(c)
          PROVE  FALSE
      BY <2>3, <2>4, <2>5
      DEF First, NextCode, NextFails, Build, Direct, Add, Error, Close, At, Up, Deaths
    <2>6. ASSUME NEW t \in Threads, Enter(t) \/ SpuriousWakeup(t) \/ Dispatch(t)
          PROVE  FALSE
      BY <2>3, <2>4, <2>6 DEF Enter, SpuriousWakeup, Dispatch, At, Up, Deaths
    <2> QED BY <1>2, <2>1, <2>2, <2>5, <2>6 DEF Next, ClientStep, Step
  <1> QED BY <1>1, <1>2, QueueInvariant, PTL DEF Spec

\* A thread meets an empty queue only before anything has been served: what has
\* been served is still the front.
THEOREM EmptyOnlyAtStart == Spec => []EmptyFrontOnlyAtStart
  <1>1. Init => EmptyFrontOnlyAtStart
    BY DEF Init, EmptyFrontOnlyAtStart
  <1>2. ASSUME QueueInv, EmptyFrontOnlyAtStart, [Next]_vars
        PROVE  EmptyFrontOnlyAtStart'
    <2> SUFFICES ASSUME fault' = "front of an empty queue"
                 PROVE  served' = {}
      BY DEF EmptyFrontOnlyAtStart
    <2>1. CASE UNCHANGED vars
      BY <1>2, <2>1 DEF vars, EmptyFrontOnlyAtStart
    <2>2. CASE \E t \in Threads : TakeFront(t)
      <3> PICK t \in Threads : TakeFront(t)
        BY <2>2
      <3>1. queue = <<>> /\ served' = served
        BY MessageQueueAssumption DEF TakeFront, At, Up, Fault, Deaths
      <3> QED BY <1>2, <3>1 DEF QueueInv, OneMessageServed
    <2>3. ASSUME fault = None, NEW f \in Deaths \ {"front of an empty queue"}, Fault(f)
          PROVE  FALSE
      BY <2>3 DEF Fault
    <2>4. ASSUME fault = None, UNCHANGED fault
          PROVE  FALSE
      BY <2>4, MessageQueueAssumption DEF Deaths
    <2>5. ASSUME NEW c \in Clients,
                 \/ First(c) \/ NextCode(c) \/ NextFails(c) \/ Build(c)
                 \/ Direct(c) \/ Add(c) \/ Error(c) \/ Close(c)
          PROVE  FALSE
      BY <2>3, <2>4, <2>5
      DEF First, NextCode, NextFails, Build, Direct, Add, Error, Close, At, Up, Deaths
    <2>6. ASSUME NEW t \in Threads, Enter(t) \/ SpuriousWakeup(t) \/ Dispatch(t)
          PROVE  FALSE
      BY <2>3, <2>4, <2>6 DEF Enter, SpuriousWakeup, Dispatch, At, Up, Deaths
    <2> QED BY <1>2, <2>1, <2>2, <2>5, <2>6 DEF Next, ClientStep, Step
  <1> QED BY <1>1, <1>2, QueueInvariant, PTL DEF Spec

\* Both together: the front kills before the first message is served or never.
THEOREM FrontIsHarmlessLater == Spec => []FrontKillsOnlyAtStart
  BY NullOnlyAtFront, EmptyOnlyAtStart, PTL DEF FrontKillsOnlyAtStart

-----------------------------------------------------------------------------
\* The version 5c901d7: once a dispatch has begun the mutex is held for ever.
Began == rcvMsg # [t \in Threads |-> None] \/ served # {}

Held == QueueInv /\ (Began => owner # None)

\* Every step of a thread that does not need the mutex leaves it, the queue
\* and the dispatches alone.
LEMMA HeldSteps ==
    ASSUME Held, Looping, [Next]_vars
    PROVE  /\ Began => UNCHANGED <<owner, queue>>
           /\ Began' => owner' # None
  <1>1. CASE UNCHANGED <<owner, queue, rcvMsg, served>>
    BY <1>1 DEF Held, Began
  <1>2. CASE \E c \in Clients : Add(c) \/ Error(c)
    BY <1>2 DEF Held, Began, Add, Error, LockFree
  <1>3. CASE \E t \in Threads : Enter(t) \/ SpuriousWakeup(t)
    BY <1>3 DEF Held, Began, Enter, SpuriousWakeup, LockFree
  <1>4. CASE \E t \in Threads : TakeFront(t) \/ Dispatch(t)
    <2>1. PICK t \in Threads : TakeFront(t) \/ Dispatch(t)
      BY <1>4
    <2>2. owner = t /\ t # None
      BY <2>1, MessageQueueAssumption
      DEF TakeFront, Dispatch, At, Held, QueueInv, HoldsLock
    <2>3. UNCHANGED <<owner, queue>>
      BY <2>1, <2>2 DEF TakeFront, Dispatch, Fault, AfterService, OwnerAfter
    <2> QED BY <2>2, <2>3
  <1>5. ASSUME NEW c \in Clients,
               \/ First(c) \/ NextCode(c) \/ NextFails(c) \/ Build(c)
               \/ Direct(c) \/ Close(c)
        PROVE  UNCHANGED <<owner, queue, rcvMsg, served>>
    BY <1>5 DEF First, NextCode, NextFails, Build, Direct, Close, Fault
  <1>6. CASE UNCHANGED vars
    BY <1>1, <1>6 DEF vars
  <1> QED BY <1>1, <1>2, <1>3, <1>4, <1>5, <1>6 DEF Next, ClientStep, Step

\* In the version 5c901d7, from the first dispatch on, no message of any
\* client gets into the queue and the mutex never changes hands.
THEOREM LoopKeepsAll == ASSUME Looping PROVE Spec => FirstDispatcherKeepsAll
  <1>1. Init => Held
    <2>1. Init => ~Began
      BY DEF Init, Began
    <2> QED BY <2>1, InitQueueInv DEF Held
  <1>2. Held /\ [Next]_vars => Held'
    BY HeldSteps, NextQueueInv DEF Held
  <1>3. Held /\ [Next]_vars => [Began => UNCHANGED <<owner, queue>>]_vars
    BY HeldSteps
  <1>4. [][Began => UNCHANGED <<owner, queue>>]_vars => FirstDispatcherKeepsAll
    BY DEF Began, FirstDispatcherKeepsAll
  <1> QED BY <1>1, <1>2, <1>3, <1>4, PTL DEF Spec

-----------------------------------------------------------------------------
\* What MessageCell sees of the queue and of the threads.
InCell == IF queue = <<>> THEN None ELSE Head(queue)

InSwitch == {<<t, rcvMsg[t]>> : t \in {u \in Threads : pc[u] = "dispatch"}}

\* A thread that moves from one place outside the switch to another.
LEMMA SwitchUntouched ==
    ASSUME TypeOK, NEW t \in Threads, NEW place, Goto(t, place),
           pc[t] # "dispatch", place # "dispatch", rcvMsg' = rcvMsg
    PROVE  InSwitch' = InSwitch
  <1>1. \A u \in Threads : pc'[u] = "dispatch" <=> pc[u] = "dispatch"
    BY DEF TypeOK, Goto
  <1>2. {u \in Threads : pc'[u] = "dispatch"} = {u \in Threads : pc[u] = "dispatch"}
    BY <1>1
  <1> QED BY <1>2 DEF InSwitch

\* A push fills the cell or leaves it as it is.
LEMMA PushFills ==
    ASSUME TypeOK, NEW m \in Message, queue' = Pushed(m)
    PROVE  \/ InCell' = InCell
           \/ InCell = None /\ InCell' \in Message
  <1>1. /\ queue' \in Seq(Message)
        /\ queue' # <<>>
        /\ queue # <<>> => Head(queue') = Head(queue)
    BY PushKeepsFront DEF TypeOK
  <1>2. Head(queue') \in Message
    BY <1>1
  <1> QED BY <1>1, <1>2 DEF InCell

\* Every step is one of the cell or none that it sees.
LEMMA CellSteps ==
    ASSUME QueueInv, [Next]_vars
    PROVE  \/ UNCHANGED <<InCell, InSwitch>>
           \/ /\ InCell = None /\ InCell' \in Message
              /\ UNCHANGED InSwitch
           \/ /\ InSwitch = {} /\ InCell # None
              /\ \E t \in Threads : InSwitch' = {<<t, InCell>>}
              /\ UNCHANGED InCell
           \/ /\ InSwitch # {} /\ InSwitch' = {}
              /\ UNCHANGED InCell
  <1>t. TypeOK
    BY DEF QueueInv
  <1>1. CASE UNCHANGED <<pc, queue, rcvMsg>>
    BY <1>1 DEF InCell, InSwitch
  <1>2. ASSUME NEW t \in Threads, NEW place, Goto(t, place), pc[t] # "dispatch",
               place # "dispatch", UNCHANGED <<queue, rcvMsg>>
        PROVE  UNCHANGED <<InCell, InSwitch>>
    BY <1>t, <1>2, SwitchUntouched DEF InCell
  <1>3. ASSUME NEW c \in Clients,
               \/ First(c) \/ NextCode(c) \/ NextFails(c) \/ Build(c)
               \/ Direct(c) \/ Close(c)
        PROVE  UNCHANGED <<InCell, InSwitch>>
    <2>1. c \in Threads
      BY DEF Threads
    <2>2. \/ UNCHANGED <<pc, queue, rcvMsg>>
          \/ /\ pc[c] # "dispatch"
             /\ \E place \in {"build", "error", "add", "direct"} : Goto(c, place)
             /\ UNCHANGED <<queue, rcvMsg>>
      BY <1>3 DEF First, NextCode, NextFails, Build, Direct, Close, At, Fault
    <2> QED BY <1>2, <2>1, <2>2 DEF InCell, InSwitch
  <1>4. ASSUME NEW c \in Clients, Add(c) \/ Error(c)
        PROVE  /\ UNCHANGED InSwitch
               /\ InCell' = InCell \/ (InCell = None /\ InCell' \in Message)
    <2>1. c \in Threads
      BY DEF Threads
    <2>2. /\ pc[c] \in {"add", "error"}
          /\ rcvMsg' = rcvMsg
          /\ \E place \in {"enter", "close"} : Goto(c, place)
      BY <1>4 DEF Add, Error, At
    <2>3. msgCode[c] \in Codes \/ pc[c] # "add"
      BY <2>2 DEF QueueInv, TypeOK, CodeAssigned
    <2>4. \E m \in Message : queue' = Pushed(m)
      BY <1>4, <2>3 DEF Add, Error, At, Message
    <2>5. UNCHANGED InSwitch
      BY <1>t, <2>1, <2>2, SwitchUntouched
    <2> QED BY <1>t, <2>4, <2>5, PushFills
  <1>5. ASSUME NEW t \in Threads, Enter(t) \/ SpuriousWakeup(t)
        PROVE  UNCHANGED <<InCell, InSwitch>>
    <2>1. /\ pc[t] # "dispatch"
          /\ UNCHANGED <<queue, rcvMsg>>
          /\ \E place \in {"wait", "front"} : Goto(t, place)
      BY <1>5 DEF Enter, SpuriousWakeup, At
    <2> QED BY <1>2, <2>1
  <1>6. ASSUME NEW t \in Threads, TakeFront(t), ~UNCHANGED <<pc, queue, rcvMsg>>
        PROVE  /\ InSwitch = {} /\ InCell # None
               /\ InSwitch' = {<<t, InCell>>}
               /\ UNCHANGED InCell
    <2>1. /\ pc[t] = "front" /\ queue # <<>>
          /\ rcvMsg' = [rcvMsg EXCEPT ![t] = Head(queue)]
          /\ Goto(t, "dispatch")
          /\ UNCHANGED queue
      BY <1>6 DEF TakeFront, At, Fault, Front
    <2>2. \A u \in Threads : pc[u] # "dispatch"
      BY <2>1, DispatchesAlone
    <2>3. \A u \in Threads : pc'[u] = "dispatch" <=> u = t
      BY <1>t, <2>1, <2>2 DEF TypeOK, Goto
    <2>4. rcvMsg'[t] = Head(queue) /\ Head(queue) \in Message
      BY <1>t, <2>1 DEF TypeOK
    <2>5. {u \in Threads : pc'[u] = "dispatch"} = {t}
      BY <2>3
    <2>6. InSwitch' = {<<t, Head(queue)>>}
      BY <2>4, <2>5 DEF InSwitch
    <2>7. InSwitch = {}
      BY <2>2 DEF InSwitch
    <2>8. InCell = Head(queue) /\ InCell' = InCell
      BY <2>1 DEF InCell
    <2> QED BY <2>4, <2>6, <2>7, <2>8, MessageQueueAssumption
  <1>7. ASSUME NEW t \in Threads, Dispatch(t), ~UNCHANGED <<pc, queue, rcvMsg>>
        PROVE  /\ InSwitch # {} /\ InSwitch' = {}
               /\ UNCHANGED InCell
    <2>1. /\ pc[t] = "dispatch"
          /\ Goto(t, IF Looping THEN "front" ELSE AfterReturn(t))
          /\ UNCHANGED queue
      BY <1>7 DEF Dispatch, At, Fault, AfterService
    <2>2. \A u \in Threads : u # t => pc[u] # "dispatch"
      BY <2>1, DispatchesAlone
    <2>3. \A u \in Threads : pc'[u] # "dispatch"
      BY <1>t, <2>1, <2>2 DEF TypeOK, Goto, AfterReturn
    <2>4. InSwitch' = {}
      BY <2>3 DEF InSwitch
    <2>5. InSwitch # {}
      BY <2>1 DEF InSwitch
    <2> QED BY <2>1, <2>4, <2>5 DEF InCell
  <1>8. CASE UNCHANGED vars
    BY <1>1, <1>8 DEF vars
  <1> QED BY <1>1, <1>3, <1>4, <1>5, <1>6, <1>7, <1>8 DEF Next, ClientStep, Step

\* The queue and its dispatchers implement a cell that is filled once and
\* served by one thread at a time, on either side of the merge.
THEOREM QueueImplementsCell == Spec => ImplementsCell
  <1>1. Init => Cell!Init
    <2> SUFFICES ASSUME Init PROVE Cell!Init
      OBVIOUS
    <2>1. queue = <<>> /\ \A t \in Threads : pc[t] # "dispatch"
      BY DEF Init
    <2> QED BY <2>1 DEF Cell!Init
  <1>2. QueueInv /\ [Next]_vars => [Cell!Next]_(Cell!vars)
    <2> SUFFICES ASSUME QueueInv, [Next]_vars
                 PROVE  [Cell!Next]_(Cell!vars)
      OBVIOUS
    <2> QED
      BY CellSteps
      DEF InCell, InSwitch, Cell!Next, Cell!vars, Cell!Fill, Cell!Serve, Cell!Finish
  <1> QED BY <1>1, <1>2, QueueInvariant, PTL DEF Spec, ImplementsCell, Cell!Spec

=============================================================================
