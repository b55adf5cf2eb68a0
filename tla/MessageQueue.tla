---------------------------- MODULE MessageQueue ----------------------------
(***************************************************************************)
(* The threads of TriviaServer around _queRcvMessages: one clientHandler   *)
(* per connection and the worker that serve() starts.  A client thread     *)
(* receives a message, pushes it and then calls handleRecievedMessage      *)
(* itself, as the worker does; there the front of the queue is dispatched  *)
(* under _mtxRecievedMessages.  Nothing ever pops the queue, and the       *)
(* notification after a push is commented out.                             *)
(*                                                                         *)
(* The file holds two versions of handleRecievedMessage between merge      *)
(* markers: HEAD dispatches once and returns, 5c901d7 dispatches in a loop *)
(* without end.  The constant Looping says which one is built.             *)
(*                                                                         *)
(* What a handler does is the subject of Lobby; here it returns, and may   *)
(* have closed the socket, or kills the process.  It may also hang: send   *)
(* has no timeout, and its peer need not read.  A definition marked "Slip" *)
(* is a wrong variant of the one after it; no action uses it.              *)
(***************************************************************************)
EXTENDS Naturals, Sequences

CONSTANTS
    Clients,        \* the connections, each with its clientHandler thread
    Worker,         \* the thread that serve() starts
    Looping,        \* TRUE: the side 5c901d7 of the merge, FALSE: HEAD
    Codes,          \* the kinds of message codes that clients send, see below
    MaxQueue,       \* bound: how many entries of the queue are kept
    None            \* no thread, no message, no fault

Threads == Clients \cup {Worker}

\* What a message code makes buildRecieveMessage do: read the parameters from
\* the socket, read nothing, run the handler at once, return nullptr.  299 is
\* the code of the message that reports a broken connection.
AllCodes == {"parts", "plain", "start", "unknown"}
ErrorCode == "299"

Message == [from : Clients, code : Codes \cup {ErrorCode}]

\* Where and how the process can die.
Deaths == {"clientHandler", "buildRecieveMessage", "handleStartGame", "a handler",
           "usersItr", "front of an empty queue", "nullptr dispatched"}

ASSUME MessageQueueAssumption ==
    /\ Worker \notin Clients
    /\ None \notin Threads \cup Message \cup AllCodes \cup Deaths
    /\ Looping \in BOOLEAN
    /\ Codes \subseteq AllCodes
    /\ MaxQueue \in Nat \ {0}

VARIABLES
    pc,         \* what each thread does next
    msgCode,    \* msgCode of each client thread, None before it is assigned
    open,       \* the connections whose socket the server has not closed
    queue,      \* _queRcvMessages
    owner,      \* the thread that holds _mtxRecievedMessages
    rcvMsg,     \* rcvMsg of each thread that dispatches
    served,     \* history: the messages that have been dispatched
    fault       \* where the process died, None while it runs

vars == <<pc, msgCode, open, queue, owner, rcvMsg, served, fault>>

ClientPlaces == {"first", "build", "direct", "add", "enter", "wait", "front",
                 "dispatch", "next", "error", "close"}
WorkerPlaces == {"enter", "wait", "front", "dispatch", "done"}

TypeOK ==
    /\ pc \in [Threads -> ClientPlaces \cup WorkerPlaces]
    /\ \A c \in Clients : pc[c] \in ClientPlaces
    /\ pc[Worker] \in WorkerPlaces
    /\ msgCode \in [Clients -> Codes \cup {None}]
    /\ open \in SUBSET Clients
    /\ queue \in Seq(Message)
    /\ Len(queue) <= MaxQueue
    /\ owner \in Threads \cup {None}
    /\ rcvMsg \in [Threads -> Message \cup {None}]
    /\ served \in SUBSET Message
    /\ fault \in Deaths \cup {None}

Init ==
    /\ pc = [t \in Threads |-> IF t = Worker THEN "enter" ELSE "first"]
    /\ msgCode = [c \in Clients |-> None]
    /\ open = Clients
    /\ queue = <<>>
    /\ owner = None
    /\ rcvMsg = [t \in Threads |-> None]
    /\ served = {}
    /\ fault = None
-----------------------------------------------------------------------------
Up == fault = None

At(t, place) == Up /\ pc[t] = place

Goto(t, place) == pc' = [pc EXCEPT ![t] = place]

Fault(f) == /\ fault' = f
            /\ UNCHANGED <<pc, msgCode, open, queue, owner, rcvMsg, served>>

\* Slip: nobody locks.
IgnoresLock == TRUE

\* Nobody holds _mtxRecievedMessages.
LockFree == owner = None

\* Slip: the message is lost.
LostPush(m) == queue

\* _queRcvMessages.push(m).  The entries behind the MaxQueue-th are not kept:
\* nothing but the front is ever read and nothing is popped.
Pushed(m) == IF Len(queue) < MaxQueue THEN Append(queue, m) ELSE queue

\* Slip: back() for front().
Newest == queue[Len(queue)]

\* _queRcvMessages.front().
Front == Head(queue)

\* Slip: the front is popped.
Popped == Tail(queue)

\* The queue after the dispatch of its front, which stays where it is.
AfterService == queue
-----------------------------------------------------------------------------
\* The first getMessageTypeCode of clientHandler, outside the try: when recv
\* fails the exception leaves the thread and std::terminate ends the process.
First(c) ==
    /\ At(c, "first")
    /\ \/ /\ \E code \in Codes : msgCode' = [msgCode EXCEPT ![c] = code]
          /\ Goto(c, "build")
          /\ UNCHANGED <<open, queue, owner, rcvMsg, served, fault>>
       \/ Fault("clientHandler")

\* buildRecieveMessage.  On a closed socket, and when the peer breaks off,
\* reading the parameters throws.  A parameter of length 0 makes a string of
\* a null pointer.  START_GAME calls handleStartGame here, without the lock.
Build(c) ==
    /\ At(c, "build")
    /\ \/ /\ msgCode[c] # "start"
          /\ msgCode[c] = "parts" => c \in open
          /\ Goto(c, "add")
          /\ UNCHANGED <<msgCode, open, queue, owner, rcvMsg, served, fault>>
       \/ /\ msgCode[c] = "parts"
          /\ Goto(c, "error")
          /\ UNCHANGED <<msgCode, open, queue, owner, rcvMsg, served, fault>>
       \/ /\ msgCode[c] = "parts"
          /\ c \in open
          /\ Fault("buildRecieveMessage")
       \/ /\ msgCode[c] = "start"
          /\ Goto(c, "direct")
          /\ UNCHANGED <<msgCode, open, queue, owner, rcvMsg, served, fault>>

\* The threads inside a handler.
InHandler == {t \in Threads : pc[t] \in {"dispatch", "direct"}}

\* handleStartGame called by buildRecieveMessage.  Like every handler it may
\* use a null pointer, and it moves usersItr, a member, while another thread
\* may be doing the same.
Direct(c) ==
    /\ At(c, "direct")
    /\ \/ /\ Goto(c, "add")
          /\ UNCHANGED <<msgCode, open, queue, owner, rcvMsg, served, fault>>
       \/ Fault("handleStartGame")
       \/ /\ InHandler # {c}
          /\ Fault("usersItr")

\* addRecieveMessage of what was built.
Add(c) ==
    /\ At(c, "add")
    /\ LockFree
    /\ queue' = Pushed([from |-> c, code |-> msgCode[c]])
    /\ Goto(c, "enter")
    /\ UNCHANGED <<msgCode, open, owner, rcvMsg, served, fault>>

\* The catch of clientHandler pushes a 299 message, which another thread may
\* dispatch at once,
Error(c) ==
    /\ At(c, "error")
    /\ LockFree
    /\ queue' = Pushed([from |-> c, code |-> ErrorCode])
    /\ Goto(c, "close")
    /\ UNCHANGED <<msgCode, open, owner, rcvMsg, served, fault>>

\* closes the socket, and goes on in the loop with the code that msgCode still
\* has.
Close(c) ==
    /\ At(c, "close")
    /\ open' = open \ {c}
    /\ Goto(c, "build")
    /\ UNCHANGED <<msgCode, queue, owner, rcvMsg, served, fault>>

\* getMessageTypeCode at the end of the loop body.  A message or a peer that
\* has left gives some code; a failing recv throws, on a closed socket always.
NextCode(c) ==
    /\ At(c, "next")
    /\ c \in open
    /\ \E code \in Codes : msgCode' = [msgCode EXCEPT ![c] = code]
    /\ Goto(c, "build")
    /\ UNCHANGED <<open, queue, owner, rcvMsg, served, fault>>

NextFails(c) ==
    /\ At(c, "next")
    /\ Goto(c, "error")
    /\ UNCHANGED <<msgCode, open, queue, owner, rcvMsg, served, fault>>
-----------------------------------------------------------------------------
\* handleRecievedMessage takes the lock and gives it up again to wait when
\* the queue is empty.
Enter(t) ==
    /\ At(t, "enter")
    /\ LockFree
    /\ IF queue = <<>>
       THEN /\ Goto(t, "wait")
            /\ UNCHANGED owner
       ELSE /\ Goto(t, "front")
            /\ owner' = t
    /\ UNCHANGED <<msgCode, open, queue, rcvMsg, served, fault>>

\* _msgCondition is never notified: the wait only ends spuriously, and the
\* thread goes on whether or not the queue is still empty.
SpuriousWakeup(t) ==
    /\ At(t, "wait")
    /\ LockFree
    /\ Goto(t, "front")
    /\ owner' = t
    /\ UNCHANGED <<msgCode, open, queue, rcvMsg, served, fault>>

\* rcvMsg = front(), and the switch on its code.
TakeFront(t) ==
    /\ At(t, "front")
    /\ \/ /\ queue = <<>>
          /\ Fault("front of an empty queue")
       \/ /\ queue # <<>>
          /\ Front.code = "unknown"
          /\ Fault("nullptr dispatched")
       \/ /\ queue # <<>>
          /\ Front.code # "unknown"
          /\ rcvMsg' = [rcvMsg EXCEPT ![t] = Front]
          /\ Goto(t, "dispatch")
          /\ UNCHANGED <<msgCode, open, queue, owner, served, fault>>

\* Where a thread goes after handleRecievedMessage has returned.
AfterReturn(t) == IF t = Worker THEN "done" ELSE "next"

\* Slip: 5c901d7 releases the mutex.
FreedLock(t) == None

\* The mutex after one dispatch: HEAD leaves the function, 5c901d7 loops and
\* still holds it.
OwnerAfter(t) == IF Looping THEN t ELSE None

\* safeDeleteUser closes the socket of a message: of a 299 always (the default
\* of the switch), of another one if its handler throws.
Closes(m) == \/ open' = open \ {m.from}
             \/ m.code # ErrorCode /\ UNCHANGED open

\* The handler of the message returns, or kills the process.
Dispatch(t) ==
    /\ At(t, "dispatch")
    /\ \/ /\ Closes(rcvMsg[t])
          /\ served' = served \cup {rcvMsg[t]}
          /\ rcvMsg' = [rcvMsg EXCEPT ![t] = None]
          /\ queue' = AfterService
          /\ owner' = OwnerAfter(t)
          /\ Goto(t, IF Looping THEN "front" ELSE AfterReturn(t))
          /\ UNCHANGED <<msgCode, fault>>
       \/ Fault("a handler")
       \/ /\ InHandler # {t}
          /\ Fault("usersItr")
-----------------------------------------------------------------------------
\* What a client thread does outside the dispatcher.
ClientStep(c) == Build(c) \/ Add(c) \/ Error(c) \/ Close(c)

Step(t) == Enter(t) \/ TakeFront(t)

Next == \/ \E c \in Clients : \/ First(c) \/ NextCode(c) \/ NextFails(c)
                              \/ ClientStep(c) \/ Direct(c)
        \/ \E t \in Threads : Step(t) \/ SpuriousWakeup(t) \/ Dispatch(t)

\* The thread waits for the parameters of a message.
Reading(c) == At(c, "build") /\ msgCode[c] = "parts" /\ c \in open

\* Every thread that neither waits for a peer nor is in a handler is scheduled
\* again: it builds, pushes, closes, or takes a mutex that is free.  Nothing is
\* assumed of peers, so nothing of handlers either, whose sends wait until the
\* peer reads; nor that a wait ends, nor that a thread gets a mutex others keep
\* taking.
Fairness ==
    /\ \A c \in Clients : /\ WF_vars((ClientStep(c) \/ Step(c)) /\ ~Reading(c))
                          /\ WF_vars(NextFails(c) /\ c \notin open)
    /\ WF_vars(Step(Worker))

Spec == Init /\ [][Next]_vars
FairSpec == Spec /\ Fairness
=============================================================================
