----------------------- MODULE MessageQueueProperties -----------------------
(***************************************************************************)
(* What the threads around the queue do and do not achieve.                *)
(***************************************************************************)
EXTENDS MessageQueue, FiniteSets

\* Because handleRecievedMessage does not pop, every dispatch, by whichever
\* thread and however many messages have come in since, is of the one message
\* that was pushed first: all other requests of all clients are built, queued
\* and never handled.
OneMessageServed ==
    LET Foremost(m) == queue # <<>> /\ m = Head(queue)
    IN /\ \A m \in served : Foremost(m)
       /\ \A t \in Threads : rcvMsg[t] # None => Foremost(rcvMsg[t])

\* A client thread never waits for the notification that nobody sends: it
\* pushes before it dispatches, and what it pushed is still there.
ClientsNeverWait == \A c \in Clients : pc[c] # "wait"

\* The null pointer that stands for an unknown code kills the process only
\* before anything has been dispatched: after the first message that is
\* served no thread meets one any more, however many have been pushed.
NullKillsOnlyFirst == fault = "nullptr dispatched" => served = {}

\* The `if` around the wait lets a thread that woke up read the front of an
\* empty queue, but only until the first message has been served: what has been
\* pushed stays.
EmptyFrontOnlyAtStart == fault = "front of an empty queue" => served = {}

\* So the front of the queue kills the process before the first message has been
\* served or never: neither what the unlocked window between a push and a
\* dispatch lets happen nor a spurious wake-up can do it later.
FrontKillsOnlyAtStart == NullKillsOnlyFirst /\ EmptyFrontOnlyAtStart

\* A thread that waits for the mutex, for a peer or for the notification, or is
\* the worker and has returned.
Stands(t) == \/ pc[t] \in {"add", "error", "enter", "first", "next", "direct", "wait",
                           "done"}
             \/ t \in Clients /\ Reading(t)

\* A dispatch that does not end, its send having no timeout and its peer not
\* reading, brings all threads to a stand, those of all other clients included:
\* each goes on at most until it needs the mutex.
HangStopsAll ==
    \A t \in Threads : \A u \in Threads \ {t} :
        <>[](pc[t] = "dispatch") => <>[](Stands(u) \/ fault # None)

\* HEAD: if every handler returns, then once a connection has broken 299
\* messages and others are pushed without end: the catch of clientHandler goes
\* back to the loop with the old code on the closed socket, and no thread
\* removes anything.
BrokenConnectionFloods ==
    (\A t \in Threads : []<>(t \notin InHandler)) =>
        \A c \in Clients : c \notin open ~> (Len(queue) = MaxQueue \/ fault # None)

\* 5c901d7: the first thread that dispatches never lets go of the mutex, and
\* from then on no message of any client gets into the queue.
FirstDispatcherKeepsAll ==
    [][rcvMsg # [t \in Threads |-> None] \/ served # {}
         => UNCHANGED <<owner, queue>>]_vars

\* The front of the queue and who is in the switch of handleRecievedMessage with
\* which message.
Cell == INSTANCE MessageCell
            WITH Messages <- Message,
                 cell <- IF queue = <<>> THEN None ELSE Head(queue),
                 serving <- {<<t, rcvMsg[t]>> : t \in {u \in Threads : pc[u] = "dispatch"}}

\* The queue is no more than a cell that the first push fills for good.
\* handleRecievedMessage is entered by all client threads and the worker, but
\* they are in its switch one at a time, and each time with that message: no
\* push, no broken connection, no wake-up and no end of a dispatch puts another
\* one there, in between or under a thread that is being served.
ImplementsCell == Cell!Spec
=============================================================================
