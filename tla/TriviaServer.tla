---------------------------- MODULE TriviaServer ----------------------------
(***************************************************************************)
(* The server as a whole: the threads and the queue of MessageQueue with   *)
(* the handlers of Lobby.  A message carries its request; a dispatch runs  *)
(* the handler of the request at the front of the queue, START_GAME runs   *)
(* handleStartGame in buildRecieveMessage as well.  A handler that dies    *)
(* takes the threads with it.                                              *)
(***************************************************************************)
EXTENDS Naturals, Sequences

CONSTANTS
    Clients, Worker, Looping, MaxQueue,
    Names, Capacities, Garbage, GameIds, MaxRoomId,
    RoomNumbers,    \* the room numbers that requests ask for
    None            \* as in MessageQueue and Lobby

VARIABLES
    pc, msgCode, open, queue, owner, rcvMsg, served, fault,
    connected, currRoom, currGame, rooms, roomsList, roomIdSequence,
    dbOpen, currentGameID, gone, reply,
    died,       \* the function in which a handler died, None if none has
    request,    \* the request each client thread is receiving or has received
    asked,      \* the requests of the messages in queue, place by place
    taken       \* the request of the message each thread dispatches

Q == INSTANCE MessageQueue
        WITH Codes <- {"parts", "plain", "start", "unknown"}
L == INSTANCE Lobby WITH Socks <- Clients, fault <- died

ASSUME TriviaServerAssumption ==
    /\ Worker \notin Clients
    /\ Looping \in BOOLEAN
    /\ MaxQueue \in Nat \ {0}
    /\ Capacities \subseteq Nat
    /\ None \notin Q!Threads \cup Q!Message \cup Q!AllCodes \cup Q!Deaths
    /\ None \notin Names \cup Garbage \cup GameIds \cup Nat

threads == <<pc, msgCode, open, queue, owner, rcvMsg, served, fault>>
lobby == <<connected, currRoom, currGame, rooms, roomsList, roomIdSequence,
           dbOpen, currentGameID, gone, reply, died>>
requests == <<request, asked, taken>>
vars == <<threads, lobby, requests>>

\* The requests with a code of each kind; 299 is the message of the server
\* itself about a broken connection.
Requests(code) ==
    CASE code = "parts" -> {"signin"} \X Names \X BOOLEAN
                           \cup {"users", "join"} \X RoomNumbers
                           \cup {"create"} \X Capacities
                           \cup {<<"signup">>, <<"answer">>, <<"malformed">>}
      [] code = "plain" -> {<<"signout">>, <<"rooms">>, <<"leave">>, <<"close">>,
                            <<"leavegame">>, <<"best">>, <<"status">>}
      [] code = "start" -> {<<"start">>}
      [] code = "unknown" -> {<<"unknown">>}
      [] code = "299" -> {<<"malformed">>}

AllRequests == UNION {Requests(code) : code \in {"parts", "plain", "start", "unknown"}}

TypeOK ==
    /\ Q!TypeOK
    /\ L!TypeOK
    /\ request \in [Clients -> AllRequests \cup {None}]
    /\ asked \in Seq(AllRequests)
    /\ \A p \in DOMAIN queue : asked[p] \in Requests(queue[p].code)
    /\ taken \in [Q!Threads -> AllRequests \cup {None}]

Init ==
    /\ Q!Init
    /\ L!Init
    /\ request = [c \in Clients |-> None]
    /\ asked = <<>>
    /\ taken = [t \in Q!Threads |-> None]
-----------------------------------------------------------------------------
\* A client thread has received a message code.
Receive(c) ==
    /\ \/ Q!First(c)
       \/ Q!NextCode(c)
    /\ IF fault' = None
       THEN \E q \in Requests(msgCode'[c]) : request' = [request EXCEPT ![c] = q]
       ELSE UNCHANGED request
    /\ UNCHANGED <<lobby, asked, taken>>

\* What a handler does: it returns, or kills the process by itself, or in the
\* race for usersItr before it has done anything.
Outcome(handler) ==
    \/ /\ handler
       /\ fault' # "usersItr"
       /\ fault' = None <=> died' = None
    \/ /\ fault' = "usersItr"
       /\ UNCHANGED lobby

\* buildRecieveMessage runs handleStartGame.
Direct(c) ==
    /\ Q!Direct(c)
    /\ Outcome(L!HandleStartGame(c))
    /\ UNCHANGED requests

\* The requests of the queue after q has been pushed: an entry that Q!Pushed
\* does not keep has none.
Asked(q) == IF queue' = queue THEN asked ELSE Append(asked, q)

Push(c) ==
    \/ /\ Q!Add(c)
       /\ asked' = Asked(request[c])
       /\ UNCHANGED <<lobby, request, taken>>
    \/ /\ Q!Error(c)
       /\ asked' = Asked(<<"malformed">>)
       /\ UNCHANGED <<lobby, request, taken>>

\* After closesocket sends to c fail as well.
Close(c) ==
    /\ Q!Close(c)
    /\ gone' = gone \cup {c}
    /\ UNCHANGED <<connected, currRoom, currGame, rooms, roomsList, roomIdSequence,
                   dbOpen, currentGameID, reply, died, requests>>

Take(t) ==
    /\ Q!TakeFront(t)
    /\ taken' = IF fault' = None THEN [taken EXCEPT ![t] = Head(asked)] ELSE taken
    /\ UNCHANGED <<lobby, request, asked>>

\* The switch of handleRecievedMessage.
Handle(s, q) ==
    \/ q[1] = "signin"    /\ L!HandleSignin(s, q[2], q[3])
    \/ q[1] = "signout"   /\ L!HandleSignout(s)
    \/ q[1] = "signup"    /\ L!HandleSignup(s)
    \/ q[1] = "rooms"     /\ L!HandleGetRooms(s)
    \/ q[1] = "users"     /\ L!HandleGetUsersInRoom(s, q[2])
    \/ q[1] = "join"      /\ L!HandleJoinRoom(s, q[2])
    \/ q[1] = "leave"     /\ L!HandleLeaveRoom(s)
    \/ q[1] = "create"    /\ L!HandleCreateRoom(s, q[2])
    \/ q[1] = "close"     /\ L!HandleCloseRoom(s)
    \/ q[1] = "start"     /\ L!HandleStartGame(s)
    \/ q[1] = "answer"    /\ L!HandlePlayerAnswer(s)
    \/ q[1] = "leavegame" /\ L!HandleLeaveGame(s)
    \/ q[1] = "best"      /\ L!HandleGetBestScore(s)
    \/ q[1] = "status"    /\ L!HandleGetPersonalStatus(s)
    \/ q[1] = "malformed" /\ L!Malformed(s)

\* A message that is popped (it is not) takes its request along.
Dispatch(t) ==
    /\ Q!Dispatch(t)
    /\ Outcome(Handle(rcvMsg[t].from, taken[t]))
    /\ taken' = IF fault' = None THEN [taken EXCEPT ![t] = None] ELSE taken
    /\ asked' = IF Len(queue') < Len(queue) THEN Tail(asked) ELSE asked
    /\ UNCHANGED request

\* Steps of the threads without effect on users and requests.
Proceed(t) ==
    /\ \/ t \in Clients /\ (Q!Build(t) \/ Q!NextFails(t))
       \/ Q!Enter(t)
       \/ Q!SpuriousWakeup(t)
    /\ UNCHANGED <<lobby, requests>>

\* The environment: sends to c fail from now on.
PeerGone(c) == /\ Q!Up
               /\ L!PeerGone(c)
               /\ UNCHANGED <<threads, requests>>

Next == \/ \E c \in Clients : \/ Receive(c) \/ Direct(c) \/ Push(c)
                              \/ Close(c) \/ PeerGone(c)
        \/ \E t \in Q!Threads : Take(t) \/ Dispatch(t) \/ Proceed(t)

Spec == Init /\ [][Next]_vars
-----------------------------------------------------------------------------
\* Of all clients only the one whose message came first can ever be signed in
\* or get a reply, although every client is accepted and every one of its
\* messages received: the handlers that could serve the others are called for
\* the front of the queue only.
Foremost(c) == queue # <<>> /\ Head(queue).from = c

OnlyFirstIsServed ==
    /\ \A c \in Clients : connected[c] # None => Foremost(c)
    /\ reply # None => Foremost(reply.to)

\* Lobby's rooms and games exist in no run of this server: its one request is
\* a sign-in, or it is made by somebody who is not signed in.  So nothing of
\* what follows a created room is ever reached, the closed database included.
NoRoomEver ==
    /\ rooms = <<>>
    /\ \A c \in Clients : currRoom[c] = None /\ currGame[c] = <<>>
    /\ dbOpen

\* No thread comes back from a START_GAME, whoever sent it and whatever was
\* served before: it is run for every sender, in his own thread, and nobody
\* has a room.
NoReturnFromStart ==
    [][\A c \in Clients : pc[c] = "direct" => pc'[c] = "direct"]_vars

\* A dispatcher in a handler is not saved by the mutex from a START_GAME that
\* another thread runs, but what that one can do is die: users and rooms are
\* written under the mutex only.
WrittenUnderMutex ==
    [][connected' # connected \/ rooms' # rooms \/ currGame' # currGame =>
         \E t \in Q!Threads : owner = t /\ pc[t] = "dispatch"]_vars
=============================================================================
