------------------------- MODULE TriviaServerProofs -------------------------
(***************************************************************************)
(* What the composition of queue and handlers comes to, for any number of  *)
(* connections, any bounds and both versions of the dispatcher; at the end *)
(* the life of the process in which they run (Process), for both versions  *)
(* of main.                                                                *)
(***************************************************************************)
EXTENDS Server, TLAPS

-----------------------------------------------------------------------------
\* Handlers and requests only narrow what the threads do: every step of the
\* server is one of MessageQueue or leaves threads and queue alone, so what holds
\* of all behaviours of MessageQueue holds under the real handlers.
THEOREM ServerImplementsQueue == Spec => Q!Spec
  <1>1. Init => Q!Init
    BY DEF Init
  <1>2. [Next]_vars => [Q!Next]_(Q!vars)
    <2> SUFFICES ASSUME [Next]_vars PROVE [Q!Next]_(Q!vars)
      OBVIOUS
    <2>1. ASSUME NEW c \in Clients, Receive(c) \/ Direct(c) \/ Push(c) \/ Close(c)
          PROVE  Q!Next
      BY <2>1 DEF Receive, Direct, Push, Close, Q!Next, Q!ClientStep
    <2>2. ASSUME NEW t \in Q!Threads, Take(t) \/ Dispatch(t) \/ Proceed(t)
          PROVE  Q!Next
      BY <2>2 DEF Take, Dispatch, Proceed, Q!Next, Q!ClientStep, Q!Step
    <2>3. ASSUME NEW c \in Clients, PeerGone(c) PROVE UNCHANGED Q!vars
      BY <2>3 DEF PeerGone, threads, Q!vars
    <2>4. CASE UNCHANGED vars
      BY <2>4 DEF vars, threads, Q!vars
    <2> QED BY <2>1, <2>2, <2>3, <2>4 DEF Next
  <1> QED BY <1>1, <1>2, PTL DEF Spec, Q!Spec

-----------------------------------------------------------------------------
\* The state that every server stays in: no room, no game.
Bare ==
    /\ rooms = <<>>
    /\ roomsList = {}
    /\ \A c \in Clients : currRoom[c] = None /\ currGame[c] = <<>>
    /\ dbOpen
    /\ DOMAIN connected = Clients

\* A step of the handlers for s that makes no room and signs in nobody else.
BareStep(s, signin) ==
    /\ Bare'
    /\ \A c \in Clients : connected'[c] # connected[c] => c = s /\ signin
    /\ UNCHANGED <<rooms, currGame>>
    /\ reply' # None => reply'.to = s

LEMMA FaultBare ==
    ASSUME Bare, NEW s \in Clients, NEW b \in BOOLEAN, NEW f, L!Fault(f)
    PROVE  BareStep(s, b)
  BY DEF Bare, BareStep, L!Fault, L!users, L!world, L!db

LEMMA QuietBare ==
    ASSUME Bare, NEW s \in Clients, NEW b \in BOOLEAN,
           UNCHANGED <<L!users, L!world, L!db>>, reply' # None => reply'.to = s
    PROVE  BareStep(s, b)
  BY DEF Bare, BareStep, L!users, L!world, L!db

LEMMA TellBare ==
    ASSUME NEW s \in Clients, NEW code, NEW status, NEW about,
           L!TellOrLog(s, code, status, about)
    PROVE  reply' # None => reply'.to = s
  BY DEF L!TellOrLog

LEMMA DeleteBare ==
    ASSUME Bare, NEW s \in Clients, NEW b \in BOOLEAN, L!SafeDeleteUser(s)
    PROVE  BareStep(s, b)
  BY FaultBare, QuietBare DEF L!SafeDeleteUser

LEMMA AnswerBare ==
    ASSUME Bare, NEW s \in Clients, NEW b \in BOOLEAN,
           NEW code, NEW status, NEW about, L!Answer(s, code, status, about)
    PROVE  BareStep(s, b)
  <1>1. CASE L!SafeDeleteUser(s)
    BY <1>1, DeleteBare
  <1>2. CASE /\ reply' = [to |-> s, code |-> code, status |-> status, about |-> about]
             /\ UNCHANGED <<L!users, L!world, L!db>>
    BY <1>2, QuietBare
  <1> QED BY <1>1, <1>2 DEF L!Answer

LEMMA SigninBare ==
    ASSUME Bare, NEW s \in Clients, NEW n, NEW runs, L!HandleSignin(s, n, runs)
    PROVE  BareStep(s, TRUE)
  <1>1. reply' # None => reply'.to = s
    BY TellBare DEF L!HandleSignin
  <1>2. connected' = connected \/ connected' = [connected EXCEPT ![s] = n]
    BY DEF L!HandleSignin, L!Inserted
  <1>3. UNCHANGED <<currRoom, currGame, L!world, L!db>>
    BY DEF L!HandleSignin
  <1>4. /\ DOMAIN connected' = Clients
        /\ \A c \in Clients : connected'[c] # connected[c] => c = s
    BY <1>2 DEF Bare
  <1> QED BY <1>1, <1>3, <1>4 DEF Bare, BareStep, L!world, L!db

\* A START_GAME dies at once: nobody has a room.
LEMMA StartDies ==
    ASSUME Bare, NEW s \in Clients, L!HandleStartGame(s)
    PROVE  L!Fault("handleStartGame")
  BY DEF Bare, L!HandleStartGame

\* The handlers of users who are not signed in.
LEMMA StrangerBare ==
    ASSUME Bare, NEW s \in Clients, connected[s] = None, NEW q, q[1] # "signin",
           Handle(s, q)
    PROVE  BareStep(s, FALSE)
  <1>1. ASSUME L!HandleSignout(s) \/ L!Malformed(s) \/ L!HandleLeaveGame(s)
        PROVE  BareStep(s, FALSE)
    BY <1>1, FaultBare, DeleteBare, QuietBare
    DEF L!HandleSignout, L!Malformed, L!HandleLeaveGame
  <1>2. ASSUME \/ L!HandleSignup(s) \/ L!HandleGetRooms(s) \/ L!HandleGetBestScore(s)
               \/ L!HandleGetPersonalStatus(s)
        PROVE  BareStep(s, FALSE)
    <2>1. CASE \E code, status : L!Answer(s, code, status, None)
      BY <2>1, AnswerBare
    <2>2. CASE \E f : L!Fault(f)
      BY <2>2, FaultBare
    <2> QED BY <1>2, <2>1, <2>2
            DEF L!HandleSignup, L!HandleGetRooms, L!HandleGetBestScore,
                L!HandleGetPersonalStatus
  <1>3. ASSUME L!HandleGetUsersInRoom(s, q[2]) PROVE BareStep(s, FALSE)
    BY <1>3, FaultBare DEF L!HandleGetUsersInRoom, Bare
  <1>4. ASSUME L!HandleJoinRoom(s, q[2]) PROVE BareStep(s, FALSE)
    BY <1>4, QuietBare DEF L!HandleJoinRoom, L!Connected
  <1>5. ASSUME L!HandleLeaveRoom(s) PROVE BareStep(s, FALSE)
    BY <1>5, AnswerBare DEF L!HandleLeaveRoom, L!Connected
  <1>6. ASSUME L!HandleCreateRoom(s, q[2]) PROVE BareStep(s, FALSE)
    BY <1>6, AnswerBare DEF L!HandleCreateRoom, L!Connected
  <1>7. ASSUME L!HandleCloseRoom(s) PROVE BareStep(s, FALSE)
    BY <1>7, FaultBare DEF L!HandleCloseRoom, L!Connected
  <1>8. ASSUME L!HandleStartGame(s) PROVE BareStep(s, FALSE)
    BY <1>8, FaultBare, StartDies
  <1>9. ASSUME L!HandlePlayerAnswer(s) PROVE BareStep(s, FALSE)
    BY <1>9, FaultBare DEF L!HandlePlayerAnswer, L!Connected
  <1> QED BY <1>1, <1>2, <1>3, <1>4, <1>5, <1>6, <1>7, <1>8, <1>9 DEF Handle

-----------------------------------------------------------------------------
Entry == [from : Clients, code : {"parts", "plain", "start", "unknown", "299", None}]

\* The queue has its requests with it, and what a thread has taken is its front.
Shape ==
    /\ pc \in [Q!Threads -> Q!ClientPlaces \cup Q!WorkerPlaces]
    /\ msgCode \in [Clients -> {"parts", "plain", "start", "unknown", None}]
    /\ DOMAIN rcvMsg = Q!Threads
    /\ DOMAIN taken = Q!Threads
    /\ request \in [Clients -> AllRequests \cup {None}]
    /\ queue \in Seq(Entry)
    /\ asked \in Seq(AllRequests \cup {None})
    /\ Len(asked) = Len(queue)

DispatchesFront ==
    \A t \in Q!Threads : pc[t] = "dispatch" =>
        /\ queue # <<>>
        /\ rcvMsg[t] = Head(queue)
        /\ taken[t] = Head(asked)

HoldsLock ==
    \A t \in Q!Threads : pc[t] \in {"front", "dispatch"} => owner = t

\* Whoever is signed in has sent the first message, and that was a sign-in.
FirstSignedIn ==
    /\ \A c \in Clients : connected[c] # None =>
            Foremost(c) /\ Head(asked)[1] = "signin"
    /\ reply # None => Foremost(reply.to)

Inv == /\ Shape
       /\ DispatchesFront
       /\ HoldsLock
       /\ Bare
       /\ FirstSignedIn

\* The front of the queue stays, with its request.
FrontStays ==
    queue # <<>> => /\ queue' # <<>>
                    /\ Head(queue') = Head(queue)
                    /\ Head(asked') = Head(asked)

LEMMA RequestKinds ==
    /\ \A code \in {"parts", "plain", "start", "unknown"} : Requests(code) \subseteq AllRequests
    /\ <<"malformed">> \in AllRequests
  <1>1. \A code \in {"parts", "plain", "start", "unknown"} : Requests(code) \subseteq AllRequests
    BY DEF AllRequests
  <1>2. <<"malformed">> \in Requests("parts")
    BY Zenon DEF Requests
  <1> QED BY <1>1, <1>2

LEMMA InitInv == Init => Inv
  <1> SUFFICES ASSUME Init PROVE Inv
    OBVIOUS
  <1>1. Shape
    BY DEF Init, Q!Init, Shape, Q!Threads, Q!ClientPlaces, Q!WorkerPlaces
  <1>2. \A t \in Q!Threads : pc[t] \notin {"front", "dispatch"}
    BY DEF Init, Q!Init
  <1>3. Bare /\ FirstSignedIn
    BY DEF Init, L!Init, L!NoGame, Bare, FirstSignedIn
  <1> QED BY <1>1, <1>2, <1>3 DEF Inv, DispatchesFront, HoldsLock

LEMMA Pushes ==
    ASSUME Shape, NEW m \in Entry, NEW q \in AllRequests \cup {None},
           queue' = Q!Pushed(m), asked' = Asked(q)
    PROVE  /\ queue' \in Seq(Entry)
           /\ asked' \in Seq(AllRequests \cup {None})
           /\ Len(asked') = Len(queue')
           /\ FrontStays
  <1>1. CASE Len(queue) < MaxQueue
    <2>1. queue' = Append(queue, m) /\ Len(queue') = Len(queue) + 1
      BY <1>1 DEF Shape, Q!Pushed
    <2>2. asked' = Append(asked, q)
      BY <2>1 DEF Shape, Asked
    <2>3. queue' \in Seq(Entry) /\ asked' \in Seq(AllRequests \cup {None})
      BY <2>1, <2>2 DEF Shape
    <2>4. Len(asked') = Len(queue')
      BY <2>1, <2>2 DEF Shape
    <2>5. ASSUME queue # <<>>
          PROVE  /\ queue' # <<>>
                 /\ Head(queue') = Head(queue)
                 /\ Head(asked') = Head(asked)
      <3>1. Len(queue) > 0 /\ Len(asked) > 0
        BY <2>5 DEF Shape
      <3>2. queue' # <<>> /\ Head(queue') = Head(queue)
        BY <2>1, <3>1 DEF Shape
      <3>3. Head(asked') = Head(asked)
        BY <2>2, <3>1 DEF Shape
      <3> QED BY <3>2, <3>3
    <2> QED BY <2>3, <2>4, <2>5 DEF FrontStays
  <1>2. CASE ~(Len(queue) < MaxQueue)
    BY <1>2 DEF Shape, FrontStays, Q!Pushed, Asked
  <1> QED BY <1>1, <1>2

LEMMA KeepsDispatching ==
    ASSUME Inv, FrontStays,
           \A t \in Q!Threads : pc'[t] = "dispatch" =>
               pc[t] = "dispatch" /\ rcvMsg'[t] = rcvMsg[t] /\ taken'[t] = taken[t]
    PROVE  DispatchesFront'
  BY DEF Inv, DispatchesFront, FrontStays

LEMMA KeepsLock ==
    ASSUME Inv, UNCHANGED owner,
           \A t \in Q!Threads :
               pc'[t] \in {"front", "dispatch"} => pc[t] \in {"front", "dispatch"}
    PROVE  HoldsLock'
  BY DEF Inv, HoldsLock

LEMMA KeepsUsers ==
    ASSUME Inv, FrontStays,
           UNCHANGED <<connected, currRoom, currGame, rooms, roomsList, dbOpen>>,
           reply' = reply \/ reply' = None
    PROVE  Bare' /\ FirstSignedIn'
  BY DEF Inv, Bare, FirstSignedIn, FrontStays, Foremost

\* A step of the threads by which one of them moves on outside the switch and
\* the queue stays.
LEMMA MovesOn ==
    ASSUME Inv, NEW t \in Q!Threads,
           NEW place \in (Q!ClientPlaces \cup Q!WorkerPlaces) \ {"front", "dispatch"},
           \/ pc' = [pc EXCEPT ![t] = place]
           \/ UNCHANGED pc,
           UNCHANGED <<queue, owner, rcvMsg, asked, taken>>,
           msgCode' \in [Clients -> {"parts", "plain", "start", "unknown", None}],
           request' \in [Clients -> AllRequests \cup {None}]
    PROVE  Shape' /\ DispatchesFront' /\ HoldsLock' /\ FrontStays
  <1>1. \A u \in Q!Threads : pc'[u] \in {"front", "dispatch"} => pc'[u] = pc[u]
    BY DEF Inv, Shape
  <1>2. Shape'
    BY DEF Inv, Shape
  <1>3. FrontStays
    BY DEF FrontStays
  <1> QED BY <1>1, <1>2, <1>3, KeepsDispatching, KeepsLock

LEMMA ReceiveInv ==
    ASSUME Inv, NEW c \in Clients, Receive(c)
    PROVE  Inv'
  <1>1. c \in Q!Threads
    BY DEF Q!Threads
  <1>2. /\ \/ pc' = [pc EXCEPT ![c] = "build"]
           \/ UNCHANGED pc
        /\ UNCHANGED <<queue, owner, rcvMsg>>
        /\ \/ \E code \in {"parts", "plain", "start", "unknown"} :
                  msgCode' = [msgCode EXCEPT ![c] = code]
           \/ UNCHANGED msgCode /\ fault' # None
    BY TriviaServerAssumption
    DEF Receive, Q!First, Q!NextCode, Q!Goto, Q!Fault, Q!Deaths
  <1>3. msgCode' \in [Clients -> {"parts", "plain", "start", "unknown", None}]
    BY <1>2 DEF Inv, Shape
  <1>4. request' \in [Clients -> AllRequests \cup {None}]
    <2>1. CASE UNCHANGED request
      BY <2>1 DEF Inv, Shape
    <2>2. CASE fault' = None
      <3>1. msgCode'[c] \in {"parts", "plain", "start", "unknown"}
        BY <1>2, <2>2 DEF Inv, Shape
      <3>2. PICK q \in Requests(msgCode'[c]) : request' = [request EXCEPT ![c] = q]
        BY <2>2 DEF Receive
      <3>3. q \in AllRequests
        BY <3>1, <3>2, RequestKinds
      <3> QED BY <3>2, <3>3 DEF Inv, Shape
    <2> QED BY <2>1, <2>2 DEF Receive
  <1>5. Shape' /\ DispatchesFront' /\ HoldsLock' /\ FrontStays
    BY <1>1, <1>2, <1>3, <1>4, MovesOn DEF Receive, Q!ClientPlaces
  <1> QED BY <1>5, KeepsUsers DEF Receive, lobby, Inv

LEMMA DirectInv ==
    ASSUME Inv, NEW c \in Clients, Direct(c)
    PROVE  /\ Inv'
           /\ pc' = pc
           /\ UNCHANGED <<connected, rooms, currGame>>
  <1>1. c \in Q!Threads
    BY DEF Q!Threads
  <1>2. L!Fault("handleStartGame") \/ (fault' = "usersItr" /\ UNCHANGED lobby)
    BY StartDies DEF Direct, Outcome, Inv
  <1>3. fault' # None
    <2>1. CASE L!Fault("handleStartGame") /\ fault' # "usersItr"
      <3>1. died' = "handleStartGame" /\ "handleStartGame" # None
        BY <2>1, TriviaServerAssumption DEF L!Fault, Q!Deaths
      <3> QED BY <2>1, <3>1 DEF Direct, Outcome
    <2>2. CASE fault' = "usersItr"
      BY <2>2, TriviaServerAssumption DEF Q!Deaths
    <2> QED BY <1>2, <2>1, <2>2
  <1>4. UNCHANGED <<pc, msgCode, queue, owner, rcvMsg>>
    BY <1>3 DEF Direct, Q!Direct, Q!At, Q!Up, Q!Fault
  <1>5. Shape' /\ DispatchesFront' /\ HoldsLock' /\ FrontStays
    BY <1>1, <1>4, MovesOn DEF Direct, requests, Q!ClientPlaces, Inv, Shape
  <1>6. /\ UNCHANGED <<connected, currRoom, currGame, rooms, roomsList, dbOpen>>
        /\ reply' = reply \/ reply' = None
    BY <1>2 DEF L!Fault, L!users, L!world, L!db, lobby
  <1> QED BY <1>4, <1>5, <1>6, KeepsUsers DEF Inv

LEMMA PushInv ==
    ASSUME Inv, NEW c \in Clients, Push(c)
    PROVE  Inv'
  <1>1. c \in Q!Threads
    BY DEF Q!Threads
  <1>2. PICK m \in Entry, q \in AllRequests \cup {None} :
            queue' = Q!Pushed(m) /\ asked' = Asked(q)
    <2>1. CASE Q!Add(c)
      <3>1. [from |-> c, code |-> msgCode[c]] \in Entry
        BY DEF Inv, Shape, Entry
      <3>2. request[c] \in AllRequests \cup {None}
        BY DEF Inv, Shape
      <3>3. queue' = Q!Pushed([from |-> c, code |-> msgCode[c]])
        BY <2>1 DEF Q!Add
      <3>4. CASE asked' = Asked(request[c])
        BY <3>1, <3>2, <3>3, <3>4
      <3>5. CASE Q!Error(c) /\ asked' = Asked(<<"malformed">>)
        BY <3>1, <3>3, <3>5, RequestKinds
      <3> QED BY <3>4, <3>5 DEF Push
    <2>2. CASE Q!Error(c) /\ asked' = Asked(<<"malformed">>)
      <3>1. [from |-> c, code |-> "299"] \in Entry
        BY DEF Entry
      <3>2. queue' = Q!Pushed([from |-> c, code |-> "299"])
        BY <2>2 DEF Q!Error, Q!ErrorCode
      <3> QED BY <2>2, <3>1, <3>2, RequestKinds
    <2> QED BY <2>1, <2>2 DEF Push
  <1>3. /\ queue' \in Seq(Entry)
        /\ asked' \in Seq(AllRequests \cup {None})
        /\ Len(asked') = Len(queue')
        /\ FrontStays
    BY <1>2, Pushes DEF Inv
  <1>4. /\ \E place \in {"enter", "close"} : pc' = [pc EXCEPT ![c] = place]
        /\ UNCHANGED <<msgCode, owner, rcvMsg, request, taken>>
        /\ UNCHANGED <<connected, currRoom, currGame, rooms, roomsList, dbOpen>>
        /\ reply' = reply
    BY DEF Push, Q!Add, Q!Error, Q!Goto, lobby
  <1>5. \A u \in Q!Threads : pc'[u] \in {"front", "dispatch"} => pc'[u] = pc[u]
    BY <1>1, <1>4 DEF Inv, Shape
  <1>6. Shape'
    BY <1>1, <1>3, <1>4 DEF Inv, Shape, Q!ClientPlaces
  <1>7. DispatchesFront' /\ HoldsLock'
    BY <1>3, <1>4, <1>5, KeepsDispatching, KeepsLock
  <1> QED BY <1>3, <1>4, <1>6, <1>7, KeepsUsers DEF Inv

LEMMA CloseInv ==
    ASSUME Inv, NEW c \in Clients, Close(c)
    PROVE  Inv'
  <1>1. c \in Q!Threads
    BY DEF Q!Threads
  <1>2. /\ pc' = [pc EXCEPT ![c] = "build"]
        /\ UNCHANGED <<msgCode, queue, owner, rcvMsg>>
    BY DEF Close, Q!Close, Q!Goto
  <1>3. Shape' /\ DispatchesFront' /\ HoldsLock' /\ FrontStays
    BY <1>1, <1>2, MovesOn DEF Close, requests, Q!ClientPlaces, Inv, Shape
  <1> QED BY <1>3, KeepsUsers DEF Close, Inv

LEMMA TakeInv ==
    ASSUME Inv, NEW t \in Q!Threads, Take(t)
    PROVE  Inv'
  <1>1. CASE fault' # None
    <2>1. UNCHANGED <<pc, msgCode, queue, owner, rcvMsg, taken>>
      BY <1>1 DEF Take, Q!TakeFront, Q!Fault, Q!At, Q!Up
    <2>2. Shape' /\ DispatchesFront' /\ HoldsLock' /\ FrontStays
      BY <2>1, MovesOn DEF Take, Q!ClientPlaces, Inv, Shape
    <2> QED BY <2>2, KeepsUsers DEF Take, lobby, Inv
  <1>2. CASE fault' = None
    <2>1. /\ queue # <<>>
          /\ pc[t] = "front"
          /\ pc' = [pc EXCEPT ![t] = "dispatch"]
          /\ rcvMsg' = [rcvMsg EXCEPT ![t] = Head(queue)]
          /\ UNCHANGED <<msgCode, queue, owner>>
      BY <1>2, TriviaServerAssumption
      DEF Take, Q!TakeFront, Q!Fault, Q!At, Q!Goto, Q!Front, Q!Deaths
    <2>2. taken' = [taken EXCEPT ![t] = Head(asked)] /\ UNCHANGED <<asked, request, lobby>>
      BY <1>2 DEF Take
    <2>3. Shape'
      BY <2>1, <2>2 DEF Inv, Shape, Q!ClientPlaces
    <2>4. DispatchesFront'
      BY <2>1, <2>2 DEF Inv, Shape, DispatchesFront
    <2>5. HoldsLock'
      BY <2>1 DEF Inv, Shape, HoldsLock
    <2>6. FrontStays
      BY <2>1, <2>2 DEF FrontStays
    <2> QED BY <2>2, <2>3, <2>4, <2>5, <2>6, KeepsUsers DEF lobby, Inv
  <1> QED BY <1>1, <1>2

\* What a dispatch does to users and rooms.
LEMMA DispatchBare ==
    ASSUME Inv, NEW t \in Q!Threads, Dispatch(t)
    PROVE  \/ \E b \in BOOLEAN : /\ BareStep(rcvMsg[t].from, b)
                                 /\ b => taken[t][1] = "signin"
           \/ UNCHANGED lobby
  <1> DEFINE s == rcvMsg[t].from
             q == taken[t]
  <1>1. /\ queue # <<>>
        /\ rcvMsg[t] = Head(queue)
        /\ q = Head(asked)
    BY DEF Inv, DispatchesFront, Dispatch, Q!Dispatch, Q!At
  <1>2. s \in Clients
    <2>1. Head(queue) \in Entry
      BY <1>1 DEF Inv, Shape
    <2> QED BY <1>1, <2>1 DEF Entry
  <1>3. CASE q[1] = "signin" /\ Handle(s, q)
    <2>1. L!HandleSignin(s, q[2], q[3])
      BY <1>3 DEF Handle
    <2> QED BY <1>2, <1>3, <2>1, SigninBare DEF Inv
  <1>4. CASE q[1] # "signin" /\ Handle(s, q)
    <2>1. connected[s] = None
      BY <1>1, <1>2, <1>4 DEF Inv, FirstSignedIn
    <2> QED BY <1>2, <1>4, <2>1, StrangerBare DEF Inv
  <1> QED BY <1>3, <1>4 DEF Dispatch, Outcome

LEMMA DispatchInv ==
    ASSUME Inv, NEW t \in Q!Threads, Dispatch(t)
    PROVE  Inv'
  <1>1. /\ pc[t] = "dispatch"
        /\ queue # <<>>
        /\ rcvMsg[t] = Head(queue)
        /\ taken[t] = Head(asked)
        /\ owner = t
    BY DEF Inv, DispatchesFront, HoldsLock, Dispatch, Q!Dispatch, Q!At
  <1>2. UNCHANGED <<queue, asked, request, msgCode>>
    <2>1. UNCHANGED <<queue, request, msgCode>>
      BY DEF Dispatch, Q!Dispatch, Q!AfterService, Q!Fault
    <2>2. Len(queue) \in Nat
      BY DEF Inv, Shape
    <2>3. asked' = asked
      BY <2>1, <2>2 DEF Dispatch
    <2> QED BY <2>1, <2>3
  <1>3. \/ /\ \E place \in {"front", "done", "next"} : pc' = [pc EXCEPT ![t] = place]
           /\ rcvMsg' = [rcvMsg EXCEPT ![t] = None]
           /\ owner' = Q!OwnerAfter(t)
           /\ pc'[t] = "front" => Looping
        \/ UNCHANGED <<pc, rcvMsg, owner>> /\ fault' # None
    <2>1. CASE Q!Dispatch(t) /\ fault' = None
      <3>1. /\ pc' = [pc EXCEPT ![t] = IF Looping THEN "front" ELSE Q!AfterReturn(t)]
            /\ rcvMsg' = [rcvMsg EXCEPT ![t] = None]
            /\ owner' = Q!OwnerAfter(t)
        BY <2>1, TriviaServerAssumption DEF Q!Dispatch, Q!Goto, Q!Fault, Q!Deaths
      <3> QED BY <3>1 DEF Q!AfterReturn, Inv, Shape
    <2>2. CASE Q!Dispatch(t) /\ fault' # None
      BY <2>2 DEF Q!Dispatch, Q!Fault, Q!At, Q!Up
    <2> QED BY <2>1, <2>2 DEF Dispatch
  <1>4. Shape'
    BY <1>2, <1>3 DEF Dispatch, Inv, Shape, Q!ClientPlaces, Q!WorkerPlaces
  <1>5. \A u \in Q!Threads : pc'[u] = "dispatch" =>
            pc[u] = "dispatch" /\ rcvMsg'[u] = rcvMsg[u] /\ taken'[u] = taken[u]
    <2> SUFFICES ASSUME NEW u \in Q!Threads, pc'[u] = "dispatch"
                 PROVE  pc[u] = "dispatch" /\ rcvMsg'[u] = rcvMsg[u] /\ taken'[u] = taken[u]
      OBVIOUS
    <2>1. CASE UNCHANGED <<pc, rcvMsg>> /\ fault' # None
      BY <2>1 DEF Dispatch
    <2>2. CASE \E place \in {"front", "done", "next"} : pc' = [pc EXCEPT ![t] = place]
      <3>1. u # t
        BY <2>2 DEF Inv, Shape
      <3>2. pc[u] = "dispatch"
        BY <2>2, <3>1 DEF Inv, Shape
      <3>3. rcvMsg'[u] = rcvMsg[u] /\ taken'[u] = taken[u]
        BY <1>3, <3>1 DEF Dispatch, Inv, Shape
      <3> QED BY <3>2, <3>3
    <2> QED BY <1>3, <2>1, <2>2
  <1>6. FrontStays
    BY <1>2 DEF FrontStays
  <1>7. HoldsLock'
    <2>1. CASE UNCHANGED <<pc, owner>>
      BY <2>1 DEF Inv, HoldsLock
    <2>2. CASE /\ \E place \in {"front", "done", "next"} : pc' = [pc EXCEPT ![t] = place]
               /\ owner' = Q!OwnerAfter(t)
               /\ pc'[t] = "front" => Looping
      <3> SUFFICES ASSUME NEW u \in Q!Threads, pc'[u] \in {"front", "dispatch"}
                   PROVE  owner' = u
        BY DEF HoldsLock
      <3>1. CASE u # t
        <4>1. pc[u] \in {"front", "dispatch"}
          BY <2>2, <3>1 DEF Inv, Shape
        <4> QED BY <1>1, <3>1, <4>1 DEF Inv, HoldsLock
      <3>2. CASE u = t
        <4>1. pc'[t] \in {"front", "done", "next"}
          BY <2>2 DEF Inv, Shape
        <4> QED BY <2>2, <3>2, <4>1 DEF Q!OwnerAfter
      <3> QED BY <3>1, <3>2
    <2> QED BY <1>3, <2>1, <2>2
  <1>8. Bare' /\ FirstSignedIn'
    <2>1. CASE UNCHANGED lobby
      BY <1>6, <2>1, KeepsUsers DEF lobby
    <2>2. ASSUME NEW b \in BOOLEAN, BareStep(rcvMsg[t].from, b), b => taken[t][1] = "signin"
          PROVE  Bare' /\ FirstSignedIn'
      <3>1. \A c \in Clients : connected'[c] # None =>
                \/ connected[c] # None
                \/ c = Head(queue).from /\ Head(asked)[1] = "signin"
        BY <1>1, <2>2 DEF BareStep
      <3>2. \A c \in Clients : connected'[c] # None =>
                Head(queue).from = c /\ Head(asked)[1] = "signin"
        BY <3>1 DEF Inv, FirstSignedIn, Foremost
      <3>3. reply' # None => reply'.to = Head(queue).from
        BY <1>1, <2>2 DEF BareStep
      <3> QED BY <1>1, <1>2, <2>2, <3>2, <3>3 DEF BareStep, FirstSignedIn, Foremost
    <2> QED BY <2>1, <2>2, DispatchBare
  <1> QED BY <1>4, <1>5, <1>6, <1>7, <1>8, KeepsDispatching DEF Inv

LEMMA ProceedInv ==
    ASSUME Inv, NEW t \in Q!Threads, Proceed(t)
    PROVE  Inv'
  <1>1. UNCHANGED <<msgCode, queue, rcvMsg, asked, taken, request>>
    BY DEF Proceed, requests, Q!Build, Q!NextFails, Q!Enter, Q!SpuriousWakeup, Q!Fault
  <1>2. CASE /\ UNCHANGED owner
             /\ \/ \E place \in {"add", "error", "direct", "wait"} :
                      pc' = [pc EXCEPT ![t] = place]
                \/ UNCHANGED pc
    <2>1. PICK place \in {"add", "error", "direct", "wait"} :
              pc' = [pc EXCEPT ![t] = place] \/ UNCHANGED pc
      BY <1>2
    <2>2. place \in (Q!ClientPlaces \cup Q!WorkerPlaces) \ {"front", "dispatch"}
      BY DEF Q!ClientPlaces
    <2>3. /\ msgCode' \in [Clients -> {"parts", "plain", "start", "unknown", None}]
          /\ request' \in [Clients -> AllRequests \cup {None}]
      BY <1>1 DEF Inv, Shape
    <2>4. Shape' /\ DispatchesFront' /\ HoldsLock' /\ FrontStays
      BY <1>1, <1>2, <2>1, <2>2, <2>3, MovesOn
    <2> QED BY <2>4, KeepsUsers DEF Proceed, lobby, Inv
  <1>3. CASE /\ owner = None
             /\ owner' = t
             /\ pc' = [pc EXCEPT ![t] = "front"]
    <2>1. \A u \in Q!Threads : pc[u] \notin {"front", "dispatch"}
      BY <1>3, TriviaServerAssumption DEF Inv, HoldsLock
    <2>2. \A u \in Q!Threads : pc'[u] \in {"front", "dispatch"} => u = t /\ pc'[u] = "front"
      BY <1>3, <2>1 DEF Inv, Shape
    <2>3. Shape'
      BY <1>1, <1>3 DEF Inv, Shape, Q!ClientPlaces
    <2>4. DispatchesFront' /\ HoldsLock'
      BY <1>3, <2>2 DEF DispatchesFront, HoldsLock
    <2>5. FrontStays
      BY <1>1 DEF FrontStays
    <2> QED BY <2>3, <2>4, <2>5, KeepsUsers DEF Proceed, lobby, Inv
  <1> QED BY <1>2, <1>3
          DEF Proceed, Q!Build, Q!NextFails, Q!Enter, Q!SpuriousWakeup, Q!Goto,
              Q!LockFree, Q!Fault

LEMMA NextInv == Inv /\ [Next]_vars => Inv'
  <1> SUFFICES ASSUME Inv, [Next]_vars PROVE Inv'
    OBVIOUS
  <1>1. ASSUME UNCHANGED <<threads, requests>>,
               UNCHANGED <<connected, currRoom, currGame, rooms, roomsList, dbOpen>>,
               reply' = reply \/ reply' = None
        PROVE  Inv'
    <2>1. Shape' /\ DispatchesFront' /\ HoldsLock' /\ FrontStays
      BY <1>1 DEF Inv, Shape, DispatchesFront, HoldsLock, FrontStays, threads, requests
    <2> QED BY <1>1, <2>1, KeepsUsers DEF Inv
  <1>2. ASSUME NEW c \in Clients, PeerGone(c) PROVE Inv'
    BY <1>1, <1>2 DEF PeerGone, L!PeerGone, L!users, L!world, L!db
  <1>3. CASE UNCHANGED vars
    BY <1>1, <1>3 DEF vars, lobby
  <1> QED BY <1>2, <1>3, ReceiveInv, DirectInv, PushInv, CloseInv, TakeInv, DispatchInv, ProceedInv
          DEF Next

LEMMA Invariant == Spec => []Inv
  BY InitInv, NextInv, PTL DEF Spec

\* Only the client whose message came first is ever signed in or answered.
THEOREM OnlyFirstServed == Spec => []OnlyFirstIsServed
  <1>1. Inv => OnlyFirstIsServed
    BY DEF Inv, FirstSignedIn, OnlyFirstIsServed
  <1> QED BY <1>1, Invariant, PTL

\* No room is ever created and no game played.
THEOREM RoomsNeverExist == Spec => []NoRoomEver
  <1>1. Inv => NoRoomEver
    BY DEF Inv, Bare, NoRoomEver
  <1> QED BY <1>1, Invariant, PTL

\* A START_GAME ends the process: no step leads a thread out of it.
THEOREM StartNeverReturns == Spec => NoReturnFromStart
  <1>1. ASSUME Inv, [Next]_vars, NEW c \in Clients, pc[c] = "direct"
        PROVE  pc'[c] = "direct"
    <2>0. c \in Q!Threads
      BY DEF Q!Threads
    <2>1. ASSUME NEW d \in Clients, Receive(d) \/ Push(d) \/ Close(d)
          PROVE  pc'[c] = pc[c]
      BY <1>1, <2>0, <2>1
      DEF Receive, Push, Close, Q!First, Q!NextCode, Q!Add, Q!Error, Q!Close, Q!At,
          Q!Goto, Q!Fault, Inv, Shape
    <2>2. ASSUME NEW d \in Clients, Direct(d) PROVE pc'[c] = pc[c]
      BY <1>1, <2>2, DirectInv
    <2>3. ASSUME NEW t \in Q!Threads, Take(t) \/ Dispatch(t) PROVE pc'[c] = pc[c]
      BY <1>1, <2>0, <2>3
      DEF Take, Dispatch, Q!TakeFront, Q!Dispatch, Q!At, Q!Goto, Q!Fault, Inv, Shape
    <2>4. ASSUME NEW t \in Q!Threads, Proceed(t) PROVE pc'[c] = pc[c]
      BY <1>1, <2>0, <2>4
      DEF Proceed, Q!Build, Q!NextFails, Q!Enter, Q!SpuriousWakeup, Q!At, Q!Goto,
          Q!Fault, Inv, Shape
    <2>5. CASE UNCHANGED threads
      BY <1>1, <2>5 DEF threads
    <2> QED BY <1>1, <2>1, <2>2, <2>3, <2>4, <2>5 DEF Next, PeerGone, vars
  <1>2. Inv /\ [Next]_vars =>
           [\A c \in Clients : pc[c] = "direct" => pc'[c] = "direct"]_vars
    BY <1>1
  <1> QED BY <1>2, Invariant, PTL DEF Spec, NoReturnFromStart

\* Users, rooms and games are written by the owner of the mutex only, the
\* START_GAMEs that run outside it notwithstanding.
THEOREM UsersWrittenUnderMutex == Spec => WrittenUnderMutex
  <1> DEFINE Written == connected' # connected \/ rooms' # rooms \/ currGame' # currGame
             Owned == \E t \in Q!Threads : owner = t /\ pc[t] = "dispatch"
  <1>1. ASSUME Inv, [Next]_vars, Written
        PROVE  Owned
    <2>1. ASSUME UNCHANGED <<connected, rooms, currGame>> PROVE FALSE
      BY <1>1, <2>1
    <2>2. ASSUME NEW c \in Clients,
                 Receive(c) \/ Direct(c) \/ Push(c) \/ Close(c) \/ PeerGone(c)
          PROVE  FALSE
      BY <1>1, <2>1, <2>2, DirectInv DEF Receive, Push, Close, PeerGone,
          L!PeerGone, L!users, L!world, lobby
    <2>3. ASSUME NEW t \in Q!Threads, Take(t) \/ Proceed(t) PROVE FALSE
      BY <2>1, <2>3 DEF Take, Proceed, lobby
    <2>4. ASSUME NEW t \in Q!Threads, Dispatch(t) PROVE Owned
      BY <1>1, <2>4 DEF Dispatch, Q!Dispatch, Q!At, Inv, HoldsLock
    <2>5. CASE UNCHANGED vars
      BY <2>1, <2>5 DEF vars, lobby
    <2> QED BY <1>1, <2>2, <2>3, <2>4, <2>5 DEF Next
  <1>2. Inv /\ [Next]_vars => [Written => Owned]_vars
    BY <1>1
  <1> QED BY <1>2, Invariant, PTL DEF Spec, WrittenUnderMutex
-----------------------------------------------------------------------------
\* Without Winsock main never gets past bind, so there is nobody to serve.
NeverServes ==
    side = "5c901d7" => /\ main \in {"construct", "bind", "over"}
                        /\ started = 0
                        /\ ~worker
                        /\ \A c \in Clients : thread[c] = "none"

\* In HEAD, Winsock is started once, before the constructor, and not yet shut
\* down when the try is left.
StartedOnce ==
    side = "HEAD" => /\ main = "startup" => started = 0
                     /\ main \in {"construct", "bind", "listen", "worker",
                                  "accept", "unwind"} => started = 1

\* An exception ends the process at once: in main it does without HEAD's
\* catch, and in a client thread that waits for its first message.
EndedBy ==
    /\ ended # None => main = "over"
    /\ ended = "main" => side = "5c901d7"
    /\ ended = "clientHandler" => \E c \in Clients : thread[c] = "first"

ProcessInv == Process!TypeOK /\ NeverServes /\ StartedOnce /\ EndedBy

LEMMA InitProcess == Process!ServerStartAssumption /\ Process!Init => ProcessInv
  BY DEF Process!ServerStartAssumption, Process!Init, Process!Begins, Process!Sides,
         ProcessInv, Process!TypeOK, NeverServes, StartedOnce, EndedBy

\* The steps of main.
LEMMA MainProcess ==
    ASSUME Process!ServerStartAssumption, ProcessInv, Process!Main \/ Process!Return
    PROVE  ProcessInv'
  <1> USE DEF Process!ServerStartAssumption, ProcessInv, Process!TypeOK, Process!Sides,
              NeverServes, StartedOnce, EndedBy, Process!Throw, Process!Terminate,
              Process!MaySucceed
  <1>1. CASE Process!StartUp
    BY <1>1 DEF Process!StartUp
  <1>2. CASE Process!Construct
    BY <1>2 DEF Process!Construct
  <1>3. CASE Process!Bind
    BY <1>3 DEF Process!Bind
  <1>4. CASE Process!Listen
    BY <1>4 DEF Process!Listen
  <1>5. CASE Process!StartWorker
    BY <1>5 DEF Process!StartWorker
  <1>6. CASE Process!Accept
    BY <1>6 DEF Process!Accept
  <1>7. CASE Process!Unwind
    BY <1>7 DEF Process!Unwind, Process!Cleaned
  <1>8. CASE Process!Return
    BY <1>8 DEF Process!Return
  <1> QED BY <1>1, <1>2, <1>3, <1>4, <1>5, <1>6, <1>7, <1>8 DEF Process!Main

\* The steps of the client threads, which there are only while main runs.
LEMMA ClientProcess ==
    ASSUME Process!ServerStartAssumption, ProcessInv, NEW c \in Clients,
           Process!Receive(c) \/ Process!FirstFails(c) \/ Process!LoopFails(c)
    PROVE  ProcessInv'
  <1> USE DEF Process!ServerStartAssumption, ProcessInv, Process!TypeOK, Process!Sides,
              NeverServes, StartedOnce, EndedBy, Process!Runs
  <1>1. CASE Process!Receive(c)
    BY <1>1 DEF Process!Receive, Process!MaySucceed
  <1>2. CASE Process!FirstFails(c)
    BY <1>2 DEF Process!FirstFails, Process!Terminate
  <1>3. CASE Process!LoopFails(c)
    BY <1>3 DEF Process!LoopFails, Process!LoopCatches
  <1> QED BY <1>1, <1>2, <1>3

LEMMA ProcessStep ==
    Process!ServerStartAssumption /\ ProcessInv /\ [Process!Next]_Process!vars
        => ProcessInv'
  <1> SUFFICES ASSUME Process!ServerStartAssumption, ProcessInv,
                      [Process!Next]_Process!vars
               PROVE  ProcessInv'
    OBVIOUS
  <1>1. CASE UNCHANGED Process!vars
    BY <1>1 DEF Process!vars, ProcessInv, Process!TypeOK, NeverServes, StartedOnce, EndedBy
  <1> QED BY <1>1, MainProcess, ClientProcess DEF Process!Next

\* 5c901d7 serves nobody.  In HEAD no exception of main ends the process, and a
\* connection only ends it before its first message (main and clientHandler).
THEOREM EndOfTheServer == Process!Spec => []WhatEndsTheServer
  <1>1. Process!Init => ProcessInv
    BY ProcessAssumption, InitProcess
  <1>2. ProcessInv /\ [Process!Next]_Process!vars => ProcessInv'
    BY ProcessAssumption, ProcessStep
  <1>3. ProcessInv => WhatEndsTheServer
    BY DEF ProcessInv, NeverServes, EndedBy, WhatEndsTheServer, Process!WhatEndsTheServer
  <1> QED BY <1>1, <1>2, <1>3, PTL DEF Process!Spec
=============================================================================
