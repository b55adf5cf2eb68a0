----------------------------- MODULE LobbyProofs -----------------------------
(***************************************************************************)
(* The handlers keep their data well formed, for any number of             *)
(* connections, names and rooms.                                           *)
(***************************************************************************)
EXTENDS LobbyProperties, RoomRosterProofs

\* What leaveRoom leaves of a roster is a roster, no longer than before, of
\* users who were on it.
LEMMA LeaveShortens ==
    ASSUME NEW q \in Seq(Socks), NEW own, NEW left \in AfterLeave(q, own)
    PROVE  /\ left \in Seq(Socks)
           /\ Len(left) <= Len(q)
           /\ Range(left) \subseteq Range(q)
  <1> DEFINE keep == (1..Len(q)) \ Erased(own)
             n == Cardinality(keep)
  <1>1. n \in Nat /\ n <= Len(q)
    <2>1. IsFiniteSet(1..Len(q)) /\ Cardinality(1..Len(q)) = Len(q)
      <3>1. Len(q) \in Nat
        OBVIOUS
      <3>2. /\ IsFiniteSet(1..Len(q))
            /\ Cardinality(1..Len(q)) = IF 1 > Len(q) THEN 0 ELSE Len(q) - 1 + 1
        BY <3>1, FS_Interval
      <3> QED BY <3>1, <3>2
    <2>2. keep \in SUBSET (1..Len(q))
      OBVIOUS
    <2>3. IsFiniteSet(keep) /\ n <= Len(q)
      BY <2>1, <2>2, FS_Subset
    <2> QED BY <2>3, FS_CardinalityType
  <1>2. PICK f \in [1..n -> keep] : left = [i \in 1..n |-> q[f[i]]]
    BY DEF AfterLeave, Kept
  <1> HIDE DEF n
  <1>3. \A i \in 1..n : f[i] \in 1..Len(q)
    BY <1>2
  <1>4. left \in Seq(Socks) /\ Len(left) = n
    BY <1>1, <1>2, <1>3
  <1>5. Range(left) \subseteq Range(q)
    BY <1>1, <1>2, <1>3 DEF Range
  <1> QED BY <1>1, <1>4, <1>5

LEMMA InitType == Init => TypeOK
  BY LobbyAssumption DEF Init, TypeOK, NoGame, Room

\* A step that changes no user, no room and not the database.
LEMMA QuietType ==
    ASSUME TypeOK, UNCHANGED <<users, world, db>>,
           open' \in SUBSET Socks, gone' \in SUBSET Socks,
           reply' \in Reply \cup {None}, fault' \in Deaths \cup {None}
    PROVE  TypeOK'
  BY DEF TypeOK, users, world, db

LEMMA FaultType ==
    ASSUME TypeOK, NEW f \in Deaths, Fault(f)
    PROVE  TypeOK'
  BY QuietType DEF Fault, TypeOK, net

LEMMA SafeDeleteType ==
    ASSUME TypeOK, NEW s \in Socks, SafeDeleteUser(s)
    PROVE  TypeOK'
  <1>1. CASE Fault("handleCloseRoom")
    BY <1>1, FaultType DEF Deaths
  <1>2. CASE /\ open' = open \ {s}
             /\ gone' = gone \cup {s}
             /\ reply' = None
             /\ UNCHANGED <<users, world, db, fault>>
    BY <1>2, QuietType DEF TypeOK, net
  <1> QED BY <1>1, <1>2 DEF SafeDeleteUser

\* The replies that handlers send.
LEMMA ReplyType ==
    ASSUME NEW s \in Socks, NEW code \in Nat, NEW status \in Nat,
           NEW about \in Names \cup Int \cup {None}
    PROVE  [to |-> s, code |-> code, status |-> status, about |-> about] \in Reply
  BY DEF Reply

LEMMA AnswerType ==
    ASSUME TypeOK, NEW s \in Socks, NEW code \in Nat, NEW status \in Nat,
           NEW about \in Names \cup Int \cup {None}, Answer(s, code, status, about)
    PROVE  TypeOK'
  <1>1. CASE SafeDeleteUser(s)
    BY <1>1, SafeDeleteType
  <1>2. CASE /\ reply' = [to |-> s, code |-> code, status |-> status, about |-> about]
             /\ UNCHANGED <<users, world, db, net, fault>>
    BY <1>2, QuietType, ReplyType DEF TypeOK, net
  <1> QED BY <1>1, <1>2 DEF Answer

LEMMA TellType ==
    ASSUME NEW s \in Socks, NEW code \in Nat, NEW status \in Nat,
           NEW about \in Names \cup Int \cup {None},
           TellOrLog(s, code, status, about)
    PROVE  reply' \in Reply \cup {None}
  BY ReplyType DEF TellOrLog

LEMMA SigninType ==
    ASSUME TypeOK, NEW s \in Socks, NEW n \in Names, NEW runs,
           HandleSignin(s, n, runs)
    PROVE  TypeOK'
  <1>1. connected' \in [Socks -> Names \cup {None}]
    BY DEF HandleSignin, Inserted, TypeOK
  <1>2. reply' \in Reply \cup {None}
    BY TellType DEF HandleSignin
  <1> QED BY <1>1, <1>2 DEF HandleSignin, TypeOK, world, db, net

LEMMA CreateRoomType ==
    ASSUME TypeOK, NEW s \in Socks, NEW cap \in Capacities, HandleCreateRoom(s, cap)
    PROVE  TypeOK'
  <1> DEFINE id == NextRoomId
  <1>1. id \in Int
    BY DEF TypeOK, NextRoomId
  <1>2. CASE Answer(s, 114, 1, None)
    BY <1>2, AnswerType
  <1>3. CASE SafeDeleteUser(s)
    BY <1>3, SafeDeleteType
  <1>4. CASE /\ roomIdSequence' = id
             /\ reply' = None
             /\ UNCHANGED <<users, rooms, roomsList, db, net, fault>>
    BY <1>1, <1>4 DEF TypeOK, users, db, net
  <1>5. CASE /\ roomIdSequence' = id
             /\ rooms' = [r \in DOMAIN rooms \cup {id} |->
                             IF r = id THEN NewRoom(s, cap) ELSE rooms[r]]
             /\ roomsList' = roomsList \cup {id}
             /\ currRoom' = [currRoom EXCEPT ![s] = id]
             /\ Sent(s, 114, 0, id)
             /\ UNCHANGED <<connected, currGame, db>>
    <2>1. NewRoom(s, cap) \in Room
      BY LobbyAssumption DEF NewRoom, Room
    <2>2. /\ DOMAIN rooms' = DOMAIN rooms \cup {id}
          /\ rooms' \in [DOMAIN rooms' -> Room]
      BY <1>5, <2>1 DEF TypeOK
    <2>3. currRoom' \in [Socks -> Int \cup {None}]
      BY <1>1, <1>5 DEF TypeOK
    <2>4. \A u \in Socks : currRoom'[u] \in DOMAIN rooms' \cup {None}
      BY <1>5, <2>2 DEF TypeOK
    <2>5. reply' \in Reply \cup {None}
      BY <1>1, <1>5, ReplyType DEF Sent
    <2> QED BY <1>1, <1>5, <2>2, <2>3, <2>4, <2>5 DEF TypeOK, Sent, db, net
  <1> QED BY <1>2, <1>3, <1>4, <1>5 DEF HandleCreateRoom, CreatesRoom

LEMMA CloseRoomType ==
    ASSUME TypeOK, NEW s \in Socks, HandleCloseRoom(s)
    PROVE  TypeOK'
  <1>1. CASE Fault("handleCloseRoom")
    BY <1>1, FaultType DEF Deaths
  <1>2. CASE /\ Closed(currRoom[s], s)
             /\ reply' = None
             /\ UNCHANGED <<connected, currGame, world, db, net, fault>>
    BY <1>2 DEF Closed, TypeOK, world, db, net
  <1>3. CASE /\ reply' = None
             /\ UNCHANGED <<users, world, db, net, fault>>
    BY <1>3, QuietType DEF TypeOK, net
  <1> QED BY <1>1, <1>2, <1>3 DEF HandleCloseRoom

LEMMA JoinRoomType ==
    ASSUME TypeOK, NEW s \in Socks, NEW r \in Int, HandleJoinRoom(s, r)
    PROVE  TypeOK'
  <1>1. CASE Fault("handleJoinRoom")
    BY <1>1, FaultType DEF Deaths
  <1>2. CASE /\ reply' = None
             /\ UNCHANGED <<users, world, db, net, fault>>
    BY <1>2, QuietType DEF TypeOK, net
  <1>3. CASE /\ TellOrLog(s, 110, 1, r)
             /\ UNCHANGED <<users, world, db, net, fault>>
    BY <1>3, TellType, QuietType DEF TypeOK, net
  <1>4. CASE /\ r \in roomsList
             /\ JoinsRoom(s, r)
             /\ TellOrLog(s, 110, 0, r)
             /\ UNCHANGED <<connected, currGame, roomsList, roomIdSequence, db,
                           net, fault>>
    <2>1. rooms[r] \in Room
      BY <1>4 DEF TypeOK
    <2>2. [rooms[r] EXCEPT !.users = Append(@, s)] \in Room
      <3>1. Append(rooms[r].users, s) \in Seq(Socks)
        BY <2>1 DEF Room
      <3> QED BY <2>1, <3>1 DEF Room
    <2>3. /\ DOMAIN rooms' = DOMAIN rooms
          /\ rooms' \in [DOMAIN rooms -> Room]
      BY <1>4, <2>2 DEF TypeOK, JoinsRoom
    <2>4. /\ currRoom' \in [Socks -> Int \cup {None}]
          /\ \A u \in Socks : currRoom'[u] \in DOMAIN rooms \cup {None}
      BY <1>4 DEF TypeOK, JoinsRoom
    <2>5. reply' \in Reply \cup {None}
      BY <1>4, TellType
    <2> QED BY <1>4, <2>3, <2>4, <2>5 DEF TypeOK, db, net
  <1> QED BY <1>1, <1>2, <1>3, <1>4 DEF HandleJoinRoom

LEMMA LeaveRoomType ==
    ASSUME TypeOK, NEW s \in Socks, HandleLeaveRoom(s)
    PROVE  TypeOK'
  <1> DEFINE r == currRoom[s]
             own == PositionsOf(rooms[r].users, s)
  <1>1. CASE Answer(s, 116, 0, None)
    BY <1>1, AnswerType
  <1>2. CASE SafeDeleteUser(s)
    BY <1>2, SafeDeleteType
  <1>3. CASE Fault("Room::leaveRoom")
    BY <1>3, FaultType DEF Deaths
  <1>4. CASE /\ r # None
             /\ \E left \in AfterLeave(rooms[r].users, own) :
                   rooms' = [rooms EXCEPT ![r].users = left]
             /\ currRoom' = [currRoom EXCEPT ![s] = None]
             /\ Sent(s, 112, 0, r)
             /\ UNCHANGED <<connected, currGame, roomsList, roomIdSequence, db>>
    <2>1. PICK left \in AfterLeave(rooms[r].users, own) :
              rooms' = [rooms EXCEPT ![r].users = left]
      BY <1>4
    <2>2. r \in DOMAIN rooms /\ rooms[r] \in Room
      BY <1>4 DEF TypeOK
    <2>3. left \in Seq(Socks)
      BY <2>2, LeaveShortens DEF Room
    <2>4. [rooms[r] EXCEPT !.users = left] \in Room
      BY <2>2, <2>3 DEF Room
    <2>5. /\ DOMAIN rooms' = DOMAIN rooms
          /\ rooms' \in [DOMAIN rooms -> Room]
      BY <2>1, <2>2, <2>4 DEF TypeOK
    <2>6. /\ currRoom' \in [Socks -> Int \cup {None}]
          /\ \A u \in Socks : currRoom'[u] \in DOMAIN rooms \cup {None}
      BY <1>4 DEF TypeOK
    <2>7. r \in Int
      BY <2>2 DEF TypeOK
    <2>8. reply' \in Reply \cup {None}
      BY <1>4, <2>7, ReplyType DEF Sent
    <2> QED BY <1>4, <2>5, <2>6, <2>8 DEF TypeOK, Sent, db, net
  <1> QED BY <1>1, <1>2, <1>3, <1>4 DEF HandleLeaveRoom, LeavesRoom

LEMMA SetGameType ==
    ASSUME TypeOK, NEW P, NEW g \in Seq(Socks), SetGame(P, g)
    PROVE  /\ currGame' \in [Socks -> Seq(Socks)]
           /\ currRoom' \in [Socks -> Int \cup {None}]
           /\ \A u \in Socks : currRoom'[u] \in DOMAIN rooms \cup {None}
  <1>1. currGame' \in [Socks -> Seq(Socks)]
    BY DEF TypeOK, SetGame
  <1>2. \A u \in Socks : currRoom'[u] \in {currRoom[u], None}
    BY DEF TypeOK, SetGame
  <1>3. currRoom' \in [Socks -> Int \cup {None}]
    BY DEF TypeOK, SetGame
  <1> QED BY <1>1, <1>2, <1>3 DEF TypeOK

LEMMA StartGameType ==
    ASSUME TypeOK, NEW s \in Socks, HandleStartGame(s)
    PROVE  TypeOK'
  <1> DEFINE r == currRoom[s]
             players == rooms[r].users
  <1>1. CASE \E f \in Deaths : Fault(f)
    BY <1>1, FaultType
  <1>2. CASE /\ r # None
             /\ SetGame(Range(players), players)
             /\ roomsList' = roomsList \ {r}
             /\ reply' = None
             /\ UNCHANGED <<connected, rooms, roomIdSequence, db, net, fault>>
    <2>1. players \in Seq(Socks)
      BY <1>2 DEF TypeOK, Room
    <2>2. /\ currGame' \in [Socks -> Seq(Socks)]
          /\ currRoom' \in [Socks -> Int \cup {None}]
          /\ \A u \in Socks : currRoom'[u] \in DOMAIN rooms \cup {None}
      BY <1>2, <2>1, SetGameType
    <2> QED BY <1>2, <2>2 DEF TypeOK, db, net
  <1>3. CASE /\ roomsList' = roomsList \ {r}
             /\ reply' = None
             /\ UNCHANGED <<users, rooms, roomIdSequence, db, net, fault>>
    BY <1>3 DEF TypeOK, users, db, net
  <1> QED BY <1>1, <1>2, <1>3 DEF HandleStartGame, Deaths

LEMMA PlayerAnswerType ==
    ASSUME TypeOK, NEW s \in Socks, HandlePlayerAnswer(s)
    PROVE  TypeOK'
  <1> DEFINE players == currGame[s]
  <1>1. CASE \E f \in Deaths : Fault(f)
    BY <1>1, FaultType
  <1>2. CASE /\ reply' = None
             /\ UNCHANGED <<users, world, db, net, fault>>
    BY <1>2, QuietType DEF TypeOK, net
  <1>3. CASE /\ SetGame(Range(players), NoGame)
             /\ dbOpen' = FALSE
             /\ Sent(s, 120, 0, None)
             /\ UNCHANGED <<connected, world, currentGameID>>
    <2>1. NoGame \in Seq(Socks)
      BY DEF NoGame
    <2>2. /\ currGame' \in [Socks -> Seq(Socks)]
          /\ currRoom' \in [Socks -> Int \cup {None}]
          /\ \A u \in Socks : currRoom'[u] \in DOMAIN rooms \cup {None}
      BY <1>3, <2>1, SetGameType
    <2>3. reply' \in Reply \cup {None}
      BY <1>3, ReplyType DEF Sent
    <2> QED BY <1>3, <2>2, <2>3 DEF TypeOK, Sent, world, net
  <1>4. CASE /\ Sent(s, 120, 0, None)
             /\ UNCHANGED <<users, world, db>>
    BY <1>4, QuietType, ReplyType DEF Sent, TypeOK, net
  <1>5. CASE /\ gone' = gone \cup {s}
             /\ dbOpen' = FALSE
             /\ reply' = [to |-> s, code |-> 120, status |-> 0, about |-> None]
             /\ UNCHANGED <<users, world, currentGameID, open, fault>>
    <2>1. reply' \in Reply
      BY <1>5, ReplyType
    <2> QED BY <1>5, <2>1 DEF TypeOK, users, world
  <1> QED BY <1>1, <1>2, <1>3, <1>4, <1>5 DEF HandlePlayerAnswer, Deaths

\* The requests that change nothing but the connection that sent them.
LEMMA OtherRequestType ==
    ASSUME TypeOK, NEW s \in Socks,
           \/ HandleSignout(s) \/ HandleSignup(s) \/ HandleGetRooms(s)
           \/ \E r \in Int : HandleGetUsersInRoom(s, r)
           \/ HandleLeaveGame(s) \/ HandleGetBestScore(s)
           \/ HandleGetPersonalStatus(s) \/ Malformed(s) \/ PeerGone(s)
    PROVE  TypeOK'
  <1>1. \/ \E f \in Deaths : Fault(f)
        \/ SafeDeleteUser(s)
        \/ \E code \in Nat, status \in Nat, about \in Int \cup {None} :
               Answer(s, code, status, about)
        \/ /\ open' \in SUBSET Socks
           /\ gone' \in SUBSET Socks
           /\ reply' = None
           /\ UNCHANGED <<users, world, db, fault>>
    <2>1. CASE HandleSignout(s) \/ Malformed(s) \/ HandleLeaveGame(s) \/ PeerGone(s)
      BY <2>1
      DEF HandleSignout, Malformed, HandleLeaveGame, PeerGone, Deaths, TypeOK, net
    <2>2. CASE HandleSignup(s) \/ HandleGetRooms(s) \/ HandleGetBestScore(s)
      <3>1. \E code, status \in Nat : Answer(s, code, status, None)
        BY <2>2 DEF HandleSignup, HandleGetRooms, HandleGetBestScore
      <3> QED BY <3>1
    <2>3. CASE \E r \in Int : HandleGetUsersInRoom(s, r)
      BY <2>3 DEF HandleGetUsersInRoom, Deaths
    <2>4. CASE HandleGetPersonalStatus(s)
      BY <2>4 DEF HandleGetPersonalStatus, Deaths
    <2> QED BY <2>1, <2>2, <2>3, <2>4
  <1> QED BY <1>1, FaultType, SafeDeleteType, AnswerType, QuietType DEF TypeOK, net

LEMMA NextType == TypeOK /\ [Next]_vars => TypeOK'
  <1> SUFFICES ASSUME TypeOK, [Next]_vars
               PROVE  TypeOK'
    OBVIOUS
  <1>1. RequestedRooms \subseteq Int
    BY LobbyAssumption DEF TypeOK, RequestedRooms
  <1>2. ASSUME NEW s \in Socks, Request(s) PROVE TypeOK'
    BY <1>1, <1>2, SigninType, CreateRoomType, CloseRoomType, JoinRoomType,
       LeaveRoomType, StartGameType, PlayerAnswerType, OtherRequestType
    DEF Request
  <1>3. ASSUME NEW s \in Socks, PeerGone(s) PROVE TypeOK'
    BY <1>3, OtherRequestType
  <1>4. CASE UseClosedDb
    BY <1>4, FaultType DEF UseClosedDb, Deaths
  <1>5. CASE UNCHANGED vars
    BY <1>5 DEF TypeOK, vars, users, world, db, net
  <1> QED BY <1>2, <1>3, <1>4, <1>5 DEF Next

\* The users, rooms and counters of the server stay well formed under every
\* sequence of requests; in particular a user only ever refers to a room that
\* was created, although rooms leave the list while users still refer to them.
THEOREM LobbyTypeCorrect == Spec => []TypeOK
  BY InitType, NextType, PTL DEF Spec

-----------------------------------------------------------------------------
(***************************************************************************)
(* The steps that change users, rooms or the database, without replies and *)
(* faults.                                                                 *)
(***************************************************************************)
Quiet == UNCHANGED <<users, world, db>>

SignedIn(s, n) ==
    /\ ~Connected(s)
    /\ ~NameConnected(n)
    /\ connected' = [connected EXCEPT ![s] = n]
    /\ UNCHANGED <<currRoom, currGame, world, db>>

NumberUsed ==
    /\ roomIdSequence' = NextRoomId
    /\ UNCHANGED <<users, rooms, roomsList, db>>

RoomCreated(s, cap) ==
    /\ roomIdSequence' = NextRoomId
    /\ rooms' = [r \in DOMAIN rooms \cup {NextRoomId} |->
                    IF r = NextRoomId THEN NewRoom(s, cap) ELSE rooms[r]]
    /\ roomsList' = roomsList \cup {NextRoomId}
    /\ currRoom' = [currRoom EXCEPT ![s] = NextRoomId]
    /\ UNCHANGED <<connected, currGame, db>>

RoomClosed(s) ==
    /\ currRoom[s] = -1
    /\ Closed(currRoom[s], s)
    /\ UNCHANGED <<connected, currGame, world, db>>

RoomJoined(s, r) ==
    /\ r \in roomsList
    /\ currGame[s] = NoGame
    /\ Admitted(r)
    /\ rooms' = [rooms EXCEPT ![r].users = Append(@, s)]
    /\ currRoom' = [currRoom EXCEPT ![s] = r]
    /\ UNCHANGED <<connected, currGame, roomsList, roomIdSequence, db>>

RoomLeft(s) ==
    /\ currRoom[s] # None
    /\ Connected(s)
    /\ \E left \in AfterLeave(rooms[currRoom[s]].users,
                              PositionsOf(rooms[currRoom[s]].users, s)) :
          rooms' = [rooms EXCEPT ![currRoom[s]].users = left]
    /\ currRoom' = [currRoom EXCEPT ![s] = None]
    /\ UNCHANGED <<connected, currGame, roomsList, roomIdSequence, db>>

GameStarted(s) ==
    /\ currRoom[s] # None
    /\ HasQuestions(rooms[currRoom[s]].users)
    /\ SetGame(Range(rooms[currRoom[s]].users), rooms[currRoom[s]].users)
    /\ roomsList' = roomsList \ {currRoom[s]}
    /\ UNCHANGED <<connected, rooms, roomIdSequence, db>>

StartFailed(s) ==
    /\ currentGameID = -1
    /\ roomsList' = roomsList \ {currRoom[s]}
    /\ UNCHANGED <<users, rooms, roomIdSequence, db>>

GameFinished(s) ==
    /\ currGame[s] # NoGame
    /\ TurnComplete(currGame[s])
    /\ dbOpen
    /\ SetGame(Range(currGame[s]), NoGame)
    /\ dbOpen' = FALSE
    /\ UNCHANGED <<connected, world, currentGameID>>

HandleClosed ==
    /\ dbOpen
    /\ dbOpen' = FALSE
    /\ UNCHANGED <<users, world, currentGameID>>

Change(s) ==
    \/ \E n \in Names : SignedIn(s, n)
    \/ \E cap \in Capacities : RoomCreated(s, cap)
    \/ RoomClosed(s)
    \/ \E r \in roomsList : RoomJoined(s, r)
    \/ RoomLeft(s)
    \/ GameStarted(s)
    \/ StartFailed(s)
    \/ GameFinished(s)
    \/ HandleClosed

LEMMA NextChanges == [Next]_vars => Quiet \/ NumberUsed \/ \E s \in Socks : Change(s)
  <1> SUFFICES ASSUME [Next]_vars
               PROVE  Quiet \/ NumberUsed \/ \E s \in Socks : Change(s)
    OBVIOUS
  <1> DEFINE Goal(s) == Quiet \/ NumberUsed \/ Change(s)
  <1>1. ASSUME NEW f, Fault(f) PROVE Quiet
    BY <1>1 DEF Fault, Quiet
  <1>2. ASSUME NEW s, SafeDeleteUser(s) PROVE Quiet
    BY <1>2 DEF SafeDeleteUser, Fault, Quiet
  <1>3. ASSUME NEW s, NEW code, NEW status, NEW about, Answer(s, code, status, about)
        PROVE  Quiet
    BY <1>2, <1>3 DEF Answer, Quiet
  <1>4. ASSUME NEW s \in Socks, NEW n \in Names, NEW runs, HandleSignin(s, n, runs)
        PROVE  Goal(s)
    BY <1>4 DEF HandleSignin, Inserted, Connected, Quiet, Change, SignedIn, users
  <1>5. ASSUME NEW s \in Socks, NEW cap \in Capacities, HandleCreateRoom(s, cap)
        PROVE  Goal(s)
    BY <1>2, <1>3, <1>5
    DEF HandleCreateRoom, CreatesRoom, Quiet, Change, NumberUsed, RoomCreated, Sent
  <1>6. ASSUME NEW s \in Socks, HandleCloseRoom(s) PROVE Goal(s)
    BY <1>1, <1>6 DEF HandleCloseRoom, Quiet, Change, RoomClosed
  <1>7. ASSUME NEW s \in Socks, NEW r, HandleJoinRoom(s, r) PROVE Goal(s)
    BY <1>1, <1>7 DEF HandleJoinRoom, JoinsRoom, Quiet, Change, RoomJoined, users, world
  <1>8. ASSUME NEW s \in Socks, HandleLeaveRoom(s) PROVE Goal(s)
    BY <1>1, <1>2, <1>3, <1>8 DEF HandleLeaveRoom, LeavesRoom, Quiet, Change, RoomLeft, Sent
  <1>9. ASSUME NEW s \in Socks, HandleStartGame(s) PROVE Goal(s)
    BY <1>1, <1>9
    DEF HandleStartGame, Quiet, Change, GameStarted, StartFailed
  <1>10. ASSUME NEW s \in Socks, HandlePlayerAnswer(s) PROVE Goal(s)
    BY <1>1, <1>10 DEF HandlePlayerAnswer, Quiet, Change, GameFinished, HandleClosed, Sent
  <1>11. ASSUME NEW s \in Socks,
                \/ HandleSignout(s) \/ HandleSignup(s) \/ HandleGetRooms(s)
                \/ \E r \in RequestedRooms : HandleGetUsersInRoom(s, r)
                \/ HandleLeaveGame(s) \/ HandleGetBestScore(s)
                \/ HandleGetPersonalStatus(s) \/ Malformed(s) \/ PeerGone(s)
         PROVE  Quiet
    <2>1. CASE HandleSignout(s) \/ Malformed(s) \/ HandleLeaveGame(s) \/ PeerGone(s)
      BY <1>1, <1>2, <2>1
      DEF HandleSignout, Malformed, HandleLeaveGame, PeerGone, Quiet
    <2>2. CASE HandleSignup(s) \/ HandleGetRooms(s) \/ HandleGetBestScore(s)
      BY <1>3, <2>2 DEF HandleSignup, HandleGetRooms, HandleGetBestScore
    <2>3. CASE \E r \in RequestedRooms : HandleGetUsersInRoom(s, r)
      BY <1>1, <1>3, <2>3 DEF HandleGetUsersInRoom
    <2>4. CASE HandleGetPersonalStatus(s)
      BY <1>1, <1>3, <2>4 DEF HandleGetPersonalStatus
    <2> QED BY <1>11, <2>1, <2>2, <2>3, <2>4
  <1>12. CASE UseClosedDb
    BY <1>1, <1>12 DEF UseClosedDb
  <1>13. CASE UNCHANGED vars
    BY <1>13 DEF vars, Quiet
  <1>14. ASSUME NEW s \in Socks, Request(s) \/ PeerGone(s) PROVE Goal(s)
    BY <1>4, <1>5, <1>6, <1>7, <1>8, <1>9, <1>10, <1>11, <1>14 DEF Request
  <1> QED BY <1>12, <1>13, <1>14 DEF Next

-----------------------------------------------------------------------------
\* Of the state only users and rooms matter here, so a quiet step keeps it.
Safe == /\ TypeOK
        /\ NumbersAreUsedOnce
        /\ OneConnectionPerName
        /\ RosterWithinCapacity
        /\ StartedRoomLetsGo
        /\ PlayerInOwnGame

LEMMA InitSafe == Init => Safe
  BY InitType
  DEF Init, Safe, OneConnectionPerName, RosterWithinCapacity, StartedRoomLetsGo,
      PlayerInOwnGame, Connected, NoGame, NumbersAreUsedOnce

LEMMA NamesKept ==
    ASSUME Safe, NEW s \in Socks, Change(s)
    PROVE  OneConnectionPerName'
  <1>1. CASE \E n \in Names : SignedIn(s, n)
    <2>1. PICK n \in Names : SignedIn(s, n)
      BY <1>1
    <2>2. \A t \in Socks : connected'[t] = IF t = s THEN n ELSE connected[t]
      BY <2>1 DEF SignedIn, Safe, TypeOK
    <2>3. \A t \in Socks : connected[t] # n
      BY <2>1 DEF SignedIn, NameConnected
    <2> QED BY <2>2, <2>3 DEF Safe, OneConnectionPerName, Connected
  <1>2. CASE UNCHANGED connected
    BY <1>2 DEF Safe, OneConnectionPerName, Connected
  <1> QED
    BY <1>1, <1>2
    DEF Change, RoomCreated, RoomClosed, RoomJoined, RoomLeft, GameStarted,
        StartFailed, GameFinished, HandleClosed, users

LEMMA NumbersKept ==
    ASSUME Safe, TypeOK', NEW s \in Socks, Change(s)
    PROVE  NumbersAreUsedOnce'
  <1>1. CASE \E cap \in Capacities : RoomCreated(s, cap)
    BY <1>1 DEF RoomCreated, NextRoomId, Safe, TypeOK, NumbersAreUsedOnce
  <1>2. CASE UNCHANGED roomIdSequence /\ DOMAIN rooms' = DOMAIN rooms
    BY <1>2 DEF Safe, NumbersAreUsedOnce
  <1> QED
    BY <1>1, <1>2
    DEF Change, SignedIn, RoomClosed, RoomJoined, RoomLeft, GameStarted, StartFailed,
        GameFinished, HandleClosed, world, Safe, TypeOK

LEMMA CapacityKept ==
    ASSUME Safe, NEW s \in Socks, Change(s)
    PROVE  RosterWithinCapacity'
  <1> DEFINE Fits(room) == Len(room.users) <= room.maxUsers \/ Len(room.users) = 1
  <1>0. \A r \in DOMAIN rooms : rooms[r] \in Room /\ Fits(rooms[r])
    BY DEF Safe, TypeOK, RosterWithinCapacity
  <1> SUFFICES \A r \in DOMAIN rooms' : Fits(rooms'[r])
    BY DEF RosterWithinCapacity
  <1>1. CASE \E cap \in Capacities : RoomCreated(s, cap)
    <2>1. PICK cap \in Capacities : RoomCreated(s, cap)
      BY <1>1
    <2>2. Fits(NewRoom(s, cap))
      <3>1. Len(<<s>>) = 1
        OBVIOUS
      <3> QED BY <3>1 DEF NewRoom
    <2>3. \A r \in DOMAIN rooms' :
             \/ rooms'[r] = NewRoom(s, cap)
             \/ r \in DOMAIN rooms /\ rooms'[r] = rooms[r]
      BY <2>1 DEF RoomCreated
    <2> HIDE DEF Fits
    <2> QED BY <1>0, <2>2, <2>3
  <1>2. CASE \E r \in roomsList : RoomJoined(s, r)
    <2>1. PICK r \in roomsList : RoomJoined(s, r)
      BY <1>2
    <2>2. /\ r \in DOMAIN rooms
          /\ rooms[r].users \in Seq(Socks)
          /\ rooms[r].maxUsers \in Nat
      BY <1>0 DEF Safe, TypeOK, Room
    <2>3. /\ DOMAIN rooms' = DOMAIN rooms
          /\ rooms'[r].users = Append(rooms[r].users, s)
          /\ rooms'[r].maxUsers = rooms[r].maxUsers
          /\ \A q \in DOMAIN rooms \ {r} : rooms'[q] = rooms[q]
      BY <2>1, <2>2 DEF RoomJoined, Safe, TypeOK, Room
    <2>4. Fits(rooms'[r])
      BY <2>1, <2>2, <2>3 DEF RoomJoined, Admitted
    <2> QED BY <1>0, <2>3, <2>4
  <1>3. CASE RoomLeft(s)
    <2> DEFINE r == currRoom[s]
    <2>1. PICK left \in AfterLeave(rooms[r].users, PositionsOf(rooms[r].users, s)) :
              rooms' = [rooms EXCEPT ![r].users = left]
      BY <1>3 DEF RoomLeft
    <2>2. /\ r \in DOMAIN rooms
          /\ rooms[r].users \in Seq(Socks)
          /\ rooms[r].maxUsers \in Nat
      BY <1>0, <1>3 DEF RoomLeft, Safe, TypeOK, Room
    <2>3. left \in Seq(Socks) /\ Len(left) <= Len(rooms[r].users)
      BY <2>2, LeaveShortens
    <2> HIDE DEF r
    <2>4. /\ DOMAIN rooms' = DOMAIN rooms
          /\ rooms'[r].users = left
          /\ rooms'[r].maxUsers = rooms[r].maxUsers
          /\ \A q \in DOMAIN rooms \ {r} : rooms'[q] = rooms[q]
      BY <2>1, <2>2 DEF Safe, TypeOK, Room
    <2>5. Fits(rooms'[r])
      BY <1>0, <2>2, <2>3, <2>4
    <2> QED BY <1>0, <2>4, <2>5
  <1>4. CASE UNCHANGED rooms
    BY <1>0, <1>4
  <1> QED
    BY <1>1, <1>2, <1>3, <1>4
    DEF Change, SignedIn, RoomClosed, GameStarted, StartFailed, GameFinished, HandleClosed, world

LEMMA PlayersKept ==
    ASSUME Safe, NEW s \in Socks, Change(s)
    PROVE  PlayerInOwnGame'
  <1>1. ASSUME NEW P, NEW g, SetGame(P, g), g = NoGame \/ P = Range(g)
        PROVE  PlayerInOwnGame'
    <2>1. \A u \in Socks : currGame'[u] = IF u \in P THEN g ELSE currGame[u]
      BY <1>1 DEF SetGame
    <2> QED BY <1>1, <2>1 DEF Safe, PlayerInOwnGame
  <1>2. CASE GameStarted(s)
    BY <1>1, <1>2 DEF GameStarted
  <1>3. CASE GameFinished(s)
    BY <1>1, <1>3 DEF GameFinished
  <1>4. CASE UNCHANGED currGame
    BY <1>4 DEF Safe, PlayerInOwnGame
  <1> QED
    BY <1>2, <1>3, <1>4
    DEF Change, SignedIn, RoomCreated, RoomClosed, RoomJoined, RoomLeft,
        StartFailed, HandleClosed, users

\* Unlisted rooms stay let go of: rosters of unlisted rooms only shrink, and
\* nobody comes to refer to an unlisted room.
LEMMA RoomsLetGo ==
    ASSUME Safe, TypeOK', NEW s \in Socks, Change(s)
    PROVE  StartedRoomLetsGo'
  <1> SUFFICES ASSUME currentGameID' # -1,
                      NEW r \in DOMAIN rooms' \ roomsList',
                      NEW u \in Range(rooms'[r].users)
               PROVE  currRoom'[u] # r
    BY DEF StartedRoomLetsGo
  <1>0. /\ currentGameID # -1
        /\ \A q \in DOMAIN rooms : rooms[q] \in Room /\ Range(rooms[q].users) \subseteq Socks
        /\ r # None
    <2>1. currentGameID # -1
      BY DEF Change, SignedIn, RoomCreated, RoomClosed, RoomJoined, RoomLeft,
             GameStarted, StartFailed, GameFinished, HandleClosed, db
    <2>2. \A q \in DOMAIN rooms :
             rooms[q] \in Room /\ Range(rooms[q].users) \subseteq Socks
      BY DEF Safe, TypeOK, Room, Range
    <2>3. r # None
      BY LobbyAssumption DEF TypeOK
    <2> QED BY <2>1, <2>2, <2>3
  <1>1. ASSUME r \in DOMAIN rooms \ roomsList, u \in Range(rooms[r].users)
        PROVE  currRoom[u] # r /\ u \in Socks
    BY <1>0, <1>1 DEF Safe, StartedRoomLetsGo
  <1>2. CASE /\ UNCHANGED <<rooms, roomsList>>
             /\ \A v \in Socks : currRoom'[v] \in {currRoom[v], None}
    BY <1>0, <1>1, <1>2
  <1>3. CASE \E cap \in Capacities : RoomCreated(s, cap)
    <2>1. PICK cap \in Capacities : RoomCreated(s, cap)
      BY <1>3
    <2>2. /\ r # NextRoomId
          /\ r \in DOMAIN rooms \ roomsList
          /\ rooms'[r] = rooms[r]
          /\ \A v \in Socks : currRoom'[v] \in {currRoom[v], NextRoomId}
      BY <2>1 DEF RoomCreated, Safe, TypeOK
    <2> QED BY <1>1, <2>2
  <1>4. CASE \E q \in roomsList : RoomJoined(s, q)
    <2>1. PICK q \in roomsList : RoomJoined(s, q)
      BY <1>4
    <2>2. /\ r # q
          /\ r \in DOMAIN rooms \ roomsList
          /\ rooms'[r] = rooms[r]
          /\ \A v \in Socks : currRoom'[v] \in {currRoom[v], q}
      BY <2>1 DEF RoomJoined, Safe, TypeOK
    <2> QED BY <1>1, <2>2
  <1>5. CASE RoomLeft(s)
    <2> DEFINE q == currRoom[s]
    <2>1. PICK left \in AfterLeave(rooms[q].users, PositionsOf(rooms[q].users, s)) :
              rooms' = [rooms EXCEPT ![q].users = left]
      BY <1>5 DEF RoomLeft
    <2>2. q \in DOMAIN rooms /\ rooms[q].users \in Seq(Socks)
      BY <1>5 DEF RoomLeft, Safe, TypeOK, Room
    <2>3. Range(left) \subseteq Range(rooms[q].users)
      BY <2>1, <2>2, LeaveShortens
    <2>4. \A v \in Socks : currRoom'[v] \in {currRoom[v], None}
      BY <1>5 DEF RoomLeft, Safe, TypeOK
    <2> HIDE DEF q
    <2>5. /\ DOMAIN rooms' = DOMAIN rooms
          /\ rooms'[q].users = left
          /\ \A x \in DOMAIN rooms \ {q} : rooms'[x] = rooms[x]
      BY <2>1, <2>2 DEF Safe, TypeOK, Room
    <2>6. r \in DOMAIN rooms \ roomsList
      BY <1>5, <2>5 DEF RoomLeft
    <2>7. u \in Range(rooms[r].users)
      BY <2>3, <2>5, <2>6
    <2> QED BY <1>0, <1>1, <2>4, <2>6, <2>7
  <1>6. CASE GameStarted(s)
    <2>1. rooms' = rooms /\ roomsList' = roomsList \ {currRoom[s]}
      BY <1>6 DEF GameStarted
    <2>2. \A v \in Socks : currRoom'[v] \in {currRoom[v], None}
      BY <1>6 DEF GameStarted, SetGame
    <2>3. \A v \in Range(rooms[currRoom[s]].users) \cap Socks : currRoom'[v] = None
      BY <1>6 DEF GameStarted, SetGame
    <2>4. CASE r = currRoom[s]
      BY <1>0, <2>1, <2>3, <2>4
    <2>5. CASE r # currRoom[s]
      BY <1>0, <1>1, <2>1, <2>2, <2>5
    <2> QED BY <2>4, <2>5
  <1> QED
    BY <1>0, <1>2, <1>3, <1>4, <1>5, <1>6
    DEF Change, SignedIn, RoomClosed, Closed, StartFailed, GameFinished, HandleClosed, SetGame,
        world, Safe, TypeOK, users

LEMMA NextSafe == Safe /\ [Next]_vars => Safe'
  <1> SUFFICES ASSUME Safe, [Next]_vars
               PROVE  Safe'
    OBVIOUS
  <1>1. TypeOK'
    BY NextType DEF Safe
  <1>2. ASSUME UNCHANGED <<users, rooms, roomsList, db>>, roomIdSequence' >= roomIdSequence
        PROVE  Safe'
    <2>1. NumbersAreUsedOnce'
      BY <1>1, <1>2 DEF Safe, TypeOK, NumbersAreUsedOnce
    <2> QED
      BY <1>1, <1>2, <2>1
      DEF Safe, users, db, OneConnectionPerName, Connected, RosterWithinCapacity,
          StartedRoomLetsGo, PlayerInOwnGame
  <1>3. CASE Quiet \/ NumberUsed
    BY <1>2, <1>3 DEF Quiet, NumberUsed, NextRoomId, world, Safe, TypeOK
  <1>4. ASSUME NEW s \in Socks, Change(s)
        PROVE  Safe'
    BY <1>1, <1>4, NumbersKept, NamesKept, CapacityKept, RoomsLetGo, PlayersKept DEF Safe
  <1> QED BY <1>3, <1>4, NextChanges

THEOREM LobbySafe == Spec => []Safe
  BY InitSafe, NextSafe, PTL DEF Spec

\* No two connections are ever signed in under the same name.
THEOREM NamesAreUnique == Spec => []OneConnectionPerName
  BY LobbySafe, PTL DEF Safe

\* Rosters stay within the capacity their room was created with.
THEOREM CapacityRespected == Spec => []RosterWithinCapacity
  BY LobbySafe, PTL DEF Safe

\* After its game has started nobody on a room's roster refers to the room.
THEOREM StartLetsGo == Spec => []StartedRoomLetsGo
  BY LobbySafe, PTL DEF Safe

\* A user who plays is a player of his own copy of the game.
THEOREM PlayersPlay == Spec => []PlayerInOwnGame
  BY LobbySafe, PTL DEF Safe
-----------------------------------------------------------------------------
LEMMA OnlyOwnerFinishes ==
    ASSUME Safe, NEW s \in Socks, NEW t \in Socks, GameFinished(t),
           Len(currGame[s]) > 1
    PROVE  currGame'[s] = currGame[s]
  <1>1. currGame[t] \in Seq(Socks) /\ Len(currGame[t]) = 1
    BY DEF GameFinished, TurnComplete, Safe, TypeOK
  <1>2. t \in Range(currGame[t])
    BY DEF GameFinished, Safe, PlayerInOwnGame
  <1>3. Range(currGame[t]) = {t}
    <2>1. DOMAIN currGame[t] = {1}
      BY <1>1
    <2> QED BY <1>2, <2>1 DEF Range
  <1>4. s # t
    <2>1. CASE s = t
      <3>1. Len(currGame[s]) = 1
        BY <1>1, <2>1
      <3> QED BY <3>1
    <2> QED BY <2>1
  <1> QED BY <1>3, <1>4 DEF GameFinished, SetGame, Safe, TypeOK

\* No step takes the user of a connection away or puts another in his place.
THEOREM UsersStay == Spec => UserStaysForGood
  <1>1. ASSUME TypeOK, [Next]_vars, NEW s \in Socks, Connected(s)
        PROVE  connected'[s] = connected[s]
    <2>1. ASSUME NEW t \in Socks, NEW n \in Names, SignedIn(t, n)
          PROVE  connected'[s] = connected[s]
      BY <1>1, <2>1 DEF SignedIn, TypeOK
    <2>2. \/ UNCHANGED connected
          \/ \E t \in Socks, n \in Names : SignedIn(t, n)
      BY <1>1, NextChanges
      DEF Quiet, NumberUsed, Change, RoomCreated, RoomClosed, RoomJoined, RoomLeft,
          GameStarted, StartFailed, GameFinished, HandleClosed, users
    <2> QED BY <2>1, <2>2
  <1>2. TypeOK /\ [Next]_vars =>
           [\A s \in Socks : Connected(s) => connected'[s] = connected[s]]_vars
    BY <1>1
  <1> QED BY <1>2, LobbyTypeCorrect, PTL DEF Spec, UserStaysForGood

\* A game with several players never ends: by PlayerInOwnGame the only copy
\* whose turn can be complete is that of a user who plays alone.
THEOREM GroupGamesStay == Spec => GroupGameNeverEnds
  <1>1. ASSUME Safe, [Next]_vars, NEW s \in Socks, Len(currGame[s]) > 1
        PROVE  currGame'[s] # NoGame
    <2>1. currGame[s] # NoGame
      BY <1>1 DEF NoGame
    <2>2. CASE currGame'[s] = currGame[s]
      BY <2>1, <2>2
    <2>3. CASE \E t \in Socks : GameStarted(t)
      <3> PICK t \in Socks : GameStarted(t)
        BY <2>3
      <3> DEFINE players == rooms[currRoom[t]].users
      <3>1. currGame'[s] = IF s \in Range(players) THEN players ELSE currGame[s]
        BY DEF GameStarted, SetGame
      <3>2. s \in Range(players) => players # NoGame
        BY DEF Range, NoGame
      <3> QED BY <2>1, <3>1, <3>2
    <2>4. CASE \E t \in Socks : GameFinished(t)
      BY <1>1, <2>1, <2>4, OnlyOwnerFinishes
    <2> QED
      BY <1>1, <2>2, <2>3, <2>4, NextChanges
      DEF Quiet, NumberUsed, Change, SignedIn, RoomCreated, RoomClosed, RoomJoined,
          RoomLeft, StartFailed, HandleClosed, users
  <1>2. Safe /\ [Next]_vars =>
           [\A s \in Socks : Len(currGame[s]) > 1 => currGame'[s] # NoGame]_vars
    BY <1>1
  <1> QED BY <1>2, LobbySafe, PTL DEF Spec, GroupGameNeverEnds

\* Once the database handle is closed no user's game changes any more.
THEOREM SecondGameNeverRuns == Spec => OneGameFinishes
  <1>1. ASSUME TypeOK, [Next]_vars, ~dbOpen
        PROVE  UNCHANGED <<dbOpen, currGame>>
    <2>1. CASE \E t \in Socks : GameStarted(t)
      <3> PICK t \in Socks : GameStarted(t)
        BY <2>1
      <3>1. rooms[currRoom[t]].users = <<>>
        BY <1>1 DEF GameStarted, HasQuestions
      <3>2. Range(rooms[currRoom[t]].users) = {}
        BY <3>1 DEF Range
      <3>3. currGame' = [u \in Socks |-> currGame[u]]
        BY <3>2 DEF GameStarted, SetGame
      <3> QED BY <1>1, <3>3 DEF TypeOK, GameStarted, db
    <2> QED
      BY <1>1, <2>1, NextChanges
      DEF Quiet, NumberUsed, Change, SignedIn, RoomCreated, RoomClosed, RoomJoined,
          RoomLeft, StartFailed, GameFinished, HandleClosed, users, db
  <1>2. TypeOK /\ [Next]_vars => [~dbOpen => UNCHANGED <<dbOpen, currGame>>]_vars
    BY <1>1
  <1> QED BY <1>2, LobbyTypeCorrect, PTL DEF Spec, OneGameFinishes

\* A room is taken off the list only together with the start of its game.
THEOREM RoomsLeaveByStart == Spec => RoomLeavesListByStart
  <1> DEFINE Starts == currentGameID # -1 =>
                 \A r \in roomsList \ roomsList' :
                     \A u \in Range(rooms[r].users) :
                         currGame'[u] = rooms[r].users /\ currRoom'[u] = None
  <1>1. ASSUME TypeOK, [Next]_vars, currentGameID # -1,
               NEW r \in roomsList \ roomsList', NEW u \in Range(rooms[r].users)
        PROVE  currGame'[u] = rooms[r].users /\ currRoom'[u] = None
    <2>1. PICK s \in Socks : GameStarted(s)
      BY <1>1, NextChanges
      DEF Quiet, NumberUsed, Change, SignedIn, RoomCreated, RoomClosed, RoomJoined,
          RoomLeft, StartFailed, GameFinished, HandleClosed, world
    <2>2. r = currRoom[s]
      BY <1>1, <2>1 DEF GameStarted
    <2>3. u \in Socks
      BY <1>1 DEF TypeOK, Room, Range
    <2> QED BY <1>1, <2>1, <2>2, <2>3 DEF GameStarted, SetGame
  <1>2. TypeOK /\ [Next]_vars => [Starts]_vars
    BY <1>1
  <1> QED BY <1>2, LobbyTypeCorrect, PTL DEF Spec, RoomLeavesListByStart

\* Whoever leaves without being on the roster leaves it as it is.
LEMMA StrangersLeave ==
    ASSUME Safe, NEW s \in Socks, RoomLeft(s),
           s \notin Range(rooms[currRoom[s]].users)
    PROVE  rooms' = rooms
  <1> DEFINE q == currRoom[s]
  <1>1. q \in DOMAIN rooms /\ rooms[q] \in Room /\ rooms[q].users \in Seq(Socks)
    BY DEF RoomLeft, Safe, TypeOK, Room
  <1>2. PositionsOf(rooms[q].users, s) = {}
    BY <1>1 DEF PositionsOf, Range, RoomLeft, Safe, OneConnectionPerName
  <1>3. rooms' = [rooms EXCEPT ![q].users = rooms[q].users]
    <2>1. PICK left \in AfterLeave(rooms[q].users, PositionsOf(rooms[q].users, s)) :
              rooms' = [rooms EXCEPT ![q].users = left]
      BY DEF RoomLeft
    <2>2. left = rooms[q].users
      <3>1. AfterLeave(rooms[q].users, {}) = {rooms[q].users}
        BY <1>1, StrangerLeavesAll
      <3> QED BY <1>2, <3>1
    <2> QED BY <2>1, <2>2
  <1>4. [rooms[q] EXCEPT !.users = rooms[q].users] = rooms[q]
    BY <1>1 DEF Room
  <1> QED BY <1>1, <1>3, <1>4 DEF Safe, TypeOK

\* The roster of a room is final once the room is off the list: a user on it
\* refers to another room, and whoever still refers to it is not on it.
THEOREM RostersFreeze == Spec => StartedRosterFrozen
  <1> DEFINE Frozen == currentGameID # -1 =>
                 \A r \in DOMAIN rooms \ roomsList : rooms'[r] = rooms[r]
  <1>1. ASSUME Safe, [Next]_vars, currentGameID # -1,
               NEW r \in DOMAIN rooms \ roomsList
        PROVE  rooms'[r] = rooms[r]
    <2>1. CASE \E s \in Socks, cap \in Capacities : RoomCreated(s, cap)
      <3>1. r # NextRoomId
        BY <1>1 DEF Safe, TypeOK, NumbersAreUsedOnce, NextRoomId
      <3> QED BY <1>1, <2>1, <3>1 DEF RoomCreated, Safe, TypeOK
    <2>2. CASE \E s \in Socks, q \in roomsList : RoomJoined(s, q)
      BY <1>1, <2>2 DEF RoomJoined, Safe, TypeOK
    <2>3. CASE \E s \in Socks : RoomLeft(s)
      <3> PICK s \in Socks : RoomLeft(s)
        BY <2>3
      <3>1. CASE r # currRoom[s]
        BY <1>1, <3>1 DEF RoomLeft, Safe, TypeOK
      <3>2. CASE r = currRoom[s]
        <4>1. s \notin Range(rooms[r].users)
          BY <1>1, <3>2 DEF Safe, StartedRoomLetsGo
        <4> QED BY <1>1, <3>2, <4>1, StrangersLeave
      <3> QED BY <3>1, <3>2
    <2> QED
      BY <1>1, <2>1, <2>2, <2>3, NextChanges
      DEF Quiet, NumberUsed, Change, SignedIn, RoomClosed, GameStarted, StartFailed,
          GameFinished, HandleClosed, world
  <1>2. Safe /\ [Next]_vars => [Frozen]_vars
    BY <1>1
  <1> QED BY <1>2, LobbySafe, PTL DEF Spec, StartedRosterFrozen

\* Whoever leaves a roster he is on makes it shorter or another one.
LEMMA LeaverShortens ==
    ASSUME Safe, NEW s \in Socks, RoomLeft(s),
           s \in Range(rooms[currRoom[s]].users)
    PROVE  rooms' # rooms
  <1> DEFINE q == currRoom[s]
             own == PositionsOf(rooms[q].users, s)
  <1>1. q \in DOMAIN rooms /\ rooms[q] \in Room /\ rooms[q].users \in Seq(Socks)
    BY DEF RoomLeft, Safe, TypeOK, Room
  <1>2. own \subseteq 1..Len(rooms[q].users) /\ own # {}
    BY <1>1 DEF PositionsOf, Range
  <1>3. PICK left \in AfterLeave(rooms[q].users, own) :
            rooms' = [rooms EXCEPT ![q].users = left]
    BY DEF RoomLeft
  <1>4. Len(left) < Len(rooms[q].users)
    BY <1>1, <1>2, <1>3, MemberLeavesShorter
  <1> QED BY <1>1, <1>3, <1>4 DEF Safe, TypeOK, Room

\* A close takes all members of the room it closes out of their rooms, and a
\* member who did not leave is out of his room by a close, a start or the end
\* of his game.
THEOREM MembersAreReleased == Spec => CloseReleasesMembers
  <1> DEFINE Lost(a) ==
                 /\ currRoom[a] # None /\ currRoom'[a] = None
                 /\ a \in Range(rooms[currRoom[a]].users)
                 /\ UNCHANGED rooms
             Released(a, r) == /\ a \in Range(rooms[r].users)
                               /\ \A u \in Range(rooms[r].users) : currRoom'[u] = None
             Over(a) == currGame[a] # NoGame /\ currGame'[a] = NoGame
             Together == \A a \in Socks :
                (/\ currRoom[a] # None /\ currRoom'[a] = None
                 /\ a \in Range(rooms[currRoom[a]].users)
                 /\ UNCHANGED rooms)
                  => \/ \E r \in DOMAIN rooms :
                           /\ a \in Range(rooms[r].users)
                           /\ \A u \in Range(rooms[r].users) : currRoom'[u] = None
                     \/ currGame[a] # NoGame /\ currGame'[a] = NoGame
  <1>1. ASSUME Safe, [Next]_vars, NEW a \in Socks, Lost(a)
        PROVE  (\E r \in DOMAIN rooms : Released(a, r)) \/ Over(a)
    <2>0. \A r \in DOMAIN rooms : Range(rooms[r].users) \subseteq Socks
      BY <1>1 DEF Safe, TypeOK, Room, Range
    <2>1. ASSUME NEW s \in Socks, RoomClosed(s)
          PROVE  \E r \in DOMAIN rooms : Released(a, r)
      <3>1. -1 \in DOMAIN rooms
        <4>1. currRoom[s] # None
          BY <2>1, LobbyAssumption DEF RoomClosed
        <4> QED BY <1>1, <2>1, <4>1 DEF RoomClosed, Safe, TypeOK
      <3>2. a = s \/ a \in Range(rooms[-1].users)
        BY <1>1, <2>1 DEF RoomClosed, Closed
      <3>3. a \in Range(rooms[-1].users)
        BY <1>1, <2>1, <3>2 DEF RoomClosed
      <3> QED BY <2>0, <2>1, <3>1, <3>3 DEF RoomClosed, Closed
    <2>2. ASSUME NEW s \in Socks, RoomLeft(s)
          PROVE  FALSE
      <3>1. s = a
        BY <1>1, <2>2 DEF RoomLeft, Safe, TypeOK
      <3> QED BY <1>1, <2>2, <3>1, LeaverShortens
    <2>3. ASSUME NEW s \in Socks, GameStarted(s)
          PROVE  \E r \in DOMAIN rooms : Released(a, r)
      <3>1. currRoom[s] \in DOMAIN rooms
        BY <1>1, <2>3 DEF GameStarted, Safe, TypeOK
      <3>2. a \in Range(rooms[currRoom[s]].users)
        BY <1>1, <2>3 DEF GameStarted, SetGame
      <3> QED BY <2>0, <2>3, <3>1, <3>2 DEF GameStarted, SetGame
    <2>4. ASSUME NEW s \in Socks, GameFinished(s)
          PROVE  Over(a)
      <3>1. a \in Range(currGame[s])
        BY <1>1, <2>4 DEF GameFinished, SetGame
      <3>2. s \in Range(currGame[s]) /\ Len(currGame[s]) = 1 /\ currGame[s] \in Seq(Socks)
        BY <1>1, <2>4 DEF GameFinished, TurnComplete, Safe, TypeOK, PlayerInOwnGame
      <3>3. a = s
        BY <3>1, <3>2 DEF Range
      <3> QED BY <2>4, <3>1, <3>3 DEF GameFinished, SetGame
    <2>5. ASSUME NEW s \in Socks, NEW cap \in Capacities, RoomCreated(s, cap)
          PROVE  FALSE
      <3>1. NextRoomId # None
        BY <1>1, LobbyAssumption DEF Safe, TypeOK, NextRoomId
      <3> QED BY <1>1, <2>5, <3>1 DEF RoomCreated, Safe, TypeOK
    <2>6. ASSUME NEW s \in Socks, NEW r \in roomsList, RoomJoined(s, r)
          PROVE  FALSE
      <3>1. r # None
        BY <1>1, LobbyAssumption DEF Safe, TypeOK
      <3> QED BY <1>1, <2>6, <3>1 DEF RoomJoined, Safe, TypeOK
    <2> QED
      BY <1>1, <2>1, <2>2, <2>3, <2>4, <2>5, <2>6, NextChanges
      DEF Quiet, NumberUsed, Change, SignedIn, StartFailed, HandleClosed, users
  <1>2. Safe /\ [Next]_vars => [Together]_vars
    BY <1>1
  <1> QED BY <1>2, LobbySafe, PTL DEF Spec, CloseReleasesMembers
-----------------------------------------------------------------------------
\* The rooms and their numbers implement the abstract directory: the number
\* of a new room was never used before, whichever handler runs in between.
THEOREM LobbyImplementsDirectory == Spec => ImplementsDirectory
  <1>1. Init => Directory!Init
    BY LobbyAssumption DEF Init, Directory!Init
  <1>2. TypeOK /\ [Next]_vars => [Directory!Next]_(Directory!vars)
    <2> SUFFICES ASSUME TypeOK, [Next]_vars
                 PROVE  [Directory!Next]_(Directory!vars)
      OBVIOUS
    <2> USE DEF Directory!Next, Directory!vars
    <2>1. roomIdSequence \in Int /\ NextRoomId \in Int /\ NextRoomId > roomIdSequence
      BY DEF TypeOK, NextRoomId
    <2>2. CASE UNCHANGED <<roomsList, roomIdSequence>>
      BY <2>2
    <2>3. CASE NumberUsed
      BY <2>1, <2>3 DEF NumberUsed, Directory!Refuse
    <2>4. CASE \E s \in Socks, cap \in Capacities : RoomCreated(s, cap)
      BY <2>1, <2>4 DEF RoomCreated, Directory!Open
    <2>5. CASE /\ roomIdSequence' = roomIdSequence
               /\ \E r : roomsList' = roomsList \ {r}
      <3> PICK r : roomsList' = roomsList \ {r}
        BY <2>5
      <3>1. CASE r \in roomsList
        BY <2>5, <3>1 DEF Directory!Retire
      <3>2. CASE r \notin roomsList
        BY <2>5, <3>2
      <3> QED BY <3>1, <3>2
    <2> QED
      BY <2>2, <2>3, <2>4, <2>5, NextChanges
      DEF Quiet, Change, SignedIn, RoomClosed, RoomJoined, RoomLeft, GameStarted,
          StartFailed, GameFinished, HandleClosed, world
  <1> QED
    BY <1>1, <1>2, LobbyTypeCorrect, PTL DEF Spec, ImplementsDirectory, Directory!Spec

=============================================================================
