------------------------------- MODULE Lobby -------------------------------
(***************************************************************************)
(* The request handlers of TriviaServer over the connected users, their    *)
(* rooms and their games: _connectedUsers, _roomsList, and the User and    *)
(* Room objects.  Each request is one action; the dispatcher that calls    *)
(* the handlers one at a time is modelled in MessageQueue, so here any     *)
(* request of any connection may be the next one.                          *)
(*                                                                         *)
(* A dereference of a null, dangling or uninitialized pointer and an       *)
(* access outside a vector are undefined behaviour.  The outcomes modelled *)
(* are that the process dies (Fault) and, where the program may survive,   *)
(* what it then does.  When the process is dead nothing happens any more.  *)
(*                                                                         *)
(* A definition marked "Slip" is a wrong variant of the one that follows   *)
(* it.  No action uses it; it serves to see which property notices it.     *)
(***************************************************************************)
EXTENDS RoomRoster, Functions

CONSTANTS
    Socks,          \* the client connections (SOCKET)
    Names,          \* user names
    Capacities,     \* values of "players number" in create-room requests
    Garbage,        \* values the uninitialized _roomIdSequence may start with
    GameIds,        \* values the uninitialized _currentGameID may have
    MaxRoomId,      \* bound: no create-room request once the sequence is here
    None            \* nullptr, no fault, no reply

ASSUME LobbyAssumption ==
    /\ Capacities \subseteq Nat
    /\ Garbage \subseteq Int
    /\ GameIds \subseteq Int
    /\ MaxRoomId \in Int
    /\ None \notin Socks \cup Names \cup Int

VARIABLES
    connected,      \* _connectedUsers: for each socket the name of its User
    currRoom,       \* User::_currRoom of the User of a socket, by room id
    currGame,       \* User::_currGame: the players of the user's own Game copy
    rooms,          \* every Room ever created, by id (none is ever deleted)
    roomsList,      \* the keys of _roomsList
    roomIdSequence, \* _roomIdSequence
    dbOpen,         \* the server's sqlite3 handle has not been closed
    currentGameID,  \* DataBase::_currentGameID
    open,           \* sockets the server has not closed
    gone,           \* sockets on which send() fails
    reply,          \* the reply sent by the last request, None if none was
    fault           \* the function in which the process died, None while it runs

users == <<connected, currRoom, currGame>>
world == <<rooms, roomsList, roomIdSequence>>
db    == <<dbOpen, currentGameID>>
net   == <<open, gone>>
vars  == <<users, world, db, net, reply, fault>>

NoGame == <<>>     \* _currGame = nullptr

Room  == [admin : Socks, users : Seq(Socks), maxUsers : Nat]
Reply == [to : Socks, code : Nat, status : Nat, about : Names \cup Int \cup {None}]

\* The functions in which the process can die.
Deaths == {"handleCloseRoom", "handleGetUserslnRoom", "handleJoinRoom",
           "Room::leaveRoom", "handleStartGame", "Game::Game",
           "handlePlayerAnswer", "Game::handleAnswerFromUser",
           "RecievedMessage::getUser", "sqlite3_exec"}

TypeOK ==
    /\ connected \in [Socks -> Names \cup {None}]
    /\ currRoom \in [Socks -> Int \cup {None}]
    /\ currGame \in [Socks -> Seq(Socks)]
    /\ rooms \in [DOMAIN rooms -> Room]
    /\ DOMAIN rooms \subseteq Int
    /\ roomsList \subseteq DOMAIN rooms
    /\ \A s \in Socks : currRoom[s] \in DOMAIN rooms \cup {None}
    /\ roomIdSequence \in Int
    /\ dbOpen \in BOOLEAN
    /\ currentGameID \in Int
    /\ open \subseteq Socks
    /\ gone \subseteq Socks
    /\ reply \in Reply \cup {None}
    /\ fault \in Deaths \cup {None}

\* TriviaServer(): the maps are empty, the counters are not initialized.
Init ==
    /\ connected = [s \in Socks |-> None]
    /\ currRoom = [s \in Socks |-> None]
    /\ currGame = [s \in Socks |-> NoGame]
    /\ rooms = <<>>
    /\ roomsList = {}
    /\ roomIdSequence \in Garbage
    /\ dbOpen = TRUE
    /\ currentGameID \in GameIds
    /\ open = Socks
    /\ gone = {}
    /\ reply = None
    /\ fault = None
-----------------------------------------------------------------------------
Up == fault = None

\* getUserBySocket(s) is not null.
Connected(s) == connected[s] # None

\* Slip: the lookup by name never finds anybody.
NoNameConnected(n) == FALSE

\* getUserByName(n) is not null.
NameConnected(n) == \E s \in Socks : connected[s] = n

\* The positions in the list q of the users with the name of the user of s.
PositionsOf(q, s) == {p \in DOMAIN q : connected[q[p]] = connected[s]}

\* The process dies in the function f.
Fault(f) == /\ fault' = f
            /\ reply' = None
            /\ UNCHANGED <<users, world, db, net>>

\* A reply that goes out; when the peer is gone sendData throws instead and
\* the exception is caught by a handler that only logs it.
TellOrLog(s, code, status, about) ==
    reply' = IF s \in gone THEN None
             ELSE [to |-> s, code |-> code, status |-> status, about |-> about]

\* safeDeleteUser: handleSignout erases the connected user and then calls
\* handleCloseRoom, which looks the user up again and uses the null result.
\* For a connection that is not signed in only the socket is closed, and sends
\* on it fail.
SafeDeleteUser(s) ==
    \/ /\ Connected(s)
       /\ Fault("handleCloseRoom")
    \/ /\ ~Connected(s)
       /\ open' = open \ {s}
       /\ gone' = gone \cup {s}
       /\ reply' = None
       /\ UNCHANGED <<users, world, db, fault>>

\* The end of a handler that replies and changes nothing else.  An exception
\* of sendData leaves the handler and the dispatcher calls safeDeleteUser.
Answer(s, code, status, about) ==
    \/ /\ s \notin gone
       /\ reply' = [to |-> s, code |-> code, status |-> status, about |-> about]
       /\ UNCHANGED <<users, world, db, net, fault>>
    \/ /\ s \in gone
       /\ SafeDeleteUser(s)

\* The end of a handler that replies to a connected user after a change.
Sent(s, code, status, about) ==
    /\ s \notin gone
    /\ reply' = [to |-> s, code |-> code, status |-> status, about |-> about]
    /\ UNCHANGED <<net, fault>>
-----------------------------------------------------------------------------
\* DataBase::isUserAndPassMatch: the statement is built with the name and the
\* password unquoted, and the result is "match" iff sqlite3_exec FAILS.  With
\* a closed handle it always fails.
UserAndPassMatch(statementRuns) == ~(statementRuns /\ dbOpen)

\* Slip: operator[] for insert, which replaces the entry.
Replaced(s, n) == [connected EXCEPT ![s] = n]

\* _connectedUsers.insert: the entry a socket already has is kept.
Inserted(s, n) == IF Connected(s) THEN connected
                  ELSE [connected EXCEPT ![s] = n]

\* handleSignin.  The second sign-in of a connection is answered with success
\* and changes nothing.
\* Whether the SQL statement runs depends on the text of name and password.
HandleSignin(s, n, statementRuns) ==
    /\ Up
    /\ \/ /\ ~UserAndPassMatch(statementRuns)
          /\ TellOrLog(s, 102, 1, n)
          /\ UNCHANGED connected
       \/ /\ UserAndPassMatch(statementRuns)
          /\ NameConnected(n)
          /\ TellOrLog(s, 102, 2, n)
          /\ UNCHANGED connected
       \/ /\ UserAndPassMatch(statementRuns)
          /\ ~NameConnected(n)
          /\ connected' = Inserted(s, n)
          /\ TellOrLog(s, 102, 0, n)
    /\ UNCHANGED <<currRoom, currGame, world, db, net, fault>>

\* handleSignout.
HandleSignout(s) ==
    /\ Up
    /\ \/ /\ Connected(s)
          /\ Fault("handleCloseRoom")
       \/ /\ ~Connected(s)
          /\ reply' = None
          /\ UNCHANGED <<users, world, db, net, fault>>

\* The 299 message of a broken connection, or a request whose numbers
\* std::stoi refuses.
Malformed(s) == /\ Up
                /\ SafeDeleteUser(s)

\* handleSignup, handleGetRooms and handleGetBestScore reply and leave users
\* and rooms alone.  Sign-up never answers 2 (the query of isUserExist names a
\* column that does not exist), and 4 is only sent after the send of 0 has
\* failed, and then fails as well.
HandleSignup(s)       == Up /\ \E st \in {0, 1, 3} : Answer(s, 104, st, None)
HandleGetRooms(s)     == Up /\ Answer(s, 106, 0, None)
HandleGetBestScore(s) == Up /\ Answer(s, 124, 0, None)

\* handleGetUserslnRoom: both branches ask the room for its list.
HandleGetUsersInRoom(s, r) ==
    /\ Up
    /\ \/ /\ r \in roomsList
          /\ Answer(s, 108, 0, r)
       \/ /\ r \notin roomsList
          /\ Fault("handleGetUserslnRoom")
-----------------------------------------------------------------------------
\* Room::Room: the creator is the admin and on the list,
\* whatever the capacity.
NewRoom(s, cap) == [admin |-> s, users |-> <<s>>, maxUsers |-> cap]

\* User::createRoom of a user without a room.
CreatesRoom(s, id, cap) ==
    /\ currRoom[s] = None
    /\ rooms' = [r \in DOMAIN rooms \cup {id} |->
                    IF r = id THEN NewRoom(s, cap) ELSE rooms[r]]
    /\ currRoom' = [currRoom EXCEPT ![s] = id]

\* Slip: the number before it is counted up.
StaleRoomId == roomIdSequence

\* ++_roomIdSequence (an int; that it overflows is left out).
NextRoomId == roomIdSequence + 1

\* handleCreateRoom.  The number is used up even when the user is in a room
\* already, in which case there is no reply.
HandleCreateRoom(s, cap) ==
    LET id == NextRoomId
    IN /\ Up
       /\ \/ /\ ~Connected(s)
             /\ Answer(s, 114, 1, None)
          \/ /\ Connected(s)
             /\ roomIdSequence < MaxRoomId
             /\ roomIdSequence' = id
             /\ \/ /\ currRoom[s] # None
                   /\ reply' = None
                   /\ UNCHANGED <<users, rooms, roomsList, db, net, fault>>
                \/ /\ CreatesRoom(s, id, cap)
                   /\ roomsList' = roomsList \cup {id}
                   /\ Sent(s, 114, 0, id)
                   /\ UNCHANGED <<connected, currGame, db>>
          \/ /\ Connected(s)
             /\ roomIdSequence < MaxRoomId
             /\ currRoom[s] = None
             /\ s \in gone
             /\ SafeDeleteUser(s)

\* Slip: only the admin leaves.
ClosedForAdmin(r, s) == currRoom' = [currRoom EXCEPT ![s] = None]

\* The admin closes his room r: Room::closeRoom and User::closeRoom make all
\* its members leave.  The room stays listed.
Closed(r, s) ==
    currRoom' = [u \in Socks |-> IF u = s \/ u \in Range(rooms[r].users)
                                THEN None ELSE currRoom[u]]

\* User::closeRoom does not refuse.
ClosesRoom(s) == /\ currRoom[s] # None
                 /\ connected[rooms[currRoom[s]].admin] = connected[s]

\* handleCloseRoom.  After a successful close the handler asks the user for
\* the room it has just left and dies; -1 is what User::closeRoom returns
\* when it refuses, and also the id of a room that may have this number.
HandleCloseRoom(s) ==
    /\ Up
    /\ \/ /\ ~Connected(s)
          /\ Fault("handleCloseRoom")
       \/ /\ Connected(s)
          /\ ClosesRoom(s)
          /\ currRoom[s] # -1
          /\ Fault("handleCloseRoom")
       \/ /\ Connected(s)
          /\ ClosesRoom(s)
          /\ currRoom[s] = -1
          /\ Closed(currRoom[s], s)
          /\ reply' = None
          /\ UNCHANGED <<connected, currGame, world, db, net, fault>>
       \/ /\ Connected(s)
          /\ ~ClosesRoom(s)
          /\ reply' = None
          /\ UNCHANGED <<users, world, db, net, fault>>

\* Room::joinRoom does not refuse.
Admitted(r) == Len(rooms[r].users) < rooms[r].maxUsers

\* User::joinRoom(r): refused in a game and when the room is full.  A user in
\* another room, or in this one, is not refused.
JoinsRoom(s, r) ==
    IF currGame[s] = NoGame /\ Admitted(r)
    THEN /\ rooms' = [rooms EXCEPT ![r].users = Append(@, s)]
         /\ currRoom' = [currRoom EXCEPT ![s] = r]
    ELSE UNCHANGED <<rooms, currRoom>>

\* handleJoinRoom.  It answers "full" when size and capacity are equal, and
\* success otherwise, whatever User::joinRoom returned; for a room that does
\* not exist it uses the null pointer to build the answer.
HandleJoinRoom(s, r) ==
    /\ Up
    /\ \/ /\ ~Connected(s)
          /\ reply' = None
          /\ UNCHANGED <<users, world, db, net, fault>>
       \/ /\ Connected(s)
          /\ r \notin roomsList
          /\ Fault("handleJoinRoom")
       \/ /\ Connected(s)
          /\ r \in roomsList
          /\ Len(rooms[r].users) = rooms[r].maxUsers
          /\ TellOrLog(s, 110, 1, r)
          /\ UNCHANGED <<users, world, db, net, fault>>
       \/ /\ Connected(s)
          /\ r \in roomsList
          /\ Len(rooms[r].users) # rooms[r].maxUsers
          /\ JoinsRoom(s, r)
          /\ TellOrLog(s, 110, 0, r)
          /\ UNCHANGED <<connected, currGame, roomsList, roomIdSequence, db, net, fault>>

\* User::leaveRoom of a user in a room, which may not be what the room loses.
LeavesRoom(s) ==
    LET r == currRoom[s]
    IN /\ \E left \in AfterLeave(rooms[r].users, PositionsOf(rooms[r].users, s)) :
              rooms' = [rooms EXCEPT ![r].users = left]
       /\ currRoom' = [currRoom EXCEPT ![s] = None]

\* handleLeaveRoom.
HandleLeaveRoom(s) ==
    LET r == currRoom[s]
    IN /\ Up
       /\ \/ /\ ~Connected(s) \/ r = None
             /\ Answer(s, 116, 0, None)
          \/ /\ Connected(s)
             /\ r # None
             /\ LeavesRoom(s)
             /\ Sent(s, 112, 0, r)
             /\ UNCHANGED <<connected, currGame, roomsList, roomIdSequence, db>>
          \/ /\ Connected(s)
             /\ r # None
             /\ s \in gone
             /\ SafeDeleteUser(s)
          \/ /\ Connected(s)
             /\ r # None
             /\ ErasesBeforeBegin(PositionsOf(rooms[r].users, s))
             /\ Fault("Room::leaveRoom")
-----------------------------------------------------------------------------
\* Slip: the user stays in the room.
SetGameOnly(P, g) ==
    /\ currGame' = [u \in Socks |-> IF u \in P THEN g ELSE currGame[u]]
    /\ UNCHANGED currRoom

\* User::setGame(g) of every user in P, g = NoGame for nullptr: the room goes.
SetGame(P, g) ==
    /\ currGame' = [u \in Socks |-> IF u \in P THEN g ELSE currGame[u]]
    /\ currRoom' = [u \in Socks |-> IF u \in P THEN None ELSE currRoom[u]]

\* DataBase::initQuestion has questions for these players.
HasQuestions(players) == players # <<>> => dbOpen

\* handleStartGame by any user who is in a room.  Game::Game gives every
\* listed user a copy of the game, unless the new game's id is -1, which it
\* takes for a failed insert and only logs; the room is erased from the list
\* either way.  Game::Game may ask for more questions than there are, the
\* first question is chosen by an uninitialized index, and when it cannot be
\* sent the handler of the exception uses a null question.
HandleStartGame(s) ==
    LET r == currRoom[s]
        players == rooms[r].users
        GameMade == currentGameID # -1
    IN /\ Up
       /\ \/ /\ ~Connected(s) \/ r = None
             /\ Fault("handleStartGame")
          \/ /\ Connected(s)
             /\ r # None
             /\ GameMade
             /\ HasQuestions(players)
             /\ Range(players) \cap gone = {}
             /\ SetGame(Range(players), players)
             /\ roomsList' = roomsList \ {r}
             /\ reply' = None
             /\ UNCHANGED <<connected, rooms, roomIdSequence, db, net, fault>>
          \/ /\ Connected(s)
             /\ r # None
             /\ ~GameMade
             /\ roomsList' = roomsList \ {r}
             /\ reply' = None
             /\ UNCHANGED <<users, rooms, roomIdSequence, db, net, fault>>
          \/ /\ Connected(s)
             /\ r # None
             /\ GameMade
             /\ Fault("Game::Game")

\* _players.size() == _currentTurnAnswers on the user's own copy of the game:
\* it has counted this answer and, since the last question, no other.  (After a
\* 121 that could not be sent it has, but no further answer is survived.)
TurnComplete(players) == Len(players) = 1

\* handlePlayerAnswer and Game::handleAnswerFromUser on the user's own copy.
\* When the turn is complete the game finishes, and passing the DataBase by
\* value to response121 closes the handle the server goes on using.  If the
\* 121 cannot be sent to the lone player any more, the exception is caught
\* before he has lost the game.  If the turn is not complete, the next question
\* goes to all players at once.
HandlePlayerAnswer(s) ==
    LET players == currGame[s]
    IN /\ Up
       /\ \/ /\ ~Connected(s)
             /\ Fault("handlePlayerAnswer")
          \/ /\ Connected(s)
             /\ players = NoGame
             /\ reply' = None
             /\ UNCHANGED <<users, world, db, net, fault>>
          \/ /\ Connected(s)
             /\ players # NoGame
             /\ TurnComplete(players)
             /\ dbOpen
             /\ Range(players) \cap gone = {}
             /\ SetGame(Range(players), NoGame)
             /\ dbOpen' = FALSE
             /\ Sent(s, 120, 0, None)
             /\ UNCHANGED <<connected, world, currentGameID>>
          \/ /\ Connected(s)
             /\ players # NoGame
             /\ TurnComplete(players)
             /\ dbOpen
             /\ s \notin gone
             /\ gone' = gone \cup {s}
             /\ dbOpen' = FALSE
             /\ reply' = [to |-> s, code |-> 120, status |-> 0, about |-> None]
             /\ UNCHANGED <<users, world, currentGameID, open, fault>>
          \/ /\ Connected(s)
             /\ players # NoGame
             /\ ~TurnComplete(players)
             /\ Range(players) \cap gone = {}
             /\ Sent(s, 120, 0, None)
             /\ UNCHANGED <<users, world, db>>
          \/ /\ Connected(s)
             /\ players # NoGame
             /\ Fault("Game::handleAnswerFromUser")

\* handleLeaveGame and handleGetPersonalStatus begin with *msg->_user, which
\* nothing sets.  If that happens to be an object, they work on a copy of it:
\* the copy leaves the game, the user does not.
HandleLeaveGame(s) ==
    /\ Up
    /\ \/ Fault("RecievedMessage::getUser")
       \/ /\ reply' = None
          /\ UNCHANGED <<users, world, db, net, fault>>
       \/ SafeDeleteUser(s)

HandleGetPersonalStatus(s) ==
    /\ Up
    /\ \/ Fault("RecievedMessage::getUser")
       \/ Answer(s, 126, 0, None)

\* A request that goes to the database after its handle was closed.
UseClosedDb == /\ Up
               /\ ~dbOpen
               /\ Fault("sqlite3_exec")

\* The environment: the peer of s is gone and sends to it fail from now on.
PeerGone(s) == /\ Up
               /\ s \notin gone
               /\ gone' = gone \cup {s}
               /\ reply' = None
               /\ UNCHANGED <<users, world, db, open, fault>>
-----------------------------------------------------------------------------
\* Room numbers that requests may carry: those of rooms and one that is none.
RequestedRooms == DOMAIN rooms \cup {MaxRoomId + 1}

Request(s) ==
    \/ \E n \in Names, runs \in BOOLEAN : HandleSignin(s, n, runs)
    \/ HandleSignout(s)
    \/ HandleSignup(s)
    \/ HandleGetRooms(s)
    \/ \E r \in RequestedRooms : HandleGetUsersInRoom(s, r)
    \/ \E r \in RequestedRooms : HandleJoinRoom(s, r)
    \/ HandleLeaveRoom(s)
    \/ \E cap \in Capacities : HandleCreateRoom(s, cap)
    \/ HandleCloseRoom(s)
    \/ HandleStartGame(s)
    \/ HandlePlayerAnswer(s)
    \/ HandleLeaveGame(s)
    \/ HandleGetBestScore(s)
    \/ HandleGetPersonalStatus(s)
    \/ Malformed(s)

Next == \/ \E s \in Socks : Request(s) \/ PeerGone(s)
        \/ UseClosedDb

Spec == Init /\ [][Next]_vars
=============================================================================
