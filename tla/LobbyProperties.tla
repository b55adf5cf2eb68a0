--------------------------- MODULE LobbyProperties ---------------------------
(***************************************************************************)
(* What the handlers of Lobby keep true.                                   *)
(***************************************************************************)
EXTENDS Lobby

\* No two connections are signed in under one name: the lookup by name and
\* the insert of handleSignin are one step of the dispatcher.
OneConnectionPerName ==
    \A s, t \in Socks : Connected(s) /\ connected[s] = connected[t] => s = t

\* A connection that is signed in keeps its one user for as long as the process
\* runs: a second sign-in is ignored, and every way out (sign-out, a broken
\* connection, an exception in a handler) erases the user and dies before the
\* next request, looking up the user it has erased.
UserStaysForGood ==
    [][\A s \in Socks : Connected(s) => connected'[s] = connected[s]]_vars

\* No room has a number that the sequence has yet to reach.
NumbersAreUsedOnce == \A r \in DOMAIN rooms : r <= roomIdSequence

\* A roster never outgrows the capacity of its room, except by the admin
\* himself in a room created for nobody, although handleJoinRoom itself only
\* refuses when both numbers are equal.
RosterWithinCapacity ==
    \A r \in DOMAIN rooms :
        \/ Len(rooms[r].users) <= rooms[r].maxUsers
        \/ Len(rooms[r].users) = 1

\* The users on the roster of a room whose game has started no longer refer
\* to that room, whoever joined, left or started in between (a room whose
\* game got the id -1 is not started).
StartedRoomLetsGo ==
    currentGameID # -1 =>
        \A r \in DOMAIN rooms \ roomsList :
            \A u \in Range(rooms[r].users) : currRoom[u] # r

\* Everyone who plays is on the player list of his own copy of the game.
PlayerInOwnGame ==
    \A s \in Socks : currGame[s] # NoGame => s \in Range(currGame[s])

\* The roster of a room is final once the room has left the list, even though
\* stray users may still refer to the room, leave it and start it again.
StartedRosterFrozen ==
    [][currentGameID # -1 =>
         \A r \in DOMAIN rooms \ roomsList : rooms'[r] = rooms[r]]_vars

\* A room leaves the list only by a start that puts all its users into one
\* game and out of the room, in the same step.
RoomLeavesListByStart ==
    [][currentGameID # -1 =>
         \A r \in roomsList \ roomsList' :
             \A u \in Range(rooms[r].users) :
                 currGame'[u] = rooms[r].users /\ currRoom'[u] = None]_vars

\* A member who loses his room without leaving it loses it together with
\* everybody on the roster of a room he is a member of, the room that is closed
\* or started, whatever room each of them refers to; or his game is over.  A
\* close is survived by the process for the room with the number -1 only.
CloseReleasesMembers ==
    [][\A a \in Socks :
         (/\ currRoom[a] # None /\ currRoom'[a] = None
          /\ a \in Range(rooms[currRoom[a]].users)
          /\ UNCHANGED rooms)
           => \/ \E r \in DOMAIN rooms :
                    /\ a \in Range(rooms[r].users)
                    /\ \A u \in Range(rooms[r].users) : currRoom'[u] = None
              \/ currGame[a] # NoGame /\ currGame'[a] = NoGame]_vars

\* A game with more than one player on its list ends for nobody: each copy
\* counts only its owner's answers and leave-game works on a copied user.
GroupGameNeverEnds ==
    [][\A s \in Socks : Len(currGame[s]) > 1 => currGame'[s] # NoGame]_vars

\* After the first finished game the handle is closed, and with it no other
\* game is ever finished or started.
OneGameFinishes == [][~dbOpen => UNCHANGED <<dbOpen, currGame>>]_vars
-----------------------------------------------------------------------------
\* The handlers implement the directory of rooms: create-room is Open or
\* Refuse, start-game is Retire, everything else leaves the directory alone.
Directory == INSTANCE RoomDirectory WITH open <- roomsList, last <- roomIdSequence

ImplementsDirectory == Directory!Spec
-----------------------------------------------------------------------------
\* Protocol.cpp, above response110: "status = 2 -> failed-room not exist".
\* A request to join a room that does not exist is answered; the program does
\* not do what the comment says.
UnknownRoomIsAnswered == fault # "handleJoinRoom"
=============================================================================
