------------------------------ MODULE RoomNews ------------------------------
(***************************************************************************)
(* One room, its loops iteration by iteration.  Room::sendMessage walks    *)
(* _users and sends to one after the other, and a send that throws ends    *)
(* the walk; between two of them a peer may go away.  Room::leaveRoom      *)
(* walks _users too, erases from it and sends the list on the way.         *)
(*                                                                         *)
(* The handlers run one at a time (MessageQueue); joining, leaving and     *)
(* closing are split at their sends.  Users have different names (Lobby).  *)
(*                                                                         *)
(* A definition marked "Slip" is a wrong variant of the one after it; no   *)
(* action uses it.                                                         *)
(***************************************************************************)
EXTENDS RoomRoster

CONSTANTS
    Users,      \* the users
    Admin,      \* the creator of the room
    Capacity,   \* _maxUsers
    None        \* no user, no message

ASSUME RoomNewsAssumption ==
    /\ Admin \in Users
    /\ Capacity \in Nat
    /\ None \notin Users \cup {"present", "past", "closed"}

VARIABLES
    pc,         \* what the handler does next, "idle" between requests
    roster,     \* _users
    view,       \* the last message each user got, see News
    gone,       \* the users to whom a send fails
    user,       \* the user whose request is handled
    i,          \* the loop variable of Room::leaveRoom, from 1
    before,     \* history: _users when Room::leaveRoom was called
    k,          \* the loop variable of Room::sendMessage, from 1
    news,       \* its message
    excluded    \* its excludeUser, None for nullptr

leaving == <<i, before>>
walk == <<k, news, excluded>>
vars == <<pc, roster, view, gone, user, leaving, walk>>

Places == {"idle", "joined", "list", "leave", "left", "closing", "dead"}

\* The roster as it is, a roster of before, that the room is closed.
News == {"present", "past", "closed"}

\* The admin sits in a room of no seats too.
Seats == IF Capacity = 0 THEN 1 ELSE Capacity

TypeOK ==
    /\ pc \in Places
    /\ roster \in Seq(Users)
    /\ Len(roster) <= Seats
    /\ view \in [Users -> News \cup {None}]
    /\ gone \subseteq Users
    /\ user \in Users \cup {None}
    /\ i \in 1..(Seats + 1)
    /\ before \in Seq(Users)
    /\ k \in 1..(Seats + 1)
    /\ news \in News \cup {None}
    /\ excluded \in Users \cup {None}

\* Room::Room: the admin is the only member and knows it.
Init ==
    /\ pc = "idle"
    /\ roster = <<Admin>>
    /\ view = [u \in Users |-> IF u = Admin THEN "present" ELSE None]
    /\ gone = {}
    /\ user = None
    /\ i = 1
    /\ before = <<>>
    /\ k = 1
    /\ news = None
    /\ excluded = None
-----------------------------------------------------------------------------
\* The handler returns, and with it go the local variables.
Return == /\ pc' = "idle"
          /\ user' = None
          /\ i' = 1
          /\ before' = <<>>
          /\ k' = 1
          /\ news' = None
          /\ excluded' = None

\* Slip: the loop starts behind the admin.
SecondRecipient == 2

\* The start of the loops in Room::sendMessage.
FirstRecipient == 1

\* Room::sendMessage(but, message) is called.
Broadcast(message, but) == /\ k' = FirstRecipient
                           /\ news' = message
                           /\ excluded' = but

\* sendData to u alone.
Told(u, message) == view' = IF u \in gone THEN view
                            ELSE [view EXCEPT ![u] = message]

\* The roster changes, and the list a user has becomes one of before.
RosterBecomes(q) ==
    /\ roster' = q
    /\ view' = [u \in Users |-> IF view[u] = "present" THEN "past" ELSE view[u]]

\* Slip: the list is made before the change.
ListMadeBefore == "past"

\* getUserListMessage() after the change.
ListMade == "present"

\* Slip: one seat more than there is.
HasSeatOrIsFull == Len(roster) <= Capacity

\* Room::joinRoom.
HasSeat == Len(roster) < Capacity

\* handleJoinRoom, Room::joinRoom: the others get the list.  A user who is on
\* the list already is not refused.
Join(s) ==
    /\ pc = "idle"
    /\ HasSeat
    /\ RosterBecomes(Append(roster, s))
    /\ Broadcast(ListMade, s)
    /\ user' = s
    /\ pc' = "joined"
    /\ UNCHANGED <<gone, leaving>>

\* handleJoinRoom of a user who plays, or into a room of no seats, which is not
\* "full" for handleJoinRoom: User::joinRoom refuses and he gets the list.
JoinRefused(s) ==
    /\ pc = "idle"
    /\ Len(roster) # Capacity
    /\ user' = s
    /\ pc' = "list"
    /\ UNCHANGED <<roster, view, gone, leaving, walk>>

\* response110, after it all: the list for the user himself.
List ==
    /\ pc = "list"
    /\ Told(user, "present")
    /\ Return
    /\ UNCHANGED <<roster, gone>>

\* handleGetUserslnRoom.
GetUsersInRoom(s) ==
    /\ pc = "idle"
    /\ Told(s, "present")
    /\ UNCHANGED <<pc, roster, gone, user, leaving, walk>>

\* handleLeaveRoom, of a user who may be off the roster for long.
Leave(s) ==
    /\ pc = "idle"
    /\ user' = s
    /\ i' = 1
    /\ before' = roster
    /\ pc' = "leave"
    /\ UNCHANGED <<roster, view, gone, walk>>

\* Slip: the match itself goes.
MatchIndex(p) == p

\* The element that begin() + p - 2 refers to, p from 1; at the first one the
\* element that is moved out of the vector.
VictimIndex(p) == IF p = 1 THEN 1 ELSE p - 1

\* The list without its v-th element.
EraseAt(q, v) == SubSeq(q, 1, v - 1) \o SubSeq(q, v + 1, Len(q))

\* One iteration of Room::leaveRoom; a match sends the list to all that are
\* left, and is undefined behaviour at the first element.
LeaveIteration ==
    /\ pc = "leave"
    /\ \/ /\ i > Len(roster)
          /\ Return
          /\ UNCHANGED <<roster, view>>
       \/ /\ i <= Len(roster)
          /\ roster[i] # user
          /\ i' = i + 1
          /\ UNCHANGED <<pc, roster, view, user, before, walk>>
       \/ /\ i <= Len(roster)
          /\ roster[i] = user
          /\ RosterBecomes(EraseAt(roster, VictimIndex(i)))
          /\ Broadcast(ListMade, None)
          /\ i' = i + 1
          /\ pc' = "left"
          /\ UNCHANGED <<user, before>>
       \/ /\ i = 1
          /\ roster # <<>>
          /\ roster[1] = user
          /\ pc' = "dead"
          /\ UNCHANGED <<roster, view, user, leaving, walk>>
    /\ UNCHANGED gone

\* handleCloseRoom of the admin: the others get the number of the room.
Close ==
    /\ pc = "idle"
    /\ Broadcast("closed", Admin)
    /\ user' = Admin
    /\ pc' = "closing"
    /\ UNCHANGED <<roster, view, gone, leaving>>

\* Slip: the loop stays where it is.
SameRecipient == k

\* i++ in Room::sendMessage.
NextRecipient == k + 1

Sending == pc \in {"joined", "left", "closing"}

\* One iteration of Room::sendMessage that does not throw.
Send ==
    /\ Sending
    /\ k <= Len(roster)
    /\ \/ /\ roster[k] = excluded
          /\ UNCHANGED view
       \/ /\ roster[k] # excluded
          /\ roster[k] \notin gone
          /\ Told(roster[k], news)
    /\ k' = NextRecipient
    /\ UNCHANGED <<pc, roster, gone, user, leaving, news, excluded>>

\* The send to the next one throws.
Broken == k <= Len(roster) /\ roster[k] # excluded /\ roster[k] \in gone

\* The walk is over, at its end or in the catch of Room::sendMessage, and the
\* handler goes on.  After a close it lives only if the room has number -1.
Sent ==
    /\ Sending
    /\ k > Len(roster) \/ Broken
    /\ \/ /\ pc = "joined" /\ pc' = "list"
          /\ UNCHANGED <<user, leaving, walk>>
       \/ /\ pc = "left" /\ pc' = "leave"
          /\ UNCHANGED <<user, leaving, walk>>
       \/ /\ pc = "closing"
          /\ Return
       \/ /\ pc = "closing" /\ pc' = "dead"
          /\ UNCHANGED <<user, leaving, walk>>
    /\ UNCHANGED <<roster, view, gone>>

\* The environment: the peer of u is gone.
PeerGone(u) == /\ pc # "dead"
               /\ u \notin gone
               /\ gone' = gone \cup {u}
               /\ UNCHANGED <<pc, roster, view, user, leaving, walk>>

Handler == List \/ LeaveIteration \/ Send \/ Sent

Next == \/ Handler \/ Close
        \/ \E s \in Users : \/ Join(s) \/ JoinRefused(s) \/ Leave(s)
                            \/ GetUsersInRoom(s) \/ PeerGone(s)

\* The thread that runs a handler is scheduled again.
Fairness == WF_vars(Handler)

Spec == Init /\ [][Next]_vars /\ Fairness
-----------------------------------------------------------------------------
\* A user who has gone stands before the first place of u on the roster.
CutOff(u) == \E p \in DOMAIN roster : /\ roster[p] \in gone
                                      /\ \A q \in 1..p : roster[q] # u

\* Between requests every member who can be reached has the present list,
\* however often he joined and whoever was erased for whom, unless someone
\* before him on the roster has gone: the catch in Room::sendMessage is
\* outside its loops, and a dead peer cuts off all that come after him.
MembersHaveTheList ==
    pc = "idle" =>
        \A p \in DOMAIN roster :
            LET u == roster[p]
            IN view[u] \in {"present", "closed"} \/ u \in gone \/ CutOff(u)

\* Nobody but the admin learns of the closing later than the admin: when
\* handleCloseRoom goes on, everyone else on the roster knows, except those
\* who have gone and those they cut off.
CloseIsTold ==
    [][pc = "closing" /\ pc' # "closing" =>
         \A p \in DOMAIN roster :
            LET u == roster[p]
            IN u = Admin \/ view[u] = "closed" \/ u \in gone \/ CutOff(u)]_vars

\* When the loop of Room::leaveRoom ends, the roster is the one the closed form
\* of RoomRoster gives, which Lobby uses: for each occurrence the loop meets,
\* the element before it is gone (the first element itself if the occurrence
\* is first).
LoopComputesAfterLeave ==
    pc = "leave" /\ i > Len(roster) =>
        AfterLeave(before, {p \in DOMAIN before : before[p] = user}) = {roster}

\* Every request comes to its end, although sends fail on the way and the
\* roster shrinks under the loop that sends.  A send here returns or throws; one
\* that blocks for ever is in MessageQueue.
HandlerReturns == pc # "idle" ~> pc \in {"idle", "dead"}
=============================================================================
