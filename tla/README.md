# TriviaServer in TLA+

A formal model of the trivia game server in `src/`: a Windows C++ program that
accepts TCP clients, signs them in, keeps rooms and plays quiz games, with a
SQLite file for users, questions and answers.  The modules here say what the
code does, TLC checks them on small instances and TLAPS proves all of it but liveness
for every instance.

Where the code has a defect the model has it too.  The properties say what the
program achieves in spite of its defects, or what a defect leads to; where a
comment in the source promises something else there is a finding (below).

## Which program

`src/TriviaServer.cpp` and `src/test.cpp` contain unresolved merge markers, and
`safeDeleteUser` is defined twice with the same body, so the program does not
compile as it is.  The two sides of the merge differ in two places that matter.
In `handleRecievedMessage` (lines 444-607) HEAD dispatches one message per call
and 5c901d7 dispatches in a `while (true)`; the constant `Looping` of
`MessageQueue` selects one.  In `main` HEAD starts Winsock and catches
exceptions, 5c901d7 does neither; the variable `side` of `ServerStart` has both.
The other conflicts differ in output and white space.

## Inventory

| Component | State | Operations | Modules |
|---|---|---|---|
| Dispatcher, queue and threads (`TriviaServer.cpp` 52-125, 444-765) | `_queRcvMessages`, `_mtxRecievedMessages`, `_msgCondition`, the client sockets, `usersItr` | `serve`, `clientHandler`, `buildRecieveMessage`, `addRecieveMessage`, `handleRecievedMessage` | `MessageQueue`, `MessageCell`, `TriviaServer` |
| Request handlers and lookups (`TriviaServer.cpp` 127-442, 767-803) | `_connectedUsers`, `_roomsList`, `_roomIdSequence` | fourteen handlers, `safeDeleteUser`, lookups by socket, name and room number | `Lobby`, `RoomDirectory`, `TriviaServer` |
| `Room` | `_users`, `_admin`, `_maxUsers`, `_id` | constructor, `joinRoom`, `leaveRoom`, `closeRoom`, `sendMessage`, `getUserListMessage` | `RoomRoster`, `RoomNews`, `Lobby` |
| `User` | `_currRoom`, `_currGame` | `createRoom`, `joinRoom`, `leaveRoom`, `closeRoom`, `setGame`, `clearRoom`, `leaveGame` | `Lobby` |
| `Game` | `_players`, `_questions`, `_currQuestionIndex`, `_currentTurnAnswers`, `_results`, one copy per player | constructor, `handleAnswerFromUser`, `handleNextTurn`, `handleFinishGame`, `leaveGame`, `sendQuestionToAllUsers` | `Game`, `GameTurns`; its effects on users, rooms and the database in `Lobby` and `DbHandles` |
| `Question` | four answers and the index of the right one | the constructor's random placement, accessors | `Game`, `QuestionShuffle`, `AnswerBoard` |
| `DataBase` | the SQLite handle, the global `results`, `_currentGameID` | constructor and destructor, queries for users, questions, scores and status; inserts | `DataBase`, of `DbHandles` (calls) and `ResultCache` (what they find and store) |
| `Validator` | none | two predicates on names and passwords | `Credentials` in `Wire` |
| `Protocol`, `Helper` | none | message layouts, padding, send and receive | `Framing` (replies) and `RequestStream` (requests) in `Wire` |
| `RecievedMessage` | socket, code, values, an unset `_user` | accessors | `Lobby`, `MessageQueue`, `RequestStream` |
| Winsock start-up, `main` | the Winsock count, the listening socket, the threads | `WSAInitializer`, `TriviaServer()`, `bindAndListen`, `accept` | `ServerStart` in `Server` |
| `sqlite3.h`, `trivia.db` | | a vendored header; a database file | `Sqlite` (the seven functions used), the tables in `ResultCache` |

How they interact.  `main` starts Winsock and makes the server, whose `serve`
starts one thread that calls `handleRecievedMessage` and then accepts
connections; every connection has a thread in `clientHandler`.  Such a thread
receives a message, pushes it and *also* calls `handleRecievedMessage`, so all
threads are dispatchers.  The handlers run under `_mtxRecievedMessages`, with
one exception: the message START_GAME makes `buildRecieveMessage` call
`handleStartGame` outside it.  The handlers reach users through the socket map,
rooms through a user's `_currRoom` or by number, games through a user's
`_currGame`, which is a copy of the game for each player; all of them use the
one `DataBase`.

What is hard here, with the place in the code (`PROJECT.json` "hazards" has the
full list): the queue whose front is never removed (454) and whose condition is
never signalled (614); the loop that keeps the mutex (527); the error path that
goes round with an old message code on a closed socket (117) and the receive
whose exception nobody catches (104); pointers that outlive what they point to
(242, 330, 367); a `send()` without a timeout under the mutex
(`Helper.cpp` 29); `leaveRoom`, which erases from the vector it walks, at the wrong
place, and sends on the way (`Room.cpp` 45); room numbers, game ids and a
question index that start uninitialized; a game that is copied for each player
and then counts turns by copy (`Game.cpp` 32); a database handle closed by the
destructor of a copy (`Game.cpp` 72); a result cache that is never cleared
(`DataBase.cpp` 23); receives that return fewer bytes than asked for
(`Helper.cpp` 63).

## Modules

| Module | Lines | What it is |
|---|---|---|
| `MessageQueue` | 292 | the threads, the queue, the mutex and the condition variable |
| `MessageQueueProperties`, `MessageQueueProofs` | 75, 776 | its properties and the refinement; its theorems |
| `MessageCell` | 41 | abstract: a cell that is filled once and served by one thread at a time |
| `Lobby` | 491 | the handlers over users, rooms, games and the database handle; one action per request |
| `LobbyProperties`, `LobbyProofs` | 89, 1027 | its properties and the refinement; its theorems |
| `RoomDirectory` | 36 | abstract: the directory of open rooms and their numbers |
| `RoomRoster`, `RoomRosterProofs` | 40, 178 | what `Room::leaveRoom` leaves of a roster, in closed form; lemmas about it |
| `RoomNews`, `RoomNewsProofs` | 293, 782 | one room: the loops of `leaveRoom` and `sendMessage`, iteration by iteration; its theorems |
| `TriviaServer` | 196 | composition: `MessageQueue` dispatching the handlers of `Lobby` |
| `ServerStart` | 212 | `main`, Winsock, the listening socket and the life of the threads |
| `Server`, `TriviaServerProofs` | 23, 738 | both together; the theorems of both |
| `GameTurns` | 300 | the copies of one game, answer by answer |
| `QuestionShuffle` | 85 | the constructor of `Question`, draw by draw |
| `AnswerBoard` | 29 | abstract: answers put on empty places, the right one marked |
| `Game`, `GameProofs` | 17, 682 | `GameTurns` and `QuestionShuffle`; their theorems |
| `Sqlite` | 105 | external: connections and statements of the library |
| `DbHandles` | 267 | the objects of class `DataBase` and their calls of `Sqlite` |
| `ResultCache` | 284 | the queries, the cache they fill and the tables |
| `DataBase`, `DatabaseProofs` | 32, 1930 | `DbHandles` and `ResultCache`; their theorems |
| `RequestStream` | 199 | the receives that make messages of the bytes of a client |
| `Credentials` | 161 | `Validator`, character by character, inside `handleSignup` |
| `Framing` | 272 | the replies of `Protocol` as a byte stream, and a client that splits it |
| `Wire`, `WireProofs` | 32, 6409 | these three; their theorems |
| `MCLobby`, `MCTriviaServer`, `MCRoomNews` | | values, symmetry and views for TLC |
| `MCGame`, `MCDatabase`, `MCWire`, `MCServer` | | each checks the parts of a composed module in one run |

A definition whose comment says "Slip" is a deliberately wrong variant of the
definition that follows it (a guard dropped, a number not counted up, ...).  No
action uses one.  Substituting a variant for the original must break the
property that is about it; `PROJECT.json` "mutants" names the pairs.

`Game`, `DataBase`, `Wire` and `Server` put modules side by side that share no
variable: what their subjects share in the program (a `Question` that a game is
played with, the class `DataBase`, the connection, the client threads) reaches
each of them through a parameter, an initial value or a choice that is left as
open as the code leaves it.  They name the properties of the parts, which the
runs check and the theorems state.  `MCGame`, `MCDatabase` and `MCWire` have a
variable `part` that says which of the parts a behaviour is of, and the others
stay as they start.  `MCServer` has the process of `ServerStart` in one part and
in the other the threads of `TriviaServer` in the version 5c901d7, with the
handlers abstracted as in `MessageQueue`.  This is no interleaving and
multiplies no states.

### Lobby

A connection is its socket.  `connected[s]` is the name of the user that
`_connectedUsers` has for `s`; `currRoom[s]` and `currGame[s]` are the fields of
that `User` object.  A `User` object can be identified with its socket because
an entry of the map is never replaced (`insert` keeps the old one) and every
path that removes an entry dereferences a null pointer right afterwards.  A
`Room` object is identified with its number, since the number is counted up for
each; `rooms` keeps every room, `roomsList` the listed ones.  A game is the list
of players of the user's own copy: that is what decides when it ends and whom
it changes.

Each action is a whole handler with the `User`, `Room`, `Game` and `DataBase`
functions it calls, up to the reply.  Three things need explanation.

* *Death.*  `Fault(f)` is the death of the process in `f` by a null or
  uninitialized pointer or an access outside a vector.  Where undefined
  behaviour may also go unnoticed there is a second disjunct with what then
  happens: an out-of-range question index may read some question,
  `begin() - 1` may be erased as if it were the first element (the effect of
  moving the tail down by one), `*msg->_user` may be some object.  That such an
  erase may corrupt other memory is left out.  After a fault no action is
  enabled.
* *Failing sends.*  `PeerGone` makes all later sends to a socket fail.
  `sendData` throws then.  Where a handler catches the exception it is logged
  (`TellOrLog`); else the dispatcher catches it and calls `safeDeleteUser`,
  which for a connected user ends in a null dereference and for any other
  closes the socket (`SafeDeleteUser`): sends to a socket that is not in `open`
  fail as well.  One failure is survived by a player: when the 120 has reached
  him and the 121 that ends his game has not, `handleFinishGame` catches the
  exception, he keeps his game, and the handle of the database is closed.
* *Input.*  Whether the SQL of a sign-in runs depends on the text of name and
  password, which are put in unquoted; both happen.  The sign-in succeeds
  exactly when the statement fails (`UserAndPassMatch`).

`Lobby` lets any request of any connection be the next.  It says what the
handlers do when they are called as their names suggest, one at a time by a
queue that works.  What they do under the dispatcher there is, is the subject of
`TriviaServer`.  A game whose room was made for -1 questions does not end with a
turn; that edge is in `GameTurns`, not in `Lobby`.

`RoomDirectory` is what a client relies on: a number that has been taken off the
list never comes back as another room.  `Lobby` implements it with
`open <- roomsList` and `last <- roomIdSequence`: a create request is `Open` or
`Refuse`, a start is `Retire` (or a stutter, when a user who still refers to a
started room starts it again), everything else stutters.

### MessageQueue

Each thread has a place `pc`.  A client goes `first -> build -> add -> enter ->
front -> dispatch -> next -> build ...`, with `direct` for START_GAME in
`buildRecieveMessage`, `wait` for the condition variable, `error` for the
push in the catch and `close` for its `closesocket`, between which others may
dispatch what was pushed; the worker starts at `enter` and is `done` when the function returns.
A message is its sender and what its code makes `buildRecieveMessage` do
(`parts`, `plain`, `start`, `unknown`, and `299` for the error message).
`owner` is the mutex: `Enter` takes it, `Dispatch` gives it back (HEAD) or keeps
it (5c901d7).  `Dispatch` may also close the socket of its message
(`safeDeleteUser`; `Closes`).  Taking the mutex, pushing and releasing it in `Add` is one step:
nothing else happens under that short lock.  `served` is a history variable.

The condition variable has no notification in this code, so the only way out of
`wait` is a spurious wake-up, which the C++ standard allows at any time.
`usersItr` is a member that handlers use as loop variable; when two threads are
in handlers, one of them by `direct`, the outcome `Fault("usersItr")` is added
to those of each.

`MessageCell` is what this comes to: the first push fills the cell for good, and
what is in it is served again and again, by one thread at a time.
`MessageQueue` implements it with `cell` as the front of the queue and `serving`
as the pairs of a thread in the switch and its `rcvMsg`.  The push into an
empty queue is `Fill`, taking the front is `Serve`, the end of a dispatch is
`Finish`; everything else, all other pushes and the death of the process
included, stutters.

### TriviaServer

Both modules are instantiated over one set of clients.  `asked` has the request
of each message of the queue and `taken` the one a thread dispatches, next to
the kinds that `MessageQueue` knows.  `Dispatch` is `Q!Dispatch` joined with the
handler of `Lobby` for the request taken, `Direct` is `Q!Direct` joined with
`HandleStartGame`; a handler that dies (`died`) ends the threads (`fault`).  In
the race for `usersItr` a handler may die before it has done anything
(`Outcome`).  After `Close`, the `closesocket` of the catch, sends to the
socket fail.

### RoomNews

One room with all its loops: `LeaveIteration` is an iteration of
`Room::leaveRoom` (a match erases the element before it and calls `sendMessage`
for the list), `Send` and `Sent` are an iteration and the end of
`Room::sendMessage`, whose catch is outside its loops.  Between any two
of them a peer may go away (`PeerGone`).  Of what a user was sent last only
counts whether it is the list as the roster is now, an older one, or the closing
of the room.  `before` remembers the roster at the call of `leaveRoom`, so
that the closed form `AfterLeave`, which `Lobby` uses in one step, can be
compared with what the loop has computed.

### GameTurns

What `handleStartGame` makes of a roster.  `User::setGame` copies the game, so
`game[u]` is the question index, the answer counter and the points in the copy of
`u`; `_questions` is shared and `_players` the same in all.  `original` is the
object that the constructor runs on, which sends the first question.  An index
outside the table reads any question or kills the process.  A roster may be
empty or list a user twice, which `Lobby` shows that it may.  The table is empty
when the select of the questions has failed or their number is -1.
`response118` reads as many answers as the first one has characters, so sending
a question goes well or kills the process (`AskMayKill`).  `gone` has the users
to whom sends fail, and more may join them at any send: the sends of a round
reach the `k`-th player (`SendsReach`), and who loses his game when it ends are
those before him (`Finished`).  `sent`, `answered` and `right` are histories.  `Leave` is what `handleLeaveGame` does when the
pointer that nothing sets refers to `u`.

### QuestionShuffle and AnswerBoard

One action per draw of `rand() % 4`: the place is taken and drawn again
(`Redraw`) or the answer goes there (`Place`).  `AnswerBoard` puts answers
on empty places in any order and marks the place of the right one;
`board <- answers`, `marked <- index[1]`, and a redraw of any answer is a
stutter.

### Sqlite, DbHandles, ResultCache

`Sqlite` is the library as a relation between calls: connections that are
unused, open, failed or closed, statements that are ready, on a row, at their
end or in error, and for each call when it is a misuse.  `DbHandles` has the three
`DataBase` objects of the program (the member, the one assigned to it, the
by-value argument of `response121`), the constructor, `sqlite3_exec` on the
member's connection and `getPersonalStatus` step by step with every result a
call may have.  A misuse kills the process or returns `SQLITE_MISUSE`.
`retrieved` says whether the four values of the row have been appended: what an
error before the row returns is an empty list, which kills the caller, and what
an error after it returns is the complete list (`Returned`).

`ResultCache` has the queries: `Cached` appends every row of a result to the
columns of `results`, and `initQuestion` and `getBestScores` read the columns.
`queries` counts the selects so far, those of questions that were cut off after
some rows (`cut`) apart.  A select that fails leaves the rows that came before in
the cache and gives its caller an empty list.  That `insertNewGame` always fails (three
values for four columns) is `NewGameID`; that a user's answer with a used
primary key is not stored is `Inserted`; that a sign-in matches when its
statement does not run is in `IsUserAndPassMatch`.

### Framing, RequestStream, Credentials

`Framing` lays replies out as sequences of characters, texts being letters of a
length.  `Padded` is `getPaddedNumber`: zeros up to the width, in front of a sign
too, and nothing cut.  The client is external: it reads each field at the width
`Protocol.cpp` pads it to (`Extent`) and sends room numbers back as it found
them.  `clean` becomes false when a reply is sent that cannot be split so.

`RequestStream` is the other direction, a `recv` per action; `reads` is what
`buildRecieveMessage` has still to read for the code (`Layout`).  A receive takes
any part of what has arrived, none when the peer has closed; what it does not
fill is the rest of an uninitialized buffer: `Strings` lets a zero byte, digits
or letters stand there, which is what the readers of a field tell apart.

The length of a text is its two digits, 00 to 99 (`TwoDigits`).

`Credentials` walks name and password a character class at a time.  Of the
reply, 4 says that the 0 could not be sent.

### ServerStart

`main` from `WSAStartup` to the end of the process in both versions, every
Winsock call succeeding or failing, with one place per client thread: before its
first receive, in its loop, or in the loop on a closed socket.

## Runs

Deadlock is not checked (`CHECK_DEADLOCK FALSE` everywhere): the process may die
or end, in 5c901d7 no message can arrive any more, and the models with a bounded
number of queries, answers or messages stop at their bounds.

| Run | Module | Bounds | What it shows |
|---|---|---|---|
| `lobby` | `MCLobby` | 2 connections, 2 names, rooms -1 and 0, capacities 0 and 3, game ids 7 and -1 | names, started rooms, closed rooms, the refinement of the directory |
| `queue_head` | `MessageQueueProperties` | 2 clients and the worker, the codes `parts`, `start`, `unknown`, 2 queue entries, HEAD, fairness | the refinement of the cell (one dispatch at a time, and always of the first message), no client waits, where the front kills, a dispatch that hangs stops all threads, a broken connection floods the queue |
| `trivia_server` | `MCTriviaServer` | 2 clients and the worker, 1 name, 2 queue entries, all requests, HEAD | only the first client is served; no room ever exists; a START_GAME outside the mutex writes nothing |
| `game` | `MCGame` | rosters of up to 2 entries of 2 users, -1 or 2 questions, start index -1 or 0, answer numbers 0 and 1, 2 answers and leaves each; all draws of one question | turns, points and counters of the copies; the draws implement the board and end |
| `database` | `MCDatabase` | 2 connections, 2 statements; 2 users, 2 questions, 4 queries, every select failing after any of its rows | who closes the connection, the protocol of statements, what questions, answers and scores are in spite of the cache |
| `room_news` | `MCRoomNews` | 3 users, capacity 4 | the leave loop computes the closed form, who gets the news, the loops end |
| `wire` | `MCWire` | 2 requests of 6 shapes, with texts of 0, 1, 2 and 10 characters; 2 replies with lists of at most 2 entries, room numbers from -123 to 12345; texts of up to 5 characters in 5 classes | what is built of short receives, what replies can be understood, what names and passwords are accepted |
| `server_start` | `MCServer` | 3 connections; with 5c901d7 the worker, all codes and 2 queue entries | what an exception ends, what becomes of connections; the first dispatcher shuts everybody else out |
| `unknown_room`, `game_points`, `signin_refused`, `name_with_space` | `MCLobby`, `MCGame`, `MCDatabase`, `MCWire` | as above; `game_points` has two players, two questions, the start index 0 and the answer number 4 | findings, each a violation of what a comment says |

Why the bounds are enough.

* Rooms: `MaxRoomId` stops create requests.  The properties relate one room to
  its users, or one room number to the next; two rooms allow a user to be on
  the rosters of both and a number to follow a refused one.  Number -1 is the
  one with which a room can be closed without killing the process, and the only
  one that a refusal is mistaken for; 0 stands for all others.
* Capacities: 0 is the boundary at which a new room is over its limit, 3 leaves
  a place free after both users have joined (and one has joined twice, which
  the code allows).
* -1 as game id is the value that `Game::Game` takes for an error.  That the
  `int` overflows is left out.
* `MaxQueue`: an entry behind the bound is dropped from the model.  Nothing but
  `empty()` and `front()` looks at the queue and nothing is removed, so entries
  behind the second have no effect that an entry behind the first has not.  With
  two, whoever served the back of the queue and not its front would serve
  another client.  `queue_head` has no `plain`: a START_GAME whose handler returns goes the same
  way.
* Games: two entries of two users give a lone player, two players, one player
  listed twice and a roster that a leave has emptied.  The answer number 0 is
  before the array and also the index of the first answer; 1 names one answer
  and is the index of another.  Right answers stand in the places 0, 1 and 2 of
  the table, of which the last is neither named nor hit by 0 or 1 and so stands
  for 3 as well; a 5, what the client sends for a timeout, is an answer that is
  not right, like a 1 at such a question.  Two answers each go past the turn after which a copy ends.
* Database: two handles are what the two constructors take; a second live
  statement would show one that has not been finalized.  Four queries fill each
  column twice and read it twice, with a sign-in in between; three questions are
  one more than the table has.
* `room_news`: a roster of four entries of three users has every case of the
  leave loop: matches at the first element, adjacent, and behind one another's
  victims; somebody stands before and after someone who has gone.
* Wire: a reply after a reply shows where the second one begins, and an entry
  after an entry where the second entry does; the theorem has lists of any
  length.  9999 and -123
  fill the field, 12345 outgrows it, -1 is padded.  The text of ten characters has a
  length with both digits.  A password of the least
  length that is accepted has four characters; five leave room for one more of
  any class.
* `VIEW Memory` of `MCLobby` leaves out `reply` and, when the process is dead,
  all but the place of its death: no action reads `reply`, none is enabled after
  a fault, and no property of that run mentions `reply`.  `unknown_room` has no
  view.  The view of `MCTriviaServer` keeps no state of a dead process but its
  death, no `served`, and the request of the front of the queue only.
* Symmetry: connections and names (clients) are interchangeable; it is not used
  with liveness.

Fairness.

* `MessageQueue` (`FairSpec`): a thread that neither waits for its peer nor is
  in a handler is scheduled eventually.  This is what the operating system gives
  a detached thread.  Nothing is assumed of peers.  A receive on an open socket
  may block for ever: `First` and `NextCode` have no fairness, nor has `Build`
  while it reads parameters (`Reading`).  A handler may block for ever as well,
  since its `send()` has no timeout and waits until the peer reads: `Dispatch`
  and `Direct` have no fairness, and `HangStopsAll` says what comes of it.
  `BrokenConnectionFloods` therefore speaks of behaviours in which every handler
  that is entered is left again.  On a socket the server has closed a receive
  returns an error, so `NextFails` is fair there.  No fairness is assumed of
  `SpuriousWakeup`, and only weak fairness of taking the mutex, so a thread may
  starve while others keep taking it.  `BrokenConnectionFloods` holds in spite
  of that, because while others take the mutex they do so in order to push.
* `RoomNews`: the thread that runs a handler is scheduled (`WF_vars(Handler)`),
  which takes for granted that each of its sends returns or throws, so that
  `HandlerReturns` is about the loops.  Requests and `PeerGone` are not fair.
* `MCGame`: each place is drawn again and again (`WF` on each `Draw(p)`, which is
  always enabled until the constructor is done).  `rand() % 4` does that with
  probability one; without this assumption the loops need not end.
* `ServerStart`: `main` goes on by itself except in `accept` and in the pause for
  a key; a receive need not return while Winsock runs and fails at once when it
  has been shut down, and a thread in its loop gets back to its receive.

## Proofs

TLAPS checks these for any set of connections and names, any capacities, texts,
tables and requests, any start values and bounds, from the assumption that each
module names about its constants.  Every invariant and every action property
that a run checks is stated by a theorem.  The type invariants of `Lobby`, `MessageQueue`, `GameTurns`,
`QuestionShuffle` and `ServerStart` are proved and TLC does not evaluate them
again; those of `RoomNews`, of `DbHandles` and `ResultCache`, and of the three
parts of `Wire` are evaluated as well.

`LobbyProofs`, from `LobbyAssumption` (`Capacities` are natural numbers, start
values are integers, `None` is none of the other values):

* type correctness (`LobbyTypeCorrect`);
* `NamesAreUnique`, `CapacityRespected`, `PlayersPlay`, `StartLetsGo`.  The
  inductive invariant is `Safe`: the type invariant, these four, each step of
  which needs some of the others, and that no room has a number the sequence has
  yet to reach (`NumbersAreUsedOnce`), so that a new room never takes the place
  of an old one.  `StartLetsGo` survives a leave because what remains of a roster
  is part of it (`LeaveShortens`), and a join because only a *listed* room can be
  joined, so nobody starts to refer to an unlisted one;
* the action properties `UsersStay`, `GroupGamesStay`, `SecondGameNeverRuns` and
  `RoomsLeaveByStart`, from the same invariant;
* `RostersFreeze`: who still refers to a room that has been started is not on its
  roster (`StartLetsGo`), and a leave of somebody who is on no place of a roster
  erases nothing (`StrangerLeavesAll` of `RoomRosterProofs`);
* `MembersAreReleased`.  An invariant cannot say that closing a room releases
  its members, since a user may refer to another room than the one he is a member
  of; the property speaks of the step in which a member loses his room without
  any roster changing.  A member's own leave does change one
  (`MemberLeavesShorter`), so the step is a close, a start or the end of a game;
* `LobbyImplementsDirectory`, the refinement.

The proofs go through a lemma that classifies the steps (`NextChanges`): each
step is a stutter on users and rooms or one of the few kinds of change, so that
an invariant is shown for those and not for all fifteen requests and their
disjuncts.

`RoomRosterProofs` has the lemmas about the closed form `AfterLeave`: the
numbering of what is kept is increasing and therefore unique
(`IncreasingUnique`), so `AfterLeave` has exactly the list such a numbering gives
(`KeptByNumbering`).

`RoomNewsProofs`, from `RoomNewsAssumption`, for any capacity:

* `RoomNewsTypeCorrect`.  The roster has at most `Seats` entries: the capacity,
  or one in a room for nobody, where the admin sits all the same;
* `MembersKeepTheList` and `ClosingIsTold`, from `NewsInv`: during a walk of
  `sendMessage` those before the loop variable have got its message or are
  excluded, and at the places between the walks everybody on the roster is
  informed, gone, or cut off by one who is;
* `LoopIsClosedForm`: the erasing loop of `Room::leaveRoom` ends with what
  `AfterLeave` says, whatever repetitions the roster has.  `LoopInv` says that
  the roster is what is kept of the list before when the victims of the matches
  found so far are taken out, and that from just before the loop variable on it
  is still the old list, shifted.  This justifies the single step that `Lobby`
  makes of the loop.

`MessageQueueProofs`, from `MessageQueueAssumption`: type correctness,
`OnlyFirstMessageServed`, `NoClientWaits`,
`FrontIsHarmlessLater` (from `NullOnlyAtFront` and `EmptyOnlyAtStart`) and, for
`Looping`, `LoopKeepsAll`.  The invariant `QueueInv` says that who is at `front`
or `dispatch` owns the mutex, that a client that dispatches finds the queue
filled, and that messages taken or served are its head.  `NullOnlyAtFront` needs
besides that what is taken or served is not null (`KnownTaken`): a served message
is still the head, so the head is not null.  `Held` says that, in 5c901d7, once a
message has been taken somebody holds the mutex for good; of the sockets `LoopKeepsAll` says
nothing, since a dispatch may close one.  `QueueImplementsCell` is the
refinement, for both versions: a push into a queue that is not empty leaves its
front alone (`PushKeepsFront`), and who takes the front owns the mutex, so that
nobody else is in the switch or takes it at the same time (`DispatchesAlone`).
`CellSteps` says of every action which step of the cell it is.

`TriviaServerProofs`, from `TriviaServerAssumption`, for both versions of the
dispatcher: `OnlyFirstServed`, `RoomsNeverExist`, `StartNeverReturns` and
`UsersWrittenUnderMutex`.  `ServerImplementsQueue` says that the handlers and
the requests only narrow what the threads of `MessageQueue` do, so that its
theorems hold of the whole server.  The invariant joins facts of the two parts: whoever
dispatches has taken the head of the queue and its request (`DispatchesFront`)
and holds the mutex (`HoldsLock`), there is no room and no game (`Bare`), and
whoever is signed in has sent the first message, which is a sign-in
(`FirstSignedIn`).  The argument is a circle that starts with an empty queue: a
room needs a create request of somebody signed in; that one's sign-in is the
head of the queue, the head stays, and only the head is dispatched, so the
create request never is.  A handler of a sender without a room makes none
(`BareStep`, one lemma per kind of request), and `HandleStartGame` of one can
only die (`StartDies`).  `EndOfTheServer` is about `ServerStart`: 5c901d7 never
gets past `bind` (`NeverServes`), in HEAD Winsock is started once and in time for
every place of `main` (`StartedOnce`), and an exception ends the process only
in `main` of 5c901d7 or in a thread that waits for its first message (`EndedBy`).

`GameProofs`, from `GameAssumption`: for `GameTurns` type correctness,
`PointsAreNotRightAnswers`, `PlayersAreJudgedBySentQuestions`,
`LoneGamesEndAtOnce` and `CountersRest`.  The invariant adds to the four that the
table has the announced number of questions, that only users on the list play,
and nobody before the start, and that a player alone who still plays has not
answered or is gone.  `SendsEffect` says whom a round of sends has reached.
`PlayersAreJudgedBySentQuestions` is for a roster of which nobody is gone: a
failed send cuts off the players behind it.  For `QuestionShuffle` type correctness; `EveryPlaceFilled`; and
`ShuffleImplementsBoard`, that the draws implement `AnswerBoard`.  The invariant
`Placed` says that the answers placed so far stand where their indexes say and
that nothing else stands anywhere.

`DatabaseProofs`, from `SqliteAssumption` and `QueryAssumption`:

* `HandlesTypeCorrect`, `FirstGameCloses` and `StatementsAreFinalized`.
  `HandleInv` says that from the assignment on the server's object and the one
  assigned to it share a connection, which is closed exactly when a game has
  finished (`SharedConnection`), and what each place of `getPersonalStatus` finds
  of its statement (`StatusFound`);
* `QueriesTypeCorrect`, `DataBaseTypesCorrect`, `GamesAskTheTable`,
  `AnswersAreRecordedOnce`.  `CacheInv` says that the columns of the questions
  hold rows of the table, the same ones at the same places, and the table over
  and over again while no select has been cut off (`ColumnsHoldRows`), which is
  why reading them from the front gives rows of the table whatever was appended,
  and that what the
  server has recorded is recorded under the one game id there is;
* `ScoresAreNeverTooLow`: the rows of a user in the table are mapped one to one
  to entries of the column that is counted, so the count is not below theirs;
  for the first select the map has an inverse, unless a sign-in that matched has
  filled the column (`ColumnFills`).  A select that fails delivers no list but
  fills the column, so the one after it is not the first.

`WireProofs`, from `WireAssumption`:

* `SignupTypeCorrect` and `SignupsAreDecided` for every name and password:
  `seen` has the classes of the characters passed (`SeenSoFar`), and what is
  known at each place is what the tests before it have let through
  (`DecidedSoFar`);
* `RequestTypeCorrect` and `RequestsAreBuilt`, for every set of requests with
  the fields of their codes.  `Streamed` says that, while no receive has been
  short, what has been read of the request that is being built is the beginning
  of the next one sent (`InRequest`), and that what has not been received is
  the rest of it and all later ones (`Tails`).  It rests on what is read for a code
  (`LayoutIs`), on taking a concatenation apart (`Apart`, `ReceivedWhole`) and on
  the numbers that `atoi` makes of two or three digits (`AtoIShort`).  A request
  has at most four fields, so what `FlattenSeq` and `atoi` compute by recursion is
  worked out case by case.

* `ReplyTypeCorrect` and `RepliesUnderstood`, for lists of any length and texts
  of every length that the assumption allows.  Three layers:
  - what the recursive functions of `Framing` compute.  The library's induction
    theorems have an operator as parameter; here a predicate is the set of the
    numbers that have it, and induction is a fact about sets (`Induction`) that
    follows from the well-foundedness of the naturals (`WFMin`,
    `NatLessThanWellFounded`).  From it: that there is exactly one function with
    the recursion of `Digits`, of `NumberAt`, of `EntriesEnd`, of `FlattenSeq`,
    and what it gives.  `PaddedValue` says that a number written at a width it
    fits is read as that number, `StoiOfPadded` the same of `std::stoi`;
  - for each response that it `Splits`: whatever follows it in the stream, a
    client finds its end.  For a list this is `EntriesEnd` entry by entry, each
    of which is as long as its fields say (`Entry`);
  - the inductive invariant `RepliesInv`: the types, `ListedRoomIsFound`, and
    `Understood` as long as `clean`, which says that every reply sent splits and
    every room it lists fits its field, that what the client has taken are the
    first replies, and that the stream is the rest of them, flattened.
    Each `Send` adds one at the end (`Send...Keeps`), `Hear` takes the first away
    (`HearKeeps`), and `AskForRoom` finds in the entry the four characters that
    the number was padded to (`AskForRoomKeeps`);
* `WireTypeCorrect` joins the types of the three parts.

Only model-checked is liveness (`HangStopsAll`, `BrokenConnectionFloods`,
`ConstructorReturns`, `HandlerReturns`, `PauseBreaksConnections`), which is
outside the prover's reach under fairness.

## Findings

Four runs show that the code does not do what a comment says.

* `unknown_room`: the answer for a room that does not exist is built from the
  null room (`TriviaServer.cpp` 367).  `Protocol.cpp` 71: "status = 2 ->
  failed-room not exist or other reason.".
* `game_points`: the number of an answer, counted from 1, is compared with an
  index counted from 0 (`Game.cpp` 111, 119), so the number of the right answer
  gives no point.  `Game.h` 43: "username, point(correct answers)".
* `signin_refused`: `isUserAndPassMatch` returns false when its statement runs
  (`DataBase.cpp` 113), so a user with the right password is answered "1".
  `TriviaServer.cpp` 181: "wrong details".
* `name_with_space`: `isUserNameValid` looks for a character that is no space and
  has one in the first letter (`Validator.cpp` 41), so a name with spaces is
  accepted.  `Validator.h` 10: "valid username: starting with char, we dont have
  spaces, !NULL".  What does hold of names is in `NamesNotMisjudged`.

What the models show besides, without a run of its own.  Each follows from one
definition, which is named.

* A user who has a game is answered that he joined a room which refused him
  (`TriviaServer.cpp` 359 against `Protocol.cpp` 69; `HandleJoinRoom`).
* 114 with status 1 is sent when a creation fails (316), which `Protocol.cpp`
  says and `Protocol.h` 53 denies (`HandleCreateRoom`).
* A second sign-in of a connection is answered "success" and has no effect (173;
  `Inserted` of `Lobby`).
* Statements are executed on a connection that failed to open or was closed by
  the first finished game (`Game.cpp` 72; `Executed`), against `sqlite3.h`
  375-376.
* The connection that the member `_db` opens is lost by the assignment in
  `TriviaServer()` (23; `Assign`); the error strings of `sqlite3_exec` are never
  freed (left out of the model).
* After the client has closed, the message code is made of an uninitialized
  buffer (`Helper.cpp` 63 against the comment in line 9; `Received`).

The dispatcher of this commit never provides the second request that
`unknown_room` and `game_points` need (`NoRoomEver`); they are properties of the
handlers.  `signin_refused` and `name_with_space` need one.

## Not modelled

* `sqlite3.h` is a vendored header of 7755 lines and by far the largest file; it
  declares a library whose code is not in the repository.  `Sqlite` models what
  the program uses of it, as external.  Nothing else in it can be modelled.
* The text of SQL statements: whether one runs is open where it depends on a
  client's text.  The rows of `trivia.db`, but for their columns and keys.
* The characters of names, answers and questions beyond class and length.
* A socket number that the system hands out again while its old entry is still
  in `_connectedUsers`.
* Running out of memory, which a connection that floods the queue leads to.
* What happens to memory after undefined behaviour beyond the outcomes named
  above; error strings; console output.
* Functions that nothing calls: `RecievedMessage::setUser`, the destructor of
  `TriviaServer`; empty destructors.

## Plan

Done: all components above, with the proofs named.  What is left:

1. `GameTurns` against the part of `Lobby` that starts and ends games, as a
   refinement: a game of `Lobby` is the copy of `GameTurns` without its turns.
2. Under the handlers of `TriviaServer`, `Lobby` itself as an abstract
   specification: all its steps are steps of `Lobby` except that the socket the
   server closes in its catch fails from then on.
