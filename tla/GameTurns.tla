----------------------------- MODULE GameTurns -----------------------------
(***************************************************************************)
(* One game (class Game): what handleStartGame makes of the roster of a    *)
(* room, and then the answers of the players and their requests to leave.  *)
(*                                                                         *)
(* User::setGame copies the game for every player, so there are as many    *)
(* games as players, each with its own question index, answer counter and  *)
(* points, and each sends its questions to all.  The object that the       *)
(* constructor ran on sends the first question and is not used again.      *)
(*                                                                         *)
(* A send to a player whose connection is broken throws.  Which handler    *)
(* survives that depends on who catches it: handleFinishGame does itself,  *)
(* sendQuestionToAllUsers does not.                                        *)
(*                                                                         *)
(* A definition marked "Slip" is a wrong variant of the one after it; no   *)
(* action uses it.                                                         *)
(***************************************************************************)
EXTENDS Integers, Sequences, Functions

CONSTANTS
    Users,          \* the users of the server
    MaxPlayers,     \* bound: the length of the roster
    QuestionCounts, \* numbers of questions in create-room requests
    StartIndexes,   \* values the uninitialized _currQuestionIndex may have
    AnswerNumbers,  \* the answer numbers of 219 messages, one digit
    MaxAnswers,     \* bound: answers and leaves of one player
    None            \* no game, no fault

ASSUME GameAssumption ==
    /\ QuestionCounts \subseteq Int
    /\ StartIndexes \subseteq Int
    /\ AnswerNumbers \subseteq Nat
    /\ None \notin Int
    /\ MaxAnswers \in Nat

\* A Question: where its right answer is, and whether its text is empty.
Question == [correct : 0..3, blank : BOOLEAN]

\* A player's copy of the game: _currQuestionIndex, _currentTurnAnswers and
\* the player's own entry in _results.
Copy == [index : Int, turnAnswers : Nat, points : Nat]
NoGame == [index |-> 0, turnAnswers |-> 0, points |-> -1]

VARIABLES
    players,    \* _players, the same in all copies
    questionNumber, \* _questionNumber
    questions,  \* _questions, shared by all copies
    original,   \* _currQuestionIndex of the original, None after its last use
    game,       \* User::_currGame
    turns,      \* the answers and leaves of each player
    sent,       \* history: the indexes of the questions each player was sent
    answered,   \* history: the answers each player has given
    right,      \* history: those that named the right answer
    gone,       \* the users to whom sends fail
    fault       \* the call the process did not survive, None while it runs

room == <<players, questionNumber, questions>>
vars == <<room, original, game, turns, sent, answered, right, gone, fault>>

\* The functions in which, or because of which, the process can die.
Deaths == {"sendQuestionToAllUsers", "handleAnswerFromUser", "handleFinishGame"}

Playing(u) == game[u] # NoGame

TypeOK ==
    /\ players \in Seq(Users)
    /\ questionNumber \in Int
    /\ questions \in Seq(Question)
    /\ original \in Int \cup {None}
    /\ game \in [Users -> Copy \cup {NoGame}]
    /\ turns \in [Users -> Nat]
    /\ sent \in [Users -> SUBSET Int]
    /\ answered \in [Users -> Nat]
    /\ right \in [Users -> Nat]
    /\ gone \in SUBSET Users
    /\ fault \in Deaths \cup {None}

\* Before handleStartGame: any roster, also one that a leave has left empty
\* or a second join has put a user on twice, and any questions.  Their number
\* is what stoi makes of two characters, -1 among them, and then there are
\* none; nor are there any when the select of the questions has failed.
Init ==
    /\ players \in UNION {[1..n -> Users] : n \in 0..MaxPlayers}
    /\ questionNumber \in QuestionCounts
    /\ questions \in [1..questionNumber -> Question] \cup {<<>>}
    /\ original \in StartIndexes
    /\ game = [u \in Users |-> NoGame]
    /\ turns = [u \in Users |-> 0]
    /\ sent = [u \in Users |-> {}]
    /\ answered = [u \in Users |-> 0]
    /\ right = [u \in Users |-> 0]
    /\ gone = {}
    /\ fault = None
-----------------------------------------------------------------------------
Up == fault = None

Fault(f) == /\ fault' = f
            /\ UNCHANGED <<room, original, game, turns, sent, answered, right, gone>>

\* _questions[i]: outside the vector anything may stand there.
InTable(i) == i \in 0..(Len(questions) - 1)
QuestionsAt(i) == IF InTable(i) THEN {questions[i + 1]} ELSE Question

\* The players before the k-th on the list, and the place after the last one.
Before(k) == {players[j] : j \in 1..(k - 1)}
End == Len(players) + 1

\* The sends to the players, in their order, reach the k-th, whose connection
\* is broken or breaks just now, or the end.
SendsReach(k) ==
    /\ k \in 1..End
    /\ Before(k) \cap gone = {}
    /\ gone' = IF k = End THEN gone ELSE gone \cup {players[k]}

\* sendQuestionToAllUsers, up to the k-th player: a question with an empty text
\* is not sent.
Ask(i, k) ==
    \E q \in QuestionsAt(i) :
       \/ /\ q.blank
          /\ k = End
          /\ UNCHANGED <<sent, gone>>
       \/ /\ ~q.blank
          /\ SendsReach(k)
          /\ sent' = [u \in Users |-> IF u \in Before(k) THEN sent[u] \cup {i}
                                      ELSE sent[u]]

\* Whether the process may die of it: response118 reads as many answers as the
\* first of the four has characters, any memory if there is no such question;
\* and the exception of a send that fails ends in a null pointer: the question
\* that handleStartGame's catch hands over, or in safeDeleteUser the user.
AskMayKill(i) == /\ players # <<>>
                 /\ InTable(i) => ~questions[i + 1].blank

\* Slip: the copy does not take the index over and has one of its own.
FreshIndex(i) == 0

\* Game(Game&) copies the index.
CopiedIndex(i) == i

\* handleStartGame: Game::Game gives each player a copy of itself, and then
\* sendFirstQuestion sends the question at the uninitialized index.
Start ==
    /\ Up
    /\ original # None
    /\ \/ /\ Ask(original, End)
          /\ game' = [u \in Users |->
                         IF u \in Range(players)
                         THEN [index |-> CopiedIndex(original),
                               turnAnswers |-> 0, points |-> 0]
                         ELSE NoGame]
          /\ original' = None
          /\ UNCHANGED <<room, turns, answered, right, fault>>
       \/ /\ AskMayKill(original)
          /\ Fault("sendQuestionToAllUsers")
-----------------------------------------------------------------------------
\* Slip: the number is compared with the place counted from 1.
ScoresFromOne(n, q) == n = q.correct + 1

\* An answer scores when its number is the index, counted from 0, of the
\* right answer.
Scores(n, q) == n = q.correct

\* The text the answer is recorded with, getAnswers()[n - 1], is the right one.
NamesRightAnswer(n, q) == n \in 1..4 /\ n - 1 = q.correct

\* Slip: the comparison that was meant.
WasLastQuestion(i) == i = questionNumber + 1

\* if (_currQuestionIndex = _questionNumber + 1): whether what is assigned is
\* not 0, whatever the index i has been.
AssignedIndex(i) == questionNumber + 1 # 0

\* handleFinishGame: the players on the list lose the game until a send fails,
\* and its catch lets the others keep theirs.  Computing what to send may kill
\* the process.
Finished(g, k) == [u \in Users |-> IF u \in Before(k) THEN NoGame ELSE g[u]]

\* Slip: the counter goes on.
KeptCount(n) == n

\* _currentTurnAnswers when the next question is sent.
CountForNext(n) == 0

\* handleNextTurn on the copy of u, in which n answers have been counted and
\* p points given; its sends reach the k-th player.  A game whose list is empty
\* has no copies.
NextTurn(u, n, p, k) ==
    LET next == game[u].index + 1
        withCount(i, c) ==
            [game EXCEPT ![u] = [index |-> i, turnAnswers |-> c, points |-> p]]
    IN \/ /\ Len(players) # n
          /\ Ask(next, k)
          /\ game' = withCount(next, CountForNext(n))
       \/ /\ Len(players) = n
          /\ AssignedIndex(game[u].index)
          /\ SendsReach(k)
          /\ game' = Finished(withCount(questionNumber + 1, n), k)
          /\ UNCHANGED sent
       \/ /\ Len(players) = n
          /\ ~AssignedIndex(game[u].index)
          /\ game' = withCount(questionNumber + 1, n)
          /\ UNCHANGED <<sent, gone>>

\* What kills the process in handleNextTurn.
NextTurnDies(u, n) ==
    \/ /\ Len(players) # n
       /\ AskMayKill(game[u].index + 1)
       /\ Fault("sendQuestionToAllUsers")
    \/ /\ Len(players) = n
       /\ AssignedIndex(game[u].index)
       /\ Fault("handleFinishGame")

\* handlePlayerAnswer and handleAnswerFromUser.  A number of 0 reads before
\* the array of answers; numbers from 5 on are recorded with an empty text.
\* When the reply, or the next question, cannot be sent, the exception ends in
\* safeDeleteUser, which kills the process over a user who is signed in.
Answer(u, n) ==
    /\ Up
    /\ Playing(u)
    /\ turns[u] < MaxAnswers
    /\ LET counted == game[u].turnAnswers + 1
       IN \/ /\ u \notin gone
             /\ \E q \in QuestionsAt(game[u].index), k \in 1..End :
                   /\ Len(players) # counted => k = End
                   /\ NextTurn(u, counted,
                               game[u].points + (IF Scores(n, q) THEN 1 ELSE 0), k)
                   /\ right' = [right EXCEPT ![u] = @ + (IF NamesRightAnswer(n, q) THEN 1 ELSE 0)]
             /\ answered' = [answered EXCEPT ![u] = @ + 1]
             /\ turns' = [turns EXCEPT ![u] = @ + 1]
             /\ UNCHANGED <<room, original, fault>>
          \/ /\ n = 0 \/ ~InTable(game[u].index) \/ u \in gone
             /\ Fault("handleAnswerFromUser")
          \/ NextTurnDies(u, counted)

\* handleLeaveGame, when the user pointer that nothing sets points to u: the
\* user copied from it has the same Game, does not find himself among the
\* players and makes that game go to the next turn.  A send that fails is
\* survived when the sender of the request is not signed in.  (A turn is
\* complete here only if an answer before it has been, and that answer has
\* ended the game unless the number of questions is -1 or the player was gone.)
Leave(u) ==
    /\ Up
    /\ Playing(u)
    /\ turns[u] < MaxAnswers
    /\ \/ /\ \E k \in 1..End : NextTurn(u, game[u].turnAnswers, game[u].points, k)
          /\ turns' = [turns EXCEPT ![u] = @ + 1]
          /\ UNCHANGED <<room, original, answered, right, fault>>
       \/ NextTurnDies(u, game[u].turnAnswers)

\* The environment: sends to u fail from now on.
PeerGone(u) ==
    /\ Up
    /\ u \notin gone
    /\ gone' = gone \cup {u}
    /\ UNCHANGED <<room, original, game, turns, sent, answered, right, fault>>

Next == \/ Start
        \/ \E u \in Users : \/ \E n \in AnswerNumbers : Answer(u, n)
                            \/ Leave(u)
                            \/ PeerGone(u)

Spec == Init /\ [][Next]_vars
-----------------------------------------------------------------------------
\* The number is judged counted from 0 and recorded counted from 1: an answer
\* that scores is not the right one, over all the answers a player gives.
PointsExcludeRightAnswers ==
    \A u \in Users : Playing(u) => game[u].points + right[u] <= answered[u]

\* A player is judged by a question he was sent, although the copies go on
\* independently of each other and of the game that sent the first question
\* (unless that question has no text or is no question): this lasts until the
\* connection of a player breaks, whose failed send cuts off those behind him.
JudgedWasSent ==
    Range(players) \cap gone = {} =>
        \A u \in Users :
            LET i == game[u].index
            IN Playing(u) /\ InTable(i) /\ ~questions[i + 1].blank => i \in sent[u]

\* A player alone gives one answer, however many questions the room was made
\* for: with it the game is over for him, or his connection is broken and a
\* second answer kills the process.  Only -1 makes the assignment false.
LoneGameOneAnswer ==
    Len(players) = 1 /\ questionNumber # -1 => \A u \in Users : answered[u] <= 1

\* Between two requests no copy has an answer counted: none ever sees the
\* answers of two players in one turn.  The exception is the game of a player
\* alone whose connection broke before the message that ends it: he keeps it,
\* with his one answer and behind the last question.
CountersRestAtZero ==
    questionNumber # -1 =>
        \A u \in Users : Playing(u) /\ game[u].turnAnswers # 0 =>
            /\ players = <<u>>
            /\ u \in gone
            /\ game[u].index = questionNumber + 1
            /\ game[u].turnAnswers = 1

\* Game.h, beside _results: "username, point(correct answers)".
PointsAreCorrectAnswers ==
    \A u \in Users : Playing(u) => game[u].points = right[u]
=============================================================================
