---------------------------- MODULE GameProofs -----------------------------
(***************************************************************************)
(* Theorems about Game: the turns, for any roster, any number of questions *)
(* and any start value of the uninitialized index, and the draws (Q) that  *)
(* have made each question.                                                *)
(***************************************************************************)
EXTENDS Game, TLAPS

\* The number of questions is that of the room, unless there are none.
RightTable == questions \in [1..questionNumber -> Question] \cup {<<>>}

\* Who plays is on the list, and nobody plays or has answered before the start.
OnTheList ==
    \A u \in Users : /\ Playing(u) => u \in Range(players)
                     /\ original # None => /\ ~Playing(u)
                                           /\ answered[u] = 0
                                           /\ right[u] = 0

\* A player alone who still plays has not answered, or the end of his game
\* found his connection broken.
NotYetAnswered ==
    Len(players) = 1 /\ questionNumber # -1 =>
        \A u \in Users : Playing(u) => answered[u] = 0 \/ u \in gone

Inv == /\ TypeOK
       /\ RightTable
       /\ OnTheList
       /\ NotYetAnswered
       /\ PointsExcludeRightAnswers
       /\ JudgedWasSent
       /\ LoneGameOneAnswer
       /\ CountersRestAtZero
-----------------------------------------------------------------------------
LEMMA SeqType == ASSUME NEW S, NEW n \in Nat, NEW f \in [1..n -> S]
                 PROVE  f \in Seq(S)
OBVIOUS

LEMMA InitInv == Init => Inv
<1> SUFFICES ASSUME Init PROVE Inv
  OBVIOUS
<1>1. players \in Seq(Users)
  <2>1. PICK n \in 0..MaxPlayers : players \in [1..n -> Users]
    BY DEF Init
  <2> QED
    BY <2>1, SeqType
<1>2. questionNumber \in Int /\ questions \in [1..questionNumber -> Question] \cup {<<>>}
  BY GameAssumption DEF Init
<1>3. questions \in Seq(Question)
  <2>0. CASE questions = <<>>
    BY <2>0
  <2>1. CASE questionNumber \in Nat /\ questions # <<>>
    BY <1>2, <2>1, SeqType
  <2>2. CASE questionNumber \notin Nat /\ questions # <<>>
    <3>1. 1..questionNumber = 1..0
      BY <1>2, <2>2
    <3>2. questions \in [1..0 -> Question]
      BY <1>2, <2>2, <3>1
    <3> QED
      BY <3>2, SeqType
  <2> QED
    BY <2>0, <2>1, <2>2
<1>4. TypeOK
  BY <1>1, <1>2, <1>3, GameAssumption DEF Init, TypeOK
<1>5. \A u \in Users : ~Playing(u) /\ answered[u] = 0 /\ right[u] = 0
  BY DEF Init, Playing
<1> QED
  BY <1>2, <1>4, <1>5
     DEF Inv, RightTable, OnTheList, NotYetAnswered, PointsExcludeRightAnswers,
         JudgedWasSent, LoneGameOneAnswer, CountersRestAtZero

\* A copy is not NoGame, and has the fields it is built from.
LEMMA CopyIsGame ==
    ASSUME NEW i \in Int, NEW c \in Nat, NEW p \in Nat
    PROVE  /\ [index |-> i, turnAnswers |-> c, points |-> p] \in Copy
           /\ [index |-> i, turnAnswers |-> c, points |-> p] # NoGame
BY DEF Copy, NoGame

LEMMA PlayingType ==
    ASSUME TypeOK, NEW u \in Users, Playing(u)
    PROVE  /\ game[u] \in Copy
           /\ game[u].index \in Int /\ game[u].turnAnswers \in Nat
           /\ game[u].points \in Nat
BY DEF TypeOK, Playing, Copy

\* The sends up to the end are to all players.
LEMMA BeforeEnd == ASSUME TypeOK PROVE Before(End) = Range(players)
<1>1. DOMAIN players = 1..Len(players) /\ Len(players) \in Nat
  BY DEF TypeOK
<1>2. 1..(End - 1) = DOMAIN players
  BY <1>1 DEF End
<1> QED BY <1>2, Zenon DEF Before, Range

\* Where the sends stop.
LEMMA SendsEffect ==
    ASSUME TypeOK, NEW k, SendsReach(k)
    PROVE  /\ gone \subseteq gone' /\ gone' \subseteq Users
           /\ k # End => k \in DOMAIN players /\ players[k] \in gone'
<1>1. players \in Seq(Users) /\ Len(players) \in Nat /\ DOMAIN players = 1..Len(players)
      /\ gone \subseteq Users
  BY DEF TypeOK
<1>2. CASE k = End
  BY <1>1, <1>2 DEF SendsReach
<1>3. CASE k # End
  <2>1. k \in 1..Len(players) /\ gone' = gone \cup {players[k]}
    BY <1>1, <1>3 DEF SendsReach, End
  <2>2. players[k] \in Users
    BY <1>1, <2>1
  <2> QED
    BY <1>1, <2>1, <2>2
<1> QED
  BY <1>2, <1>3

\* The users to whom sends fail only become more, and those who have been
\* sent a question have connections.
LEMMA AskEffect ==
    ASSUME TypeOK, NEW i \in Int, NEW k, Ask(i, k)
    PROVE  /\ gone \subseteq gone' /\ gone' \subseteq Users
           /\ sent' \in [Users -> SUBSET Int]
           /\ \A v \in Users : sent[v] \subseteq sent'[v]
           /\ Range(players) \cap gone' = {} /\ InTable(i) /\ ~questions[i + 1].blank
                  => \A v \in Range(players) \cap Users : i \in sent'[v]
<1>1. PICK q \in QuestionsAt(i) :
        \/ q.blank /\ UNCHANGED <<sent, gone>>
        \/ /\ ~q.blank
           /\ SendsReach(k)
           /\ sent' = [u \in Users |-> IF u \in Before(k) THEN sent[u] \cup {i}
                                       ELSE sent[u]]
  BY DEF Ask
<1>2. CASE q.blank /\ UNCHANGED <<sent, gone>>
  BY <1>1, <1>2 DEF TypeOK, QuestionsAt
<1>3. CASE /\ SendsReach(k)
           /\ sent' = [u \in Users |-> IF u \in Before(k) THEN sent[u] \cup {i}
                                       ELSE sent[u]]
  <2>1. /\ gone \subseteq gone' /\ gone' \subseteq Users
        /\ k # End => Range(players) \cap gone' # {}
    BY <1>3, SendsEffect DEF Range
  <2>2. sent' \in [Users -> SUBSET Int] /\ \A v \in Users : sent[v] \subseteq sent'[v]
    BY <1>3 DEF TypeOK
  <2>3. k = End => \A v \in Range(players) \cap Users : i \in sent'[v]
    BY <1>3, BeforeEnd
  <2> QED
    BY <2>1, <2>2, <2>3
<1> QED
  BY <1>1, <1>2, <1>3

\* What every turn does: the copies of the others stay or go, the one of u
\* has the points p and, as it goes on, no answers counted and a question
\* that u was sent; when all answers have been counted it goes, or u's own
\* connection is broken.
LEMMA NextTurnEffect ==
    ASSUME Inv, NEW u \in Users, Playing(u), NEW n \in Nat, NEW p \in Nat, NEW k,
           NextTurn(u, n, p, k), UNCHANGED room,
           questionNumber # -1 => n \in {0, 1}
    PROVE  /\ game' \in [Users -> Copy \cup {NoGame}]
           /\ sent' \in [Users -> SUBSET Int]
           /\ gone \subseteq gone' /\ gone' \subseteq Users
           /\ \A v \in Users \ {u} : game'[v] = game[v] \/ game'[v] = NoGame
           /\ \A v \in Users : sent[v] \subseteq sent'[v]
           /\ game'[u] # NoGame => game'[u].points = p
           /\ game'[u] # NoGame /\ questionNumber # -1 =>
                  \/ /\ Len(players) # n
                     /\ game'[u].turnAnswers = 0
                  \/ /\ players = <<u>>
                     /\ u \in gone'
                     /\ game'[u].index = questionNumber + 1
                     /\ game'[u].turnAnswers = 1
           /\ game'[u] # NoGame /\ Range(players) \cap gone' = {}
                /\ InTable(game'[u].index) /\ ~questions[game'[u].index + 1].blank
                => game'[u].index \in sent'[u]
<1> USE DEF room
<1>0. /\ game \in [Users -> Copy \cup {NoGame}] /\ sent \in [Users -> SUBSET Int]
      /\ gone \in SUBSET Users /\ TypeOK
      /\ game[u].index \in Int /\ questionNumber \in Int /\ RightTable
      /\ u \in Range(players) /\ players \in Seq(Users) /\ questions \in Seq(Question)
  BY PlayingType DEF Inv, TypeOK, OnTheList
<1> DEFINE next == game[u].index + 1
           went == [index |-> next, turnAnswers |-> 0, points |-> p]
           stayed == [index |-> questionNumber + 1, turnAnswers |-> n, points |-> p]
<1>1. CASE /\ Len(players) # n
           /\ Ask(next, k)
           /\ game' = [game EXCEPT ![u] = went]
  <2>1. game' = [game EXCEPT ![u] = went]
    BY <1>1
  <2>2. went \in Copy /\ went # NoGame /\ next \in Int
    BY <1>0, CopyIsGame
  <2>3. game'[u] = went /\ \A v \in Users \ {u} : game'[v] = game[v]
    BY <1>0, <2>1
  <2>4. went.index = next /\ went.turnAnswers = 0 /\ went.points = p
    OBVIOUS
  <2>5. game' \in [Users -> Copy \cup {NoGame}]
    BY <1>0, <2>1, <2>2
  <2> HIDE DEF went, next
  <2>6. /\ gone \subseteq gone' /\ gone' \subseteq Users
        /\ sent' \in [Users -> SUBSET Int]
        /\ \A v \in Users : sent[v] \subseteq sent'[v]
        /\ Range(players) \cap gone' = {} /\ InTable(next) /\ ~questions[next + 1].blank
               => next \in sent'[u]
    BY <1>0, <1>1, <2>2, AskEffect
  <2> QED
    BY <1>1, <2>3, <2>4, <2>5, <2>6
<1>2. CASE /\ Len(players) = n
           /\ AssignedIndex(game[u].index)
           /\ SendsReach(k)
           /\ game' = Finished([game EXCEPT ![u] = stayed], k)
           /\ UNCHANGED sent
  <2>1. n = 1 /\ players = <<u>>
    <3>1. PICK j \in 1..Len(players) : players[j] = u
      BY <1>0 DEF Range
    <3>2. n \in {0, 1}
      BY <1>0, <1>2 DEF AssignedIndex
    <3>3. n = 1 /\ j = 1 /\ Len(players) = 1
      BY <1>0, <1>2, <3>1, <3>2
    <3> QED
      BY <1>0, <3>1, <3>3
  <2>2. /\ gone \subseteq gone' /\ gone' \subseteq Users
        /\ k \in {1, 2}
        /\ k = 1 => u \in gone'
        /\ k = 2 => u \in Before(k)
    <3>1. Len(players) = 1 /\ End = 2 /\ players[1] = u
      BY <2>1 DEF End
    <3>2. k \in {1, 2}
      BY <1>2, <3>1 DEF SendsReach
    <3>3. u \in Before(2)
      BY <3>1 DEF Before
    <3> QED
      BY <1>0, <1>2, <3>1, <3>2, <3>3, SendsEffect
  <2>3. stayed \in Copy /\ stayed.index = questionNumber + 1 /\ stayed.turnAnswers = 1
        /\ stayed.points = p
    BY <1>0, <2>1, CopyIsGame DEF Copy
  <2> HIDE DEF stayed
  <2>4. /\ game' = [v \in Users |-> IF v \in Before(k) THEN NoGame
                                    ELSE [game EXCEPT ![u] = stayed][v]]
    BY <1>2 DEF Finished
  <2>5. game' \in [Users -> Copy \cup {NoGame}]
    BY <1>0, <2>3, <2>4
  <2>6. \A v \in Users \ {u} : game'[v] = game[v] \/ game'[v] = NoGame
    BY <1>0, <2>4
  <2>7. game'[u] # NoGame => k = 1 /\ game'[u] = stayed
    BY <1>0, <2>2, <2>4
  <2>8. k = 1 => Range(players) \cap gone' # {}
    BY <1>0, <2>2
  <2> QED
    BY <1>0, <1>2, <2>1, <2>2, <2>3, <2>5, <2>6, <2>7, <2>8
<1>3. CASE /\ ~AssignedIndex(game[u].index)
           /\ game' = [game EXCEPT ![u] = stayed]
           /\ UNCHANGED <<sent, gone>>
  <2>1. questionNumber = -1
    BY <1>0, <1>3 DEF AssignedIndex
  <2>2. stayed \in Copy /\ stayed.index = 0 /\ stayed.points = p
    BY <2>1, CopyIsGame DEF Copy
  <2>3. ~InTable(0)
    BY <1>0, <2>1 DEF RightTable, InTable
  <2>4. game'[u] = stayed /\ \A v \in Users \ {u} : game'[v] = game[v]
    BY <1>0, <1>3
  <2>5. game' \in [Users -> Copy \cup {NoGame}]
    BY <1>0, <1>3, <2>2
  <2> HIDE DEF stayed
  <2> QED
    BY <1>0, <1>3, <2>1, <2>2, <2>3, <2>4, <2>5
<1> QED
  BY <1>1, <1>2, <1>3 DEF NextTurn, CountForNext

\* Steps in which the process dies or a connection breaks, and stutters, leave
\* what Inv speaks of.
LEMMA FaultInv ==
    ASSUME Inv, fault' \in Deaths \cup {None}, gone \subseteq gone', gone' \subseteq Users,
           UNCHANGED <<room, original, game, turns, sent, answered, right>>
    PROVE  Inv'
<1>1. TypeOK' /\ RightTable' /\ OnTheList'
  BY DEF Inv, TypeOK, RightTable, OnTheList, Playing, room
<1>2. NotYetAnswered' /\ LoneGameOneAnswer' /\ PointsExcludeRightAnswers'
  BY DEF Inv, NotYetAnswered, LoneGameOneAnswer, PointsExcludeRightAnswers, Playing, room
<1>3. CountersRestAtZero'
  BY DEF Inv, CountersRestAtZero, Playing, room
<1>4. JudgedWasSent'
  BY DEF Inv, JudgedWasSent, Playing, InTable, room
<1> QED
  BY <1>1, <1>2, <1>3, <1>4 DEF Inv

LEMMA StartInv == ASSUME Inv, Start PROVE Inv'
<1>1. CASE Fault("sendQuestionToAllUsers")
  BY <1>1, FaultInv DEF Fault, Deaths, Inv, TypeOK
<1>2. CASE /\ Ask(original, End)
           /\ game' = [u \in Users |->
                          IF u \in Range(players)
                          THEN [index |-> CopiedIndex(original),
                                turnAnswers |-> 0, points |-> 0]
                          ELSE NoGame]
           /\ original' = None
           /\ UNCHANGED <<room, turns, answered, right, fault>>
  <2> DEFINE first == [index |-> original, turnAnswers |-> 0, points |-> 0]
  <2>1. /\ game' = [u \in Users |-> IF u \in Range(players) THEN first ELSE NoGame]
        /\ original' = None /\ UNCHANGED <<room, turns, answered, right, fault>>
    BY <1>2 DEF CopiedIndex
  <2>2. /\ TypeOK /\ original \in Int /\ original # None
        /\ \A u \in Users : answered[u] = 0 /\ right[u] = 0
    BY DEF Start, Inv, TypeOK, OnTheList
  <2>3. first \in Copy /\ first # NoGame
    BY <2>2, CopyIsGame
  <2>4. first.index = original /\ first.turnAnswers = 0 /\ first.points = 0
    OBVIOUS
  <2>5. /\ gone \subseteq gone' /\ gone' \subseteq Users
        /\ sent' \in [Users -> SUBSET Int]
        /\ Range(players) \cap gone' = {} /\ InTable(original)
             /\ ~questions[original + 1].blank
             => \A v \in Range(players) \cap Users : original \in sent'[v]
    BY <1>2, <2>2, AskEffect
  <2> HIDE DEF first
  <2>6. \A u \in Users : /\ u \in Range(players) => game'[u] = first
                         /\ u \notin Range(players) => game'[u] = NoGame
    BY <2>1
  <2>7. TypeOK'
    <3>1. game' \in [Users -> Copy \cup {NoGame}]
      BY <2>1, <2>3
    <3> QED
      BY <2>1, <2>5, <3>1 DEF Inv, TypeOK, room
  <2>8. RightTable'
    BY <2>1 DEF Inv, RightTable, room
  <2>9. OnTheList' /\ NotYetAnswered'
    BY <2>1, <2>2, <2>6 DEF OnTheList, NotYetAnswered, Playing, room
  <2>10. PointsExcludeRightAnswers' /\ LoneGameOneAnswer' /\ CountersRestAtZero'
    BY <2>1, <2>2, <2>4, <2>6
       DEF PointsExcludeRightAnswers, LoneGameOneAnswer, CountersRestAtZero,
           Playing, room
  <2>11. JudgedWasSent'
    BY <2>1, <2>4, <2>5, <2>6 DEF JudgedWasSent, Playing, InTable, room
  <2> QED
    BY <2>7, <2>8, <2>9, <2>10, <2>11 DEF Inv
<1> QED
  BY <1>1, <1>2 DEF Start

\* A turn in which u has given d answers, e of them right and s scoring.
LEMMA TurnInv ==
    ASSUME Inv, NEW u \in Users, Playing(u),
           NEW d \in {0, 1}, NEW e \in {0, 1}, NEW s \in {0, 1}, s + e <= d, NEW k,
           d = 1 => u \notin gone,
           NextTurn(u, game[u].turnAnswers + d, game[u].points + s, k),
           right' = [right EXCEPT ![u] = @ + e],
           answered' = [answered EXCEPT ![u] = @ + d],
           turns' = [turns EXCEPT ![u] = @ + 1],
           UNCHANGED <<room, original, fault>>
    PROVE  Inv'
<1> DEFINE n == game[u].turnAnswers + d
           p == game[u].points + s
<1>1. /\ game[u].turnAnswers \in Nat /\ game[u].points \in Nat
      /\ n \in Nat /\ p \in Nat
  BY PlayingType DEF Inv
<1>2. questionNumber # -1 => \/ game[u].turnAnswers = 0 /\ n = d
                             \/ d = 0 /\ n = 1 /\ u \in gone
  BY <1>1 DEF Inv, CountersRestAtZero
<1>3. /\ game' \in [Users -> Copy \cup {NoGame}]
      /\ sent' \in [Users -> SUBSET Int]
      /\ gone \subseteq gone' /\ gone' \subseteq Users
      /\ \A v \in Users \ {u} : game'[v] = game[v] \/ game'[v] = NoGame
      /\ \A v \in Users : sent[v] \subseteq sent'[v]
      /\ game'[u] # NoGame => game'[u].points = p
      /\ game'[u] # NoGame /\ questionNumber # -1 =>
             \/ /\ Len(players) # n
                /\ game'[u].turnAnswers = 0
             \/ /\ players = <<u>>
                /\ u \in gone'
                /\ game'[u].index = questionNumber + 1
                /\ game'[u].turnAnswers = 1
      /\ game'[u] # NoGame /\ Range(players) \cap gone' = {}
           /\ InTable(game'[u].index) /\ ~questions[game'[u].index + 1].blank
           => game'[u].index \in sent'[u]
  BY <1>1, <1>2, NextTurnEffect
<1>4. /\ answered \in [Users -> Nat] /\ right \in [Users -> Nat]
      /\ turns \in [Users -> Nat]
  BY DEF Inv, TypeOK
<1>5. /\ answered'[u] = answered[u] + d /\ right'[u] = right[u] + e
      /\ \A v \in Users \ {u} : answered'[v] = answered[v] /\ right'[v] = right[v]
      /\ answered' \in [Users -> Nat] /\ right' \in [Users -> Nat]
      /\ turns' \in [Users -> Nat]
  BY <1>4
<1>6. UNCHANGED <<players, questionNumber, questions, original, fault>>
  BY DEF room
<1> HIDE DEF n, p
<1>7. TypeOK'
  BY <1>3, <1>5, <1>6 DEF Inv, TypeOK
<1>8. RightTable'
  BY <1>6 DEF Inv, RightTable
<1>9. OnTheList'
  <2>1. original = None /\ u \in Range(players)
    BY DEF Inv, OnTheList
  <2> QED
    BY <2>1, <1>3, <1>6 DEF Inv, OnTheList, Playing
<1>10. PointsExcludeRightAnswers'
  <2>1. ASSUME NEW v \in Users, game'[v] # NoGame
        PROVE  game'[v].points + right'[v] <= answered'[v]
    <3>1. CASE v = u
      <4>1. game[u].points + right[u] <= answered[u]
        BY DEF Inv, PointsExcludeRightAnswers
      <4>2. game'[u].points = game[u].points + s
        BY <1>3, <2>1, <3>1 DEF p
      <4>3. answered[u] \in Nat /\ right[u] \in Nat
        BY <1>4
      <4> QED
        BY <1>1, <1>5, <3>1, <4>1, <4>2, <4>3
    <3>2. CASE v # u
      BY <1>3, <1>5, <2>1, <3>2 DEF Inv, PointsExcludeRightAnswers, Playing
    <3> QED
      BY <3>1, <3>2
  <2> QED
    BY <2>1 DEF PointsExcludeRightAnswers, Playing
<1>11. JudgedWasSent'
  <2> SUFFICES ASSUME Range(players) \cap gone' = {}, NEW v \in Users,
                      game'[v] # NoGame, InTable(game'[v].index),
                      ~questions[game'[v].index + 1].blank
               PROVE  game'[v].index \in sent'[v]
    BY <1>6 DEF JudgedWasSent, Playing, InTable
  <2>1. CASE v = u
    BY <1>3, <2>1
  <2>2. CASE v # u
    <3>1. game'[v] = game[v] /\ sent[v] \subseteq sent'[v]
      BY <1>3, <2>2
    <3>2. Range(players) \cap gone = {}
      BY <1>3
    <3> QED
      BY <3>1, <3>2 DEF Inv, JudgedWasSent, Playing
  <2> QED
    BY <2>1, <2>2
<1>12. CountersRestAtZero'
  <2> SUFFICES ASSUME questionNumber # -1, NEW v \in Users, game'[v] # NoGame,
                      game'[v].turnAnswers # 0
               PROVE  /\ players = <<v>>
                      /\ v \in gone'
                      /\ game'[v].index = questionNumber + 1
                      /\ game'[v].turnAnswers = 1
    BY <1>6 DEF CountersRestAtZero, Playing
  <2>1. CASE v = u
    BY <1>3, <2>1
  <2>2. CASE v # u
    <3>1. game'[v] = game[v] /\ gone \subseteq gone'
      BY <1>3, <2>2
    <3> QED
      BY <3>1 DEF Inv, CountersRestAtZero, Playing
  <2> QED
    BY <2>1, <2>2
<1>13. NotYetAnswered' /\ LoneGameOneAnswer'
  <2> SUFFICES ASSUME Len(players) = 1, questionNumber # -1
               PROVE  /\ \A v \in Users : game'[v] # NoGame =>
                                            answered'[v] = 0 \/ v \in gone'
                      /\ \A v \in Users : answered'[v] <= 1
    BY <1>6 DEF NotYetAnswered, LoneGameOneAnswer, Playing
  <2>1. \A v \in Users \ {u} : /\ game'[v] # NoGame => answered'[v] = 0 \/ v \in gone'
                               /\ answered'[v] <= 1
    BY <1>3, <1>5 DEF Inv, NotYetAnswered, LoneGameOneAnswer, Playing
  <2>2. CASE d = 0
    BY <1>3, <1>4, <1>5, <2>1, <2>2 DEF Inv, NotYetAnswered, LoneGameOneAnswer
  <2>3. CASE d = 1
    <3>1. answered[u] = 0 /\ n = 1
      BY <1>2, <2>3 DEF Inv, NotYetAnswered
    <3>2. game'[u] # NoGame => u \in gone'
      BY <1>3, <3>1
    <3> QED
      BY <1>5, <2>1, <2>3, <3>1, <3>2
  <2> QED
    BY <2>2, <2>3
<1> QED
  BY <1>7, <1>8, <1>9, <1>10, <1>11, <1>12, <1>13 DEF Inv

\* A turn that kills the process.
LEMMA DiesInv ==
    ASSUME Inv, \E f \in Deaths : Fault(f)
    PROVE  Inv'
BY FaultInv DEF Fault, Inv, TypeOK

LEMMA AnswerInv ==
    ASSUME Inv, NEW u \in Users, NEW a \in AnswerNumbers, Answer(u, a) PROVE Inv'
<1> DEFINE counted == game[u].turnAnswers + 1
<1>1. Playing(u)
  BY DEF Answer
<1>2. CASE /\ u \notin gone
           /\ \E q \in QuestionsAt(game[u].index), k \in 1..End :
                 /\ NextTurn(u, counted,
                             game[u].points + (IF Scores(a, q) THEN 1 ELSE 0), k)
                 /\ right' = [right EXCEPT ![u] = @ + (IF NamesRightAnswer(a, q) THEN 1 ELSE 0)]
           /\ answered' = [answered EXCEPT ![u] = @ + 1]
           /\ turns' = [turns EXCEPT ![u] = @ + 1]
           /\ UNCHANGED <<room, original, fault>>
  <2>1. PICK q \in QuestionsAt(game[u].index), k \in 1..End :
             /\ NextTurn(u, counted,
                         game[u].points + (IF Scores(a, q) THEN 1 ELSE 0), k)
             /\ right' = [right EXCEPT ![u] = @ + (IF NamesRightAnswer(a, q) THEN 1 ELSE 0)]
    BY <1>2
  <2> DEFINE s == IF Scores(a, q) THEN 1 ELSE 0
             e == IF NamesRightAnswer(a, q) THEN 1 ELSE 0
  <2>2. a \in Nat
    BY GameAssumption
  <2>3. s \in {0, 1} /\ e \in {0, 1} /\ s + e <= 1
    BY <2>2 DEF Scores, NamesRightAnswer
  <2> HIDE DEF s, e
  <2> QED
    BY <1>1, <1>2, <2>1, <2>3, TurnInv DEF s, e
<1>3. CASE (\E f \in Deaths : Fault(f)) \/ NextTurnDies(u, counted)
  BY <1>3, DiesInv DEF NextTurnDies, Deaths
<1> QED
  BY <1>2, <1>3 DEF Answer, Deaths

LEMMA LeaveInv == ASSUME Inv, NEW u \in Users, Leave(u) PROVE Inv'
<1>1. CASE /\ \E k \in 1..End : NextTurn(u, game[u].turnAnswers, game[u].points, k)
           /\ turns' = [turns EXCEPT ![u] = @ + 1]
           /\ UNCHANGED <<room, original, answered, right, fault>>
  <2>1. Playing(u) /\ game[u].turnAnswers + 0 = game[u].turnAnswers
        /\ game[u].points + 0 = game[u].points
    BY PlayingType DEF Inv, Leave
  <2>2. /\ right' = [right EXCEPT ![u] = @ + 0]
        /\ answered' = [answered EXCEPT ![u] = @ + 0]
    BY <1>1 DEF Inv, TypeOK
  <2>3. PICK k : NextTurn(u, game[u].turnAnswers + 0, game[u].points + 0, k)
    BY <1>1, <2>1, Zenon
  <2>4. 0 \in {0, 1} /\ 0 + 0 <= 0 /\ ~(0 = 1)
    OBVIOUS
  <2>5. UNCHANGED <<room, original, fault>>
    BY <1>1
  <2> QED
    BY <1>1, <2>1, <2>2, <2>3, <2>4, <2>5, TurnInv, Zenon
<1>2. CASE NextTurnDies(u, game[u].turnAnswers)
  BY <1>2, DiesInv DEF NextTurnDies, Deaths
<1> QED
  BY <1>1, <1>2 DEF Leave

LEMMA StepInv == Inv /\ [Next]_vars => Inv'
<1> SUFFICES ASSUME Inv, [Next]_vars PROVE Inv'
  OBVIOUS
<1>1. CASE UNCHANGED vars
  <2>1. fault' \in Deaths \cup {None} /\ gone' \subseteq Users
    BY <1>1 DEF vars, Inv, TypeOK
  <2> QED
    BY <1>1, <2>1, FaultInv DEF vars
<1>2. ASSUME NEW u \in Users, PeerGone(u) PROVE Inv'
  <2>1. fault' \in Deaths \cup {None} /\ gone \subseteq gone' /\ gone' \subseteq Users
    BY <1>2 DEF PeerGone, Inv, TypeOK
  <2> QED
    BY <1>2, <2>1, FaultInv DEF PeerGone
<1> QED
  BY <1>1, <1>2, StartInv, AnswerInv, LeaveInv DEF Next

THEOREM AlwaysInv == Spec => []Inv
BY InitInv, StepInv, PTL DEF Spec
-----------------------------------------------------------------------------
\* Type correctness.
THEOREM GameTypeCorrect == Spec => []TypeOK
<1>1. Inv => TypeOK
  BY DEF Inv
<1> QED
  BY <1>1, AlwaysInv, PTL

\* Points and right answers of a player together are at most his answers:
\* over any game, no answer that scores is the right one.
THEOREM PointsAreNotRightAnswers == Spec => []PointsExcludeRightAnswers
<1>1. Inv => PointsExcludeRightAnswers
  BY DEF Inv
<1> QED
  BY <1>1, AlwaysInv, PTL

\* A player is only judged by questions he was sent.
THEOREM PlayersAreJudgedBySentQuestions == Spec => []JudgedWasSent
<1>1. Inv => JudgedWasSent
  BY DEF Inv
<1> QED
  BY <1>1, AlwaysInv, PTL

\* A game for one ends with the first answer, for any number of questions.
THEOREM LoneGamesEndAtOnce == Spec => []LoneGameOneAnswer
<1>1. Inv => LoneGameOneAnswer
  BY DEF Inv
<1> QED
  BY <1>1, AlwaysInv, PTL

\* No copy of a game ever rests with an answer counted.
THEOREM CountersRest == Spec => []CountersRestAtZero
<1>1. Inv => CountersRestAtZero
  BY DEF Inv
<1> QED
  BY <1>1, AlwaysInv, PTL
-----------------------------------------------------------------------------
\* The answers before turn are where their index says, and nothing else is on
\* the board.
Placed ==
    /\ \A a \in 1..(turn - 1) : index[a] \in 0..3 /\ answers[index[a]] = a
    /\ \A p \in 0..3 : answers[p] # Q!Blank =>
                           answers[p] \in 1..(turn - 1) /\ index[answers[p]] = p

Drawn == Q!TypeOK /\ Placed
-----------------------------------------------------------------------------
LEMMA InitDrawn == Q!Init => Drawn
BY DEF Q!Init, Drawn, Q!TypeOK, Placed, Q!Answers, Q!NotDrawn, Q!Blank

LEMMA RedrawDrawn == ASSUME Drawn, NEW p \in Q!Places, Q!Redraw(p) PROVE Drawn'
BY DEF Drawn, Q!TypeOK, Placed, Q!Redraw, Q!Answers, Q!Places, Q!Blank

\* A free draw is a place nothing stands on.
LEMMA FreeIsBlank ==
    ASSUME Drawn, NEW p \in Q!Places, Q!Place(p) PROVE answers[p] = Q!Blank
BY DEF Drawn, Q!TypeOK, Placed, Q!Place, Q!Taken, Q!Answers, Q!Places, Q!Blank

LEMMA PlaceDrawn == ASSUME Drawn, NEW p \in Q!Places, Q!Place(p) PROVE Drawn'
<1>1. Q!TypeOK'
  BY DEF Drawn, Q!TypeOK, Q!Place, Q!Answers, Q!Places
<1>2. ASSUME NEW a \in 1..(turn' - 1)
      PROVE  index'[a] \in 0..3 /\ answers'[index'[a]] = a
  BY <1>2 DEF Drawn, Q!TypeOK, Placed, Q!Place, Q!Taken, Q!Answers, Q!Places
<1>3. ASSUME NEW q \in 0..3, answers'[q] # Q!Blank
      PROVE  answers'[q] \in 1..(turn' - 1) /\ index'[answers'[q]] = q
  BY <1>3 DEF Drawn, Q!TypeOK, Placed, Q!Place, Q!Answers, Q!Places, Q!Blank
<1> QED
  BY <1>1, <1>2, <1>3 DEF Drawn, Placed

LEMMA StepDrawn == Drawn /\ [Q!Next]_Q!vars => Drawn'
<1> SUFFICES ASSUME Drawn, [Q!Next]_Q!vars PROVE Drawn'
  OBVIOUS
<1>1. ASSUME NEW p \in Q!Places, Q!Draw(p) PROVE Drawn'
  BY <1>1, RedrawDrawn, PlaceDrawn DEF Q!Draw
<1>2. CASE UNCHANGED Q!vars
  BY <1>2 DEF Drawn, Q!TypeOK, Placed, Q!vars
<1> QED
  BY <1>1, <1>2 DEF Q!Next

THEOREM AlwaysDrawn == Q!Spec => []Drawn
BY InitDrawn, StepDrawn, PTL DEF Q!Spec
-----------------------------------------------------------------------------
\* Type correctness: no index leaves the array.
THEOREM QuestionTypeCorrect == Q!Spec => []Q!TypeOK
<1>1. Drawn => Q!TypeOK
  BY DEF Drawn
<1> QED
  BY <1>1, AlwaysDrawn, PTL

\* The constructor leaves no answer blank: four answers are on four places, no
\* two on the same.
THEOREM EveryPlaceFilled == Q!Spec => []Q!NoneBlank
<1>1. ASSUME Drawn PROVE Q!NoneBlank
  <2> SUFFICES ASSUME Q!Done, NEW p \in 0..3 PROVE answers[p] # Q!Blank
    BY DEF Q!NoneBlank
  <2>1. /\ index[1] \in 0..3 /\ answers[index[1]] = 1
        /\ index[2] \in 0..3 /\ answers[index[2]] = 2
        /\ index[3] \in 0..3 /\ answers[index[3]] = 3
        /\ index[4] \in 0..3 /\ answers[index[4]] = 4
    BY <1>1 DEF Drawn, Placed, Q!Done
  <2>2. p = index[1] \/ p = index[2] \/ p = index[3] \/ p = index[4]
    BY <2>1
  <2> QED
    BY <2>1, <2>2 DEF Q!Blank
<1> QED
  BY <1>1, AlwaysDrawn, PTL
-----------------------------------------------------------------------------
\* A draw of a free place puts the answer whose turn it is on the board, and
\* marks the place if it is the right one.
LEMMA PlacePuts ==
    ASSUME Drawn, NEW p \in Q!Places, Q!Place(p) PROVE Q!Board!Next
<1>1. turn \in Q!Answers /\ p \in 0..3
  BY DEF Q!Place, Q!Places
<1>2. turn \notin Q!Board!OnBoard
  BY <1>1 DEF Drawn, Q!TypeOK, Placed, Q!Board!OnBoard, Q!Answers, Q!Blank
<1>3. Q!CorrectAnswerIndex' = IF turn = 1 THEN p ELSE Q!CorrectAnswerIndex
  BY <1>1 DEF Drawn, Q!TypeOK, Q!Place, Q!CorrectAnswerIndex, Q!Answers
<1>4. Q!Board!Put(turn, p)
  BY <1>1, <1>2, <1>3, FreeIsBlank DEF Q!Board!Put, Q!Place
<1> QED
  BY <1>1, <1>4 DEF Q!Board!Next

\* A failed draw leaves the board and the mark alone: the right answer is drawn
\* first, so only a wrong one draws again.
LEMMA RedrawStutters ==
    ASSUME Drawn, NEW p \in Q!Places, Q!Redraw(p)
    PROVE  UNCHANGED <<answers, Q!CorrectAnswerIndex>>
BY DEF Drawn, Q!TypeOK, Q!Redraw, Q!Taken, Q!CorrectAnswerIndex, Q!Answers

\* The draws implement the board.
THEOREM ShuffleImplementsBoard == Q!Spec => ImplementsBoard
<1>1. Q!Init => Q!Board!Init
  BY DEF Q!Init, Q!Board!Init, Q!CorrectAnswerIndex, Q!Answers
<1>2. ASSUME Drawn, [Q!Next]_Q!vars
      PROVE  [Q!Board!Next]_<<answers, Q!CorrectAnswerIndex>>
  BY <1>2, PlacePuts, RedrawStutters
  DEF Q!Next, Q!Draw, Q!vars, Q!CorrectAnswerIndex
<1> QED
  BY <1>1, <1>2, AlwaysDrawn, PTL
  DEF Q!Spec, ImplementsBoard, Q!ImplementsBoard, Q!Board!Spec
=============================================================================
