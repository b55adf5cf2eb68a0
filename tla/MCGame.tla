------------------------------- MODULE MCGame -------------------------------
(***************************************************************************)
(* Small instances of the two parts of Game in one run: part says which of *)
(* them a behaviour is of, the other one stays as it starts.               *)
(***************************************************************************)
EXTENDS Game, TLC

CONSTANTS u1, u2

MCUsers == {u1, u2}
MCStartIndexes == {-1, 0}
MCQuestionCounts == {-1, 2}

\* 0 may read before the answers, 1 may be right or wrong; 5, which means that
\* the time was over, is like a 1 that is wrong.
MCAnswerNumbers == {0, 1}

\* Rooms and answers for which every question asked is one of the table.
MCTwoQuestions == {2}
MCFirstIndex == {0}
MCFourthAnswer == {4}

VARIABLE part

shuffle == <<index, answers, turn>>

GameInit == part = "game" /\ Init /\ Q!Init

\* One start of the game stands for all while a question is made.
QuestionInit == /\ part = "question"
                /\ Q!Init
                /\ Init
                /\ players = <<>>
                /\ questionNumber = -1
                /\ original = 0

\* No answer number names or hits the places 2 and 3: one of them is enough.
MCInit == \/ GameInit /\ \A i \in DOMAIN questions : questions[i].correct # 3
          \/ QuestionInit

GameStep == part = "game" /\ Next /\ UNCHANGED <<part, shuffle>>

Draw(p) == part = "question" /\ Q!Draw(p) /\ UNCHANGED <<part, vars>>

MCNext == GameStep \/ \E p \in Q!Places : Draw(p)

\* rand() % 4 has every value again and again.
Fairness == \A p \in Q!Places : WF_<<part, vars, shuffle>>(Draw(p))

MCSpec == MCInit /\ [][MCNext]_<<part, vars, shuffle>> /\ Fairness

\* Two players of one game that has its questions.
PairSpec == /\ GameInit /\ players = <<u1, u2>> /\ questions # <<>>
            /\ [][MCNext]_<<part, vars, shuffle>>
-----------------------------------------------------------------------------
\* The three loops of the constructor end, however many draws fail, and then
\* no answer is blank.
ConstructorReturns ==
    part = "question" ~> Q!Done /\ Q!NoneBlank
=============================================================================
