-------------------------- MODULE QuestionShuffle --------------------------
(***************************************************************************)
(* Question::Question: the right answer and the three wrong ones are put   *)
(* on random places of _answers.  A place is drawn by rand() % 4 until it  *)
(* is none of those drawn for the answers before.  One action per draw.    *)
(*                                                                         *)
(* An answer stands for itself as the number of the constructor's argument *)
(* that gives it: 1 is the right one.  A definition marked "Slip" is a     *)
(* wrong variant of the one after it; no action uses it.                   *)
(***************************************************************************)
EXTENDS Integers

Answers == 1..4

\* The string of an element of _answers that has not been assigned.
Blank == 0

\* Slip: rand() % 3.
ThreePlaces == 0..2

\* What rand() % 4 can be.
Places == 0..3

NotDrawn == -1

VARIABLES
    index,      \* correctAnswerIndex, index2, index3, index4
    answers,    \* _answers
    turn        \* the answer whose place is drawn, 5 when the constructor is done

vars == <<index, answers, turn>>

TypeOK == /\ index \in [Answers -> -1..3]
          /\ answers \in [0..3 -> Answers \cup {Blank}]
          /\ turn \in 1..5

Init == /\ index = [a \in Answers |-> NotDrawn]
        /\ answers = [p \in 0..3 |-> Blank]
        /\ turn = 1

\* Slip: the comparison with the index of the right answer is missing.
TakenByWrong(p) == \E a \in 2..(turn - 1) : index[a] = p

\* The conditions of the while loops: p belongs to an answer before this one.
Taken(p) == \E a \in 1..(turn - 1) : index[a] = p

\* A draw of a taken place: the loop draws again.
Redraw(p) == /\ turn \in Answers
             /\ Taken(p)
             /\ index' = [index EXCEPT ![turn] = p]
             /\ UNCHANGED <<answers, turn>>

\* A draw of a free place: the answer is written there.
Place(p) == /\ turn \in Answers
            /\ ~Taken(p)
            /\ index' = [index EXCEPT ![turn] = p]
            /\ answers' = [answers EXCEPT ![p] = turn]
            /\ turn' = turn + 1

Draw(p) == Redraw(p) \/ Place(p)

Next == \E p \in Places : Draw(p)

Spec == Init /\ [][Next]_vars
-----------------------------------------------------------------------------
\* The constructor has returned: no while loop is drawing any more.
Done == turn = 5

\* getCorrectAnswerIndex().
CorrectAnswerIndex == index[1]

Board == INSTANCE AnswerBoard WITH
            Answers <- Answers, Right <- 1, Places <- 0..3,
            Nobody <- Blank, Unmarked <- NotDrawn,
            board <- answers, marked <- CorrectAnswerIndex

\* Whatever is drawn, the draws implement the board: no answer is written over
\* another, none twice, and the index that answers are judged by is the place
\* of the right answer for ever.
ImplementsBoard == Board!Spec

\* When the constructor returns no answer is blank: with ImplementsBoard, all
\* four are on the board.
NoneBlank == Done => \A p \in 0..3 : answers[p] # Blank
=============================================================================
