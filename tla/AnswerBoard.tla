---------------------------- MODULE AnswerBoard ----------------------------
(***************************************************************************)
(* What a player relies on about a question: every answer is put on an     *)
(* empty place of the board, once and for all, and the place marked as the *)
(* right one is the place of the right answer.                             *)
(***************************************************************************)
CONSTANTS
    Answers,    \* the answers of the question
    Right,      \* the right one
    Places,     \* the places on the board
    Nobody,     \* stands on an empty place
    Unmarked    \* no place is marked

VARIABLES board, marked

OnBoard == {a \in Answers : \E p \in Places : board[p] = a}

Init == /\ board = [p \in Places |-> Nobody]
        /\ marked = Unmarked

Put(a, p) == /\ a \in Answers \ OnBoard
             /\ board[p] = Nobody
             /\ board' = [board EXCEPT ![p] = a]
             /\ marked' = IF a = Right THEN p ELSE marked

Next == \E a \in Answers, p \in Places : Put(a, p)

Spec == Init /\ [][Next]_<<board, marked>>
=============================================================================
