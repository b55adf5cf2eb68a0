-------------------------------- MODULE Game --------------------------------
(***************************************************************************)
(* A game with the questions it asks: the turns of its copies (GameTurns)  *)
(* and the random places of a question's answers (QuestionShuffle), which  *)
(* are drawn for each question before the game starts.  The two share      *)
(* nothing but the place of the right answer, which GameTurns takes from   *)
(* any of the four.                                                        *)
(***************************************************************************)
EXTENDS GameTurns

VARIABLES index, answers, turn

Q == INSTANCE QuestionShuffle

\* The draws put every answer on the board once and mark the right one.
ImplementsBoard == Q!ImplementsBoard
=============================================================================
