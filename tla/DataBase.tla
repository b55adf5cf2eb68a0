------------------------------ MODULE DataBase ------------------------------
(***************************************************************************)
(* Class DataBase as a whole: its connections and statements (DbHandles)   *)
(* and its queries (ResultCache).  Neither view reads the other's          *)
(* variables: whether a statement runs is open in both.                    *)
(***************************************************************************)
EXTENDS DbHandles, Integers, Sequences

CONSTANTS Names, QuestionTable, FirstAnswers, QuestionNumbers, GameIds, MaxQueries,
          NoText        \* as in ResultCache

VARIABLES results, answersTable, usersTable, gameID, asked, scores, login, queries,
          steps, queryFault

Cache == INSTANCE ResultCache WITH None <- NoText, fault <- queryFault

ASSUME QueryAssumption == Cache!DataBaseAssumption

DataBaseSpec == Spec /\ Cache!Spec
-----------------------------------------------------------------------------
\* The types of both views.
TypesOK == TypeOK /\ Cache!TypeOK

\* Every game is asked the rows of the table in their order.
QuestionOfGame == Cache!QuestionOfGame

\* No score is too low, and the first list is exact.
ScoresNeverTooLow == Cache!ScoresNeverTooLow

\* A user's answer to a question is recorded once for all games.
OneAnswerForAllGames == Cache!OneAnswerForAllGames
=============================================================================
