----------------------------- MODULE MCDatabase -----------------------------
(***************************************************************************)
(* Small instances of the two views of class DataBase in one run.  part    *)
(* says which of them a behaviour is of, the other one stays as it starts. *)
(***************************************************************************)
EXTENDS DataBase

CONSTANTS h1, h2, s1, s2, erez, assaf

\* Two connections, for the two constructors, and two statements: one would do
\* as long as every statement is finalized.
MCHandles == {h1, h2}
MCStatements == {s1, s2}

MCNames == {erez, assaf}
MCQuestionNumbers == {-1, 2, 3}
MCGameIds == {7}

\* Two questions that share a wrong answer.
MCQuestionTable ==
    << [question |-> "q1", correct_ans |-> "a", ans2 |-> "b", ans3 |-> "c", ans4 |-> "d"],
       [question |-> "q2", correct_ans |-> "b", ans2 |-> "b", ans3 |-> "a", ans4 |-> "e"] >>

\* A right answer of an earlier run of the server.
MCFirstAnswers ==
    << [game |-> 1, username |-> erez, question |-> 1, correct |-> TRUE] >>

VARIABLE part

cache == <<results, answersTable, usersTable, gameID, asked, scores, login,
           queries, steps, queryFault>>

MCInit == /\ part \in {"handles", "queries"}
          /\ Init
          /\ Cache!Init
          /\ part = "handles" => \A u \in Names : usersTable[u] = 0

MCNext == \/ part = "handles" /\ Next /\ UNCHANGED <<part, cache>>
          \/ part = "queries" /\ Cache!Next /\ UNCHANGED <<part, vars>>

MCSpec == MCInit /\ [][MCNext]_<<part, vars, cache>>
-----------------------------------------------------------------------------
\* A refused sign-in matched no user.
RefusedMeansWrongDetails == Cache!RefusedMeansWrongDetails
=============================================================================
