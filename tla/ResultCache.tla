---------------------------- MODULE ResultCache ----------------------------
(***************************************************************************)
(* The queries of class DataBase.  The callbacks of sqlite3_exec append    *)
(* every row of a result to the columns of the global map `results`, which *)
(* nothing ever clears, and initQuestion and getBestScores read from those *)
(* columns, not from the result of their own query.  The tables are those  *)
(* of trivia.db.                                                           *)
(*                                                                         *)
(* Names, passwords and answers go into the SQL text without quotes.       *)
(* Whether such a statement runs depends on the text and is left open, and *)
(* any select may fail after some of its rows have gone to the callback.   *)
(* A definition marked "Slip" is a wrong variant of the one after it; no   *)
(* action uses it.                                                         *)
(***************************************************************************)
EXTENDS Integers, Sequences, SequencesExt, FiniteSetsExt

CONSTANTS
    Names,          \* user names
    QuestionTable,  \* t_questions, a sequence of rows
    FirstAnswers,   \* t_players_answers when the server starts
    QuestionNumbers,\* numbers of questions asked for
    GameIds,        \* values the uninitialized _currentGameID may have
    MaxQueries,     \* bound: the length of a behaviour
    None            \* no name, no fault, no text

QuestionColumns == {"question", "correct_ans", "ans2", "ans3", "ans4"}
Columns == QuestionColumns \cup {"username"}
QuestionIds == 1..Len(QuestionTable)
Texts == {QuestionTable[q][c] : q \in QuestionIds, c \in QuestionColumns}
AnswerRow == [game : Int, username : Names, question : Int, correct : BOOLEAN]

DataBaseAssumption ==
    /\ QuestionTable \in Seq([QuestionColumns -> Texts])
    /\ FirstAnswers \in Seq(AnswerRow)
    /\ QuestionNumbers \subseteq Int
    /\ GameIds \subseteq Int
    /\ None \notin Names
    /\ MaxQueries \in Nat

VARIABLES
    results,        \* the global cache: for each column what was appended
    answersTable,   \* t_players_answers
    usersTable,     \* t_users: how many rows each name has
    gameID,         \* _currentGameID, and with it the id of every game
    asked,          \* what the last initQuestion returned
    scores,         \* what the last getBestScores returned
    login,          \* the last sign-in: how many rows matched, and the answer
    queries,        \* history: selects of questions, those cut off after a row,
                    \* selects of scores, rows matched by sign-ins
    steps,          \* counted for MaxQueries
    fault           \* the function in which the process died, None while it runs

tables == <<answersTable, usersTable, gameID>>
answers == <<asked, scores, login>>
vars == <<results, tables, answers, queries, steps, fault>>

Deaths == {"initQuestion", "getPersonalStatus"}
NoLogin == [rows |-> 0, match |-> TRUE]
Score == [name : Names \cup {None}, count : Nat]

TypeOK ==
    /\ DOMAIN results = Columns
    /\ \A c \in QuestionColumns : results[c] \in Seq(Texts)
    /\ results["username"] \in Seq(Names)
    /\ answersTable \in Seq(AnswerRow)
    /\ usersTable \in [Names -> Nat]
    /\ gameID \in Int
    /\ asked \in Seq([id : Nat, row : [QuestionColumns -> Texts \cup {None}]])
    /\ scores \in Seq(Score)
    /\ login \in [rows : Nat, match : BOOLEAN]
    /\ queries \in [questions : Nat, cut : Nat, scores : Nat, matched : Nat]
    /\ steps \in 0..MaxQueries
    /\ fault \in Deaths \cup {None}

Init ==
    /\ results = [c \in Columns |-> <<>>]
    /\ answersTable = FirstAnswers
    /\ usersTable \in [Names -> {0, 1}]
    /\ gameID \in GameIds
    /\ asked = <<>>
    /\ scores = <<>>
    /\ login = NoLogin
    /\ queries = [questions |-> 0, cut |-> 0, scores |-> 0, matched |-> 0]
    /\ steps = 0
    /\ fault = None
-----------------------------------------------------------------------------
Query == /\ fault = None
         /\ steps < MaxQueries
         /\ steps' = steps + 1

Fault(f) == /\ fault' = f
            /\ UNCHANGED <<results, tables, answers, queries>>

\* Slips: the callback runs once more when the rows are at an end; a value that
\* is in the column already is not appended.
AppendedPastEnd(column, values) == Append(column \o values, None)
AppendedOnce(column, values) ==
    FoldLeft(LAMBDA s, v : IF v \in ToSet(s) THEN s ELSE Append(s, v), column, values)

\* The callbacks, row by row: push_back on the column of that name.
Appended(column, values) == column \o values

\* A result with these columns has gone through the callback.
Cached(columns, rows) ==
    [c \in Columns |->
        IF c \in columns
        THEN Appended(results[c], [i \in DOMAIN rows |-> rows[i][c]])
        ELSE results[c]]

\* Slip: the insert succeeds and the id is counted up.
CountedGameID == gameID + 1

\* insertNewGame: three values for four columns, so the insert always fails
\* and the id that is there is returned.
NewGameID == gameID

\* Game::Game: insertNewGame and then initQuestion(n), which reads the first
\* n entries of the columns.  Past their end it dies or takes what is there.  If
\* the select fails the game has no questions, and the rows that came stay cached.
InitQuestion(n) ==
    LET cached == Cached(QuestionColumns, QuestionTable)
        row(i) == [c \in QuestionColumns |->
                      IF i <= Len(cached[c]) THEN cached[c][i] ELSE None]
    IN /\ Query
       /\ \/ /\ results' = cached
             /\ gameID' = NewGameID
             /\ asked' = [i \in 1..n |-> [id |-> i, row |-> row(i)]]
             /\ queries' = [queries EXCEPT !.questions = @ + 1]
             /\ UNCHANGED <<answersTable, usersTable, scores, login, fault>>
          \/ /\ \E k \in 0..Len(QuestionTable) :
                   /\ results' = Cached(QuestionColumns, SubSeq(QuestionTable, 1, k))
                   /\ queries' = IF k = 0 THEN queries
                                 ELSE [queries EXCEPT !.cut = @ + 1]
             /\ gameID' = NewGameID
             /\ asked' = <<>>
             /\ UNCHANGED <<answersTable, usersTable, scores, login, fault>>
          \/ /\ n > Len(cached["question"])
             /\ Fault("initQuestion")

Occurrences(name, column) == {i \in DOMAIN column : column[i] = name}

\* Slip: the first occurrence is not counted.
CountedAgain(name, column) == Cardinality(Occurrences(name, column)) - 1

\* usernamesCommon: how often the name is in the column.
Counted(name, column) == Cardinality(Occurrences(name, column))

\* partial_sort_copy of the counted names into three places: those with the
\* highest counts, equal ones in any order, and empty places at the end.
IsTopThree(top, column) ==
    LET named == ToSet(column)
        size == Min({3, Cardinality(named)})
        chosen == {top[i].name : i \in 1..size}
    IN /\ \A i \in 1..size : /\ top[i].name \in named
                             /\ top[i].count = Counted(top[i].name, column)
       /\ Cardinality(chosen) = size
       /\ \A i \in 1..size, j \in 1..size : i < j => top[i].count >= top[j].count
       /\ \A i \in 1..size, m \in named \ chosen :
              top[i].count >= Counted(m, column)
       /\ \A i \in (size + 1)..3 : top[i] = [name |-> None, count |-> 0]

\* The rows with a right answer, and some of them as a result.  The select gives
\* them in any order; one stands for all, since the column is only counted.
Correct == {i \in DOMAIN answersTable : answersTable[i].correct}
RowsOf(chosen) ==
    LET order == SetToSeq(chosen)
    IN [k \in DOMAIN order |-> answersTable[order[k]]]

\* If the select fails the list is empty, and the names that came stay cached.
GetBestScores ==
    LET cached == Cached({"username"}, RowsOf(Correct))
        counts == 0..Len(cached["username"])
    IN /\ Query
       /\ \/ /\ results' = cached
             /\ \E top \in [1..3 -> [name : Names \cup {None}, count : counts]] :
                   /\ IsTopThree(top, cached["username"])
                   /\ scores' = top
          \/ /\ \E some \in SUBSET Correct :
                   results' = Cached({"username"}, RowsOf(some))
             /\ scores' = <<>>
       /\ queries' = [queries EXCEPT !.scores = @ + 1]
       /\ UNCHANGED <<tables, asked, login, fault>>

\* isUserAndPassMatch: every row of the user with that password is cached,
\* and the answer is "match" iff the statement does NOT run to its end.  (The
\* columns password and email are filled too and never read.)
IsUserAndPassMatch(u, runs) ==
    /\ Query
    /\ \E rows \in 0..usersTable[u] :
          /\ results' = Cached({"username"},
                               [i \in 1..rows |-> [username |-> u]])
          /\ login' = [rows |-> rows, match |-> ~runs]
          /\ queries' = [queries EXCEPT !.matched = @ + rows]
    /\ UNCHANGED <<tables, asked, scores, fault>>

\* handleSignup: isUserExist always says no (there is no column "uaername"),
\* and the names in t_users need not differ.
AddNewUser(u, runs) ==
    /\ Query
    /\ usersTable' = IF runs THEN [usersTable EXCEPT ![u] = @ + 1] ELSE usersTable
    /\ UNCHANGED <<results, answersTable, gameID, answers, queries, fault>>

\* insert into t_players_answers, whose primary key is game, user, question.
Inserted(row) ==
    IF \E r \in ToSet(answersTable) :
          <<r.game, r.username, r.question>> = <<row.game, row.username, row.question>>
    THEN answersTable
    ELSE Append(answersTable, row)

\* addAnswerToPlayer: a failure is only logged.
AddAnswerToPlayer(u, q, correct, runs) ==
    /\ Query
    /\ q \in DOMAIN asked
    /\ answersTable' =
          IF runs THEN Inserted([game |-> gameID, username |-> u,
                                 question |-> asked[q].id, correct |-> correct])
          ELSE answersTable
    /\ UNCHANGED <<results, usersTable, gameID, answers, queries, fault>>

\* The select of getPersonalStatus has no NULL in its one row.
HasStatus(u) == \E r \in ToSet(answersTable) : r.username = u

\* handleFinishGame and response121 for a game of u: the result is not cached;
\* a NULL sum is a null pointer, of which a string is made.
FinishGame(u) ==
    /\ Query
    /\ \/ /\ HasStatus(u)
          /\ UNCHANGED <<results, tables, answers, queries, fault>>
       \/ /\ ~HasStatus(u)
          /\ Fault("getPersonalStatus")

Next ==
    \/ \E n \in QuestionNumbers : InitQuestion(n)
    \/ GetBestScores
    \/ \E u \in Names, runs \in BOOLEAN :
          \/ IsUserAndPassMatch(u, runs)
          \/ AddNewUser(u, runs)
          \/ \E q \in DOMAIN asked, correct \in BOOLEAN :
                AddAnswerToPlayer(u, q, correct, runs)
    \/ \E u \in Names : FinishGame(u)

Spec == Init /\ [][Next]_vars
-----------------------------------------------------------------------------
\* Although the columns are never cleared, sign-ins and scores append to the same
\* map and selects fail halfway, a game is never asked a mixture of two rows: as
\* far as the cache is filled, each of its questions is a row of the table.  While
\* no select has been cut off, every game is asked the same ones: the i-th is the
\* i-th row, and after the last row the table begins again.
QuestionOfGame ==
    \A i \in DOMAIN asked :
        /\ i <= Len(results["question"]) =>
               asked[i].row \in ToSet(QuestionTable)
        /\ queries.cut = 0 /\ i <= queries.questions * Len(QuestionTable) =>
               asked[i].row = QuestionTable[((i - 1) % Len(QuestionTable)) + 1]

TrueCount(u) ==
    Cardinality({i \in DOMAIN answersTable : /\ answersTable[i].correct
                                             /\ answersTable[i].username = u})

\* Whatever queries have filled the column before, the score list says of no
\* user less than the right answers recorded for him.  The list of the first
\* select is exact unless a sign-in has matched before; after any earlier select,
\* one that failed included, what that one cached is counted again.
ScoresNeverTooLow ==
    [][GetBestScores =>
         \A i \in DOMAIN scores' : scores'[i].name # None =>
             LET true == TrueCount(scores'[i].name)
             IN /\ scores'[i].count >= true
                /\ queries.scores = 0 /\ queries.matched = 0 =>
                       scores'[i].count = true]_vars

\* Because no game ever gets an id of its own, a user's answer to a question is
\* recorded once for all games: no two rows that the server has added are for
\* the same user and question.
OneAnswerForAllGames ==
    \A i, j \in (Len(FirstAnswers) + 1)..Len(answersTable) :
        /\ answersTable[i].username = answersTable[j].username
        /\ answersTable[i].question = answersTable[j].question
        => i = j

\* TriviaServer.cpp, beside response102("1"): "wrong details".  A sign-in that
\* is refused matched no user.
RefusedMeansWrongDetails == ~login.match => login.rows = 0
=============================================================================
