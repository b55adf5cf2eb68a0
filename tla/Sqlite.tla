------------------------------- MODULE Sqlite -------------------------------
(***************************************************************************)
(* The part of the SQLite library that class DataBase uses: connections    *)
(* and statements.  The library is not in the repository; what its calls   *)
(* do is what DataBase.cpp relies on and sqlite3.h states.                 *)
(* Every operator is one call: a relation between the library's state      *)
(* before and after and the call's result.  A call outside its             *)
(* restrictions is a Misuse, for which the caller says what may follow.    *)
(***************************************************************************)
EXTENDS Naturals

CONSTANTS
    Handles,        \* sqlite3*, the connections that can be opened
    Statements,     \* sqlite3_stmt*, the statements that can be prepared
    Null            \* the NULL pointer

ASSUME SqliteAssumption == Null \notin Handles \cup Statements

VARIABLES
    connection,     \* for each handle: never opened, open, failed to open, closed
    statement       \* for each statement: its handle, its state

library == <<connection, statement>>

SQLITE_OK == 0
SQLITE_ERROR == 1
SQLITE_BUSY == 5
SQLITE_ROW == 100
SQLITE_DONE == 101

NoStatement == [handle |-> Null, state |-> "none"]
Statement == [handle : Handles, state : {"ready", "row", "done", "error"}]

LibraryType ==
    /\ connection \in [Handles -> {"none", "open", "failed", "closed"}]
    /\ statement \in [Statements -> Statement \cup {NoStatement}]

LibraryInit ==
    /\ connection = [h \in Handles |-> "none"]
    /\ statement = [s \in Statements |-> NoStatement]
-----------------------------------------------------------------------------
Live(s) == statement[s] # NoStatement
IsOpen(h) == h \in Handles /\ connection[h] = "open"
IsObtained(h) == h \in Handles /\ connection[h] \in {"open", "failed"}
StatementsOf(h) == {s \in Statements : statement[s].handle = h}

\* sqlite3_open: a handle is returned even if an error occurs, and is to be
\* closed either way.
Open(h, rc) ==
    /\ connection[h] = "none"
    /\ rc \in {SQLITE_OK, SQLITE_ERROR}
    /\ connection' = [connection EXCEPT ![h] = IF rc = SQLITE_OK THEN "open" ELSE "failed"]
    /\ UNCHANGED statement

\* sqlite3_close: with statements that are not finalized the connection stays
\* open.  The pointer must not have been closed before.
CloseMisuse(h) == ~IsObtained(h)
Close(h) ==
    /\ IsObtained(h)
    /\ connection' = IF StatementsOf(h) = {}
                     THEN [connection EXCEPT ![h] = "closed"]
                     ELSE connection
    /\ UNCHANGED statement

\* sqlite3_exec: its first argument must be an open connection.  What the
\* statement does to tables is not part of this module.
ExecMisuse(h) == ~IsOpen(h)
Exec(h) == IsOpen(h) /\ UNCHANGED library

\* sqlite3_prepare_v2: the connection must not have been closed; the caller is
\* to finalize the statement, which is NULL after an error.
PrepareMisuse(h) == ~IsOpen(h)
Prepare(h, s, rc) ==
    /\ IsOpen(h)
    /\ \/ /\ rc = SQLITE_OK
          /\ s \in Statements
          /\ ~Live(s)
          /\ statement' = [statement EXCEPT ![s] = [handle |-> h, state |-> "ready"]]
          /\ UNCHANGED connection
       \/ /\ rc = SQLITE_ERROR
          /\ s = Null
          /\ UNCHANGED library

\* sqlite3_step: another row, the end, or an error.  It is not to be called
\* again after the end or an error.
StepMisuse(s) == s = Null \/ ~(Live(s) /\ statement[s].state \in {"ready", "row"})
Step(s, rc) ==
    /\ ~StepMisuse(s)
    /\ \E next \in {<<SQLITE_ROW, "row">>, <<SQLITE_DONE, "done">>,
                    <<SQLITE_ERROR, "error">>, <<SQLITE_BUSY, "error">>} :
          /\ rc = next[1]
          /\ statement' = [statement EXCEPT ![s].state = next[2]]
    /\ UNCHANGED connection

\* sqlite3_column_text: the text of a column of the current row, and a NULL
\* pointer for NULL.
ColumnMisuse(s) == s = Null \/ ~(Live(s) /\ statement[s].state = "row")

\* sqlite3_finalize: at any point of the statement's life, NULL is harmless.
Finalize(s) ==
    IF s = Null THEN UNCHANGED library
    ELSE /\ Live(s)
         /\ statement' = [statement EXCEPT ![s] = NoStatement]
         /\ UNCHANGED connection
=============================================================================
