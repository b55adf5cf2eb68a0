----------------------------- MODULE DbHandles -----------------------------
(***************************************************************************)
(* What class DataBase does with SQLite: the connections its objects hold  *)
(* and share, and the statement of getPersonalStatus, call by call.        *)
(*                                                                         *)
(* There are three objects: the member TriviaServer::_db, the one made by  *)
(* TriviaServer() and assigned to it, and the copy that is the argument of *)
(* response121.  Copies share the connection.                              *)
(*                                                                         *)
(* A call outside the restrictions of the library kills the process or     *)
(* returns SQLITE_MISUSE.                                                  *)
(*                                                                         *)
(* A definition marked "Slip" is a wrong variant of the one after it; no   *)
(* action uses it.                                                         *)
(***************************************************************************)
EXTENDS Sqlite

VARIABLES
    pc,         \* what is done next
    server,     \* _db of the member TriviaServer::_db
    temp,       \* _db of *temp in TriviaServer()
    handle,     \* _db of the object that runs getPersonalStatus
    stmt,       \* stmt in getPersonalStatus
    tables,     \* create table statements the constructor has yet to run
    retrieved,  \* personalStatus has its four values
    finishing,  \* getPersonalStatus is called by response121
    finished,   \* history: a response121 has destroyed its argument
    misused,    \* history: the functions called outside their restrictions
    fault       \* where the process died, or None

own == <<server, temp, handle, stmt, tables, retrieved, finishing, finished>>
vars == <<library, pc, own, misused, fault>>

None == "none"
Places == {"open", "tables", "assign", "idle", "prepare", "step", "row",
           "finalize", "finalize and throw", "close"}
Calls == {"sqlite3_exec", "sqlite3_prepare_v2", "sqlite3_step", "sqlite3_close"}
Deaths == Calls \cup {"std::string(nullptr)", "empty vector"}

TypeOK ==
    /\ LibraryType
    /\ pc \in Places
    /\ {server, temp, handle} \subseteq Handles \cup {Null}
    /\ stmt \in Statements \cup {Null}
    /\ tables \in 0..4
    /\ retrieved \in BOOLEAN
    /\ finishing \in BOOLEAN
    /\ finished \in BOOLEAN
    /\ misused \subseteq Calls
    /\ fault \in Deaths \cup {None}

Init ==
    /\ LibraryInit
    /\ pc = "open"
    /\ server = Null
    /\ temp = Null
    /\ handle = Null
    /\ stmt = Null
    /\ tables = 0
    /\ retrieved = FALSE
    /\ finishing = FALSE
    /\ finished = FALSE
    /\ misused = {}
    /\ fault = None
-----------------------------------------------------------------------------
At(place) == fault = None /\ pc = place

Fault(f) == /\ fault' = f
            /\ UNCHANGED <<library, pc, own>>

\* A misuse of the function f after which the process is dead.
DiesIn(f) == /\ misused' = misused \cup {f}
             /\ Fault(f)

\* DataBase::DataBase opens trivia.db, for the member and then for *temp.
\* When that fails it throws before it closes, catches its own exception and
\* leaves an object like any other.
OpenDb ==
    /\ At("open")
    /\ \E h \in Handles, rc \in {SQLITE_OK, SQLITE_ERROR} :
          /\ Open(h, rc)
          /\ \/ /\ server = Null
                /\ server' = h
                /\ pc' = IF rc = SQLITE_OK THEN "tables" ELSE "open"
                /\ UNCHANGED temp
             \/ /\ server # Null
                /\ temp' = h
                /\ pc' = IF rc = SQLITE_OK THEN "tables" ELSE "assign"
                /\ UNCHANGED server
    /\ tables' = 4
    /\ UNCHANGED <<handle, stmt, retrieved, finishing, finished, misused, fault>>

\* The four create table statements, whose results nobody looks at.
CreateTable ==
    /\ At("tables")
    /\ Exec(IF temp = Null THEN server ELSE temp)
    /\ tables' = tables - 1
    /\ pc' = IF tables > 1 THEN "tables"
             ELSE IF temp = Null THEN "open" ELSE "assign"
    /\ UNCHANGED <<server, temp, handle, stmt, retrieved, finishing, finished, misused,
                   fault>>

\* _db = *temp in TriviaServer(): the pointer is copied.
Assign ==
    /\ At("assign")
    /\ server' = temp
    /\ pc' = "idle"
    /\ UNCHANGED <<library, temp, handle, stmt, tables, retrieved, finishing, finished,
                   misused, fault>>
-----------------------------------------------------------------------------
\* sqlite3_exec with the member's connection, as in all methods but
\* getPersonalStatus.  The result is only compared with SQLITE_OK.
Executed ==
    \/ /\ Exec(server)
       /\ UNCHANGED misused
    \/ /\ ExecMisuse(server)
       /\ misused' = misused \cup {"sqlite3_exec"}
       /\ UNCHANGED library

Query ==
    /\ At("idle")
    /\ \/ /\ Executed
          /\ UNCHANGED <<pc, own, fault>>
       \/ /\ ExecMisuse(server)
          /\ DiesIn("sqlite3_exec")

\* handleGetPersonalStatus.
GetPersonalStatus ==
    /\ At("idle")
    /\ handle' = server
    /\ finishing' = FALSE
    /\ pc' = "prepare"
    /\ UNCHANGED <<library, server, temp, stmt, tables, retrieved, finished, misused, fault>>

\* Slip: the copy has a connection of its own.
OwnConnection(h) == CHOOSE other \in Handles : other # h

\* The implicit copy constructor of DataBase.
Copied(h) == h

\* handleFinishGame: updateGameStatus, then response121 for the one player of a
\* game that can finish.
FinishGame ==
    /\ At("idle")
    /\ \/ /\ Executed
          /\ handle' = Copied(server)
          /\ finishing' = TRUE
          /\ pc' = "prepare"
          /\ UNCHANGED <<server, temp, stmt, tables, retrieved, finished, fault>>
       \/ /\ ExecMisuse(server)
          /\ DiesIn("sqlite3_exec")

\* The callers of getPersonalStatus use elements of the list it returns, which
\* is empty after an error before its one row, and complete after a later one;
\* then response121 destroys its argument.
Returned(complete) ==
    IF complete THEN /\ pc' = IF finishing THEN "close" ELSE "idle"
                     /\ UNCHANGED fault
    ELSE fault' = "empty vector" /\ UNCHANGED pc

PrepareStatus ==
    /\ At("prepare")
    /\ \/ /\ \E s \in Statements : Prepare(handle, s, SQLITE_OK) /\ stmt' = s
          /\ pc' = "step"
          /\ UNCHANGED <<misused, fault>>
       \/ /\ Prepare(handle, Null, SQLITE_ERROR)
          /\ stmt' = Null
          /\ Returned(FALSE)
          /\ UNCHANGED misused
       \/ /\ PrepareMisuse(handle)
          /\ misused' = misused \cup {"sqlite3_prepare_v2"}
          /\ stmt' = Null
          /\ Returned(FALSE)
          /\ UNCHANGED library
    /\ retrieved' = FALSE
    /\ UNCHANGED <<server, temp, handle, tables, finishing, finished>>

PrepareDies ==
    /\ At("prepare")
    /\ PrepareMisuse(handle)
    /\ DiesIn("sqlite3_prepare_v2")

\* The loop around sqlite3_step.
AfterStep(rc) == IF rc = SQLITE_ROW THEN "row"
                 ELSE IF rc = SQLITE_DONE THEN "finalize" ELSE "finalize and throw"

\* The query of sums yields one row and ends, unless it fails.
Expected(rc) == \/ rc = SQLITE_ROW  /\ statement[stmt].state = "ready"
                \/ rc = SQLITE_DONE /\ statement[stmt].state = "row"
                \/ rc \in {SQLITE_ERROR, SQLITE_BUSY}

StepStatus ==
    /\ At("step")
    /\ \E rc \in {SQLITE_ROW, SQLITE_DONE, SQLITE_ERROR, SQLITE_BUSY} :
          /\ Expected(rc)
          /\ Step(stmt, rc)
          /\ pc' = AfterStep(rc)
    /\ UNCHANGED <<own, misused, fault>>

\* sqlite3_column_text of the four columns, and the four values are appended:
\* NULL, for a name without answers, is no string.
ReadRow ==
    /\ At("row")
    /\ \/ /\ pc' = "step"
          /\ retrieved' = TRUE
          /\ UNCHANGED <<library, server, temp, handle, stmt, tables, finishing,
                         finished, misused, fault>>
       \/ /\ Fault("std::string(nullptr)")
          /\ UNCHANGED misused

\* Slip: only the end of the loop finalizes.
ThrownUnfinalized(s) == UNCHANGED library

\* sqlite3_finalize before the throw.
FinalizedAndThrown(s) == Finalize(s)

FinalizeStatus ==
    /\ \/ /\ At("finalize")
          /\ Finalize(stmt)
       \/ /\ At("finalize and throw")
          /\ FinalizedAndThrown(stmt)
    /\ Returned(retrieved)
    /\ stmt' = Null
    /\ UNCHANGED <<server, temp, handle, tables, retrieved, finishing, finished, misused>>

\* DataBase::~DataBase of the argument of response121.
CloseArgument ==
    /\ At("close")
    /\ \/ /\ Close(handle)
          /\ UNCHANGED misused
       \/ /\ CloseMisuse(handle)
          /\ misused' = misused \cup {"sqlite3_close"}
          /\ UNCHANGED library
    /\ handle' = Null
    /\ finishing' = FALSE
    /\ finished' = TRUE
    /\ pc' = "idle"
    /\ UNCHANGED <<server, temp, stmt, tables, retrieved, fault>>

\* The thread in getPersonalStatus and its caller.
StatusStep == \/ PrepareStatus \/ PrepareDies \/ StepStatus \/ ReadRow
              \/ FinalizeStatus \/ CloseArgument

Next == \/ OpenDb \/ CreateTable \/ Assign
        \/ Query \/ GetPersonalStatus \/ FinishGame
        \/ StatusStep

Spec == Init /\ [][Next]_vars
-----------------------------------------------------------------------------
Serving == pc \notin {"open", "tables", "assign"}

\* The copies of DataBase close their connection exactly once: when the first
\* game has finished the server's own connection is closed, and not before; the
\* destructor of a second copy is never reached (Game.cpp 64-80, ~DataBase).
ClosedByFirstGame ==
    /\ Serving => (connection[server] = "closed") = finished
    /\ "sqlite3_close" \notin misused

\* getPersonalStatus steps its statement and reads its columns only when it may,
\* and leaves no statement behind, on its error paths either, so the
\* destructor's close is never refused (DataBase.cpp 240-301).
StatementProtocol ==
    /\ At("step") => ~StepMisuse(stmt)
    /\ At("row") => ~ColumnMisuse(stmt)
    /\ pc \in {"idle", "close"} \/ fault = "empty vector" =>
           \A s \in Statements : ~Live(s)
=============================================================================
