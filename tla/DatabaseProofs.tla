--------------------------- MODULE DatabaseProofs ---------------------------
(***************************************************************************)
(* Proofs about class DataBase, for any connections, statements and        *)
(* tables: what it does with SQLite (DbHandles) and what its queries       *)
(* answer from the cache that nothing clears (ResultCache).                *)
(***************************************************************************)
EXTENDS DataBase, FiniteSetTheorems, TLAPS

\* The member and *temp share one connection from the assignment on, and it is
\* closed when the first game has finished.
SharedConnection ==
    /\ Serving => /\ server = temp
                  /\ server \in Handles
                  /\ connection[server] = "closed" <=> finished
    /\ ~Serving => /\ ~finished
                   /\ \A h \in Handles : connection[h] # "closed"
    /\ pc = "tables" => tables > 0
    /\ pc = "assign" => temp \in Handles
    /\ "sqlite3_close" \notin misused

StatusPlaces == {"prepare", "step", "row", "finalize", "finalize and throw", "close"}

\* What each place of getPersonalStatus finds.
StatusFound ==
    /\ pc \in StatusPlaces => handle = server
    /\ pc \in {"open", "tables", "assign", "idle", "prepare", "close"}
         \/ fault = "empty vector" => \A s \in Statements : ~Live(s)
    /\ fault = None /\ pc \in {"step", "row", "finalize", "finalize and throw"} =>
         /\ IsOpen(handle)
         /\ stmt \in Statements
         /\ Live(stmt)
         /\ \A s \in Statements \ {stmt} : ~Live(s)
         /\ pc = "step" => statement[stmt].state \in {"ready", "row"}
         /\ pc = "row" => statement[stmt].state = "row"
    /\ fault = None /\ pc = "close" => IsOpen(handle)

HandleInv == TypeOK /\ SharedConnection /\ StatusFound
-----------------------------------------------------------------------------
\* What the calls of the library do to its state.
LEMMA OpenDoes ==
    ASSUME LibraryType, NEW h \in Handles, NEW rc, Open(h, rc)
    PROVE  /\ LibraryType' /\ statement' = statement
           /\ connection'[h] = IF rc = SQLITE_OK THEN "open" ELSE "failed"
           /\ \A other \in Handles \ {h} : connection'[other] = connection[other]
BY DEF LibraryType, Open, SQLITE_OK, SQLITE_ERROR

LEMMA PrepareDoes ==
    ASSUME LibraryType, NEW h \in Handles, NEW s \in Statements, Prepare(h, s, SQLITE_OK)
    PROVE  /\ LibraryType' /\ connection' = connection
           /\ Live(s)' /\ statement'[s].state = "ready"
           /\ \A other \in Statements \ {s} : Live(other)' <=> Live(other)
  <1>1. ~(s = Null) /\ h # Null
    BY SqliteAssumption
  <1>2. /\ statement' = [statement EXCEPT ![s] = [handle |-> h, state |-> "ready"]]
        /\ connection' = connection
    BY <1>1 DEF Prepare, SQLITE_OK, SQLITE_ERROR
  <1> QED BY <1>1, <1>2 DEF LibraryType, Live, NoStatement, Statement

LEMMA StepDoes ==
    ASSUME LibraryType, NEW s \in Statements, NEW rc, Step(s, rc)
    PROVE  /\ LibraryType' /\ connection' = connection
           /\ Live(s)'
           /\ rc = SQLITE_ROW => statement'[s].state = "row"
           /\ \A other \in Statements \ {s} : Live(other)' <=> Live(other)
  <1>1. /\ Live(s) /\ connection' = connection
        /\ statement[s] \in Statement
    BY DEF Step, StepMisuse, LibraryType, Live
  <1>2. PICK to \in {"row", "done", "error"} :
           /\ statement' = [statement EXCEPT ![s].state = to]
           /\ rc = SQLITE_ROW => to = "row"
    <2>1. PICK next \in {<<SQLITE_ROW, "row">>, <<SQLITE_DONE, "done">>,
                         <<SQLITE_ERROR, "error">>, <<SQLITE_BUSY, "error">>} :
            /\ rc = next[1]
            /\ statement' = [statement EXCEPT ![s].state = next[2]]
      BY DEF Step
    <2>2. next[2] \in {"row", "done", "error"} /\ (next[1] = SQLITE_ROW => next[2] = "row")
      BY <2>1 DEF SQLITE_ROW, SQLITE_DONE, SQLITE_ERROR, SQLITE_BUSY
    <2> QED BY <2>1, <2>2
  <1>3. statement'[s] = [handle |-> statement[s].handle, state |-> to]
    BY <1>1, <1>2 DEF LibraryType, Statement
  <1>4. statement[s].handle # Null
    BY <1>1, SqliteAssumption DEF Statement
  <1> QED BY <1>1, <1>2, <1>3, <1>4 DEF LibraryType, Live, NoStatement, Statement

LEMMA FinalizeDoes ==
    ASSUME LibraryType, NEW s \in Statements, Finalize(s)
    PROVE  /\ LibraryType' /\ connection' = connection
           /\ ~Live(s)'
           /\ \A other \in Statements \ {s} : Live(other)' <=> Live(other)
  <1>1. s # Null
    BY SqliteAssumption
  <1> QED BY <1>1 DEF LibraryType, Live, Finalize, NoStatement

\* With no statement left behind a close is not refused.
LEMMA CloseDoes ==
    ASSUME LibraryType, NEW h \in Handles, Close(h), \A s \in Statements : ~Live(s)
    PROVE  /\ LibraryType' /\ statement' = statement
           /\ connection'[h] = "closed"
           /\ \A other \in Handles \ {h} : connection'[other] = connection[other]
  <1>1. StatementsOf(h) = {}
    BY SqliteAssumption DEF StatementsOf, Live, NoStatement
  <1> QED BY <1>1 DEF Close, LibraryType
-----------------------------------------------------------------------------
LEMMA InitHandles == Init => HandleInv
<1> SUFFICES ASSUME Init PROVE HandleInv
  OBVIOUS
<1> USE DEF Init, LibraryInit
<1>1. TypeOK
  <2>1. LibraryType
    BY DEF LibraryType
  <2>2. {server, temp, handle} \subseteq Handles \cup {Null} /\ stmt \in Statements \cup {Null}
    OBVIOUS
  <2>3. pc \in Places /\ tables \in 0..4 /\ misused \subseteq Calls
    BY DEF Places
  <2>4. /\ retrieved \in BOOLEAN /\ finishing \in BOOLEAN /\ finished \in BOOLEAN
        /\ fault \in Deaths \cup {None}
    BY Zenon
  <2> QED BY <2>1, <2>2, <2>3, <2>4 DEF TypeOK
<1>2. SharedConnection
  BY DEF SharedConnection, Serving
<1>3. StatusFound
  BY DEF StatusFound, StatusPlaces, Live, None
<1> QED BY <1>1, <1>2, <1>3 DEF HandleInv

\* The constructor and the assignment.
LEMMA StartHandles ==
    ASSUME HandleInv, OpenDb \/ CreateTable \/ Assign
    PROVE  HandleInv'
<1>0. TypeOK /\ SharedConnection /\ StatusFound /\ LibraryType
  BY DEF HandleInv, TypeOK
<1>1. CASE OpenDb
  <2>1. PICK h \in Handles, rc \in {SQLITE_OK, SQLITE_ERROR} :
          /\ Open(h, rc)
          /\ \/ /\ server = Null
                /\ server' = h
                /\ pc' = IF rc = SQLITE_OK THEN "tables" ELSE "open"
                /\ UNCHANGED temp
             \/ /\ server # Null
                /\ temp' = h
                /\ pc' = IF rc = SQLITE_OK THEN "tables" ELSE "assign"
                /\ UNCHANGED server
    BY <1>1 DEF OpenDb
  <2>2. /\ LibraryType' /\ statement' = statement
        /\ connection'[h] = IF rc = SQLITE_OK THEN "open" ELSE "failed"
        /\ \A other \in Handles \ {h} : connection'[other] = connection[other]
    BY <1>0, <2>1, OpenDoes
  <2>3. /\ pc = "open" /\ pc' \in {"open", "tables", "assign"}
        /\ UNCHANGED <<handle, stmt, retrieved, finishing, finished, misused, fault>> /\ tables' = 4
    BY <1>1, <2>1 DEF OpenDb, At
  <2>4. TypeOK'
    <3>1. {server, temp, handle}' \subseteq Handles \cup {Null}
      BY <1>0, <2>1, <2>3 DEF TypeOK
    <3>2. pc' \in Places
      BY <2>3, Zenon DEF Places
    <3>3. tables' \in 0..4
      <4>1. tables' = 4
        BY <2>3, Zenon
      <4> QED BY <4>1
    <3> QED BY <1>0, <2>2, <2>3, <3>1, <3>2, <3>3, Zenon DEF TypeOK
  <2>5. SharedConnection'
    BY <1>0, <2>1, <2>2, <2>3 DEF SharedConnection, Serving
  <2>6. StatusFound'
    <3>1. \A s \in Statements : ~Live(s)'
      BY <1>0, <2>2, <2>3 DEF StatusFound, Live
    <3> QED BY <2>3, <3>1 DEF StatusFound, StatusPlaces
  <2> QED BY <2>4, <2>5, <2>6 DEF HandleInv
<1>2. CASE CreateTable
  <2>1. /\ pc = "tables" /\ pc' \in {"open", "tables", "assign"}
        /\ UNCHANGED <<connection, statement>>
        /\ UNCHANGED <<server, temp, handle, stmt, retrieved, finishing, finished,
                       misused, fault>>
        /\ tables' = tables - 1
        /\ pc' = "tables" => tables > 1
        /\ pc' = "assign" => temp # Null
    <3>1. /\ pc = "tables"
          /\ UNCHANGED <<server, temp, handle, stmt, retrieved, finishing, finished,
                       misused, fault>>
          /\ tables' = tables - 1
          /\ pc' = IF tables > 1 THEN "tables"
                   ELSE IF temp = Null THEN "open" ELSE "assign"
      BY <1>2 DEF CreateTable, At
    <3>2. UNCHANGED <<connection, statement>>
      BY <1>2 DEF CreateTable, Exec, library
    <3>3. /\ pc' \in {"open", "tables", "assign"}
          /\ pc' = "tables" => tables > 1
          /\ pc' = "assign" => temp # Null
      <4>1. pc' = IF tables > 1 THEN "tables"
                  ELSE IF temp = Null THEN "open" ELSE "assign"
        BY <3>1, Zenon
      <4> QED BY <4>1
    <3> QED BY <3>1, <3>2, <3>3
  <2>2. TypeOK'
    <3>1. tables \in 0..4 /\ tables > 0 /\ tables' = tables - 1
      BY <1>0, <2>1, Zenon DEF TypeOK, SharedConnection
    <3>2. tables' \in 0..4
      BY <3>1
    <3>3. pc' \in Places
      BY <2>1, Zenon DEF Places
    <3> QED BY <1>0, <2>1, <3>2, <3>3, Zenon DEF TypeOK, LibraryType
  <2>3. SharedConnection'
    BY <1>0, <2>1 DEF SharedConnection, Serving, TypeOK
  <2>4. StatusFound'
    BY <1>0, <2>1 DEF StatusFound, StatusPlaces, Live, library
  <2> QED BY <2>2, <2>3, <2>4 DEF HandleInv
<1>3. CASE Assign
  <2>1. /\ pc = "assign" /\ pc' = "idle" /\ UNCHANGED library /\ server' = temp
        /\ UNCHANGED <<temp, handle, stmt, tables, retrieved, finishing, finished,
                     misused, fault>>
    BY <1>3 DEF Assign, At
  <2>2. TypeOK'
    BY <1>0, <2>1 DEF TypeOK, Places, library, LibraryType
  <2>3. SharedConnection'
    BY <1>0, <2>1 DEF SharedConnection, Serving, library
  <2>4. StatusFound'
    BY <1>0, <2>1 DEF StatusFound, StatusPlaces, Live, library
  <2> QED BY <2>2, <2>3, <2>4 DEF HandleInv
<1> QED BY <1>1, <1>2, <1>3

\* The handlers up to getPersonalStatus.
LEMMA RequestHandles ==
    ASSUME HandleInv, Query \/ GetPersonalStatus \/ FinishGame
    PROVE  HandleInv'
<1>0. TypeOK /\ SharedConnection /\ StatusFound
  BY DEF HandleInv
<1>1. /\ pc = "idle" /\ UNCHANGED <<connection, statement>> /\ pc' \in {"idle", "prepare"}
      /\ UNCHANGED <<server, temp, stmt, tables, retrieved, finished>>
      /\ finishing' \in BOOLEAN
      /\ misused' \in {misused, misused \cup {"sqlite3_exec"}}
      /\ fault = None /\ fault' \in {None, "sqlite3_exec"}
      /\ handle' \in {handle, server} /\ (pc' = "prepare" => handle' = server)
  <2> USE <1>0 DEF At, library, own, Executed, Exec, DiesIn, Fault, TypeOK
  <2>1. CASE Query
    BY <2>1 DEF Query
  <2>2. CASE GetPersonalStatus
    BY <2>2 DEF GetPersonalStatus
  <2>3. CASE FinishGame
    BY <2>3 DEF FinishGame, Copied
  <2> QED BY <2>1, <2>2, <2>3
<1>2. TypeOK'
  BY <1>0, <1>1 DEF TypeOK, Places, LibraryType, Calls, Deaths
<1>3. SharedConnection'
  BY <1>0, <1>1 DEF SharedConnection, Serving
<1>4. StatusFound'
  BY <1>0, <1>1 DEF StatusFound, StatusPlaces, Live, None
<1> QED BY <1>2, <1>3, <1>4 DEF HandleInv

\* getPersonalStatus, what its callers do with the list it returns, and the end
\* of response121.
LEMMA PrepareHandles ==
    ASSUME HandleInv, PrepareStatus \/ PrepareDies
    PROVE  HandleInv'
<1>0. TypeOK /\ SharedConnection /\ StatusFound /\ LibraryType
  BY DEF HandleInv, TypeOK
<1>1. /\ pc = "prepare" /\ fault = None /\ handle = server /\ handle \in Handles
      /\ \A s \in Statements : ~Live(s)
  BY <1>0 DEF PrepareStatus, PrepareDies, At, StatusFound, StatusPlaces, SharedConnection,
              Serving
<1>2. CASE \E s \in Statements :
              /\ Prepare(handle, s, SQLITE_OK) /\ stmt' = s /\ pc' = "step"
              /\ UNCHANGED <<misused, fault>>
              /\ retrieved' \in BOOLEAN
              /\ UNCHANGED <<server, temp, handle, tables, finishing, finished>>
  <2>1. PICK s \in Statements :
              /\ Prepare(handle, s, SQLITE_OK) /\ stmt' = s /\ pc' = "step"
              /\ UNCHANGED <<misused, fault>>
              /\ retrieved' \in BOOLEAN
              /\ UNCHANGED <<server, temp, handle, tables, finishing, finished>>
    BY <1>2
  <2>2. IsOpen(handle)
    BY <2>1 DEF Prepare
  <2>3. /\ LibraryType' /\ connection' = connection
        /\ Live(s)' /\ statement'[s].state = "ready"
        /\ \A other \in Statements \ {s} : Live(other)' <=> Live(other)
    BY <1>0, <1>1, <2>1, PrepareDoes
  <2>4. TypeOK'
    <3>1. pc' \in Places
      BY <2>1, Zenon DEF Places
    <3> QED BY <1>0, <2>1, <2>3, <3>1, Zenon DEF TypeOK
  <2>5. SharedConnection'
    BY <1>0, <1>1, <2>1, <2>3 DEF SharedConnection, Serving
  <2>6. IsOpen(handle)'
    BY <2>1, <2>2, <2>3 DEF IsOpen
  <2>7. \A other \in Statements \ {s} : ~Live(other)'
    BY <1>1, <2>3, Zenon
  <2>8. StatusFound'
    BY <1>1, <2>1, <2>3, <2>6, <2>7 DEF StatusFound, StatusPlaces, None
  <2> QED BY <2>4, <2>5, <2>8 DEF HandleInv
<1>3. CASE /\ UNCHANGED <<connection, statement, pc>>
           /\ misused' \in {misused, misused \cup {"sqlite3_prepare_v2"}}
           /\ stmt' \in {stmt, Null}
           /\ fault' \in {"empty vector", "sqlite3_prepare_v2"}
           /\ retrieved' \in BOOLEAN
           /\ UNCHANGED <<server, temp, handle, tables, finishing, finished>>
  <2>1. TypeOK'
    <3>1. stmt' \in Statements \cup {Null} /\ misused' \subseteq Calls
      BY <1>0, <1>3 DEF TypeOK, Calls
    <3>2. fault' \in Deaths \cup {None}
      BY <1>3 DEF Deaths, Calls
    <3> QED BY <1>0, <1>3, <3>1, <3>2, Zenon DEF TypeOK, LibraryType
  <2>2. SharedConnection'
    BY <1>0, <1>3 DEF SharedConnection, Serving
  <2>3. StatusFound'
    <3>1. (\A s \in Statements : ~Live(s))' /\ fault' # None
      BY <1>1, <1>3 DEF Live, None
    <3> QED BY <1>0, <1>1, <1>3, <3>1 DEF StatusFound, StatusPlaces
  <2> QED BY <2>1, <2>2, <2>3 DEF HandleInv
<1>4. CASE PrepareDies
  <2>1. retrieved' \in BOOLEAN
    BY <1>0, <1>4 DEF PrepareDies, DiesIn, Fault, own, TypeOK
  <2> QED BY <1>3, <1>4, <2>1 DEF PrepareDies, DiesIn, Fault, library, own
<1>5. CASE PrepareStatus
  <2>0. UNCHANGED <<server, temp, handle, tables, finishing, finished>>
        /\ retrieved' \in BOOLEAN
    BY <1>5 DEF PrepareStatus
  <2>1. CASE /\ \E s \in Statements : Prepare(handle, s, SQLITE_OK) /\ stmt' = s
             /\ pc' = "step"
             /\ UNCHANGED <<misused, fault>>
    BY <1>2, <2>0, <2>1, Zenon
  <2>2. CASE /\ Prepare(handle, Null, SQLITE_ERROR)
             /\ stmt' = Null
             /\ Returned(FALSE)
             /\ UNCHANGED misused
    <3>1. UNCHANGED <<connection, statement>>
      BY <2>2, SqliteAssumption DEF Prepare, library
    <3>2. fault' = "empty vector" /\ pc' = pc
      BY <2>2 DEF Returned
    <3> QED BY <1>3, <2>0, <2>2, <3>1, <3>2
  <2>3. CASE /\ misused' = misused \cup {"sqlite3_prepare_v2"}
             /\ stmt' = Null
             /\ Returned(FALSE)
             /\ UNCHANGED library
    BY <1>3, <2>0, <2>3 DEF library, Returned
  <2> QED BY <1>5, <2>1, <2>2, <2>3 DEF PrepareStatus
<1> QED BY <1>4, <1>5

\* The loop around sqlite3_step.
LEMMA LoopHandles ==
    ASSUME HandleInv, StepStatus \/ ReadRow
    PROVE  HandleInv'
<1>0. TypeOK /\ SharedConnection /\ StatusFound /\ LibraryType
  BY DEF HandleInv, TypeOK
<1>1. CASE StepStatus
  <2>1. /\ pc = "step" /\ fault = None
        /\ UNCHANGED <<server, temp, handle, stmt, tables, retrieved, finishing,
                       finished, misused, fault>>
    BY <1>1 DEF StepStatus, At, own
  <2>2. /\ handle = server /\ IsOpen(handle) /\ stmt \in Statements
        /\ \A s \in Statements \ {stmt} : ~Live(s)
    BY <1>0, <2>1 DEF StatusFound, StatusPlaces
  <2>3. PICK rc \in {SQLITE_ROW, SQLITE_DONE, SQLITE_ERROR, SQLITE_BUSY} :
          Step(stmt, rc) /\ pc' = AfterStep(rc)
    BY <1>1 DEF StepStatus
  <2>4. /\ LibraryType' /\ connection' = connection
        /\ rc = SQLITE_ROW => statement'[stmt].state = "row"
        /\ Live(stmt)'
        /\ \A other \in Statements \ {stmt} : Live(other)' <=> Live(other)
    <3>1. ASSUME NEW s \in Statements, Step(s, rc)
          PROVE  /\ LibraryType' /\ connection' = connection
                 /\ rc = SQLITE_ROW => statement'[s].state = "row"
                 /\ statement'[s] # NoStatement
                 /\ \A other \in Statements \ {s} : Live(other)' <=> Live(other)
      BY <1>0, <3>1, StepDoes DEF Live
    <3> QED BY <2>1, <2>2, <2>3, <3>1 DEF Live
  <2>5. /\ pc' \in {"row", "finalize", "finalize and throw"}
        /\ pc' = "row" => rc = SQLITE_ROW
    BY <2>3 DEF AfterStep
  <2>6. TypeOK'
    <3>1. pc' \in Places
      BY <2>5, Zenon DEF Places
    <3> QED BY <1>0, <2>1, <2>4, <3>1, Zenon DEF TypeOK
  <2>7. SharedConnection'
    BY <1>0, <2>1, <2>4, <2>5 DEF SharedConnection, Serving
  <2>8. IsOpen(handle)' /\ Live(stmt)' /\ \A s \in Statements \ {stmt} : ~Live(s)'
    BY <2>1, <2>2, <2>4 DEF IsOpen
  <2>9. StatusFound'
    BY <2>1, <2>2, <2>4, <2>5, <2>8 DEF StatusFound, StatusPlaces, None
  <2> QED BY <2>6, <2>7, <2>9 DEF HandleInv
<1>2. CASE ReadRow
  <2>1. /\ pc = "row" /\ fault = None /\ UNCHANGED <<connection, statement>>
        /\ UNCHANGED <<server, temp, handle, stmt, tables, finishing, finished, misused>>
        /\ retrieved' \in {retrieved, TRUE}
        /\ \/ pc' = "step" /\ fault' = fault
           \/ pc' = pc /\ fault' = "std::string(nullptr)"
    BY <1>2 DEF ReadRow, At, Fault, own, library
  <2>2. TypeOK'
    <3>1. pc' \in Places
      BY <2>1, Zenon DEF Places
    <3>2. fault' \in Deaths \cup {None}
      BY <2>1 DEF Deaths
    <3>3. retrieved' \in BOOLEAN
      BY <1>0, <2>1 DEF TypeOK
    <3> QED BY <1>0, <2>1, <3>1, <3>2, <3>3, Zenon DEF TypeOK, LibraryType
  <2>3. SharedConnection'
    BY <1>0, <2>1 DEF SharedConnection, Serving
  <2>4. StatusFound'
    BY <1>0, <2>1 DEF StatusFound, StatusPlaces, None, Live, IsOpen
  <2> QED BY <2>2, <2>3, <2>4 DEF HandleInv
<1> QED BY <1>1, <1>2

LEMMA FinalizeHandles ==
    ASSUME HandleInv, FinalizeStatus
    PROVE  HandleInv'
<1>0. TypeOK /\ SharedConnection /\ StatusFound /\ LibraryType
  BY DEF HandleInv, TypeOK
<1>1. /\ pc \in {"finalize", "finalize and throw"} /\ fault = None /\ Finalize(stmt)
      /\ UNCHANGED <<server, temp, handle, tables, retrieved, finishing, finished,
                     misused>>
      /\ stmt' = Null
      /\ \/ pc' \in {"idle", "close"} /\ fault' = fault
         \/ pc' = pc /\ fault' = "empty vector"
  BY DEF FinalizeStatus, FinalizedAndThrown, At, Returned
<1>2. /\ handle = server /\ IsOpen(handle) /\ stmt \in Statements
      /\ \A s \in Statements \ {stmt} : ~Live(s)
  BY <1>0, <1>1 DEF StatusFound, StatusPlaces
<1>3. /\ LibraryType' /\ connection' = connection
      /\ \A s \in Statements : ~Live(s)'
  <2>1. ASSUME NEW s \in Statements, Finalize(s)
        PROVE  /\ LibraryType' /\ connection' = connection
               /\ statement'[s] = NoStatement
               /\ \A other \in Statements \ {s} : Live(other)' <=> Live(other)
    BY <1>0, <2>1, FinalizeDoes DEF Live
  <2> QED BY <1>1, <1>2, <2>1 DEF Live
<1>4. TypeOK'
  <2>1. pc' \in Places
    BY <1>1, Zenon DEF Places
  <2>2. fault' \in Deaths \cup {None}
    BY <1>1 DEF Deaths
  <2> QED BY <1>0, <1>1, <1>3, <2>1, <2>2, Zenon DEF TypeOK
<1>5. SharedConnection'
  BY <1>0, <1>1, <1>3 DEF SharedConnection, Serving
<1>6. StatusFound'
  BY <1>1, <1>2, <1>3 DEF StatusFound, StatusPlaces, None, IsOpen
<1> QED BY <1>4, <1>5, <1>6 DEF HandleInv

LEMMA CloseHandles ==
    ASSUME HandleInv, CloseArgument
    PROVE  HandleInv'
<1>0. TypeOK /\ SharedConnection /\ StatusFound /\ LibraryType
  BY DEF HandleInv, TypeOK
<1>1. /\ pc = "close" /\ fault = None /\ pc' = "idle" /\ handle' = Null
      /\ finishing' = FALSE /\ finished' = TRUE
      /\ UNCHANGED <<server, temp, stmt, tables, retrieved, fault>>
  BY DEF CloseArgument, At
<1>2. /\ handle = server /\ IsOpen(handle) /\ \A s \in Statements : ~Live(s)
  BY <1>0, <1>1 DEF StatusFound, StatusPlaces
<1>3. Close(server) /\ misused' = misused
  BY <1>2 DEF CloseArgument, CloseMisuse, IsObtained, IsOpen
<1>4. server \in Handles
  BY <1>2 DEF IsOpen
<1>5. LibraryType' /\ statement' = statement /\ connection'[server] = "closed"
  <2>1. ASSUME NEW h \in Handles, Close(h)
        PROVE  LibraryType' /\ statement' = statement /\ connection'[h] = "closed"
    BY <1>0, <1>2, <2>1, CloseDoes
  <2> QED BY <1>3, <1>4, <2>1
<1>6. TypeOK'
  <2>1. pc' \in Places
    BY <1>1, Zenon DEF Places
  <2>2. {server, temp, handle}' \subseteq Handles \cup {Null}
    BY <1>0, <1>1 DEF TypeOK
  <2> QED BY <1>0, <1>1, <1>3, <1>5, <2>1, <2>2, Zenon DEF TypeOK
<1>7. SharedConnection'
  BY <1>0, <1>1, <1>3, <1>5 DEF SharedConnection, Serving
<1>8. StatusFound'
  BY <1>1, <1>2, <1>5 DEF StatusFound, StatusPlaces, None, Live
<1> QED BY <1>6, <1>7, <1>8 DEF HandleInv

LEMMA HandlesStep == HandleInv /\ [Next]_vars => HandleInv'
<1> SUFFICES ASSUME HandleInv, [Next]_vars PROVE HandleInv'
  OBVIOUS
<1>1. CASE UNCHANGED vars
  <2>1. /\ connection' = connection /\ statement' = statement
        /\ pc' = pc /\ misused' = misused /\ fault' = fault
    BY <1>1 DEF vars, library
  <2>2. /\ server' = server /\ temp' = temp /\ handle' = handle /\ stmt' = stmt
        /\ tables' = tables /\ retrieved' = retrieved /\ finishing' = finishing
        /\ finished' = finished
    BY <1>1 DEF vars, own
  <2>3. TypeOK'
    <3>1. TypeOK
      BY DEF HandleInv
    <3> QED BY <2>1, <2>2, <3>1 DEF TypeOK, LibraryType
  <2>4. SharedConnection'
    <3>1. SharedConnection
      BY DEF HandleInv
    <3> QED BY <2>1, <2>2, <3>1 DEF SharedConnection, Serving
  <2>5. StatusFound'
    <3>1. StatusFound
      BY DEF HandleInv
    <3> QED BY <2>1, <2>2, <3>1 DEF StatusFound, IsOpen, Live
  <2> QED BY <2>3, <2>4, <2>5 DEF HandleInv
<1> QED BY <1>1, StartHandles, RequestHandles, PrepareHandles, LoopHandles,
           FinalizeHandles, CloseHandles DEF Next, StatusStep

LEMMA AlwaysHandles == Spec => []HandleInv
BY InitHandles, HandlesStep, PTL DEF Spec
-----------------------------------------------------------------------------
\* Type correctness of the handles, the statements and the library.
THEOREM HandlesTypeCorrect == Spec => []TypeOK
<1>1. HandleInv => TypeOK
  BY DEF HandleInv
<1> QED BY <1>1, AlwaysHandles, PTL

\* However many games finish, the connection is closed once, when the first one
\* has, and it is the server's own (~DataBase of response121's argument).
THEOREM FirstGameCloses == Spec => []ClosedByFirstGame
<1>1. ASSUME HandleInv PROVE ClosedByFirstGame
  <2>1. finished \in BOOLEAN
    BY <1>1, Zenon DEF HandleInv, TypeOK
  <2>2. Serving => (connection[server] = "closed" <=> finished)
    BY <1>1, Zenon DEF HandleInv, SharedConnection
  <2>3. ASSUME Serving PROVE (connection[server] = "closed") = finished
    <3>1. finished = TRUE \/ finished = FALSE
      BY <2>1, Zenon
    <3> QED BY <2>2, <2>3, <3>1, Zenon
  <2> QED BY <1>1, <2>3 DEF HandleInv, SharedConnection, ClosedByFirstGame
<1> QED BY <1>1, AlwaysHandles, PTL

\* getPersonalStatus uses its statement as the library allows and leaves none
\* behind, whichever of its calls fail.
THEOREM StatementsAreFinalized == Spec => []StatementProtocol
<1>1. ASSUME HandleInv PROVE StatementProtocol
  <2>1. At("step") => ~StepMisuse(stmt)
    BY <1>1, SqliteAssumption DEF HandleInv, StatusFound, At, StepMisuse
  <2>2. At("row") => ~ColumnMisuse(stmt)
    BY <1>1, SqliteAssumption DEF HandleInv, StatusFound, At, ColumnMisuse
  <2>3. pc \in {"idle", "close"} \/ fault = "empty vector" =>
            \A s \in Statements : ~Live(s)
    BY <1>1 DEF HandleInv, StatusFound
  <2> QED BY <2>1, <2>2, <2>3 DEF StatementProtocol
<1> QED BY <1>1, AlwaysHandles, PTL
-----------------------------------------------------------------------------
\* The part of the types that the columns of the questions and the recorded
\* answers depend on.
CacheTypes ==
    /\ queries \in [questions : Nat, cut : Nat, scores : Nat, matched : Nat]
    /\ usersTable \in [Names -> Nat]
    /\ gameID \in Int
    /\ answersTable \in Seq(Cache!AnswerRow)
    /\ \A i \in DOMAIN asked : asked[i].id \in Int
    /\ \A c \in Cache!QuestionColumns : results[c] \in Seq(Cache!Texts)

\* The row of the table that the i-th entry of a column comes from.
RowOf(i) == ((i - 1) % Len(QuestionTable)) + 1

\* The column c of these rows.
ColumnOf(order, c) == [i \in 1..Len(order) |-> QuestionTable[order[i]][c]]

\* The whole table, q times over.
Repeats(order, q) ==
    /\ Len(order) = q * Len(QuestionTable)
    /\ \A i \in 1..Len(order) : order[i] = RowOf(i)

\* The columns of the questions hold rows of the table, the same ones in the same
\* order, and the table over and over again if no select has been cut off.
ColumnsHoldRows ==
    \E order \in Seq(Cache!QuestionIds) :
       /\ \A c \in Cache!QuestionColumns : results[c] = ColumnOf(order, c)
       /\ queries.cut = 0 => Repeats(order, queries.questions)

\* What the server has recorded is recorded under the one id there is.
RecordedForOneGame ==
    /\ Len(answersTable) >= Len(FirstAnswers)
    /\ \A i \in (Len(FirstAnswers) + 1)..Len(answersTable) :
          answersTable[i].game = gameID

CacheInv == /\ CacheTypes
            /\ ColumnsHoldRows
            /\ Cache!QuestionOfGame
            /\ RecordedForOneGame
            /\ Cache!OneAnswerForAllGames
-----------------------------------------------------------------------------
\* After q times the table, its j-th row is the next one but j - 1.
LEMMA TableBeginsAgain ==
    ASSUME NEW n \in Nat \ {0}, NEW q \in Nat, NEW j \in 1..n
    PROVE  ((q * n + j) - 1) % n = j - 1
  <1> DEFINE x == (q * n + j) - 1
  <1>1. q * n \in Int /\ x \in Int /\ x = q * n + (j - 1)
    OBVIOUS
  <1>2. x = n * (x \div n) + (x % n) /\ 0 <= x % n /\ x % n < n /\ x \div n \in Int
    BY <1>1
  <1> DEFINE d == q - (x \div n)
  <1>3. d \in Int /\ n * d = n * q - n * (x \div n)
    BY <1>2
  <1>4. n * d = (x % n) - (j - 1)
    BY <1>1, <1>2, <1>3
  <1>5. n * d < n /\ n * d > -n
    BY <1>2, <1>4
  <1>6. d = 0
    BY <1>3, <1>5
  <1> QED BY <1>4, <1>6

\* The concatenation of two sequences.
LEMMA Joined ==
    ASSUME NEW S, NEW a \in Seq(S), NEW b \in Seq(S)
    PROVE  /\ a \o b \in Seq(S)
           /\ Len(a \o b) = Len(a) + Len(b)
           /\ \A i \in 1..Len(a) : (a \o b)[i] = a[i]
           /\ \A i \in 1..Len(b) : (a \o b)[Len(a) + i] = b[i]
OBVIOUS

\* The numbers of the first k rows.
FirstIds(k) == [i \in 1..k |-> i]

LEMMA IdsAppended ==
    ASSUME Cache!DataBaseAssumption, NEW order \in Seq(Cache!QuestionIds),
           NEW k \in 0..Len(QuestionTable)
    PROVE  /\ order \o FirstIds(k) \in Seq(Cache!QuestionIds)
           /\ Len(order \o FirstIds(k)) = Len(order) + k
           /\ \A i \in 1..Len(order) : (order \o FirstIds(k))[i] = order[i]
           /\ \A i \in 1..k : (order \o FirstIds(k))[Len(order) + i] = i
  <1> DEFINE ids == FirstIds(k)
  <1>1. Len(QuestionTable) \in Nat
    BY DEF Cache!DataBaseAssumption
  <1>2. ids \in Seq(Cache!QuestionIds) /\ Len(ids) = k /\ \A i \in 1..k : ids[i] = i
    BY <1>1 DEF FirstIds, Cache!QuestionIds
  <1> HIDE DEF ids
  <1>3. /\ order \o ids \in Seq(Cache!QuestionIds)
        /\ Len(order \o ids) = Len(order) + Len(ids)
        /\ \A i \in 1..Len(order) : (order \o ids)[i] = order[i]
        /\ \A i \in 1..Len(ids) : (order \o ids)[Len(order) + i] = ids[i]
    BY <1>2
  <1>4. \A i \in 1..k : (order \o ids)[Len(order) + i] = i
    BY <1>2, <1>3
  <1> QED BY <1>2, <1>3, <1>4 DEF ids

\* One more complete select appends the table once more.
LEMMA TableAppended ==
    ASSUME Cache!DataBaseAssumption, NEW order \in Seq(Cache!QuestionIds),
           NEW q \in Nat, Repeats(order, q)
    PROVE  Repeats(order \o FirstIds(Len(QuestionTable)), q + 1)
  <1> DEFINE n == Len(QuestionTable)
             m == q * n
             new == order \o FirstIds(n)
  <1>1. n \in Nat /\ m \in Nat
    BY DEF Cache!DataBaseAssumption
  <1>2. Len(order) = m /\ \A i \in 1..m : order[i] = RowOf(i)
    BY DEF Repeats
  <1>3. /\ new \in Seq(Cache!QuestionIds) /\ Len(new) = m + n
        /\ \A i \in 1..m : new[i] = order[i]
        /\ \A i \in 1..n : new[m + i] = i
    <2> HIDE DEF new, m
    <2>1. n \in 0..Len(QuestionTable)
      BY <1>1
    <2> QED BY <1>2, <2>1, IdsAppended DEF new
  <1>4. Len(new) = (q + 1) * n
    <2>1. (q + 1) * n = q * n + n
      BY <1>1
    <2> HIDE DEF new
    <2> QED BY <1>3, <2>1
  <1>5. ASSUME NEW i \in 1..Len(new) PROVE new[i] = RowOf(i)
    <2> HIDE DEF new, m, n
    <2>1. CASE i <= m
      BY <1>1, <1>2, <1>3, <2>1
    <2>2. CASE i > m
      <3> DEFINE j == i - m
      <3>1. j \in 1..n /\ i = m + j
        BY <1>1, <1>3, <2>2
      <3>2. (i - 1) % n = j - 1
        <4>1. n \in Nat \ {0}
          BY <1>1, <3>1
        <4>2. ((q * n + j) - 1) % n = j - 1
          <5> HIDE DEF j
          <5> QED BY <3>1, <4>1, TableBeginsAgain, Zenon
        <4>3. i - 1 = (q * n + j) - 1
          BY <3>1, Zenon DEF m
        <4> QED BY <4>2, <4>3, Zenon
      <3>3. RowOf(i) = j
        BY <3>1, <3>2 DEF RowOf, n
      <3> HIDE DEF j
      <3>4. new[i] = j
        BY <1>3, <3>1, Zenon
      <3> QED BY <3>3, <3>4, Zenon
    <2> QED BY <1>1, <1>3, <2>1, <2>2
  <1> HIDE DEF new
  <1> QED BY <1>4, <1>5 DEF Repeats, new

\* A column of rows of the table.
LEMMA ColumnTyped ==
    ASSUME Cache!DataBaseAssumption, NEW c \in Cache!QuestionColumns,
           NEW order \in Seq(Cache!QuestionIds)
    PROVE  /\ ColumnOf(order, c) \in Seq(Cache!Texts)
           /\ Len(ColumnOf(order, c)) = Len(order)
           /\ \A i \in 1..Len(order) :
                 ColumnOf(order, c)[i] = QuestionTable[order[i]][c]
  <1>1. ASSUME NEW i \in 1..Len(order) PROVE QuestionTable[order[i]][c] \in Cache!Texts
    <2>1. order[i] \in Cache!QuestionIds
      OBVIOUS
    <2> QED BY <2>1 DEF Cache!Texts
  <1>2. Len(order) \in Nat
    OBVIOUS
  <1> QED BY <1>1, <1>2 DEF ColumnOf

\* The first k rows of the table go through the callback.
LEMMA RowsCached ==
    ASSUME Cache!DataBaseAssumption, NEW order \in Seq(Cache!QuestionIds),
           \A c \in Cache!QuestionColumns : results[c] = ColumnOf(order, c),
           NEW k \in 0..Len(QuestionTable), NEW rows, DOMAIN rows = 1..k,
           \A i \in 1..k : rows[i] = QuestionTable[i],
           NEW c \in Cache!QuestionColumns
    PROVE  Cache!Cached(Cache!QuestionColumns, rows)[c]
               = ColumnOf(order \o FirstIds(k), c)
  <1> DEFINE new == order \o FirstIds(k)
             old == ColumnOf(order, c)
             add == [i \in 1..k |-> rows[i][c]]
             m == Len(order)
  <1>1. Cache!Cached(Cache!QuestionColumns, rows)[c] = old \o add
    BY DEF Cache!Cached, Cache!Appended, Cache!Columns
  <1>2. /\ new \in Seq(Cache!QuestionIds) /\ Len(new) = m + k /\ m \in Nat
        /\ \A i \in 1..m : new[i] = order[i]
        /\ \A i \in 1..k : new[m + i] = i
    BY IdsAppended
  <1> HIDE DEF new
  <1>3. /\ old \in Seq(Cache!Texts) /\ Len(old) = m
        /\ \A i \in 1..m : old[i] = QuestionTable[order[i]][c]
    BY ColumnTyped
  <1>4. /\ ColumnOf(new, c) \in Seq(Cache!Texts) /\ Len(ColumnOf(new, c)) = m + k
        /\ \A i \in 1..(m + k) : ColumnOf(new, c)[i] = QuestionTable[new[i]][c]
    BY <1>2, ColumnTyped
  <1>5. /\ add \in Seq(Cache!Texts) /\ Len(add) = k
        /\ \A i \in 1..k : add[i] = QuestionTable[i][c]
    <2>1. Len(QuestionTable) \in Nat
      BY DEF Cache!DataBaseAssumption
    <2>2. \A i \in 1..k : QuestionTable[i][c] \in Cache!Texts
      BY <2>1 DEF Cache!Texts, Cache!QuestionIds
    <2>3. k \in Nat
      BY <2>1
    <2> QED BY <2>2, <2>3
  <1> HIDE DEF old, add, m
  <1>6. /\ old \o add \in Seq(Cache!Texts) /\ Len(old \o add) = m + k
        /\ \A i \in 1..m : (old \o add)[i] = old[i]
        /\ \A i \in 1..k : (old \o add)[m + i] = add[i]
    <2>1. /\ old \in Seq(Cache!Texts) /\ add \in Seq(Cache!Texts)
          /\ Len(old) = m /\ Len(add) = k
      BY <1>3, <1>5
    <2> DEFINE two == old \o add
    <2>2. Len(two) = Len(old) + Len(add)
      <3>1. old \in Seq(Cache!Texts) /\ add \in Seq(Cache!Texts)
        BY <2>1
      <3> QED BY <3>1
    <2>3. /\ two \in Seq(Cache!Texts)
          /\ \A i \in 1..Len(old) : two[i] = old[i]
          /\ \A i \in 1..Len(add) : two[Len(old) + i] = add[i]
      BY <2>1
    <2> HIDE DEF two
    <2>4. /\ two \in Seq(Cache!Texts) /\ Len(two) = m + k
          /\ \A i \in 1..m : two[i] = old[i]
          /\ \A i \in 1..k : two[m + i] = add[i]
      BY <2>1, <2>2, <2>3
    <2> QED BY <2>4, Zenon DEF two
  <1> DEFINE col == ColumnOf(new, c)
             both == old \o add
  <1>7. ASSUME NEW i \in 1..(m + k) PROVE both[i] = col[i]
    <2> HIDE DEF col, both
    <2>1. CASE i \in 1..m
      <3>1. both[i] = QuestionTable[order[i]][c]
        BY <1>3, <1>6, <2>1 DEF both
      <3>2. col[i] = QuestionTable[order[i]][c]
        BY <1>2, <1>4, <2>1 DEF col
      <3> QED BY <3>1, <3>2
    <2>2. CASE i \notin 1..m
      <3>1. PICK j \in 1..k : i = m + j
        <4>1. k \in Nat /\ i - m \in 1..k /\ i = m + (i - m)
          BY <1>2, <2>2
        <4> QED BY <4>1
      <3>2. both[i] = QuestionTable[j][c]
        BY <1>5, <1>6, <3>1 DEF both
      <3>3. col[i] = QuestionTable[j][c]
        BY <1>2, <1>4, <3>1 DEF col
      <3> QED BY <3>2, <3>3
    <2> QED BY <2>1, <2>2
  <1>8. both = col
    <2>1. both \in Seq(Cache!Texts) /\ col \in Seq(Cache!Texts)
          /\ Len(both) = m + k /\ Len(col) = m + k
      BY <1>4, <1>6
    <2> HIDE DEF col, both
    <2> QED BY <1>7, <2>1
  <1> QED BY <1>1, <1>8 DEF new
-----------------------------------------------------------------------------
LEMMA InitCache == Cache!DataBaseAssumption /\ Cache!Init => CacheInv
<1> SUFFICES ASSUME Cache!DataBaseAssumption, Cache!Init PROVE CacheInv
  OBVIOUS
<1> USE DEF Cache!Init
<1>1. CacheTypes
  <2>1. \A c \in Cache!QuestionColumns : results[c] = <<>>
    BY DEF Cache!Columns
  <2>2. <<>> \in Seq(Cache!Texts)
    OBVIOUS
  <2>3. queries \in [questions : Nat, cut : Nat, scores : Nat, matched : Nat]
    OBVIOUS
  <2>4. /\ usersTable \in [Names -> Nat] /\ gameID \in Int
        /\ answersTable \in Seq(Cache!AnswerRow)
        /\ \A i \in DOMAIN asked : asked[i].id \in Int
    BY DEF Cache!DataBaseAssumption
  <2> QED BY <2>1, <2>2, <2>3, <2>4 DEF CacheTypes
<1>2. ColumnsHoldRows
  <2>1. Len(QuestionTable) \in Nat
    BY DEF Cache!DataBaseAssumption
  <2>2. \A c \in Cache!QuestionColumns : results[c] = <<>>
    BY DEF Cache!Columns
  <2>3. queries.questions = 0 /\ 0 * Len(QuestionTable) = 0
    <3>1. 0 * Len(QuestionTable) = 0
      BY <2>1
    <3> QED BY <3>1
  <2>4. Repeats(<<>>, 0)
    BY <2>3 DEF Repeats
  <2>5. \A c \in Cache!QuestionColumns : ColumnOf(<<>>, c) = <<>>
    BY DEF ColumnOf
  <2>6. <<>> \in Seq(Cache!QuestionIds)
    OBVIOUS
  <2> QED BY <2>2, <2>3, <2>4, <2>5, <2>6 DEF ColumnsHoldRows
<1>3. Cache!QuestionOfGame
  BY DEF Cache!QuestionOfGame
<1>4. RecordedForOneGame /\ Cache!OneAnswerForAllGames
  BY DEF RecordedForOneGame, Cache!OneAnswerForAllGames, Cache!DataBaseAssumption
<1> QED BY <1>1, <1>2, <1>3, <1>4 DEF CacheInv

\* What every select of questions leaves in the cache, complete (k rows, cut
\* unchanged) or not.
LEMMA SelectCache ==
    ASSUME Cache!DataBaseAssumption, CacheInv,
           NEW k \in 0..Len(QuestionTable), NEW rows, DOMAIN rows = 1..k,
           \A i \in 1..k : rows[i] = QuestionTable[i],
           results' = Cache!Cached(Cache!QuestionColumns, rows),
           queries' \in [questions : Nat, cut : Nat, scores : Nat, matched : Nat],
           \/ queries' = queries /\ k = 0
           \/ queries' = [queries EXCEPT !.cut = @ + 1]
           \/ /\ queries' = [queries EXCEPT !.questions = @ + 1]
              /\ k = Len(QuestionTable)
    PROVE  /\ ColumnsHoldRows'
           /\ \E order \in Seq(Cache!QuestionIds) :
                 /\ \A c \in Cache!QuestionColumns : results'[c] = ColumnOf(order, c)
                 /\ queries'.cut = 0 => Repeats(order, queries'.questions)
           /\ \A c \in Cache!QuestionColumns : results'[c] \in Seq(Cache!Texts)
<1>0. queries \in [questions : Nat, cut : Nat, scores : Nat, matched : Nat]
  BY DEF CacheInv, CacheTypes
<1>1. PICK order \in Seq(Cache!QuestionIds) :
         /\ \A c \in Cache!QuestionColumns : results[c] = ColumnOf(order, c)
         /\ queries.cut = 0 => Repeats(order, queries.questions)
  BY DEF CacheInv, ColumnsHoldRows
<1> DEFINE new == order \o FirstIds(k)
<1>2. /\ new \in Seq(Cache!QuestionIds) /\ Len(new) = Len(order) + k
      /\ \A i \in 1..Len(order) : new[i] = order[i]
  BY IdsAppended
<1>3. ASSUME NEW c \in Cache!QuestionColumns PROVE results'[c] = ColumnOf(new, c)
  BY <1>1, RowsCached
<1>4. queries'.cut = 0 => Repeats(new, queries'.questions)
  <2>1. CASE queries' = queries /\ k = 0
    <3> SUFFICES ASSUME queries.cut = 0 PROVE Repeats(new, queries.questions)
      BY <2>1
    <3> HIDE DEF new
    <3>1. Len(new) = Len(order)
      BY <1>2, <2>1
    <3> QED BY <1>1, <1>2, <3>1 DEF Repeats
  <2>2. CASE queries' = [queries EXCEPT !.cut = @ + 1]
    <3>1. queries'.cut = queries.cut + 1
      BY <1>0, <2>2
    <3> QED BY <1>0, <3>1
  <2>3. CASE /\ queries' = [queries EXCEPT !.questions = @ + 1]
             /\ k = Len(QuestionTable)
    <3>1. queries'.cut = queries.cut /\ queries'.questions = queries.questions + 1
          /\ queries.questions \in Nat
      BY <1>0, <2>3
    <3> SUFFICES ASSUME queries.cut = 0 PROVE Repeats(new, queries.questions + 1)
      BY <3>1
    <3>2. PICK q \in Nat : q = queries.questions
      BY <3>1
    <3>3. Repeats(order, q)
      BY <1>1, <3>2
    <3>4. Repeats(order \o FirstIds(Len(QuestionTable)), q + 1)
      BY <3>3, TableAppended
    <3> QED BY <2>3, <3>2, <3>4
  <2> QED BY <2>1, <2>2, <2>3
<1> HIDE DEF new
<1>5. \A c \in Cache!QuestionColumns : results'[c] \in Seq(Cache!Texts)
  BY <1>2, <1>3, ColumnTyped
<1>6. ColumnsHoldRows'
  BY <1>2, <1>3, <1>4 DEF ColumnsHoldRows, ColumnOf, Repeats, RowOf
<1> QED BY <1>2, <1>3, <1>4, <1>5, <1>6

LEMMA InitQuestionCache ==
    ASSUME Cache!DataBaseAssumption, CacheInv, NEW n \in Int, Cache!InitQuestion(n)
    PROVE  CacheInv'
<1>0. /\ CacheTypes /\ ColumnsHoldRows /\ RecordedForOneGame
      /\ Cache!QuestionOfGame /\ Cache!OneAnswerForAllGames
      /\ QuestionTable \in Seq([Cache!QuestionColumns -> Cache!Texts])
      /\ Len(QuestionTable) \in Nat /\ DOMAIN QuestionTable = 1..Len(QuestionTable)
  BY DEF CacheInv, Cache!DataBaseAssumption
<1>1. CASE Cache!Fault("initQuestion")
  BY <1>0, <1>1 DEF Cache!Fault, Cache!tables, Cache!answers, CacheInv, CacheTypes,
                    ColumnsHoldRows, ColumnOf, Repeats, RowOf, RecordedForOneGame,
                    Cache!QuestionOfGame, Cache!OneAnswerForAllGames
<1> DEFINE cached == Cache!Cached(Cache!QuestionColumns, QuestionTable)
           row(i) == [c \in Cache!QuestionColumns |->
                        IF i <= Len(cached[c]) THEN cached[c][i] ELSE NoText]
<1>2. CASE /\ results' = cached
           /\ gameID' = Cache!NewGameID
           /\ asked' = [i \in 1..n |-> [id |-> i, row |-> row(i)]]
           /\ queries' = [queries EXCEPT !.questions = @ + 1]
           /\ UNCHANGED <<answersTable, usersTable, scores, login, queryFault>>
  <2>1. /\ queries' \in [questions : Nat, cut : Nat, scores : Nat, matched : Nat]
        /\ queries'.questions = queries.questions + 1 /\ queries'.cut = queries.cut
    <3>1. queries \in [questions : Nat, cut : Nat, scores : Nat, matched : Nat]
      BY <1>0 DEF CacheTypes
    <3>2. queries' = [queries EXCEPT !.questions = @ + 1]
      BY <1>2
    <3> QED BY <3>1, <3>2
  <2>2. gameID' = gameID
    BY <1>2 DEF Cache!NewGameID
  <2>3. /\ ColumnsHoldRows'
        /\ \E order \in Seq(Cache!QuestionIds) :
              /\ \A c \in Cache!QuestionColumns : results'[c] = ColumnOf(order, c)
              /\ queries'.cut = 0 => Repeats(order, queries'.questions)
        /\ \A c \in Cache!QuestionColumns : results'[c] \in Seq(Cache!Texts)
    <3>1. PICK k \in 0..Len(QuestionTable) : k = Len(QuestionTable)
      <4>1. Len(QuestionTable) \in 0..Len(QuestionTable)
        BY <1>0
      <4> QED BY <4>1
    <3>2. DOMAIN QuestionTable = 1..k
      BY <1>0, <3>1
    <3> QED BY <1>2, <2>1, <3>1, <3>2, SelectCache
  <2>4. PICK order \in Seq(Cache!QuestionIds) :
              /\ \A c \in Cache!QuestionColumns : results'[c] = ColumnOf(order, c)
              /\ queries'.cut = 0 => Repeats(order, queries'.questions)
    BY <2>3
  <2>5. CacheTypes'
    BY <1>0, <1>2, <2>1, <2>2, <2>3 DEF CacheTypes
  \* A question within the cache is the row that stands there.
  <2>6. ASSUME NEW i \in 1..n, i <= Len(order)
        PROVE  /\ order[i] \in 1..Len(QuestionTable)
               /\ row(i) = QuestionTable[order[i]]
    <3>1. i \in 1..Len(order) /\ order[i] \in 1..Len(QuestionTable)
      BY <2>6 DEF Cache!QuestionIds
    <3>2. ASSUME NEW c \in Cache!QuestionColumns
          PROVE  row(i)[c] = QuestionTable[order[i]][c]
      <4>1. cached[c] = ColumnOf(order, c)
        BY <1>2, <2>4
      <4> HIDE DEF cached
      <4>2. Len(cached[c]) = Len(order) /\ cached[c][i] = QuestionTable[order[i]][c]
        BY <3>1, <4>1, ColumnTyped
      <4> QED BY <2>6, <4>2
    <3>3. QuestionTable[order[i]] \in [Cache!QuestionColumns -> Cache!Texts]
      BY <1>0, <3>1
    <3>4. row(i) = [c \in Cache!QuestionColumns |-> QuestionTable[order[i]][c]]
      <4> HIDE DEF cached
      <4> QED BY <3>2
    <3> QED BY <3>1, <3>3, <3>4
  <2>7. Cache!QuestionOfGame'
    <3>1. Len(results'["question"]) = Len(order)
      <4>1. "question" \in Cache!QuestionColumns
        BY DEF Cache!QuestionColumns
      <4> QED BY <2>4, <4>1, ColumnTyped
    <3>2. asked' = [i \in 1..n |-> [id |-> i, row |-> row(i)]]
      BY <1>2
    <3> HIDE DEF row
    <3>3. \A i \in 1..n : asked'[i].row = row(i)
      BY <3>2
    <3>4. ASSUME NEW i \in 1..n, i <= Len(results'["question"])
          PROVE  asked'[i].row \in Cache!ToSet(QuestionTable)
      <4>1. order[i] \in DOMAIN QuestionTable /\ asked'[i].row = QuestionTable[order[i]]
        BY <1>0, <2>6, <3>1, <3>3, <3>4
      <4> QED BY <4>1 DEF Cache!ToSet
    <3>5. ASSUME NEW i \in 1..n, queries'.cut = 0,
                 i <= queries'.questions * Len(QuestionTable)
          PROVE  asked'[i].row = QuestionTable[RowOf(i)]
      <4>1. Len(order) = queries'.questions * Len(QuestionTable)
            /\ \A j \in 1..Len(order) : order[j] = RowOf(j)
        BY <2>4, <3>5 DEF Repeats
      <4>2. i \in 1..Len(order)
        BY <3>5, <4>1
      <4> QED BY <2>6, <3>3, <4>1, <4>2
    <3> QED BY <3>2, <3>4, <3>5 DEF Cache!QuestionOfGame, RowOf
  <2>8. RecordedForOneGame' /\ Cache!OneAnswerForAllGames'
    BY <1>0, <1>2, <2>2 DEF RecordedForOneGame, Cache!OneAnswerForAllGames
  <2> QED BY <2>3, <2>5, <2>7, <2>8 DEF CacheInv
\* The select fails after k rows.
<1>3. ASSUME NEW k \in 0..Len(QuestionTable),
             results' = Cache!Cached(Cache!QuestionColumns, SubSeq(QuestionTable, 1, k)),
             queries' = IF k = 0 THEN queries ELSE [queries EXCEPT !.cut = @ + 1],
             gameID' = Cache!NewGameID,
             asked' = <<>>,
             UNCHANGED <<answersTable, usersTable>>
      PROVE  CacheInv'
  <2>1. queries' \in [questions : Nat, cut : Nat, scores : Nat, matched : Nat]
    <3>1. queries \in [questions : Nat, cut : Nat, scores : Nat, matched : Nat]
      BY <1>0, Zenon DEF CacheTypes
    <3>2. [queries EXCEPT !.cut = @ + 1]
              \in [questions : Nat, cut : Nat, scores : Nat, matched : Nat]
      BY <3>1
    <3> QED BY <1>3, <3>1, <3>2, Zenon
  <2>2. gameID' = gameID
    BY <1>3 DEF Cache!NewGameID
  <2> DEFINE rows == SubSeq(QuestionTable, 1, k)
  <2>3. DOMAIN rows = 1..k /\ \A i \in 1..k : rows[i] = QuestionTable[i]
    BY <1>0
  <2> HIDE DEF rows
  <2>4. results' = Cache!Cached(Cache!QuestionColumns, rows)
    BY <1>3 DEF rows
  <2>5. ColumnsHoldRows' /\ \A c \in Cache!QuestionColumns : results'[c] \in Seq(Cache!Texts)
    BY <1>3, <2>1, <2>3, <2>4, SelectCache
  <2>6. CacheTypes'
    BY <1>0, <1>3, <2>1, <2>2, <2>5 DEF CacheTypes
  <2>7. Cache!QuestionOfGame'
    BY <1>3 DEF Cache!QuestionOfGame
  <2>8. RecordedForOneGame' /\ Cache!OneAnswerForAllGames'
    BY <1>0, <1>3, <2>2 DEF RecordedForOneGame, Cache!OneAnswerForAllGames
  <2> QED BY <2>5, <2>6, <2>7, <2>8 DEF CacheInv
<1> QED BY <1>1, <1>2, <1>3 DEF Cache!InitQuestion

\* What no select of questions and no answer changes.
LEMMA CacheKept ==
    ASSUME CacheInv,
           \A c \in Cache!QuestionColumns : results'[c] = results[c],
           queries' \in [questions : Nat, cut : Nat, scores : Nat, matched : Nat],
           queries'.questions = queries.questions,
           queries'.cut = queries.cut,
           usersTable' \in [Names -> Nat],
           UNCHANGED <<gameID, answersTable, asked>>
    PROVE  CacheInv'
<1>0. /\ CacheTypes /\ ColumnsHoldRows /\ RecordedForOneGame
      /\ Cache!QuestionOfGame /\ Cache!OneAnswerForAllGames
  BY DEF CacheInv
<1>1. CacheTypes'
  BY <1>0 DEF CacheTypes
<1>2. ColumnsHoldRows'
  <2>1. PICK order \in Seq(Cache!QuestionIds) :
           /\ \A c \in Cache!QuestionColumns : results[c] = ColumnOf(order, c)
           /\ queries.cut = 0 => Repeats(order, queries.questions)
    BY <1>0, Zenon DEF ColumnsHoldRows
  <2>2. /\ \A c \in Cache!QuestionColumns : results'[c] = ColumnOf(order, c)
        /\ queries'.cut = 0 => Repeats(order, queries'.questions)
    BY <2>1
  <2> QED BY <2>2, Zenon DEF ColumnsHoldRows, ColumnOf, Repeats, RowOf
<1>3. Cache!QuestionOfGame'
  <2>1. results'["question"] = results["question"]
    BY DEF Cache!QuestionColumns
  <2> QED BY <1>0, <2>1 DEF Cache!QuestionOfGame
<1>4. RecordedForOneGame' /\ Cache!OneAnswerForAllGames'
  BY <1>0 DEF RecordedForOneGame, Cache!OneAnswerForAllGames
<1> QED BY <1>1, <1>2, <1>3, <1>4 DEF CacheInv

\* Sign-ins and score lists fill another column of the same map.
LEMMA OtherColumn ==
    ASSUME NEW rows
    PROVE  \A c \in Cache!QuestionColumns :
               Cache!Cached({"username"}, rows)[c] = results[c]
BY DEF Cache!Cached, Cache!Columns, Cache!QuestionColumns

LEMMA ScoresCache ==
    ASSUME CacheInv, Cache!GetBestScores
    PROVE  CacheInv'
<1>0. CacheTypes
  BY DEF CacheInv
<1>1. /\ \E some : results' = Cache!Cached({"username"}, Cache!RowsOf(some))
      /\ queries' = [queries EXCEPT !.scores = @ + 1]
      /\ UNCHANGED <<answersTable, usersTable, gameID, asked>>
  BY DEF Cache!GetBestScores, Cache!tables
<1>2. \A c \in Cache!QuestionColumns : results'[c] = results[c]
  BY <1>1, OtherColumn, Zenon
<1>3. /\ queries' \in [questions : Nat, cut : Nat, scores : Nat, matched : Nat]
      /\ queries'.questions = queries.questions /\ queries'.cut = queries.cut
  BY <1>0, <1>1 DEF CacheTypes
<1>4. usersTable' \in [Names -> Nat]
  BY <1>0, <1>1 DEF CacheTypes
<1> QED BY <1>1, <1>2, <1>3, <1>4, CacheKept

LEMMA SignInCache ==
    ASSUME CacheInv, NEW u \in Names, NEW runs \in BOOLEAN,
           Cache!IsUserAndPassMatch(u, runs)
    PROVE  CacheInv'
<1>0. CacheTypes
  BY DEF CacheInv
<1>1. PICK rows \in 0..usersTable[u] :
         /\ results' = Cache!Cached({"username"},
                                    [i \in 1..rows |-> [username |-> u]])
         /\ queries' = [queries EXCEPT !.matched = @ + rows]
  BY DEF Cache!IsUserAndPassMatch
<1>2. UNCHANGED <<answersTable, usersTable, gameID, asked>>
  BY DEF Cache!IsUserAndPassMatch, Cache!tables
<1>3. \A c \in Cache!QuestionColumns : results'[c] = results[c]
  BY <1>1, OtherColumn, Zenon
<1>4. rows \in Nat
  BY <1>0, <1>1 DEF CacheTypes
<1>5. /\ queries' \in [questions : Nat, cut : Nat, scores : Nat, matched : Nat]
      /\ queries'.questions = queries.questions /\ queries'.cut = queries.cut
  <2>1. queries \in [questions : Nat, cut : Nat, scores : Nat, matched : Nat]
    BY <1>0 DEF CacheTypes
  <2>2. queries' = [queries EXCEPT !.matched = @ + rows]
    BY <1>1
  <2> QED BY <1>4, <2>1, <2>2
<1>6. usersTable' \in [Names -> Nat]
  BY <1>0, <1>2 DEF CacheTypes
<1> QED BY <1>2, <1>3, <1>5, <1>6, CacheKept

LEMMA SignUpCache ==
    ASSUME CacheInv, NEW u \in Names, NEW runs \in BOOLEAN,
           Cache!AddNewUser(u, runs)
    PROVE  CacheInv'
<1>0. CacheTypes
  BY DEF CacheInv
<1>1. UNCHANGED <<results, answersTable, gameID, asked, queries>>
  BY DEF Cache!AddNewUser, Cache!answers
<1>2. usersTable' \in [Names -> Nat]
  BY <1>0 DEF CacheTypes, Cache!AddNewUser
<1>3. queries' \in [questions : Nat, cut : Nat, scores : Nat, matched : Nat]
  BY <1>0, <1>1 DEF CacheTypes
<1> QED BY <1>1, <1>2, <1>3, CacheKept

\* A row that is added has a key that no row of this id had, and every row the
\* server added before is for the same id.
LEMMA AnswerCache ==
    ASSUME Cache!DataBaseAssumption, CacheInv, NEW u \in Names, NEW q,
           NEW correct \in BOOLEAN, NEW runs \in BOOLEAN,
           Cache!AddAnswerToPlayer(u, q, correct, runs)
    PROVE  CacheInv'
<1>0. /\ CacheTypes /\ ColumnsHoldRows /\ RecordedForOneGame
      /\ Cache!QuestionOfGame /\ Cache!OneAnswerForAllGames
  BY DEF CacheInv
<1> DEFINE row == [game |-> gameID, username |-> u,
                   question |-> asked[q].id, correct |-> correct]
<1>1. /\ q \in DOMAIN asked
      /\ UNCHANGED <<results, usersTable, gameID, asked, queries>>
  BY DEF Cache!AddAnswerToPlayer, Cache!answers
<1>2. CASE answersTable' = answersTable
  <2>1. /\ queries' \in [questions : Nat, cut : Nat, scores : Nat, matched : Nat]
        /\ usersTable' \in [Names -> Nat]
    BY <1>0, <1>1 DEF CacheTypes
  <2> QED BY <1>1, <1>2, <2>1, CacheKept
<1>3. CASE /\ answersTable' = Append(answersTable, row)
           /\ ~\E r \in Cache!ToSet(answersTable) :
                 <<r.game, r.username, r.question>> =
                     <<row.game, row.username, row.question>>
  <2> DEFINE n == Len(answersTable)
             first == Len(FirstAnswers)
  <2>1. row \in Cache!AnswerRow
    BY <1>0, <1>1 DEF CacheTypes, Cache!AnswerRow
  <2>2. /\ answersTable' \in Seq(Cache!AnswerRow) /\ Len(answersTable') = n + 1
        /\ \A i \in 1..n : answersTable'[i] = answersTable[i]
        /\ answersTable'[n + 1] = row
        /\ n \in Nat
    BY <1>0, <1>3, <2>1 DEF CacheTypes
  <2>3. first \in Nat /\ first <= n
    BY <1>0 DEF RecordedForOneGame, Cache!DataBaseAssumption
  <2>4. row.game = gameID /\ row.username = u /\ row.question = asked[q].id
    OBVIOUS
  <2>5. \A i \in 1..n : answersTable[i] \in Cache!ToSet(answersTable)
    BY <1>0 DEF CacheTypes, Cache!ToSet
  <2> HIDE DEF row
  <2>6. \A i \in (first + 1)..n : ~ /\ answersTable[i].username = row.username
                                    /\ answersTable[i].question = row.question
    <3> SUFFICES ASSUME NEW i \in (first + 1)..n,
                        answersTable[i].username = row.username,
                        answersTable[i].question = row.question
                 PROVE  FALSE
      OBVIOUS
    <3>1. i \in 1..n
      BY <2>2, <2>3
    <3>2. answersTable[i].game = row.game
      BY <1>0, <2>4 DEF RecordedForOneGame
    <3>3. answersTable[i] \in Cache!ToSet(answersTable)
      BY <2>5, <3>1
    <3> QED BY <1>3, <3>2, <3>3
  <2>7. CacheTypes'
    BY <1>0, <1>1, <2>2 DEF CacheTypes
  <2>8. ColumnsHoldRows'
    BY <1>0, <1>1 DEF ColumnsHoldRows, ColumnOf, Repeats, RowOf
  <2>9. Cache!QuestionOfGame'
    BY <1>0, <1>1 DEF Cache!QuestionOfGame
  <2>10. RecordedForOneGame'
    BY <1>0, <1>1, <2>2, <2>3, <2>4 DEF RecordedForOneGame
  <2>11. Cache!OneAnswerForAllGames'
    <3> SUFFICES ASSUME NEW i \in (first + 1)..(n + 1), NEW j \in (first + 1)..(n + 1),
                        answersTable'[i].username = answersTable'[j].username,
                        answersTable'[i].question = answersTable'[j].question
                 PROVE  i = j
      BY <2>2 DEF Cache!OneAnswerForAllGames
    <3>1. CASE i \in (first + 1)..n /\ j \in (first + 1)..n
      BY <1>0, <2>2, <2>3, <3>1 DEF Cache!OneAnswerForAllGames
    <3>2. CASE i = n + 1 /\ j \in (first + 1)..n
      BY <2>2, <2>3, <2>6, <3>2
    <3>3. CASE j = n + 1 /\ i \in (first + 1)..n
      BY <2>2, <2>3, <2>6, <3>3
    <3> QED BY <2>2, <2>3, <3>1, <3>2, <3>3
  <2> QED BY <2>7, <2>8, <2>9, <2>10, <2>11 DEF CacheInv
<1> QED BY <1>2, <1>3 DEF Cache!AddAnswerToPlayer, Cache!Inserted

LEMMA FinishCache ==
    ASSUME CacheInv, NEW u, Cache!FinishGame(u)
    PROVE  CacheInv'
<1>0. CacheTypes
  BY DEF CacheInv
<1>1. UNCHANGED <<results, answersTable, usersTable, gameID, asked, queries>>
  BY DEF Cache!FinishGame, Cache!Fault, Cache!tables, Cache!answers
<1>2. /\ queries' \in [questions : Nat, cut : Nat, scores : Nat, matched : Nat]
      /\ usersTable' \in [Names -> Nat]
  BY <1>0, <1>1 DEF CacheTypes
<1> QED BY <1>1, <1>2, CacheKept

LEMMA CacheStep ==
    Cache!DataBaseAssumption /\ CacheInv /\ [Cache!Next]_Cache!vars => CacheInv'
<1> SUFFICES ASSUME Cache!DataBaseAssumption, CacheInv, [Cache!Next]_Cache!vars
             PROVE  CacheInv'
  OBVIOUS
<1>1. CASE UNCHANGED Cache!vars
  <2>1. UNCHANGED <<results, answersTable, usersTable, gameID, asked, queries>>
    BY <1>1 DEF Cache!vars, Cache!tables, Cache!answers
  <2>2. /\ queries' \in [questions : Nat, cut : Nat, scores : Nat, matched : Nat]
        /\ usersTable' \in [Names -> Nat]
    BY <2>1 DEF CacheInv, CacheTypes
  <2> QED BY <2>1, <2>2, CacheKept
<1>2. ASSUME NEW n \in QuestionNumbers, Cache!InitQuestion(n) PROVE CacheInv'
  <2>1. n \in Int
    BY <1>2 DEF Cache!DataBaseAssumption
  <2> QED BY <1>2, <2>1, InitQuestionCache
<1>3. CASE Cache!GetBestScores
  BY <1>3, ScoresCache
<1>4. ASSUME NEW u \in Names, NEW runs \in BOOLEAN,
             \/ Cache!IsUserAndPassMatch(u, runs)
             \/ Cache!AddNewUser(u, runs)
             \/ \E q \in DOMAIN asked, correct \in BOOLEAN :
                   Cache!AddAnswerToPlayer(u, q, correct, runs)
      PROVE  CacheInv'
  BY <1>4, SignInCache, SignUpCache, AnswerCache
<1>5. ASSUME NEW u \in Names, Cache!FinishGame(u) PROVE CacheInv'
  BY <1>5, FinishCache
<1> QED BY <1>1, <1>2, <1>3, <1>4, <1>5 DEF Cache!Next
-----------------------------------------------------------------------------
\* ResultCache has FiniteSets through its instance.
LEMMA SameCardinality ==
    ASSUME NEW S PROVE Cache!Cardinality(S) = Cardinality(S)
BY DEF Cache!Cardinality, Cardinality

\* What numbers the elements of a finite set names each of them once.
LEMMA Numbered ==
    ASSUME NEW S, IsFiniteSet(S)
    PROVE  /\ Cardinality(S) \in Nat
           /\ Cache!SetToSeq(S) \in [1..Cardinality(S) -> S]
           /\ \A a, b \in 1..Cardinality(S) :
                 Cache!SetToSeq(S)[a] = Cache!SetToSeq(S)[b] => a = b
           /\ \A x \in S : \E k \in 1..Cardinality(S) : Cache!SetToSeq(S)[k] = x
  <1> DEFINE n == Cardinality(S)
             order == Cache!SetToSeq(S)
  <1>1. n \in Nat /\ ExistsBijection(1..n, S)
    BY FS_CardinalityType
  <1>2. PICK f \in [1..n -> S] : \A a, b \in 1..n : f[a] = f[b] => a = b
    BY <1>1 DEF ExistsBijection, Bijection, Injection, IsInjective
  <1>3. order = CHOOSE g \in [1..n -> S] : Cache!IsInjective(g)
    BY SameCardinality DEF Cache!SetToSeq
  <1>4. order \in [1..n -> S] /\ Cache!IsInjective(order)
    <2>1. f \in [1..n -> S] /\ Cache!IsInjective(f)
      BY <1>2 DEF Cache!IsInjective
    <2> HIDE DEF order, n
    <2> QED BY <1>3, <2>1
  <1>5. \A a, b \in 1..n : order[a] = order[b] => a = b
    <2> HIDE DEF order, n
    <2> QED BY <1>4 DEF Cache!IsInjective
  <1>6. order \in Surjection(1..n, S)
    <2> HIDE DEF order, n
    <2>1. order \in Injection(1..n, S)
      BY <1>4, <1>5 DEF Injection, IsInjective
    <2>2. Cardinality(1..n) = n
      BY <1>1, FS_Interval
    <2> QED BY <2>1, <2>2, FS_Injection DEF n
  <1>7. \A x \in S : \E k \in 1..n : order[k] = x
    <2> HIDE DEF order, n
    <2> QED BY <1>6 DEF Surjection
  <1> QED BY <1>1, <1>4, <1>5, <1>7

RightOf(u) == {i \in DOMAIN answersTable : /\ answersTable[i].correct
                                           /\ answersTable[i].username = u}

LEMMA RightIsFinite ==
    ASSUME CacheTypes
    PROVE  IsFiniteSet(Cache!Correct) /\ \A u : IsFiniteSet(RightOf(u))
  <1>1. DOMAIN answersTable = 1..Len(answersTable) /\ Len(answersTable) \in Nat
    BY DEF CacheTypes
  <1>2. IsFiniteSet(1..Len(answersTable))
    BY <1>1, FS_Interval
  <1>3. Cache!Correct \in SUBSET (1..Len(answersTable))
    BY <1>1 DEF Cache!Correct
  <1>4. ASSUME NEW u PROVE RightOf(u) \in SUBSET (1..Len(answersTable))
    BY <1>1 DEF RightOf
  <1> QED BY <1>2, <1>3, <1>4, FS_Subset

\* What a select of getBestScores appends to the column.
Credited(some) == [k \in DOMAIN Cache!RowsOf(some) |-> Cache!RowsOf(some)[k]["username"]]

LEMMA CreditedIs ==
    ASSUME CacheTypes, NEW some \in SUBSET Cache!Correct
    PROVE  \E n \in Nat : \E order \in [1..n -> some] :
              /\ \A a, b \in 1..n : order[a] = order[b] => a = b
              /\ \A i \in some : \E k \in 1..n : order[k] = i
              /\ Credited(some) = [k \in 1..n |-> answersTable[order[k]].username]
  <1> DEFINE n == Cardinality(some)
             order == Cache!SetToSeq(some)
  <1>0. IsFiniteSet(some)
    BY RightIsFinite, FS_Subset
  <1>1. /\ n \in Nat
        /\ order \in [1..n -> some]
        /\ \A a, b \in 1..n : order[a] = order[b] => a = b
        /\ \A i \in some : \E k \in 1..n : order[k] = i
    BY <1>0, Numbered
  <1>2. Cache!RowsOf(some) = [k \in DOMAIN order |-> answersTable[order[k]]]
    BY DEF Cache!RowsOf
  <1> HIDE DEF n, order
  <1>3. Credited(some) = [k \in 1..n |-> answersTable[order[k]].username]
    BY <1>1, <1>2 DEF Credited
  <1> QED BY <1>1, <1>3

LEMMA CreditedNames ==
    ASSUME CacheTypes, NEW some \in SUBSET Cache!Correct
    PROVE  Credited(some) \in Seq(Names)
  <1>1. PICK n \in Nat : \E order \in [1..n -> some] :
            /\ \A a, b \in 1..n : order[a] = order[b] => a = b
            /\ \A i \in some : \E k \in 1..n : order[k] = i
            /\ Credited(some) = [k \in 1..n |-> answersTable[order[k]].username]
    BY CreditedIs, Zenon
  <1>2. PICK order \in [1..n -> some] :
            Credited(some) = [k \in 1..n |-> answersTable[order[k]].username]
    BY <1>1
  <1>3. ASSUME NEW i \in some PROVE answersTable[i].username \in Names
    <2>1. answersTable[i] \in Cache!AnswerRow
      BY DEF Cache!Correct, CacheTypes
    <2> QED BY <2>1 DEF Cache!AnswerRow
  <1>4. \A k \in 1..n : answersTable[order[k]].username \in Names
    BY <1>2, <1>3
  <1> QED BY <1>2, <1>4

\* A complete select.
AllCredited == Credited(Cache!Correct)

\* The column counts for everybody at least the right answers that are there,
\* and exactly those if it was empty before.
LEMMA CreditCounts ==
    ASSUME CacheTypes, NEW column \in Seq(Names), NEW u
    PROVE  /\ Cache!Counted(u, column \o AllCredited) \in Nat
           /\ Cache!Counted(u, column \o AllCredited) >= Cache!TrueCount(u)
           /\ column = <<>> =>
                  Cache!Counted(u, column \o AllCredited) = Cache!TrueCount(u)
  <1> DEFINE new == column \o AllCredited
             occurrences == {i \in DOMAIN new : new[i] = u}
             m == Len(column)
  <1>0. PICK n \in Nat : \E order \in [1..n -> Cache!Correct] :
              /\ \A a, b \in 1..n : order[a] = order[b] => a = b
              /\ \A i \in Cache!Correct : \E k \in 1..n : order[k] = i
              /\ AllCredited = [k \in 1..n |-> answersTable[order[k]].username]
    <2>1. Cache!Correct \in SUBSET Cache!Correct
      OBVIOUS
    <2> QED BY <2>1, CreditedIs, Zenon DEF AllCredited
  <1>1. PICK order \in [1..n -> Cache!Correct] :
              /\ \A a, b \in 1..n : order[a] = order[b] => a = b
              /\ \A i \in Cache!Correct : \E k \in 1..n : order[k] = i
              /\ AllCredited = [k \in 1..n |-> answersTable[order[k]].username]
    BY <1>0
  <1>2. AllCredited \in Seq(Names) /\ Len(AllCredited) = n
    <2>1. Cache!Correct \in SUBSET Cache!Correct
      OBVIOUS
    <2>2. AllCredited \in Seq(Names)
      BY <2>1, CreditedNames, Zenon DEF AllCredited
    <2> QED BY <1>1, <2>2
  <1>3. /\ new \in Seq(Names) /\ Len(new) = m + n /\ m \in Nat
        /\ \A k \in 1..n : new[m + k] = answersTable[order[k]].username
    <2> HIDE DEF m
    <2>1. /\ new \in Seq(Names) /\ Len(new) = Len(column) + Len(AllCredited)
          /\ \A k \in 1..Len(AllCredited) : new[Len(column) + k] = AllCredited[k]
      BY <1>2, Joined
    <2> HIDE DEF new
    <2>2. \A k \in 1..n : AllCredited[k] = answersTable[order[k]].username
      BY <1>1
    <2> QED BY <1>2, <2>1, <2>2 DEF m
  <1>4. /\ Cache!Counted(u, new) = Cardinality(occurrences)
        /\ Cache!TrueCount(u) = Cardinality(RightOf(u))
    BY SameCardinality
    DEF Cache!Counted, Cache!Occurrences, Cache!TrueCount, RightOf
  <1> HIDE DEF new, m
  <1>5. IsFiniteSet(occurrences) /\ occurrences \in SUBSET (1..(m + n))
    <2>1. IsFiniteSet(1..(m + n))
      BY <1>3, FS_Interval
    <2>2. occurrences \in SUBSET (1..(m + n))
      BY <1>3
    <2> QED BY <2>1, <2>2, FS_Subset
  <1>6. IsFiniteSet(RightOf(u)) /\ RightOf(u) \subseteq Cache!Correct
    BY RightIsFinite DEF RightOf, Cache!Correct
  <1>7. Cardinality(occurrences) \in Nat /\ Cardinality(RightOf(u)) \in Nat
    BY <1>5, <1>6, FS_CardinalityType
  \* A right answer of u is credited to him at a place of its own.
  <1>8. Cardinality(RightOf(u)) <= Cardinality(occurrences)
    <2> DEFINE at(i) == CHOOSE k \in 1..n : order[k] = i
               place == [i \in RightOf(u) |-> m + at(i)]
    <2>1. ASSUME NEW i \in RightOf(u)
          PROVE  at(i) \in 1..n /\ order[at(i)] = i
      BY <1>1, <1>6
    <2> HIDE DEF at
    <2>2. ASSUME NEW i \in RightOf(u) PROVE m + at(i) \in occurrences
      <3>1. answersTable[i].username = u
        BY DEF RightOf
      <3>2. new[m + at(i)] = u
        BY <1>3, <2>1, <3>1
      <3>3. m + at(i) \in DOMAIN new
        <4>1. at(i) \in 1..n /\ m \in Nat /\ n \in Nat
          BY <1>3, <2>1
        <4>2. m + at(i) \in 1..(m + n)
          BY <4>1
        <4> QED BY <1>3, <4>2
      <3> QED BY <3>2, <3>3
    <2>3. \A i, j \in RightOf(u) : m + at(i) = m + at(j) => i = j
      BY <1>3, <2>1
    <2> HIDE DEF occurrences
    <2>4. place \in Injection(RightOf(u), occurrences)
      BY <2>2, <2>3 DEF Injection, IsInjective
    <2> QED BY <1>5, <2>4, FS_Injection
  \* In an empty column there is nothing else.
  <1>9. ASSUME column = <<>> PROVE Cardinality(occurrences) <= Cardinality(RightOf(u))
    <2> DEFINE answer == [k \in occurrences |-> order[k]]
    <2>1. m = 0
      BY <1>9 DEF m
    <2>2. ASSUME NEW k \in occurrences
          PROVE  k \in 1..n /\ order[k] \in RightOf(u)
      <3>1. k \in 1..n /\ new[k] = u
        BY <1>3, <2>1
      <3>2. new[k] = answersTable[order[k]].username
        BY <1>3, <2>1, <3>1
      <3>3. order[k] \in Cache!Correct
        BY <3>1
      <3> QED BY <3>1, <3>2, <3>3 DEF Cache!Correct, RightOf
    <2> HIDE DEF occurrences
    <2>3. answer \in Injection(occurrences, RightOf(u))
      BY <1>1, <2>2 DEF Injection, IsInjective
    <2> QED BY <1>6, <2>3, FS_Injection
  <1> HIDE DEF occurrences
  <1> QED BY <1>4, <1>7, <1>8, <1>9 DEF new
-----------------------------------------------------------------------------
\* Nothing fills the column of the names but the score lists and the sign-ins
\* that match.
ColumnFills ==
    queries.scores = 0 /\ queries.matched = 0 => results["username"] = <<>>

TypedCache == Cache!TypeOK /\ ColumnFills

LEMMA TypedInit == Cache!DataBaseAssumption /\ Cache!Init => TypedCache
<1> SUFFICES ASSUME Cache!DataBaseAssumption, Cache!Init PROVE TypedCache
  OBVIOUS
<1>1. \A S : <<>> \in Seq(S)
  OBVIOUS
<1>2. /\ DOMAIN results = Cache!Columns
      /\ \A c \in Cache!Columns : results[c] = <<>>
  BY DEF Cache!Init
<1>3. /\ Cache!QuestionColumns \subseteq Cache!Columns
      /\ "username" \in Cache!Columns
  BY DEF Cache!Columns
<1>4. /\ usersTable \in [Names -> Nat] /\ gameID \in Int
      /\ answersTable \in Seq(Cache!AnswerRow)
      /\ queries \in [questions : Nat, cut : Nat, scores : Nat, matched : Nat]
  BY DEF Cache!Init, Cache!DataBaseAssumption
<1>5. /\ login \in [rows : Nat, match : BOOLEAN]
      /\ steps \in 0..MaxQueries
      /\ queryFault \in Cache!Deaths \cup {NoText}
      /\ asked = <<>> /\ scores = <<>>
  BY DEF Cache!Init, Cache!DataBaseAssumption, Cache!NoLogin
<1> QED BY <1>1, <1>2, <1>3, <1>4, <1>5, Zenon DEF TypedCache, Cache!TypeOK, ColumnFills

\* What CacheInv says of the types already.
LEMMA TypesFromCache ==
    ASSUME CacheInv
    PROVE  /\ \A c \in Cache!QuestionColumns : results[c] \in Seq(Cache!Texts)
           /\ answersTable \in Seq(Cache!AnswerRow)
           /\ usersTable \in [Names -> Nat]
           /\ gameID \in Int
           /\ queries \in [questions : Nat, cut : Nat, scores : Nat, matched : Nat]
BY DEF CacheInv, CacheTypes

\* What a step leaves of the rest.
LEMMA TypedKept ==
    ASSUME TypedCache, CacheInv',
           DOMAIN results' = Cache!Columns,
           results'["username"] = results["username"],
           queries'.scores = queries.scores,
           queries'.matched = queries.matched,
           asked' \in Seq([id : Nat, row : [Cache!QuestionColumns ->
                                               Cache!Texts \cup {NoText}]]),
           UNCHANGED <<scores, login>>,
           steps' \in 0..MaxQueries,
           queryFault' \in Cache!Deaths \cup {NoText}
    PROVE  TypedCache'
<1>1. /\ \A c \in Cache!QuestionColumns : results'[c] \in Seq(Cache!Texts)
      /\ answersTable' \in Seq(Cache!AnswerRow)
      /\ usersTable' \in [Names -> Nat]
      /\ gameID' \in Int
      /\ queries' \in [questions : Nat, cut : Nat, scores : Nat, matched : Nat]
  BY DEF CacheInv, CacheTypes
<1>2. /\ results["username"] \in Seq(Names)
      /\ scores \in Seq(Cache!Score)
      /\ login \in [rows : Nat, match : BOOLEAN]
      /\ ColumnFills
  BY DEF TypedCache, Cache!TypeOK
<1>3. Cache!TypeOK'
  BY <1>1, <1>2, Zenon DEF Cache!TypeOK
<1>4. ColumnFills'
  BY <1>2 DEF ColumnFills
<1> QED BY <1>3, <1>4 DEF TypedCache

\* Queries are counted up to the bound, and what is cached keeps the columns.
LEMMA QueryCounts ==
    ASSUME Cache!DataBaseAssumption, TypedCache, Cache!Query
    PROVE  steps' \in 0..MaxQueries /\ queryFault = NoText
BY DEF Cache!Query, TypedCache, Cache!TypeOK, Cache!DataBaseAssumption

LEMMA CachedColumns ==
    ASSUME NEW columns, NEW rows
    PROVE  DOMAIN Cache!Cached(columns, rows) = Cache!Columns
BY DEF Cache!Cached

LEMMA InitQuestionTyped ==
    ASSUME Cache!DataBaseAssumption, TypedCache, CacheInv', NEW n \in Int,
           Cache!InitQuestion(n)
    PROVE  TypedCache'
<1> DEFINE cached == Cache!Cached(Cache!QuestionColumns, QuestionTable)
           row(i) == [c \in Cache!QuestionColumns |->
                        IF i <= Len(cached[c]) THEN cached[c][i] ELSE NoText]
           Entry == [id : Nat, row : [Cache!QuestionColumns ->
                                         Cache!Texts \cup {NoText}]]
<1>0. /\ steps' \in 0..MaxQueries /\ queryFault = NoText
      /\ queryFault \in Cache!Deaths \cup {NoText}
  BY QueryCounts DEF Cache!InitQuestion
<1>1. DOMAIN results = Cache!Columns /\ asked \in Seq(Entry)
  BY DEF TypedCache, Cache!TypeOK
<1>2. CASE Cache!Fault("initQuestion")
  <2>1. UNCHANGED <<results, asked, scores, login, queries>>
    BY <1>2 DEF Cache!Fault, Cache!answers
  <2>2. queryFault' \in Cache!Deaths \cup {NoText}
    BY <1>2 DEF Cache!Fault, Cache!Deaths
  <2> HIDE DEF Entry
  <2>3. asked' \in Seq(Entry) /\ DOMAIN results' = Cache!Columns
    BY <1>1, <2>1
  <2> USE DEF Entry
  <2> QED BY <1>0, <2>1, <2>2, <2>3, TypedKept
<1>3. CASE /\ results' = cached
           /\ gameID' = Cache!NewGameID
           /\ asked' = [i \in 1..n |-> [id |-> i, row |-> row(i)]]
           /\ queries' = [queries EXCEPT !.questions = @ + 1]
           /\ UNCHANGED <<answersTable, usersTable, scores, login, queryFault>>
  <2>1. \A c \in Cache!QuestionColumns : cached[c] \in Seq(Cache!Texts)
    BY <1>3 DEF CacheInv, CacheTypes
  <2>2. /\ DOMAIN cached = Cache!Columns
        /\ cached["username"] = results["username"]
    BY DEF Cache!Cached, Cache!Columns, Cache!QuestionColumns
  <2>3. queries'.scores = queries.scores /\ queries'.matched = queries.matched
    BY <1>3 DEF TypedCache, Cache!TypeOK
  <2> HIDE DEF cached
  <2>4. ASSUME NEW i \in 1..n PROVE [id |-> i, row |-> row(i)] \in Entry
    <3>1. ASSUME NEW c \in Cache!QuestionColumns
          PROVE  (IF i <= Len(cached[c]) THEN cached[c][i] ELSE NoText)
                     \in Cache!Texts \cup {NoText}
      <4>1. cached[c] \in Seq(Cache!Texts)
        BY <2>1
      <4>2. Len(cached[c]) \in Nat
        BY <4>1
      <4>3. CASE i <= Len(cached[c])
        BY <4>1, <4>2, <4>3
      <4> QED BY <4>3
    <3>2. row(i) \in [Cache!QuestionColumns -> Cache!Texts \cup {NoText}]
      BY <3>1
    <3> HIDE DEF row
    <3> QED BY <3>2
  <2>5. asked' \in Seq(Entry)
    <3> HIDE DEF Entry, row
    <3>1. asked' \in [1..n -> Entry]
      BY <1>3, <2>4
    <3>2. n \in Nat \/ 1..n = 1..0
      OBVIOUS
    <3> QED BY <3>1, <3>2
  <2>6. /\ UNCHANGED <<scores, login>>
        /\ queryFault' \in Cache!Deaths \cup {NoText}
        /\ DOMAIN results' = Cache!Columns
        /\ results'["username"] = results["username"]
    BY <1>0, <1>3, <2>2
  <2> QED BY <1>0, <2>3, <2>5, <2>6, TypedKept
<1>4. ASSUME NEW k, NEW rows,
             results' = Cache!Cached(Cache!QuestionColumns, rows),
             queries' = IF k = 0 THEN queries ELSE [queries EXCEPT !.cut = @ + 1],
             asked' = <<>>,
             UNCHANGED <<scores, login, queryFault>>
      PROVE  TypedCache'
  <2>1. /\ DOMAIN results' = Cache!Columns
        /\ results'["username"] = results["username"]
    BY <1>4 DEF Cache!Cached, Cache!Columns, Cache!QuestionColumns
  <2>2. queries'.scores = queries.scores /\ queries'.matched = queries.matched
    BY <1>4 DEF TypedCache, Cache!TypeOK
  <2> HIDE DEF Entry
  <2>3. asked' \in Seq(Entry)
    BY <1>4
  <2> USE DEF Entry
  <2> QED BY <1>0, <1>4, <2>1, <2>2, <2>3, TypedKept
<1> QED BY <1>2, <1>3, <1>4 DEF Cache!InitQuestion

\* The column of the names after a select of scores.
LEMMA NamesColumn ==
    ASSUME CacheTypes, results["username"] \in Seq(Names), NEW some \in SUBSET Cache!Correct
    PROVE  LET column == Cache!Cached({"username"}, Cache!RowsOf(some))["username"]
           IN column = results["username"] \o Credited(some) /\ column \in Seq(Names)
<1> DEFINE column == Cache!Cached({"username"}, Cache!RowsOf(some))["username"]
<1>1. column = results["username"] \o Credited(some)
  BY DEF Cache!Cached, Cache!Appended, Cache!Columns, Credited
<1>2. Credited(some) \in Seq(Names)
  BY CreditedNames
<1> HIDE DEF column
<1>3. column \in Seq(Names)
  BY <1>1, <1>2, Joined
<1> QED BY <1>1, <1>3 DEF column

LEMMA ScoresTyped ==
    ASSUME Cache!DataBaseAssumption, CacheInv, TypedCache, CacheInv',
           Cache!GetBestScores
    PROVE  TypedCache'
<1>1. /\ steps' \in 0..MaxQueries /\ queryFault = NoText
  BY QueryCounts DEF Cache!GetBestScores
<1>2. /\ queries' = [queries EXCEPT !.scores = @ + 1]
      /\ UNCHANGED <<asked, login, queryFault>>
  BY DEF Cache!GetBestScores
<1>0. PICK some \in SUBSET Cache!Correct :
         LET cached == Cache!Cached({"username"}, Cache!RowsOf(some))
         IN /\ results' = cached
            /\ \/ \E top \in [1..3 -> [name : Names \cup {NoText},
                                       count : 0..Len(cached["username"])]] : scores' = top
               \/ scores' = <<>>
  BY DEF Cache!GetBestScores
<1> DEFINE cached == Cache!Cached({"username"}, Cache!RowsOf(some))
<1>3. /\ results["username"] \in Seq(Names)
      /\ login \in [rows : Nat, match : BOOLEAN]
      /\ queries \in [questions : Nat, cut : Nat, scores : Nat, matched : Nat]
      /\ queryFault \in Cache!Deaths \cup {NoText}
  BY DEF TypedCache, Cache!TypeOK
<1>4. cached["username"] \in Seq(Names)
  BY <1>3, NamesColumn DEF CacheInv
<1>5. DOMAIN cached = Cache!Columns
  BY CachedColumns
<1> HIDE DEF cached
<1>6. scores' \in Seq(Cache!Score)
  <2>1. Len(cached["username"]) \in Nat
    BY <1>4
  <2>2. [name : Names \cup {NoText}, count : 0..Len(cached["username"])]
            \subseteq Cache!Score
    BY <2>1 DEF Cache!Score
  <2>3. scores' \in [1..3 -> Cache!Score] \/ scores' = <<>>
    BY <1>0, <2>2 DEF cached
  <2>4. ASSUME NEW n \in Nat, scores' \in [1..n -> Cache!Score]
        PROVE  scores' \in Seq(Cache!Score)
    BY <2>4
  <2>5. <<>> \in Seq(Cache!Score)
    OBVIOUS
  <2> QED BY <2>3, <2>4, <2>5
<1>7. queries'.scores = queries.scores + 1 /\ queries'.scores # 0
  BY <1>2, <1>3
<1>8. ColumnFills'
  BY <1>7 DEF ColumnFills
<1>9. asked' \in Seq([id : Nat, row : [Cache!QuestionColumns ->
                                          Cache!Texts \cup {NoText}]])
  BY <1>2 DEF TypedCache, Cache!TypeOK
<1>10. /\ \A c \in Cache!QuestionColumns : results'[c] \in Seq(Cache!Texts)
       /\ answersTable' \in Seq(Cache!AnswerRow)
       /\ usersTable' \in [Names -> Nat]
       /\ gameID' \in Int
       /\ queries' \in [questions : Nat, cut : Nat, scores : Nat, matched : Nat]
  BY DEF CacheInv, CacheTypes
<1>11. /\ DOMAIN results' = Cache!Columns
       /\ results'["username"] \in Seq(Names)
       /\ login' \in [rows : Nat, match : BOOLEAN]
       /\ queryFault' \in Cache!Deaths \cup {NoText}
  BY <1>0, <1>2, <1>3, <1>4, <1>5 DEF cached
<1>12. Cache!TypeOK'
  BY <1>1, <1>6, <1>9, <1>10, <1>11, Zenon DEF Cache!TypeOK
<1> QED BY <1>8, <1>12 DEF TypedCache

LEMMA SignInTyped ==
    ASSUME Cache!DataBaseAssumption, CacheInv, TypedCache, CacheInv',
           NEW u \in Names, NEW runs \in BOOLEAN,
           Cache!IsUserAndPassMatch(u, runs)
    PROVE  TypedCache'
<1>1. /\ steps' \in 0..MaxQueries /\ queryFault = NoText
  BY QueryCounts DEF Cache!IsUserAndPassMatch
<1>2. PICK n \in 0..usersTable[u] :
         /\ results' = Cache!Cached({"username"}, [i \in 1..n |-> [username |-> u]])
         /\ login' = [rows |-> n, match |-> ~runs]
         /\ queries' = [queries EXCEPT !.matched = @ + n]
  BY DEF Cache!IsUserAndPassMatch
<1>3. UNCHANGED <<asked, scores, queryFault>>
  BY DEF Cache!IsUserAndPassMatch
<1>4. /\ results["username"] \in Seq(Names)
      /\ usersTable \in [Names -> Nat]
      /\ queries \in [questions : Nat, cut : Nat, scores : Nat, matched : Nat]
      /\ queryFault \in Cache!Deaths \cup {NoText}
      /\ scores \in Seq(Cache!Score)
      /\ ColumnFills
  BY DEF TypedCache, Cache!TypeOK
<1>5. n \in Nat
  BY <1>2, <1>4
<1> DEFINE new == [i \in 1..n |-> u]
<1>6. new \in Seq(Names) /\ Len(new) = n
  BY <1>5
<1>7. results'["username"] = results["username"] \o new
  BY <1>2 DEF Cache!Cached, Cache!Appended, Cache!Columns
<1>8. DOMAIN results' = Cache!Columns
  BY <1>2, CachedColumns
<1> HIDE DEF new
<1>9. /\ results'["username"] \in Seq(Names)
      /\ Len(results'["username"]) = Len(results["username"]) + n
  <2>1. /\ results["username"] \o new \in Seq(Names)
        /\ Len(results["username"] \o new) = Len(results["username"]) + Len(new)
    BY <1>4, <1>6, Joined
  <2> QED BY <1>6, <1>7, <2>1
<1>10. ColumnFills'
  <2>1. queries'.scores = queries.scores /\ queries'.matched = queries.matched + n
    BY <1>2, <1>4, <1>5
  <2> SUFFICES ASSUME queries'.scores = 0, queries'.matched = 0
               PROVE  results'["username"] = <<>>
    BY DEF ColumnFills
  <2>2. queries.scores = 0 /\ queries.matched = 0 /\ n = 0
    BY <1>4, <1>5, <2>1
  <2>3. results["username"] = <<>>
    BY <1>4, <2>2 DEF ColumnFills
  <2>4. Len(results'["username"]) = 0
    BY <1>9, <2>2, <2>3
  <2> QED BY <1>9, <2>4
<1>11. /\ \A c \in Cache!QuestionColumns : results'[c] \in Seq(Cache!Texts)
       /\ answersTable' \in Seq(Cache!AnswerRow)
       /\ usersTable' \in [Names -> Nat]
       /\ gameID' \in Int
       /\ queries' \in [questions : Nat, cut : Nat, scores : Nat, matched : Nat]
  BY DEF CacheInv, CacheTypes
<1>12. /\ login' \in [rows : Nat, match : BOOLEAN]
       /\ queryFault' \in Cache!Deaths \cup {NoText}
       /\ scores' \in Seq(Cache!Score)
  BY <1>2, <1>3, <1>4, <1>5
<1>13. asked' \in Seq([id : Nat, row : [Cache!QuestionColumns ->
                                           Cache!Texts \cup {NoText}]])
  BY <1>3 DEF TypedCache, Cache!TypeOK
<1>14. Cache!TypeOK'
  BY <1>1, <1>8, <1>9, <1>11, <1>12, <1>13, Zenon DEF Cache!TypeOK
<1> QED BY <1>10, <1>14 DEF TypedCache

\* The steps that touch no column: sign-ups, answers and the end of a game.
LEMMA UncachedTyped ==
    ASSUME Cache!DataBaseAssumption, TypedCache, CacheInv', Cache!Query,
           UNCHANGED <<results, asked, scores, login, queries>>,
           queryFault' \in Cache!Deaths \cup {NoText}
    PROVE  TypedCache'
<1>1. steps' \in 0..MaxQueries
  BY QueryCounts
<1>2. /\ DOMAIN results' = Cache!Columns
      /\ asked' \in Seq([id : Nat, row : [Cache!QuestionColumns ->
                                             Cache!Texts \cup {NoText}]])
  BY DEF TypedCache, Cache!TypeOK
<1> QED BY <1>1, <1>2, TypedKept

LEMMA TypedStep ==
    /\ Cache!DataBaseAssumption /\ CacheInv /\ TypedCache /\ [Cache!Next]_Cache!vars
    => TypedCache'
<1> SUFFICES ASSUME Cache!DataBaseAssumption, CacheInv, TypedCache,
                    [Cache!Next]_Cache!vars
             PROVE  TypedCache'
  OBVIOUS
<1>0. CacheInv'
  BY CacheStep
<1>1. CASE UNCHANGED Cache!vars
  BY <1>1 DEF TypedCache, Cache!TypeOK, ColumnFills, Cache!vars, Cache!tables,
              Cache!answers
<1>2. ASSUME NEW n \in QuestionNumbers, Cache!InitQuestion(n) PROVE TypedCache'
  <2>1. n \in Int
    BY <1>2 DEF Cache!DataBaseAssumption
  <2> QED BY <1>0, <1>2, <2>1, InitQuestionTyped
<1>3. CASE Cache!GetBestScores
  BY <1>0, <1>3, ScoresTyped
<1>4. ASSUME NEW u \in Names, NEW runs \in BOOLEAN,
             \/ Cache!IsUserAndPassMatch(u, runs)
             \/ Cache!AddNewUser(u, runs)
             \/ \E q \in DOMAIN asked, correct \in BOOLEAN :
                   Cache!AddAnswerToPlayer(u, q, correct, runs)
      PROVE  TypedCache'
  <2>1. CASE Cache!IsUserAndPassMatch(u, runs)
    BY <1>0, <2>1, SignInTyped
  <2>2. queryFault \in Cache!Deaths \cup {NoText}
    BY DEF TypedCache, Cache!TypeOK
  <2>3. CASE Cache!AddNewUser(u, runs)
    <3>1. Cache!Query /\ UNCHANGED <<results, asked, scores, login, queries, queryFault>>
      BY <2>3 DEF Cache!AddNewUser, Cache!answers
    <3> QED BY <1>0, <2>2, <3>1, UncachedTyped
  <2>4. ASSUME NEW q, NEW correct, Cache!AddAnswerToPlayer(u, q, correct, runs)
        PROVE  TypedCache'
    <3>1. Cache!Query /\ UNCHANGED <<results, asked, scores, login, queries, queryFault>>
      BY <2>4 DEF Cache!AddAnswerToPlayer, Cache!answers
    <3> QED BY <1>0, <2>2, <3>1, UncachedTyped
  <2> QED BY <1>4, <2>1, <2>3, <2>4
<1>5. ASSUME NEW u \in Names, Cache!FinishGame(u) PROVE TypedCache'
  <2>1. Cache!Query /\ UNCHANGED <<results, asked, scores, login, queries>>
    BY <1>5 DEF Cache!FinishGame, Cache!Fault, Cache!answers
  <2>2. queryFault' \in Cache!Deaths \cup {NoText}
    <3>1. queryFault \in Cache!Deaths \cup {NoText}
      BY DEF TypedCache, Cache!TypeOK
    <3> QED BY <1>5, <3>1 DEF Cache!FinishGame, Cache!Fault, Cache!Deaths
  <2> QED BY <1>0, <2>1, <2>2, UncachedTyped
<1> QED BY <1>1, <1>2, <1>3, <1>4, <1>5 DEF Cache!Next

LEMMA AlwaysTyped == Cache!Spec => [](CacheInv /\ TypedCache)
<1>1. Cache!Init => CacheInv /\ TypedCache
  BY QueryAssumption, InitCache, TypedInit
<1>2. CacheInv /\ TypedCache /\ [Cache!Next]_Cache!vars => (CacheInv /\ TypedCache)'
  BY QueryAssumption, CacheStep, TypedStep
<1> QED BY <1>1, <1>2, PTL DEF Cache!Spec
-----------------------------------------------------------------------------
\* The three places of a score list: a place with a name has the count of that
\* name in the column.
LEMMA TopIsCounted ==
    ASSUME NEW top, NEW column \in Seq(Names), Cache!IsTopThree(top, column),
           NEW i \in 1..3, top[i].name # NoText
    PROVE  top[i].count = Cache!Counted(top[i].name, column)
<1> DEFINE named == Cache!ToSet(column)
           size == Cache!Min({3, Cache!Cardinality(named)})
<1>1. named = {column[k] : k \in DOMAIN column}
  BY DEF Cache!ToSet
<1>2. Cardinality(named) \in Nat
  <2>1. IsFiniteSet(DOMAIN column)
    BY FS_Interval
  <2>2. [k \in DOMAIN column |-> column[k]] \in Surjection(DOMAIN column, named)
    BY <1>1 DEF Surjection
  <2>3. IsFiniteSet(named)
    BY <2>1, <2>2, FS_Surjection, Zenon
  <2> QED BY <2>3, FS_CardinalityType
<1>3. size \in Int
  <2> DEFINE k == Cardinality(named)
  <2> HIDE DEF named
  <2>1. size = CHOOSE x \in {3, k} : \A y \in {3, k} : x <= y
    BY SameCardinality DEF Cache!Min
  <2> HIDE DEF size
  <2>2. \E x \in {3, k} : \A y \in {3, k} : x <= y
    BY <1>2
  <2>3. size \in {3, k}
    BY <2>1, <2>2
  <2> QED BY <1>2, <2>3
<1>4. /\ \A j \in 1..size : top[j].count = Cache!Counted(top[j].name, column)
      /\ \A j \in (size + 1)..3 : top[j] = [name |-> NoText, count |-> 0]
  BY DEF Cache!IsTopThree
<1> HIDE DEF size
<1>5. CASE i <= size
  BY <1>3, <1>4, <1>5
<1>6. CASE i > size
  <2>1. i \in (size + 1)..3
    BY <1>3, <1>6
  <2>2. top[i].name = NoText
    BY <1>4, <2>1
  <2> QED BY <2>2
<1> QED BY <1>3, <1>5, <1>6

\* A score list in the step that makes it.
LEMMA ListIsNotTooLow ==
    ASSUME CacheInv, TypedCache, Cache!GetBestScores,
           NEW i \in DOMAIN scores', scores'[i].name # NoText
    PROVE  /\ scores'[i].count >= Cache!TrueCount(scores'[i].name)
           /\ queries.scores = 0 /\ queries.matched = 0 =>
                  scores'[i].count = Cache!TrueCount(scores'[i].name)
<1> DEFINE column == Cache!Cached({"username"}, Cache!RowsOf(Cache!Correct))["username"]
<1>0. scores' # <<>>
  OBVIOUS
<1>1. Cache!IsTopThree(scores', column) /\ i \in 1..3
  BY <1>0 DEF Cache!GetBestScores
<1>2. /\ CacheTypes
      /\ results["username"] \in Seq(Names)
      /\ queries.scores = 0 /\ queries.matched = 0 => results["username"] = <<>>
  BY DEF CacheInv, TypedCache, Cache!TypeOK, ColumnFills
<1>3. column = results["username"] \o AllCredited /\ column \in Seq(Names)
  BY <1>2, NamesColumn DEF AllCredited
<1> HIDE DEF column
<1> DEFINE u == scores'[i].name
<1>4. scores'[i].count = Cache!Counted(u, column)
  BY <1>1, <1>3, TopIsCounted
<1> HIDE DEF u
<1>5. /\ Cache!Counted(u, results["username"] \o AllCredited) >= Cache!TrueCount(u)
      /\ results["username"] = <<>> =>
             Cache!Counted(u, results["username"] \o AllCredited) = Cache!TrueCount(u)
  BY <1>2, CreditCounts
<1>6. /\ scores'[i].count >= Cache!TrueCount(u)
      /\ results["username"] = <<>> => scores'[i].count = Cache!TrueCount(u)
  BY <1>3, <1>4, <1>5
<1> QED BY <1>2, <1>6 DEF u
-----------------------------------------------------------------------------
\* Every variable of the queries has its type: no column ever holds what is not
\* a text of the table or a name, whatever callbacks have filled it.
THEOREM QueriesTypeCorrect == Cache!Spec => []Cache!TypeOK
<1>1. CacheInv /\ TypedCache => Cache!TypeOK
  BY DEF TypedCache
<1> QED BY <1>1, AlwaysTyped, PTL

\* Class DataBase has the types of both views (every action of both).
THEOREM DataBaseTypesCorrect == DataBaseSpec => []TypesOK
<1>1. TypeOK /\ Cache!TypeOK => TypesOK
  BY DEF TypesOK
<1> QED BY <1>1, HandlesTypeCorrect, QueriesTypeCorrect, PTL DEF DataBaseSpec

\* No score list says less of a user than the right answers recorded for him, and
\* that of the first select, if no sign-in has matched before it, says exactly
\* that (getBestScores counts in a column that nothing clears, and to which
\* selects that fail halfway append too).
THEOREM ScoresAreNeverTooLow == Cache!Spec => ScoresNeverTooLow
<1> DEFINE Promise == Cache!GetBestScores =>
               \A i \in DOMAIN scores' : scores'[i].name # NoText =>
                   /\ scores'[i].count >= Cache!TrueCount(scores'[i].name)
                   /\ queries.scores = 0 /\ queries.matched = 0 =>
                          scores'[i].count = Cache!TrueCount(scores'[i].name)
<1>1. CacheInv /\ TypedCache => Promise
  BY ListIsNotTooLow
<1>2. ScoresNeverTooLow <=> [][Promise]_Cache!vars
  BY DEF ScoresNeverTooLow, Cache!ScoresNeverTooLow
<1> HIDE DEF Promise
<1> QED BY <1>1, <1>2, AlwaysTyped, PTL

\* However many games, sign-ins, score lists and selects that fail halfway have
\* filled the map, a question of a game is a row of the table as far as the cache
\* is filled; and the i-th is the i-th row, the table beginning again after its
\* last row, while no select of questions has been cut off (initQuestion and the
\* callbacks).
THEOREM GamesAskTheTable == Cache!Spec => []QuestionOfGame
<1>1. CacheInv => QuestionOfGame
  BY DEF CacheInv, QuestionOfGame
<1> QED BY <1>1, AlwaysTyped, PTL

\* No two rows that the server has added to t_players_answers are for the same
\* user and question, because insertNewGame never gives an id.
THEOREM AnswersAreRecordedOnce == Cache!Spec => []OneAnswerForAllGames
<1>1. CacheInv => OneAnswerForAllGames
  BY DEF CacheInv, OneAnswerForAllGames
<1> QED BY <1>1, AlwaysTyped, PTL
=============================================================================
