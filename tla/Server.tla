------------------------------- MODULE Server -------------------------------
(***************************************************************************)
(* The server with the process it runs in: threads, queue and handlers     *)
(* (TriviaServer), and the start and the end of the process (ServerStart,  *)
(* Process).  The two share the clients; that a receive of one may fail is *)
(* open in both.                                                           *)
(***************************************************************************)
EXTENDS TriviaServer

VARIABLES side, main, started, socket, worker, thread,
          ended     \* fault of ServerStart

Process == INSTANCE ServerStart WITH fault <- ended

ASSUME ProcessAssumption == Process!ServerStartAssumption
-----------------------------------------------------------------------------
\* 5c901d7 serves nobody; HEAD is ended by an exception only where a connection
\* breaks before its first message.
WhatEndsTheServer == Process!WhatEndsTheServer

\* After a failed accept no connection stays usable.
PauseBreaksConnections == Process!PauseBreaksConnections
=============================================================================
