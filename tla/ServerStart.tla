----------------------------- MODULE ServerStart -----------------------------
(***************************************************************************)
(* main, WSAInitializer, the constructor of TriviaServer, serve, accept    *)
(* and how long the client threads last: the life of the process.          *)
(*                                                                         *)
(* main comes in two versions between merge markers.  HEAD builds a        *)
(* WSAInitializer and catches what serve throws; 5c901d7 does neither.     *)
(* What happens inside a client's loop is the subject of MessageQueue.     *)
(*                                                                         *)
(* Winsock is modelled by what it reports: without a WSAStartup every call *)
(* fails, with one any call may fail, and WSACleanup makes the calls that  *)
(* are waiting fail.  A definition marked "Slip" is a wrong variant of the *)
(* one after it; no action uses it.                                        *)
(***************************************************************************)
EXTENDS Integers

CONSTANTS
    Clients,        \* the connections that may come in
    None            \* no fault

ServerStartAssumption == None \notin {"main", "clientHandler"}

Sides == {"HEAD", "5c901d7"}

VARIABLES
    side,       \* the version of main that is built
    main,       \* what the main thread does next
    started,    \* WSAStartup calls less WSACleanup calls
    socket,     \* TriviaServer::_socket
    worker,     \* the thread of serve runs
    thread,     \* the thread of each connection
    fault       \* where an exception left a thread, None while none has

vars == <<side, main, started, socket, worker, thread, fault>>

TypeOK ==
    /\ side \in Sides
    /\ main \in {"startup", "construct", "bind", "listen", "worker", "accept",
                 "unwind", "pause", "over"}
    /\ started \in {0, 1}
    /\ socket \in {"none", "invalid", "open", "bound", "listening"}
    /\ worker \in BOOLEAN
    /\ thread \in [Clients -> {"none", "first", "loop", "broken"}]
    /\ fault \in {None, "main", "clientHandler"}

\* The first step of main.
Begins(s) == IF s = "HEAD" THEN "startup" ELSE "construct"

Init ==
    /\ side \in Sides
    /\ main = Begins(side)
    /\ started = 0
    /\ socket = "none"
    /\ worker = FALSE
    /\ thread = [c \in Clients |-> "none"]
    /\ fault = None
-----------------------------------------------------------------------------
Runs == main # "over"

\* std::terminate: an exception has left a thread.
Terminate(where) == /\ main' = "over"
                    /\ fault' = where

\* An exception in main: HEAD unwinds to its catch.
Throw == IF side = "HEAD" THEN /\ main' = "unwind"
                               /\ UNCHANGED fault
         ELSE Terminate("main")

\* WSAInitializer().  If it throws there is no object to destroy.
StartUp ==
    /\ main = "startup"
    /\ \/ /\ started' = started + 1
          /\ main' = "construct"
       \/ /\ main' = "pause"
          /\ UNCHANGED started
    /\ UNCHANGED <<side, socket, worker, thread, fault>>

\* A call of Winsock may succeed.
MaySucceed == started > 0

\* TriviaServer() logs the failure of socket and goes on with INVALID_SOCKET.
Construct ==
    /\ main = "construct"
    /\ \/ /\ MaySucceed
          /\ socket' = "open"
       \/ socket' = "invalid"
    /\ main' = "bind"
    /\ UNCHANGED <<side, started, worker, thread, fault>>

\* bindAndListen.
Bind ==
    /\ main = "bind"
    /\ \/ /\ MaySucceed
          /\ socket = "open"
          /\ socket' = "bound"
          /\ main' = "listen"
          /\ UNCHANGED fault
       \/ /\ Throw
          /\ UNCHANGED socket
    /\ UNCHANGED <<side, started, worker, thread>>

Listen ==
    /\ main = "listen"
    /\ \/ /\ MaySucceed
          /\ socket' = "listening"
          /\ main' = "worker"
          /\ UNCHANGED fault
       \/ /\ Throw
          /\ UNCHANGED socket
    /\ UNCHANGED <<side, started, worker, thread>>

\* serve starts the dispatcher and detaches it.
StartWorker ==
    /\ main = "worker"
    /\ worker' = TRUE
    /\ main' = "accept"
    /\ UNCHANGED <<side, started, socket, thread, fault>>

\* accept: a thread for the connection, or an exception, which ends the loops
\* of accept and of serve.
Accept ==
    /\ main = "accept"
    /\ \/ /\ MaySucceed
          /\ \E c \in Clients : /\ thread[c] = "none"
                                /\ thread' = [thread EXCEPT ![c] = "first"]
          /\ UNCHANGED <<main, fault>>
       \/ /\ Throw
          /\ UNCHANGED thread
    /\ UNCHANGED <<side, started, socket, worker>>

\* Slip: the destructor is empty.
Uncleaned == started

\* ~WSAInitializer.
Cleaned == started - 1

\* main leaves the try of HEAD: wsaInit is destroyed, the server, made with
\* new, is not.
Unwind ==
    /\ main = "unwind"
    /\ started' = Cleaned
    /\ main' = "pause"
    /\ UNCHANGED <<side, socket, worker, thread, fault>>

\* A key is pressed: main returns, and the process ends with all threads.
Return ==
    /\ main = "pause"
    /\ main' = "over"
    /\ UNCHANGED <<side, started, socket, worker, thread, fault>>
-----------------------------------------------------------------------------
\* A message code is received.
Receive(c) ==
    /\ Runs
    /\ MaySucceed
    /\ thread[c] = "first"
    /\ thread' = [thread EXCEPT ![c] = "loop"]
    /\ UNCHANGED <<side, main, started, socket, worker, fault>>

\* The first receive fails, outside the try of clientHandler.
FirstFails(c) ==
    /\ Runs
    /\ thread[c] = "first"
    /\ Terminate("clientHandler")
    /\ UNCHANGED <<side, started, socket, worker, thread>>

\* Slip: the receives of the loop are outside the try.
LoopThrows(c) == /\ Terminate("clientHandler")
                 /\ UNCHANGED thread

\* The catch of clientHandler: the loop goes on without a connection.
LoopCatches(c) == /\ thread' = [thread EXCEPT ![c] = "broken"]
                  /\ UNCHANGED <<main, fault>>

\* A later receive fails.
LoopFails(c) ==
    /\ Runs
    /\ thread[c] = "loop"
    /\ LoopCatches(c)
    /\ UNCHANGED <<side, started, socket, worker>>

Main == StartUp \/ Construct \/ Bind \/ Listen \/ StartWorker \/ Accept \/ Unwind

Next == \/ Main
        \/ Return
        \/ \E c \in Clients : Receive(c) \/ FirstFails(c) \/ LoopFails(c)

\* main goes on by itself except in accept and in the pause.  A receive need
\* not return while Winsock runs, but without it fails at once.
Fairness ==
    /\ WF_vars(Main /\ main # "accept")
    /\ \A c \in Clients : WF_vars(~MaySucceed /\ (FirstFails(c) \/ LoopFails(c)))

Spec == Init /\ [][Next]_vars /\ Fairness
-----------------------------------------------------------------------------
\* 5c901d7 never serves anybody: nothing starts Winsock, so there is no socket
\* to accept on, and the failure the constructor only logs ends the process at
\* bind.  In HEAD no exception of the main thread ends the process, and a
\* connection that has had a message through cannot end it by breaking; one
\* that breaks before its first message can, outside the try of clientHandler.
WhatEndsTheServer ==
    /\ side = "5c901d7" => ~worker /\ \A c \in Clients : thread[c] = "none"
    /\ fault = "main" => side = "5c901d7"
    /\ fault = "clientHandler" => \E c \in Clients : thread[c] = "first"

\* When accept has failed once, HEAD waits for a key with Winsock shut down
\* under its client threads: no connection stays usable, and if one of them
\* was waiting for its first message the process is terminated in the pause.
PauseBreaksConnections ==
    \A c \in Clients :
        /\ main = "pause" /\ thread[c] = "first" ~> main = "over"
        /\ main = "pause" /\ thread[c] = "loop" ~> thread[c] = "broken" \/ main = "over"
=============================================================================
