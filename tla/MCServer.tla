------------------------------ MODULE MCServer ------------------------------
(***************************************************************************)
(* Two questions about the process for TLC in one run: part says which of  *)
(* them a behaviour is of.  In "process" no message is received and        *)
(* TriviaServer stays as it starts; in "threads" the threads of            *)
(* TriviaServer run in the version 5c901d7 of handleRecievedMessage, their *)
(* handlers abstracted as in MessageQueue, and the process stays.          *)
(***************************************************************************)
EXTENDS Server

MCGarbage == {0}
MCGameIds == {7}

VARIABLE part

Codes == {"parts", "plain", "start", "unknown"}
Queue == INSTANCE MessageQueueProperties

process == <<side, main, started, socket, worker, thread, ended>>

\* One start of the process stands for all while the threads are looked at.
MCInit == /\ part \in {"process", "threads"}
          /\ Process!Init
          /\ part = "threads" => side = "HEAD"
          /\ Init

ProcessStep == /\ part = "process"
               /\ Process!Next
               /\ UNCHANGED <<part, vars>>

ThreadStep == /\ part = "threads"
              /\ Queue!Next
              /\ UNCHANGED <<part, lobby, requests, process>>

MCNext == ProcessStep \/ ThreadStep

mcVars == <<part, process, vars>>

\* The fairness of ServerStart, in its part of the run.
MCFairness == part = "process" => Process!Fairness

MCSpec == MCInit /\ [][MCNext]_mcVars /\ MCFairness
-----------------------------------------------------------------------------
\* 5c901d7: the first thread that dispatches keeps the mutex, and the queue
\* stays as it is (handleRecievedMessage).
FirstDispatcherKeepsAll == Queue!FirstDispatcherKeepsAll
=============================================================================
