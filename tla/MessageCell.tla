----------------------------- MODULE MessageCell -----------------------------
(***************************************************************************)
(* What the queue of the server comes to, since nothing is ever popped: a  *)
(* cell that is filled once.  The message in it is served again and again, *)
(* by one thread at a time; every other message is lost.  MessageQueue     *)
(* implements it with the front of _queRcvMessages.                        *)
(***************************************************************************)
CONSTANTS
    Threads,    \* those that serve
    Messages,   \* what the cell may be filled with
    None        \* no message

VARIABLES
    cell,       \* the message in the cell, None before there is one
    serving     \* the thread that serves with what it serves; empty if none does

vars == <<cell, serving>>

Init == /\ cell = None
        /\ serving = {}

\* The first message comes and stays.
Fill == /\ cell = None
        /\ cell' \in Messages
        /\ UNCHANGED serving

\* A thread begins to serve the message.
Serve(t) == /\ serving = {}
            /\ cell # None
            /\ serving' = {<<t, cell>>}
            /\ UNCHANGED cell

\* The thread that serves has done so.
Finish == /\ serving # {}
          /\ serving' = {}
          /\ UNCHANGED cell

Next == Fill \/ (\E t \in Threads : Serve(t)) \/ Finish

Spec == Init /\ [][Next]_vars
=============================================================================
