---------------------------- MODULE RoomDirectory ----------------------------
(***************************************************************************)
(* What the server promises about room numbers: the directory of open      *)
(* rooms hands out ever larger numbers and never lists a number again that *)
(* it has taken off the list.  Lobby implements it with _roomsList and     *)
(* _roomIdSequence.                                                        *)
(***************************************************************************)
EXTENDS Integers

VARIABLES
    open,       \* the numbers of the rooms a client may join
    last        \* the largest number handed out so far

vars == <<open, last>>

Init == /\ open = {}
        /\ last \in Int

\* A room is opened under a new number.
Open == /\ last' \in Int
        /\ last' > last
        /\ open' = open \cup {last'}

\* A request for a room is refused; its number is never used.
Refuse == /\ last' \in Int
          /\ last' > last
          /\ UNCHANGED open

\* A room is taken off the list for good.
Retire == \E r \in open : /\ open' = open \ {r}
                          /\ UNCHANGED last

Next == Open \/ Refuse \/ Retire

Spec == Init /\ [][Next]_vars
=============================================================================
