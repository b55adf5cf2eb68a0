----------------------------- MODULE RoomRoster -----------------------------
(***************************************************************************)
(* The roster of a Room: vector<User*> _users.                             *)
(*                                                                         *)
(* Room::leaveRoom walks the roster by index and, wherever the user at     *)
(* index i is the leaver, erases the element at index i - 1.  The erasure  *)
(* shifts the rest down, so the element after the match is never looked    *)
(* at.  The operators below say in closed form what remains; RoomNews      *)
(* walks the loop itself and shows that both agree.  Positions are counted *)
(* from 1 here, from 0 in the code.                                        *)
(***************************************************************************)
EXTENDS Integers, Sequences, FiniteSets

\* The positions at which the loop finds the leaver, who is at the positions
\* in `own`.  After a match the next element is skipped, so in a run of
\* adjacent occurrences every second one is found, starting with the first.
Found(own) ==
    {p \in own : \E k \in 1..p : /\ k..p \subseteq own
                                 /\ k - 1 \notin own
                                 /\ (p - k) % 2 = 0}

\* erase(begin() + i - 1): the element before the match goes.  At the first
\* element that iterator is before begin(): undefined behaviour.  Where the
\* program survives it, vector::erase has moved every element down by one
\* place, the first one out of the vector.
Erased(own) == {IF p = 1 THEN 1 ELSE p - 1 : p \in Found(own)}

\* TRUE iff the loop forms the iterator before begin().
ErasesBeforeBegin(own) == 1 \in own

\* What is left of the list q when only the positions in `keep` stay, in
\* their order.  The set has one element.
Kept(q, keep) ==
    LET n == Cardinality(keep)
        Increasing(f) == \A i, j \in 1..n : i < j => f[i] < f[j]
    IN {[i \in 1..n |-> q[f[i]]] : f \in {g \in [1..n -> keep] : Increasing(g)}}

\* The roster q after Room::leaveRoom of the user at the positions `own`.
AfterLeave(q, own) == Kept(q, (1..Len(q)) \ Erased(own))
=============================================================================
