--------------------------- MODULE MCTriviaServer ---------------------------
\* Values for the constants of TriviaServer.
EXTENDS TriviaServer, TLC

MCGarbage == {0}
MCGameIds == {7}

\* Nothing happens after a fault, and nothing reads what has been served, nor
\* the request of a message behind the front: it is in the queue with its
\* sender and the kind of its code.
Memory == IF fault # None THEN <<fault, died>>
          ELSE <<pc, msgCode, open, queue, owner, rcvMsg, lobby, taken>> \o
               IF asked = <<>> THEN <<request>> ELSE <<Head(asked)>>

Symmetry == Permutations(Clients)
=============================================================================
