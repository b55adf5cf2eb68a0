------------------------------ MODULE MCLobby ------------------------------
\* Values for the constants of Lobby and LobbyProperties.
EXTENDS LobbyProperties, TLC

\* The sequence starts at an arbitrary number; one that gives the ids 1, 2.
MCGarbage == {0}

\* A start value that gives the first room the id -1.
MCGarbageMinusTwo == {-2}

\* An arbitrary game id.
MCGameId == {7}

\* An arbitrary game id, and the one that Game::Game takes for an error.
MCGameIds == {7, -1}

\* No action reads the reply, and nothing happens after a fault.
Memory == IF fault = None THEN <<users, world, db, net>> ELSE fault

Symmetry == Permutations(Socks) \cup Permutations(Names)
=============================================================================
