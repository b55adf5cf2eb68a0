------------------------------- MODULE MCWire -------------------------------
(***************************************************************************)
(* Small instances of the three parts of Wire in one run: part says which  *)
(* of them a behaviour is of, the others stay as they start.               *)
(***************************************************************************)
EXTENDS Wire

CONSTANT MaxLength      \* bound: the length of names and passwords

VARIABLE part

requests == <<sent, wire, closed, msgCode, reads, params, built, whole, fault>>
signup == vars
replies == <<said, clean, stream, heard, asked, down>>

\* A letter, as a character of a request, and ten of them.
L == <<11>>
TenLetters == [k \in 1..10 |-> 11]

\* Requests with two texts, three texts, texts of length 0 and 10, a field of
\* four characters, several fields, and nothing to read.
MCRequests ==
    {[code |-> 200, params |-> <<L, <<>>>>],
     [code |-> 200, params |-> <<TenLetters, L>>],
     [code |-> 203, params |-> <<L, L \o L, L>>],
     [code |-> 209, params |-> <<<<0, 0, 0, 7>>>>],
     [code |-> 213, params |-> <<L, <<2>>, <<1, 0>>, <<3, 0>>>>],
     [code |-> 205, params |-> <<>>]}

\* Names and passwords of every shape up to MaxLength, each with a good and an
\* empty one of the other.
Texts == UNION {[1..n -> Class] : n \in 0..MaxLength}
MCSignups == (Texts \X {<<>>, <<"lower", "upper", "digit", "other">>})
             \cup ({<<>>, <<"lower", "space">>} \X Texts)

\* Room numbers with and without a sign, shorter and longer than the field.
MCRoomIds == {-123, -1, 7, 9999, 12345}
MCTextLengths == {1, 12}
MCAnswerLengths == {3, 4, 5}
MCCounts == {0, 15}

MCInit ==
    /\ part \in {"requests", "signup", "replies"}
    /\ R!Init
    /\ Init
    /\ part # "signup" => username = <<>> /\ password = <<>>
    /\ F!Init

MCNext ==
    \/ part = "requests" /\ R!Next /\ UNCHANGED <<part, signup, replies>>
    \/ part = "signup" /\ Next /\ UNCHANGED <<part, requests, replies>>
    \/ part = "replies" /\ F!Next /\ UNCHANGED <<part, requests, signup>>

MCSpec == MCInit /\ [][MCNext]_<<part, requests, signup, replies>>
=============================================================================
