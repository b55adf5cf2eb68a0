------------------------------ MODULE Framing ------------------------------
(***************************************************************************)
(* How the replies of class Protocol lie in the byte stream to a client:   *)
(* a code of three digits, numbers padded with zeros to a width, texts     *)
(* after their length.  Nothing marks the end of a reply, so a client has  *)
(* to find it from these.  The client is not in the repository; it is      *)
(* modelled as the one that takes every field at the width Protocol.cpp    *)
(* pads it to.                                                             *)
(*                                                                         *)
(* A character is a digit 0..9, the minus sign or a letter; of a text only *)
(* the length counts.  A definition marked "Slip" is a wrong variant of    *)
(* the one after it; no action uses it.                                    *)
(***************************************************************************)
EXTENDS Integers, Sequences, SequencesExt

CONSTANTS
    TextLengths,    \* the lengths of user names, room names and questions
    AnswerLengths,  \* the lengths of answers
    RoomIds,        \* room numbers
    Counts,         \* numbers of questions, seconds and points
    MaxList,        \* bound: the length of a list of rooms, users or players
    MaxReplies      \* bound: how many replies are sent

FramingAssumption ==
    /\ TextLengths \subseteq 1..99
    /\ AnswerLengths \subseteq Nat
    /\ RoomIds \subseteq Int
    /\ Counts \subseteq 0..99
    /\ MaxList \in Nat
    /\ MaxReplies \in Nat

VARIABLES
    said,       \* history: the replies sent and the room numbers they list
    clean,      \* history: no reply so far was one that cannot be told apart
    stream,     \* what the client has not read yet
    heard,      \* history: what the client took for one reply each
    asked,      \* the last room a client asked for and the number that arrived
    down        \* the process has died

vars == <<said, clean, stream, heard, asked, down>>

Minus == 10
Letter == 11
Char == 0..11

Letters(n) == [j \in 1..n |-> Letter]

\* std::ostream << n for n >= 0.
Digits(n) == LET d[m \in Nat] == IF m < 10 THEN <<m>>
                                 ELSE Append(d[m \div 10], m % 10)
             IN d[n]

\* std::to_string.
Text(n) == IF n < 0 THEN <<Minus>> \o Digits(-n) ELSE Digits(n)

\* Slip: no setw.
Unpadded(n, width) == Text(n)

\* Helper::getPaddedNumber: a longer number is not cut, and the zeros stand
\* before the sign.
Padded(n, width) == [j \in 1..(width - Len(Text(n))) |-> 0] \o Text(n)

\* A text of n characters after its length.
Sized(n, width) == Padded(n, width) \o Letters(n)
-----------------------------------------------------------------------------
\* The responses of Protocol.cpp.
Response(code, status) == Digits(code) \o <<status>>   \* 102, 104, 114, 120

Response106(rooms) ==
    Digits(106) \o Padded(Len(rooms), 4)
        \o FlattenSeq([j \in DOMAIN rooms |->
                          Padded(rooms[j].id, 4) \o Sized(rooms[j].name, 2)])

Response108(names) ==
    IF names = <<>> THEN Digits(1080)
    ELSE Digits(108) \o Padded(Len(names), 3)
             \o FlattenSeq([j \in DOMAIN names |-> Sized(names[j], 2)])

Response110(status, questions, time) ==
    Response(110, status)
        \o (IF status = 0 THEN Padded(questions, 2) \o Padded(time, 2) ELSE <<>>)

Response116 == Digits(116)

Response112(success) == IF success THEN Digits(1120) ELSE Response116

\* The loop runs to getAnswers()->size(), the length of the first answer.
Response118(question, answers) ==
    IF question = 0 THEN Digits(1180)
    ELSE Digits(118) \o Sized(question, 3)
             \o FlattenSeq([j \in 1..answers[1] |-> Sized(answers[j], 3)])

\* Of the points only the number of digits.
Response121(players) ==
    Digits(121) \o Padded(Len(players), 1)
        \o FlattenSeq([j \in DOMAIN players |->
                          Sized(players[j].name, 2)
                              \o Padded(Len(Text(players[j].points)), 2)])

\* Each element is a name, six digits and the space that is taken out.
Response124(top) ==
    Digits(124)
        \o FlattenSeq([j \in DOMAIN top |->
                          Sized(top[j].name, 2) \o Padded(top[j].points, 6)])

\* Of the status only lengths: of the games, the right and wrong answers, and
\* the two halves of the average time.
Response126(lengths) ==
    Digits(126) \o
        (IF lengths[1] = 0 THEN Padded(0, 4)
         ELSE Padded(lengths[1], 4) \o Padded(lengths[2], 6) \o Padded(lengths[3], 6)
                \o Padded(lengths[4], 2) \o Padded(lengths[5], 2))
-----------------------------------------------------------------------------
\* The client: the number in the w characters after the first p.  Beyond the
\* end it is larger than any reply is long.
NumberAt(q, p, w) ==
    IF Len(q) < p + w THEN 10000
    ELSE LET n[j \in 0..w] == IF j = 0 THEN 0 ELSE 10 * n[j - 1] + q[p + j] IN n[w]

\* Where n entries end that start after p, beyond the end of q if they are
\* not all there: each has `before` characters, a
\* text after its length of w digits, and `after` characters.
EntriesEnd(q, p, n, before, w, after) ==
    LET e[j \in 0..n] ==
            IF j = 0 THEN p
            ELSE LET start == e[j - 1] + before
                 IN start + w + NumberAt(q, start, w) + after
    IN IF n > Len(q) THEN Len(q) + 1 ELSE e[n]

\* How long the reply is with which q begins, more than q if it is not all
\* there, 0 if q does not begin with a code.
Extent(q) ==
    LET code == NumberAt(q, 0, 3)
    IN CASE Len(q) < 3 -> Len(q) + 1
         [] code \in {102, 104, 112, 114, 120} -> 4
         [] code = 116 -> 3
         [] code = 110 -> IF NumberAt(q, 3, 1) = 0 THEN 8 ELSE 4
         [] code = 106 -> EntriesEnd(q, 7, IF Len(q) < 7 THEN 1 ELSE NumberAt(q, 3, 4), 4, 2, 0)
         [] code = 108 -> EntriesEnd(q, 6, IF Len(q) < 6 THEN 1 ELSE NumberAt(q, 3, 3), 0, 2, 0)
         [] code = 118 -> EntriesEnd(q, 3, 5, 0, 3, 0)
         [] code = 121 -> EntriesEnd(q, 4, IF Len(q) < 4 THEN 1 ELSE NumberAt(q, 3, 1), 0, 2, 2)
         [] code = 124 -> EntriesEnd(q, 3, 3, 0, 2, 6)
         [] code = 126 -> IF NumberAt(q, 3, 4) = 0 THEN 7 ELSE 23
         [] OTHER -> 0

\* std::stoi, as the set of its result: a sign, then digits as far as they
\* go, and an exception if there are none.
Stoi(q) ==
    LET negative == q # <<>> /\ q[1] = Minus
        rest == IF negative THEN Tail(q) ELSE q
        digits == CHOOSE n \in 0..Len(rest) :
                      /\ \A j \in 1..n : rest[j] \in 0..9
                      /\ n < Len(rest) => rest[n + 1] \notin 0..9
    IN IF digits = 0 THEN {}
       ELSE {(IF negative THEN -1 ELSE 1) * NumberAt(rest, 0, digits)}
-----------------------------------------------------------------------------
Room == [id : RoomIds, name : TextLengths]
Player == [name : TextLengths, points : Counts]
Lists(S) == UNION {[1..n -> S] : n \in 0..MaxList}

TypeOK ==
    /\ said \in Seq([bytes : Seq(Char), rooms : Seq(RoomIds)])
    /\ clean \in BOOLEAN
    /\ stream \in Seq(Char)
    /\ heard \in Seq(Seq(Char))
    /\ asked \in [meant : RoomIds \cup {0}, got : SUBSET Int]
    /\ down \in BOOLEAN

Init == /\ said = <<>>
        /\ clean = TRUE
        /\ stream = <<>>
        /\ heard = <<>>
        /\ asked = [meant |-> 0, got |-> {0}]
        /\ down = FALSE

\* Helper::sendData of a reply that lists these rooms and that a client can
\* tell apart, or not.
SendData(bytes, listed, fine) ==
    /\ ~down
    /\ Len(said) < MaxReplies
    /\ said' = Append(said, [bytes |-> bytes, rooms |-> listed])
    /\ clean' = (clean /\ fine)
    /\ stream' = stream \o bytes
    /\ UNCHANGED <<heard, asked, down>>

SendStatus == \E code \in {102, 104, 114, 120}, status \in 0..1 :
                  SendData(Response(code, status), <<>>, TRUE)

\* The count and the numbers of these rooms fit the four characters they get.
FitTheirWidths(rooms) == /\ Len(rooms) <= 9999
                         /\ \A j \in DOMAIN rooms : Len(Text(rooms[j].id)) <= 4

SendRooms == \E rooms \in Lists(Room) :
                SendData(Response106(rooms), [j \in DOMAIN rooms |-> rooms[j].id],
                         FitTheirWidths(rooms))

SendUsers == \E names \in Lists(TextLengths) :
                SendData(Response108(names), <<>>, Len(names) \in 1..999)

SendJoined == \E status \in 0..2, n \in Counts :
                SendData(Response110(status, n, n), <<>>, TRUE)

SendLeft == \E success \in BOOLEAN : SendData(Response112(success), <<>>, TRUE)

\* Room::closeRoom sends the members the bare number of the room.
SendClosed == \E id \in RoomIds : SendData(Text(id), <<>>, FALSE)

\* A first answer of more than four characters: the loop leaves the array.
SendQuestion ==
    \E question \in TextLengths \cup {0}, first, other \in AnswerLengths :
        \/ /\ question = 0 \/ first <= 4
           /\ SendData(Response118(question, <<first, other, other, other>>), <<>>,
                       question # 0 /\ first = 4 /\ other <= 999)
        \/ /\ question # 0
           /\ first > 4
           /\ ~down
           /\ down' = TRUE
           /\ UNCHANGED <<said, clean, stream, heard, asked>>

SendFinished == \E players \in Lists(Player) :
                   SendData(Response121(players), <<>>, Len(players) <= 9)

\* getBestScores returns three, or nothing when its query fails.
SendBest == \/ \E p, q \in Player :
                  SendData(Response124(<<p, q, [name |-> 0, points |-> 0]>>), <<>>, TRUE)
            \/ SendData(Response124(<<>>), <<>>, FALSE)

SendStatistics == \E games \in 0..2 :
                     SendData(Response126(<<games, 1, 1, 1, 2>>), <<>>, TRUE)

\* The client takes a reply out of the stream.
Hear ==
    /\ Extent(stream) \in 1..Len(stream)
    /\ heard' = Append(heard, SubSeq(stream, 1, Extent(stream)))
    /\ stream' = SubSeq(stream, Extent(stream) + 1, Len(stream))
    /\ UNCHANGED <<said, clean, asked, down>>

\* The client sends the four characters of a listed room back, in a 207 or a
\* 209 message, and the handler makes a number of them.
AskForRoom ==
    /\ clean
    /\ \E n \in DOMAIN heard :
          \E j \in DOMAIN said[n].rooms :
             LET p == EntriesEnd(heard[n], 7, j - 1, 4, 2, 0)
             IN asked' = [meant |-> said[n].rooms[j], got |-> Stoi(SubSeq(heard[n], p + 1, p + 4))]
    /\ UNCHANGED <<said, clean, stream, heard, down>>

Next == \/ SendStatus \/ SendRooms \/ SendUsers \/ SendJoined \/ SendLeft
        \/ SendClosed \/ SendQuestion \/ SendFinished \/ SendBest
        \/ SendStatistics \/ Hear \/ AskForRoom

Spec == Init /\ [][Next]_vars
-----------------------------------------------------------------------------
\* As long as the server has not sent one of the replies that cannot be told
\* apart (a room number of five characters, a list too long for its count, the
\* list of an empty room, a question without a text or without four answers, an
\* answer too long for its length, no best scores, and the bare number of a
\* closed room), the client splits the stream into the replies that were sent,
\* and never waits for more of what is complete.
SplitsAsSent ==
    clean =>
        LET bytes == [j \in DOMAIN said |-> said[j].bytes]
        IN /\ IsPrefix(heard, bytes)
           /\ heard # bytes => Extent(stream) = Len(bytes[Len(heard) + 1])
           /\ FlattenSeq(heard) \o stream = FlattenSeq(bytes)

\* Then a client that asks for a room with the number from the list gets this
\* room, if the number has a sign only where it fills the field: the zeros of
\* the padding stand before the sign.
ListedRoomIsFound ==
    clean /\ (asked.meant >= 0 \/ asked.meant <= -100) => asked.got = {asked.meant}
=============================================================================
