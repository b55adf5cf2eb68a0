--------------------------- MODULE RequestStream ---------------------------
(***************************************************************************)
(* How clientHandler and buildRecieveMessage take the requests of one      *)
(* client out of the bytes that arrive: one recv for each field, whose     *)
(* result is only compared with the error value.  A recv may return fewer  *)
(* bytes than the field has, and 0 after the client has closed its end;    *)
(* the rest of the buffer is what the memory held.                         *)
(*                                                                         *)
(* A failing recv throws and is modelled in MessageQueue.  A character is  *)
(* a digit 0..9 or a letter.  A definition marked "Slip" is a wrong        *)
(* variant of the one after it; no action uses it.                         *)
(***************************************************************************)
EXTENDS Naturals, Sequences, SequencesExt

CONSTANTS
    Requests,       \* the requests of the client: code and parameters
    MaxRequests     \* bound: requests sent, and messages built

Letter == 11
Char == (0..9) \cup {Letter}
String == Seq(Char)

\* What buildRecieveMessage reads for a code: texts after their length, and
\* fields of a width.  No code but these makes a message.
Text == 0
Layout == [c \in {200, 201, 203, 205, 207, 209, 211, 213, 215, 217, 219, 222, 223, 225} |->
              CASE c = 200 -> <<Text, Text>>
                [] c = 203 -> <<Text, Text, Text>>
                [] c \in {207, 209} -> <<4>>
                [] c = 213 -> <<Text, 1, 2, 2>>
                [] c = 219 -> <<1, 2>>
                [] OTHER -> <<>>]

Message == [code : Nat, params : Seq(String)]

RequestStreamAssumption ==
    /\ Requests \subseteq Message
    /\ \A r \in Requests :
          /\ r.code \in DOMAIN Layout
          /\ Len(r.params) = Len(Layout[r.code])
          /\ \A j \in DOMAIN r.params :
                IF Layout[r.code][j] = Text THEN Len(r.params[j]) \in 0..99
                ELSE Len(r.params[j]) = Layout[r.code][j]
    /\ MaxRequests \in Nat

VARIABLES
    sent,       \* history: the requests the client has sent
    wire,       \* the bytes that have not been received
    closed,     \* the client has closed its end
    msgCode,    \* msgCode of clientHandler
    reads,      \* what is still to be read for the message: widths and texts
    params,     \* the parameters read so far
    built,      \* history: the messages built, <<>> for the null pointer
    whole,      \* history: every recv so far has filled its buffer
    fault       \* buildRecieveMessage has killed the process

vars == <<sent, wire, closed, msgCode, reads, params, built, whole, fault>>

\* No code has been read.
NoCode == 1000

TypeOK ==
    /\ sent \in Seq(Requests)
    /\ wire \in String
    /\ closed \in BOOLEAN
    /\ msgCode \in 0..NoCode
    /\ reads \in Seq(Nat)
    /\ params \in Seq(String)
    /\ built \in Seq(Message \cup {<<>>})
    /\ whole \in BOOLEAN
    /\ fault \in BOOLEAN

Init ==
    /\ sent = <<>>
    /\ wire = <<>>
    /\ closed = FALSE
    /\ msgCode = NoCode
    /\ reads = <<3>>
    /\ params = <<>>
    /\ built = <<>>
    /\ whole = TRUE
    /\ fault = FALSE
-----------------------------------------------------------------------------
\* The environment: the bytes of a request, the length of a text in two digits.
TwoDigits(n) == <<n \div 10, n % 10>>

Bytes(r) ==
    LET Field(j) == IF Layout[r.code][j] = Text
                    THEN TwoDigits(Len(r.params[j])) \o r.params[j]
                    ELSE r.params[j]
    IN <<r.code \div 100, (r.code \div 10) % 10, r.code % 10>>
            \o FlattenSeq([j \in DOMAIN r.params |-> Field(j)])

Send == /\ ~closed
        /\ Len(sent) < MaxRequests
        /\ \E r \in Requests : sent' = Append(sent, r) /\ wire' = wire \o Bytes(r)
        /\ UNCHANGED <<closed, msgCode, reads, params, built, whole, fault>>

Close == /\ ~closed
         /\ closed' = TRUE
         /\ UNCHANGED <<sent, wire, msgCode, reads, params, built, whole, fault>>

\* How many bytes recv may put into a buffer of n; 0 at the end only.
Receivable(n) == {k \in 0..n : IF k = 0 THEN wire = <<>> /\ closed
                               ELSE k <= Len(wire)}

\* The strings a buffer of n bytes may then be: the memory behind the bytes
\* received may hold a zero byte, or anything.
Strings(n, k) ==
    LET got == SubSeq(wire, 1, k)
    IN {got} \cup {got \o [j \in 1..(n - k) |-> c] : c \in {1, Letter}}

\* getPartFromSocket(sc, n) after recv has returned k.
Received(n, k) == /\ wire' = SubSeq(wire, k + 1, Len(wire))
                  /\ whole' = (whole /\ k = n)

\* atoi: the digits at the beginning, 0 if there are none.
AtoI(s) ==
    LET n == CHOOSE k \in 0..Len(s) : /\ \A j \in 1..k : s[j] \in 0..9
                                      /\ k < Len(s) => s[k + 1] \notin 0..9
        value[k \in 0..n] == IF k = 0 THEN 0 ELSE 10 * value[k - 1] + s[k]
    IN value[n]

\* Slip: a sign-up is read like a sign-in.
ReadsTwoTexts(code) == IF code = 203 THEN <<Text, Text>>
                       ELSE IF code \in DOMAIN Layout THEN Layout[code] ELSE <<>>

\* What buildRecieveMessage reads for this code.
Reads(code) == IF code \in DOMAIN Layout THEN Layout[code] ELSE <<>>

Running == ~fault /\ Len(built) < MaxRequests

\* getMessageTypeCode.
GetMessageTypeCode ==
    /\ Running
    /\ msgCode = NoCode
    /\ \E k \in Receivable(3) :
          /\ Received(3, k)
          /\ msgCode' \in {AtoI(s) : s \in Strings(3, k)}
          /\ reads' = Reads(msgCode')
    /\ UNCHANGED <<sent, closed, params, built, fault>>

Building == Running /\ msgCode # NoCode /\ reads # <<>>

\* After getIntPartFromSocket(sock, 2): the text of this length.
TextOf(n) == <<n>>

\* The length of a text, and a string of a null pointer when it is 0.
GetLength ==
    /\ Building
    /\ Head(reads) = Text
    /\ \E k \in Receivable(2) :
          /\ Received(2, k)
          /\ \E n \in {AtoI(s) : s \in Strings(2, k)} :
                \/ /\ n = 0
                   /\ fault' = TRUE
                   /\ UNCHANGED reads
                \/ /\ n # 0
                   /\ reads' = TextOf(n) \o Tail(reads)
                   /\ UNCHANGED fault
    /\ UNCHANGED <<sent, closed, msgCode, params, built>>

\* A parameter.
GetStringPart ==
    /\ Building
    /\ Head(reads) # Text
    /\ \E k \in Receivable(Head(reads)) :
          /\ Received(Head(reads), k)
          /\ \E s \in Strings(Head(reads), k) : params' = Append(params, s)
    /\ reads' = Tail(reads)
    /\ UNCHANGED <<sent, closed, msgCode, built, fault>>

\* new RecievedMessage, or nullptr; after it has been handled the loop of
\* clientHandler reads the next code.
Build ==
    /\ Running
    /\ msgCode # NoCode
    /\ reads = <<>>
    /\ built' = Append(built, IF msgCode \in DOMAIN Layout
                              THEN [code |-> msgCode, params |-> params] ELSE <<>>)
    /\ msgCode' = NoCode
    /\ reads' = <<3>>
    /\ params' = <<>>
    /\ UNCHANGED <<sent, wire, closed, whole, fault>>

Server == GetMessageTypeCode \/ GetLength \/ GetStringPart \/ Build

Next == Send \/ Close \/ Server

Spec == Init /\ [][Next]_vars
-----------------------------------------------------------------------------
\* As long as every recv fills its buffer, the messages built are the
\* requests sent, in their order and with their parameters: no field is
\* marked, and the reads of one message end where the next one begins.  Only a
\* text of length 0 can then kill the process.
BuildsWhatWasSent ==
    whole => /\ IsPrefix(built, sent)
             /\ fault => \E j \in DOMAIN sent : <<>> \in ToSet(sent[j].params)
=============================================================================
