-------------------------------- MODULE Wire --------------------------------
(***************************************************************************)
(* What stands between the bytes and the handlers: the requests a client   *)
(* thread reads (RequestStream, R), the check of a sign-up's texts         *)
(* (Credentials) and the replies a client reads (Framing, F).  They share  *)
(* no state.                                                               *)
(***************************************************************************)
EXTENDS Credentials, Integers

CONSTANTS Requests, MaxRequests,                        \* as in RequestStream
          TextLengths, AnswerLengths, RoomIds, Counts, MaxList, MaxReplies  \* as in Framing

VARIABLES
    sent, wire, closed, msgCode, reads, params, built, whole, fault,
    said, clean, stream, heard, asked, down

R == INSTANCE RequestStream
F == INSTANCE Framing

ASSUME WireAssumption ==
    R!RequestStreamAssumption /\ CredentialsAssumption /\ F!FramingAssumption
-----------------------------------------------------------------------------
\* The types of all three.
TypesOK == R!TypeOK /\ TypeOK /\ F!TypeOK

\* Requests are built as they were sent while no recv is short.
BuildsWhatWasSent == R!BuildsWhatWasSent

\* A client that reads the replies at their widths gets what was sent, and
\* the numbers it takes from a list lead back to the rooms.
RepliesAreUnderstood == F!SplitsAsSent /\ F!ListedRoomIsFound
=============================================================================
