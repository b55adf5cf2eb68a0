----------------------------- MODULE MCRoomNews -----------------------------
\* Three users and four seats: one of them can be listed twice, and somebody
\* can stand before and after someone who has gone.
EXTENDS RoomNews

CONSTANTS admin, u1, u2

MCUsers == {admin, u1, u2}
=============================================================================
