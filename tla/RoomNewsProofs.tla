--------------------------- MODULE RoomNewsProofs ---------------------------
(***************************************************************************)
(* Proofs about one room and its loops (RoomNews): the types, who has the  *)
(* list of the members, who hears of the closing, and that the loop of     *)
(* Room::leaveRoom leaves what the closed form of RoomRoster says.         *)
(***************************************************************************)
EXTENDS RoomNews, RoomRosterProofs

\* A step with which the roster keeps its length or shrinks under the loops.
LoopTypes ==
    /\ TypeOK
    /\ Len(before) <= Seats
    /\ pc \in {"leave", "left"} => i <= Len(before) + 1 /\ Len(roster) <= Len(before)
    /\ Sending => k <= Len(roster) + 1
    /\ pc \in {"joined", "list", "leave", "left"} => user \in Users

Informed(u) == view[u] \in {"present", "closed"} \/ u \in gone \/ CutOff(u)

InformedBut(e) == \A p \in DOMAIN roster : roster[p] = e \/ Informed(roster[p])

\* The message and the excluded user of the walk.
WalkFits ==
    /\ pc = "joined" => news = "present" /\ excluded = user
    /\ pc = "left" => news = "present" /\ excluded = None
    /\ pc = "closing" => news = "closed" /\ excluded = Admin

\* Those behind whom the walk is have got its message.
WalkedTold ==
    Sending => \A p \in DOMAIN roster :
                   p < k => roster[p] = excluded \/ view[roster[p]] = news

\* Who has the list at which place of the handlers.
NewsInv ==
    /\ WalkFits
    /\ WalkedTold
    /\ pc \in {"idle", "leave", "closing"} => InformedBut(None)
    /\ pc = "list" => InformedBut(user)
-----------------------------------------------------------------------------
\* The loop of Room::leaveRoom has dealt with the places of the list below p.
Own == {p \in DOMAIN before : before[p] = user}
Shrunk == Len(before) - Len(roster)
ErasedBelow(own, p) == {VictimIndex(x) : x \in Found(own) \cap 1..(p - 1)}
KeptBelow(p) == (1..Len(before)) \ ErasedBelow(Own, p)

\* The roster is what is kept of the list before, and from the place before the
\* loop variable on nothing has been erased.
Numbering(f) ==
    /\ Increasing(f, Len(roster))
    /\ \A j \in 1..Len(roster) : /\ roster[j] = before[f[j]]
                                 /\ j >= i - 1 => f[j] = j + Shrunk

LoopInv ==
    pc \in {"leave", "left"} =>
        /\ Shrunk \in Nat
        /\ i = 1 => Shrunk = 0
        /\ i + Shrunk - 1 \notin Found(Own)
        /\ Cardinality(KeptBelow(i + Shrunk)) = Len(roster)
        /\ \E f \in [1..Len(roster) -> KeptBelow(i + Shrunk)] : Numbering(f)
-----------------------------------------------------------------------------
\* The list without one element.
LEMMA EraseIs ==
    ASSUME NEW S, NEW q \in Seq(S), NEW v \in 1..Len(q)
    PROVE  /\ EraseAt(q, v) \in Seq(S)
           /\ Len(EraseAt(q, v)) = Len(q) - 1
           /\ \A j \in 1..(Len(q) - 1) :
                  EraseAt(q, v)[j] = IF j < v THEN q[j] ELSE q[j + 1]
  <1> DEFINE head == SubSeq(q, 1, v - 1)
             tail == SubSeq(q, v + 1, Len(q))
  <1>1. /\ head \in Seq(S) /\ Len(head) = v - 1
        /\ \A j \in 1..(v - 1) : head[j] = q[j]
    OBVIOUS
  <1>2. /\ tail \in Seq(S) /\ Len(tail) = Len(q) - v
        /\ \A j \in 1..(Len(q) - v) : tail[j] = q[j + v]
    OBVIOUS
  <1>3. EraseAt(q, v) = head \o tail
    BY DEF EraseAt
  <1> HIDE DEF head, tail
  <1>4. /\ head \o tail \in Seq(S) /\ Len(head \o tail) = Len(q) - 1
        /\ \A j \in 1..(Len(q) - 1) :
              (head \o tail)[j] = IF j < v THEN head[j] ELSE tail[j - (v - 1)]
    <2>1. \A h, t \in Seq(S) : /\ h \o t \in Seq(S)
                               /\ Len(h \o t) = Len(h) + Len(t)
                               /\ \A j \in 1..(Len(h) + Len(t)) :
                                    (h \o t)[j] = IF j <= Len(h) THEN h[j] ELSE t[j - Len(h)]
      OBVIOUS
    <2>2. Len(q) \in Nat /\ Len(head) + Len(tail) = Len(q) - 1
      BY <1>1, <1>2
    <2>3. ASSUME NEW j \in 1..(Len(q) - 1)
          PROVE  (head \o tail)[j] = IF j < v THEN head[j] ELSE tail[j - (v - 1)]
      BY <1>1, <1>2, <2>1, <2>2
    <2> QED BY <1>1, <1>2, <2>1, <2>2, <2>3
  <1>5. ASSUME NEW j \in 1..(Len(q) - 1)
        PROVE  EraseAt(q, v)[j] = IF j < v THEN q[j] ELSE q[j + 1]
    <2>1. CASE j < v
      BY <1>1, <1>3, <1>4, <2>1
    <2>2. CASE ~(j < v)
      <3>1. j - (v - 1) \in 1..(Len(q) - v) /\ (j - (v - 1)) + v = j + 1
        BY <2>2
      <3> QED BY <1>2, <1>3, <1>4, <2>2, <3>1
    <2> QED BY <2>1, <2>2
  <1> QED BY <1>3, <1>4, <1>5

\* A match at place p of the list leaves a list.
LEMMA MatchErases ==
    ASSUME LoopTypes, i <= Len(roster)
    PROVE  VictimIndex(i) \in 1..Len(roster)
BY DEF LoopTypes, TypeOK, VictimIndex
-----------------------------------------------------------------------------
LEMMA InitTypes == Init => LoopTypes
BY RoomNewsAssumption
DEF Init, LoopTypes, TypeOK, Seats, Places, News, Sending

LEMMA TypesStep == LoopTypes /\ [Next]_vars => LoopTypes'
<1> SUFFICES ASSUME LoopTypes, [Next]_vars PROVE LoopTypes'
  OBVIOUS
<1> USE RoomNewsAssumption DEF LoopTypes, TypeOK, Seats, Places, News, Sending,
        leaving, walk
<1>1. CASE List
  BY <1>1 DEF List, Told, Return
<1>2. CASE LeaveIteration
  <2>1. CASE Return /\ UNCHANGED <<roster, view, gone>>
    BY <2>1 DEF Return
  <2>2. CASE /\ pc = "leave" /\ i <= Len(roster) /\ i' = i + 1
             /\ UNCHANGED <<pc, roster, view, user, before, walk, gone>>
    BY <2>2
  <2>3. CASE /\ pc = "leave" /\ i <= Len(roster)
             /\ RosterBecomes(EraseAt(roster, VictimIndex(i)))
             /\ Broadcast(ListMade, None)
             /\ i' = i + 1
             /\ pc' = "left"
             /\ UNCHANGED <<user, before, gone>>
    <3>1. roster' \in Seq(Users) /\ Len(roster') = Len(roster) - 1
      BY <2>3, MatchErases, EraseIs DEF RosterBecomes
    <3>2. view' \in [Users -> News \cup {None}]
      BY <2>3 DEF RosterBecomes
    <3> QED BY <2>3, <3>1, <3>2 DEF Broadcast, ListMade, FirstRecipient
  <2>4. CASE pc' = "dead" /\ UNCHANGED <<roster, view, user, leaving, walk, gone>>
    BY <2>4
  <2> QED BY <1>2, <2>1, <2>2, <2>3, <2>4 DEF LeaveIteration
<1>3. CASE Send
  BY <1>3 DEF Send, Told, NextRecipient
<1>4. CASE Sent
  <2>1. CASE Return /\ UNCHANGED <<roster, view, gone>>
    BY <2>1 DEF Return
  <2>2. CASE /\ \/ pc = "joined" /\ pc' = "list"
                \/ pc = "left" /\ pc' = "leave"
                \/ pc' = "dead"
             /\ UNCHANGED <<roster, view, gone, user, leaving, walk>>
    BY <2>2
  <2> QED BY <1>4, <2>1, <2>2 DEF Sent
<1>5. CASE Close
  BY <1>5 DEF Close, Broadcast, FirstRecipient
<1>6. ASSUME NEW s \in Users, Join(s) PROVE LoopTypes'
  BY <1>6 DEF Join, HasSeat, RosterBecomes, Broadcast, FirstRecipient, ListMade
<1>7. ASSUME NEW s \in Users, JoinRefused(s) PROVE LoopTypes'
  BY <1>7 DEF JoinRefused
<1>8. ASSUME NEW s \in Users, Leave(s) PROVE LoopTypes'
  BY <1>8 DEF Leave
<1>9. ASSUME NEW s \in Users, GetUsersInRoom(s) PROVE LoopTypes'
  BY <1>9 DEF GetUsersInRoom, Told
<1>10. ASSUME NEW s \in Users, PeerGone(s) PROVE LoopTypes'
  BY <1>10 DEF PeerGone
<1>11. CASE UNCHANGED vars
  BY <1>11 DEF vars
<1> QED BY <1>1, <1>2, <1>3, <1>4, <1>5, <1>6, <1>7, <1>8, <1>9, <1>10, <1>11
        DEF Next, Handler

LEMMA AlwaysTypes == Spec => []LoopTypes
BY InitTypes, TypesStep, PTL DEF Spec
-----------------------------------------------------------------------------
\* When a walk of Room::sendMessage is over, at its end or at a send that
\* throws, whoever is on the roster has the message, is excluded, has gone, or
\* is cut off by someone who has.
LEMMA WalkReaches ==
    ASSUME LoopTypes, NewsInv, Sending, k > Len(roster) \/ Broken,
           NEW p \in DOMAIN roster
    PROVE  \/ roster[p] = excluded \/ view[roster[p]] = news
           \/ roster[p] \in gone \/ CutOff(roster[p])
  <1>1. k \in Nat /\ k >= 1 /\ roster \in Seq(Users)
    BY DEF LoopTypes, TypeOK, Seats
  <1>2. \A q \in DOMAIN roster : q < k => roster[q] = excluded \/ view[roster[q]] = news
    BY DEF NewsInv, WalkedTold
  <1>3. CASE p < k
    BY <1>2, <1>3
  <1>4. CASE \E q \in 1..(k - 1) : q \in DOMAIN roster /\ roster[q] = roster[p]
    BY <1>1, <1>2, <1>4
  <1>5. CASE /\ k <= Len(roster) /\ roster[k] \in gone
             /\ \A q \in 1..(k - 1) : roster[q] # roster[p]
    <2>1. CASE roster[k] = roster[p]
      BY <1>5, <2>1
    <2>2. CASE roster[k] # roster[p]
      <3>1. k \in DOMAIN roster /\ \A q \in 1..k : roster[q] # roster[p]
        BY <1>1, <1>5, <2>2
      <3> QED BY <1>5, <3>1 DEF CutOff
    <2> QED BY <2>1, <2>2
  <1> QED BY <1>1, <1>3, <1>4, <1>5 DEF Broken

\* While nobody joins or leaves, who is informed stays so.
LEMMA InformedStays ==
    ASSUME LoopTypes, roster' = roster, gone \subseteq gone',
           \A u \in Users : view'[u] = view[u] \/ view'[u] \in {"present", "closed"},
           NEW p \in DOMAIN roster, Informed(roster[p])
    PROVE  Informed(roster[p])'
  <1>1. roster[p] \in Users
    BY DEF LoopTypes, TypeOK
  <1>2. view'[roster[p]] = view[roster[p]] \/ view'[roster[p]] \in {"present", "closed"}
    BY <1>1
  <1>3. CutOff(roster[p]) => CutOff(roster[p])'
    BY DEF CutOff
  <1> QED BY <1>2, <1>3 DEF Informed

LEMMA InitNews == Init => NewsInv
BY RoomNewsAssumption
DEF Init, NewsInv, WalkFits, WalkedTold, InformedBut, Informed, Sending

\* A message to one user only informs.
LEMMA ToldInforms ==
    ASSUME LoopTypes, NEW t \in Users, NEW message \in {"present", "closed"},
           Told(t, message), NEW u \in Users
    PROVE  /\ view'[u] = view[u] \/ view'[u] = message
           /\ t \notin gone => view'[t] = message
BY DEF Told, LoopTypes, TypeOK

LEMMA NewsStep == LoopTypes /\ LoopTypes' /\ NewsInv /\ [Next]_vars => NewsInv'
<1> SUFFICES ASSUME LoopTypes, LoopTypes', NewsInv, [Next]_vars PROVE NewsInv'
  OBVIOUS
<1> USE DEF Sending, leaving, walk
<1>0. /\ roster \in Seq(Users) /\ \A p \in DOMAIN roster : roster[p] \in Users
      /\ view \in [Users -> News \cup {None}] /\ k \in Nat /\ None \notin Users
  BY RoomNewsAssumption DEF LoopTypes, TypeOK, Seats
<1>1. CASE List
  <2>1. pc = "list" /\ user \in Users /\ InformedBut(user)
    BY <1>1 DEF List, LoopTypes, NewsInv
  <2>2. roster' = roster /\ gone' = gone /\ Told(user, "present") /\ pc' = "idle"
    BY <1>1 DEF List, Return
  <2>3. /\ \A u \in Users : view'[u] = view[u] \/ view'[u] \in {"present", "closed"}
        /\ user \in gone \/ view'[user] = "present"
    BY <1>0, <2>1, <2>2 DEF Told
  <2>4. ASSUME NEW p \in DOMAIN roster' PROVE Informed(roster[p])'
    <3>1. CASE roster[p] = user
      BY <2>2, <2>3, <3>1 DEF Informed
    <3>2. CASE roster[p] # user
      <4>1. Informed(roster[p])
        BY <2>1, <2>2, <3>2 DEF InformedBut
      <4> QED BY <2>2, <2>3, <4>1, InformedStays
    <3> QED BY <3>1, <3>2
  <2> QED BY <2>2, <2>4 DEF NewsInv, WalkFits, WalkedTold, InformedBut
<1>2. CASE LeaveIteration
  <2>1. pc = "leave" /\ InformedBut(None) /\ gone' = gone
    BY <1>2 DEF LeaveIteration, NewsInv
  <2>2. CASE /\ roster' = roster /\ view' = view /\ pc' \in {"idle", "leave", "dead"}
    BY <2>1, <2>2 DEF NewsInv, WalkFits, WalkedTold, InformedBut, Informed, CutOff
  <2>3. CASE Broadcast(ListMade, None) /\ pc' = "left"
    <3>1. \A p \in DOMAIN roster' : ~(p < k')
      BY <2>3 DEF Broadcast, FirstRecipient, LoopTypes, TypeOK
    <3> QED BY <2>3, <3>1 DEF Broadcast, ListMade, NewsInv, WalkFits, WalkedTold
  <2> QED BY <1>2, <2>1, <2>2, <2>3 DEF LeaveIteration, Return
<1>3. CASE Send
  <2>1. /\ pc' = pc /\ roster' = roster /\ gone' = gone /\ Sending /\ news' = news
        /\ excluded' = excluded /\ k' = k + 1 /\ user' = user
        /\ k \in DOMAIN roster
    BY <1>0, <1>3 DEF Send, NextRecipient, LoopTypes, TypeOK
  <2>2. news \in {"present", "closed"} /\ WalkFits'
    BY <2>1 DEF NewsInv, WalkFits
  <2>3. /\ \A u \in Users : view'[u] = view[u] \/ view'[u] = news
        /\ roster[k] = excluded \/ view'[roster[k]] = news
    <3>1. CASE view' = view /\ roster[k] = excluded
      BY <3>1
    <3>2. CASE roster[k] \notin gone /\ Told(roster[k], news)
      BY <1>0, <2>1, <2>2, <3>2 DEF Told
    <3> QED BY <1>3, <3>1, <3>2 DEF Send
  <2>4. WalkedTold'
    <3>1. ASSUME NEW p \in DOMAIN roster, p < k + 1
          PROVE  roster[p] = excluded \/ view'[roster[p]] = news
      <4>1. p < k \/ p = k
        BY <1>0, <3>1
      <4>2. p < k => roster[p] = excluded \/ view[roster[p]] = news
        BY <2>1 DEF NewsInv, WalkedTold
      <4> QED BY <1>0, <2>3, <4>1, <4>2
    <3> QED BY <2>1, <3>1 DEF WalkedTold
  <2>5. pc = "closing" => InformedBut(None)'
    <3>1. \A p \in DOMAIN roster : Informed(roster[p]) => Informed(roster[p])'
      BY <2>1, <2>2, <2>3, InformedStays
    <3> QED BY <2>1, <3>1, <1>0 DEF NewsInv, InformedBut
  <2> QED BY <2>1, <2>2, <2>4, <2>5 DEF NewsInv
<1>4. CASE Sent
  <2>1. /\ Sending
        /\ k > Len(roster) \/ Broken
        /\ roster' = roster /\ view' = view /\ gone' = gone
    BY <1>4 DEF Sent
  <2>2. \A p \in DOMAIN roster : \/ roster[p] = excluded \/ view[roster[p]] = news
                                \/ roster[p] \in gone \/ CutOff(roster[p])
    BY <2>1, WalkReaches
  <2>3. CASE pc = "joined" /\ pc' = "list" /\ user' = user
    <3>1. InformedBut(user)
      BY <2>2, <2>3 DEF NewsInv, WalkFits, InformedBut, Informed
    <3> QED BY <2>1, <2>3, <3>1
        DEF NewsInv, WalkFits, WalkedTold, InformedBut, Informed, CutOff
  <2>4. CASE pc = "left" /\ pc' = "leave"
    <3>1. InformedBut(None)
      BY <1>0, <2>2, <2>4 DEF NewsInv, WalkFits, InformedBut, Informed
    <3> QED BY <2>1, <2>4, <3>1
        DEF NewsInv, WalkFits, WalkedTold, InformedBut, Informed, CutOff
  <2>5. CASE pc = "closing" /\ pc' \in {"idle", "dead"}
    BY <2>1, <2>5 DEF NewsInv, WalkFits, WalkedTold, InformedBut, Informed, CutOff
  <2> QED BY <1>4, <2>3, <2>4, <2>5 DEF Sent, Return
<1>5. CASE Close
  BY <1>0, <1>5 DEF Close, Broadcast, FirstRecipient, NewsInv, WalkFits, WalkedTold,
                    InformedBut, Informed, CutOff
<1>6. ASSUME NEW s \in Users, Join(s) PROVE NewsInv'
  <2>1. /\ pc' = "joined" /\ k' = 1 /\ news' = "present" /\ excluded' = s /\ user' = s
    BY <1>6 DEF Join, Broadcast, FirstRecipient, ListMade
  <2>2. \A p \in DOMAIN roster' : ~(p < k')
    BY <2>1 DEF LoopTypes, TypeOK
  <2> QED BY <2>1, <2>2 DEF NewsInv, WalkFits, WalkedTold
<1>7. ASSUME NEW s \in Users, JoinRefused(s) PROVE NewsInv'
  BY <1>0, <1>7 DEF JoinRefused, NewsInv, WalkFits, WalkedTold, InformedBut, Informed, CutOff
<1>8. ASSUME NEW s \in Users, Leave(s) PROVE NewsInv'
  BY <1>8 DEF Leave, NewsInv, WalkFits, WalkedTold, InformedBut, Informed, CutOff
<1>9. ASSUME NEW s \in Users, GetUsersInRoom(s) PROVE NewsInv'
  <2>1. /\ pc = "idle" /\ pc' = pc /\ roster' = roster /\ gone' = gone
        /\ Told(s, "present") /\ InformedBut(None)
    BY <1>9 DEF GetUsersInRoom, NewsInv
  <2>2. \A u \in Users : view'[u] = view[u] \/ view'[u] \in {"present", "closed"}
    BY <2>1, ToldInforms
  <2>3. InformedBut(None)'
    <3>1. \A p \in DOMAIN roster : Informed(roster[p]) => Informed(roster[p])'
      BY <2>1, <2>2, InformedStays
    <3> QED BY <1>0, <2>1, <3>1 DEF InformedBut
  <2> QED BY <2>1, <2>3 DEF NewsInv, WalkFits, WalkedTold
<1>10. ASSUME NEW s \in Users, PeerGone(s) PROVE NewsInv'
  <2>1. /\ UNCHANGED <<pc, roster, view, user, leaving, walk>> /\ gone \subseteq gone'
    BY <1>10 DEF PeerGone
  <2>2. \A p \in DOMAIN roster : Informed(roster[p]) => Informed(roster[p])'
    BY <2>1, InformedStays
  <2>3. pc \in {"idle", "leave", "closing"} => InformedBut(None)'
    BY <1>0, <2>1, <2>2 DEF NewsInv, InformedBut
  <2>4. pc = "list" => InformedBut(user)'
    BY <2>1, <2>2 DEF NewsInv, InformedBut
  <2> QED BY <2>1, <2>3, <2>4 DEF NewsInv, WalkFits, WalkedTold
<1>11. CASE UNCHANGED vars
  BY <1>11 DEF vars, NewsInv, WalkFits, WalkedTold, InformedBut, Informed, CutOff
<1> QED BY <1>1, <1>2, <1>3, <1>4, <1>5, <1>6, <1>7, <1>8, <1>9, <1>10, <1>11
        DEF Next, Handler

LEMMA AlwaysNews == Spec => []NewsInv
<1>1. Init => LoopTypes /\ NewsInv
  BY InitTypes, InitNews
<1> QED BY <1>1, NewsStep, AlwaysTypes, PTL DEF Spec

\* Type correctness.  The roster never has more users than the room has seats,
\* the admin's own seat aside, and the loop variables stay in its bounds.
THEOREM RoomNewsTypeCorrect == Spec => []TypeOK
<1>1. LoopTypes => TypeOK
  BY DEF LoopTypes
<1> QED BY <1>1, AlwaysTypes, PTL

\* Between requests a member has the present list, unless he cannot be reached
\* or somebody before him on the roster cannot (Room::sendMessage).
THEOREM MembersKeepTheList == Spec => []MembersHaveTheList
<1>1. ASSUME LoopTypes, NewsInv PROVE MembersHaveTheList
  <2> SUFFICES ASSUME pc = "idle", NEW p \in DOMAIN roster
               PROVE  Informed(roster[p])
    BY DEF MembersHaveTheList, Informed
  <2>1. InformedBut(None)
    BY <1>1 DEF NewsInv
  <2>2. roster[p] # None
    BY <1>1, RoomNewsAssumption DEF LoopTypes, TypeOK
  <2> QED BY <2>1, <2>2 DEF InformedBut
<1> QED BY <1>1, AlwaysTypes, AlwaysNews, PTL

\* When handleCloseRoom goes on, the members know: all but those who have gone
\* and those whom they cut off.
THEOREM ClosingIsTold == Spec => CloseIsTold
<1>1. ASSUME LoopTypes, NewsInv, [Next]_vars
      PROVE  [pc = "closing" /\ pc' # "closing" =>
                \A p \in DOMAIN roster :
                   LET u == roster[p]
                   IN u = Admin \/ view[u] = "closed" \/ u \in gone \/ CutOff(u)]_vars
  <2>1. SUFFICES ASSUME Next, pc = "closing", pc' # "closing", NEW p \in DOMAIN roster
                 PROVE  \/ roster[p] = Admin \/ view[roster[p]] = "closed"
                        \/ roster[p] \in gone \/ CutOff(roster[p])
    BY <1>1
  <2>2. Sent
    BY <2>1 DEF Next, Handler, List, LeaveIteration, Send, Close, Join, JoinRefused,
                Leave, GetUsersInRoom, PeerGone
  <2>3. /\ Sending
        /\ k > Len(roster) \/ Broken
        /\ news = "closed" /\ excluded = Admin
    BY <1>1, <2>1, <2>2 DEF Sent, NewsInv, WalkFits
  <2> QED BY <1>1, <2>1, <2>3, WalkReaches
<1> QED BY <1>1, AlwaysTypes, AlwaysNews, PTL DEF Spec, CloseIsTold
-----------------------------------------------------------------------------
\* In a run of adjacent occurrences the loop finds every second one: an
\* occurrence is found iff the place before it is not a found one.
LEMMA FoundNext ==
    ASSUME NEW own, own \subseteq Nat \ {0}, NEW p \in own
    PROVE  p \in Found(own) <=> p - 1 \notin Found(own)
  <1> DEFINE Starts(r, c) == c \in 1..r /\ c..r \subseteq own /\ c - 1 \notin own
  <1>0. p \in Nat /\ p >= 1 /\ 0 \notin own
    OBVIOUS
  <1>1. ASSUME p \in Found(own), p - 1 \in Found(own) PROVE FALSE
    <2>1. PICK c \in 1..p : Starts(p, c) /\ (p - c) % 2 = 0
      BY <1>1 DEF Found
    <2>2. PICK d \in 1..(p - 1) : Starts(p - 1, d) /\ (p - 1 - d) % 2 = 0
      BY <1>1 DEF Found
    <2>3. p - 1 \in own
      BY <1>1 DEF Found
    <2>4. c <= p - 1
      <3>1. c # p
        BY <2>1, <2>3
      <3> QED BY <1>0, <3>1
    <2>5. c = d
      <3>1. CASE c < d
        <4>1. d - 1 \in c..p
          BY <1>0, <2>4, <3>1
        <4> QED BY <2>1, <2>2, <4>1
      <3>2. CASE d < c
        <4>1. c - 1 \in d..(p - 1)
          BY <1>0, <2>4, <3>2
        <4> QED BY <2>1, <2>2, <4>1
      <3> QED BY <3>1, <3>2
    <2> QED BY <1>0, <2>1, <2>2, <2>5
  <1>2. ASSUME p - 1 \notin Found(own) PROVE p \in Found(own)
    <2>1. CASE p - 1 \notin own
      <3>1. p \in 1..p /\ p..p \subseteq own /\ (p - p) % 2 = 0
        BY <1>0
      <3> QED BY <2>1, <3>1 DEF Found
    <2>2. CASE p - 1 \in own
      <3> DEFINE C == {c \in 1..p : c..p \subseteq own}
      <3>1. p \in C /\ C \in SUBSET Nat
        BY <1>0
      <3>2. PICK c \in C : \A d \in C : c <= d
        BY <3>1, LeastNatural
      <3>3. c - 1 \notin own
        <4>1. SUFFICES ASSUME c - 1 \in own PROVE FALSE
          OBVIOUS
        <4>2. c - 1 \in 1..p /\ \A d \in (c - 1)..p : d = c - 1 \/ d \in c..p
          BY <1>0, <4>1
        <4>3. c - 1 \in C
          BY <4>1, <4>2
        <4> QED BY <3>2, <4>3
      <3>4. CASE c = p
        BY <2>2, <3>3, <3>4
      <3>5. CASE c < p
        <4>1. c \in 1..(p - 1) /\ c..(p - 1) \subseteq own
          BY <1>0, <3>5
        <4>2. (p - 1 - c) % 2 # 0
          BY <1>2, <2>2, <3>3, <4>1 DEF Found
        <4>3. (p - c) % 2 = 0
          BY <1>0, <4>2
        <4> QED BY <3>3, <4>3 DEF Found
      <3> QED BY <1>0, <3>4, <3>5
    <2> QED BY <2>1, <2>2
  <1> QED BY <1>1, <1>2

\* The loop meets an occurrence that it finds, and skips the place after it.
LEMMA MatchAt ==
    ASSUME NEW own, own \subseteq Nat \ {0}, NEW p \in own, p - 1 \notin Found(own)
    PROVE  /\ ErasedBelow(own, p + 2) = ErasedBelow(own, p) \cup {VictimIndex(p)}
           /\ p + 1 \notin Found(own)
  <1>1. p \in Nat /\ p >= 1 /\ p \in Found(own)
    <2>1. p \in Nat /\ p >= 1
      OBVIOUS
    <2>2. p \in Found(own)
      BY FoundNext, Zenon
    <2> QED BY <2>1, <2>2
  <1>2. p + 1 \notin Found(own)
    <2>1. p + 1 \in own => (p + 1 \in Found(own) <=> (p + 1) - 1 \notin Found(own))
      BY FoundNext
    <2> QED BY <1>1, <2>1 DEF Found
  <1>3. Found(own) \cap 1..((p + 2) - 1) = (Found(own) \cap 1..(p - 1)) \cup {p}
    <2>1. \A x \in 1..((p + 2) - 1) : x \in 1..(p - 1) \/ x = p \/ x = p + 1
      BY <1>1
    <2>2. 1..(p - 1) \subseteq 1..((p + 2) - 1) /\ p \in 1..((p + 2) - 1)
      BY <1>1
    <2> QED BY <1>1, <1>2, <2>1, <2>2
  <1> QED BY <1>2, <1>3 DEF ErasedBelow

\* The loop meets somebody else.
LEMMA MissAt ==
    ASSUME NEW own, NEW p \in Nat, p >= 1, p \notin own
    PROVE  ErasedBelow(own, p + 1) = ErasedBelow(own, p) /\ p \notin Found(own)
  <1>1. p \notin Found(own)
    BY DEF Found
  <1>2. Found(own) \cap 1..((p + 1) - 1) = Found(own) \cap 1..(p - 1)
    <2>1. \A x \in 1..((p + 1) - 1) : x \in 1..(p - 1) \/ x = p
      BY <1>1
    <2>2. 1..(p - 1) \subseteq 1..((p + 1) - 1)
      BY <1>1
    <2> QED BY <1>1, <2>1, <2>2
  <1> QED BY <1>1, <1>2 DEF ErasedBelow

\* A numbering without one of its values numbers the set without it.
Without(f, n, w) == [j \in 1..(n - 1) |-> IF j < w THEN f[j] ELSE f[j + 1]]

LEMMA NumberingWithout ==
    ASSUME NEW n \in Nat, NEW K \in SUBSET Nat, IsFiniteSet(K), Cardinality(K) = n,
           NEW f \in [1..n -> K], Increasing(f, n), NEW w \in 1..n
    PROVE  /\ Cardinality(K \ {f[w]}) = n - 1
           /\ Without(f, n, w) \in [1..(n - 1) -> K \ {f[w]}]
           /\ Increasing(Without(f, n, w), n - 1)
  <1> DEFINE g == [j \in 1..(n - 1) |-> IF j < w THEN f[j] ELSE f[j + 1]]
  <1>1. f[w] \in K /\ \A j \in 1..n : f[j] \in Nat
    BY ValuesAreNatural
  <1>2. Cardinality(K \ {f[w]}) = n - 1
    <2>1. n - 1 = Cardinality(K) - 1
      OBVIOUS
    <2> QED BY <1>1, <2>1, FS_RemoveElement
  <1>3. ASSUME NEW j \in 1..(n - 1) PROVE g[j] \in K \ {f[w]}
    <2>1. CASE j < w
      BY <1>1, <2>1 DEF Increasing
    <2>2. CASE ~(j < w)
      BY <1>1, <2>2 DEF Increasing
    <2> QED BY <2>1, <2>2
  <1>4. Increasing(g, n - 1)
    <2> SUFFICES ASSUME NEW a \in 1..(n - 1), NEW b \in 1..(n - 1), a < b
                 PROVE  g[a] < g[b]
      BY DEF Increasing
    <2> QED BY DEF Increasing
  <1>5. g \in [1..(n - 1) -> K \ {f[w]}]
    BY <1>3
  <1> QED BY <1>2, <1>4, <1>5 DEF Without
-----------------------------------------------------------------------------
\* Where the leaver is on the list before, and what the invariant says there.
LEMMA LoopFacts ==
    ASSUME LoopTypes, LoopInv, pc \in {"leave", "left"}
    PROVE  /\ Own \in SUBSET (Nat \ {0})
           /\ \A p \in 1..Len(before) : p \in Own <=> before[p] = user
           /\ Own \subseteq 1..Len(before)
           /\ KeptBelow(i + Shrunk) \in SUBSET Nat
           /\ IsFiniteSet(KeptBelow(i + Shrunk))
           /\ Cardinality(KeptBelow(i + Shrunk)) = Len(roster)
           /\ Len(roster) \in Nat /\ Len(before) \in Nat
           /\ i \in Nat /\ i >= 1 /\ Shrunk \in Nat
  <1>1. before \in Seq(Users) /\ roster \in Seq(Users) /\ i \in Nat /\ i >= 1
    BY DEF LoopTypes, TypeOK, Seats
  <1>2. Len(before) \in Nat /\ Len(roster) \in Nat /\ DOMAIN before = 1..Len(before)
    BY <1>1
  <1>3. IsFiniteSet(1..Len(before))
    BY <1>2, IntervalSize
  <1>4. KeptBelow(i + Shrunk) \in SUBSET (1..Len(before))
    BY DEF KeptBelow
  <1>5. IsFiniteSet(KeptBelow(i + Shrunk))
    BY <1>3, <1>4, FS_Subset
  <1> QED BY <1>1, <1>2, <1>4, <1>5 DEF LoopInv, Own

LEMMA MatchLoop ==
    ASSUME LoopTypes, LoopTypes', LoopInv, pc = "leave",
           i <= Len(roster), roster[i] = user,
           roster' = EraseAt(roster, VictimIndex(i)),
           i' = i + 1, user' = user, before' = before
    PROVE  LoopInv'
  <1> DEFINE n == Len(roster)
             p == i + Shrunk
             w == VictimIndex(i)
             K == KeptBelow(p)
  <1>1. /\ Own \in SUBSET (Nat \ {0}) /\ K \in SUBSET Nat /\ IsFiniteSet(K)
        /\ Cardinality(K) = n /\ n \in Nat /\ Shrunk \in Nat /\ i \in 1..n
        /\ Own \subseteq 1..Len(before) /\ Len(before) \in Nat
        /\ Len(before) = n + Shrunk
    BY LoopFacts DEF Shrunk
  <1>2. PICK f \in [1..n -> K] : Numbering(f)
    BY DEF LoopInv
  <1>3. f[i] = p /\ p \in 1..Len(before) /\ before[p] = user
    BY <1>1, <1>2 DEF Numbering
  <1>4. p \in Own /\ p - 1 \notin Found(Own)
    BY <1>3, LoopFacts DEF LoopInv
  <1>5. /\ ErasedBelow(Own, p + 2) = ErasedBelow(Own, p) \cup {VictimIndex(p)}
        /\ p + 1 \notin Found(Own)
    BY <1>1, <1>4, MatchAt
  <1>6. w \in 1..n /\ f[w] = VictimIndex(p)
    <2>1. CASE i = 1
      BY <1>1, <1>3, <2>1 DEF VictimIndex, LoopInv
    <2>2. CASE i # 1
      <3>1. i - 1 \in 1..n /\ f[i - 1] = (i - 1) + Shrunk
        BY <1>1, <1>2, <2>2 DEF Numbering
      <3> QED BY <1>1, <2>2, <3>1 DEF VictimIndex
    <2> QED BY <2>1, <2>2
  <1>7. /\ roster' \in Seq(Users) /\ Len(roster') = n - 1
        /\ \A j \in 1..(n - 1) : roster'[j] = IF j < w THEN roster[j] ELSE roster[j + 1]
    BY <1>6, EraseIs DEF LoopTypes, TypeOK
  <1>8. Own' = Own /\ Shrunk' = Shrunk + 1 /\ i' + Shrunk' = p + 2
    BY <1>1, <1>7 DEF Own, Shrunk
  <1>9. KeptBelow(i + Shrunk)' = K \ {f[w]}
    BY <1>5, <1>6, <1>8 DEF KeptBelow
  <1>10. /\ Cardinality(K \ {f[w]}) = n - 1
         /\ Without(f, n, w) \in [1..(n - 1) -> K \ {f[w]}]
         /\ Increasing(Without(f, n, w), n - 1)
    <2>1. Increasing(f, n) /\ w \in 1..n
      BY <1>2, <1>6 DEF Numbering
    <2>2. n \in Nat /\ K \in SUBSET Nat /\ IsFiniteSet(K) /\ Cardinality(K) = n
      BY <1>1
    <2> HIDE DEF K, n, w
    <2> QED BY <2>1, <2>2, NumberingWithout
  <1>11. PICK g \in [1..(n - 1) -> K \ {f[w]}] :
            /\ Increasing(g, n - 1)
            /\ \A j \in 1..(n - 1) : g[j] = IF j < w THEN f[j] ELSE f[j + 1]
    <2>1. \A j \in 1..(n - 1) : Without(f, n, w)[j] = IF j < w THEN f[j] ELSE f[j + 1]
      BY DEF Without
    <2> QED BY <1>10, <2>1, Zenon
  <1>12. ASSUME NEW j \in 1..(n - 1)
         PROVE  /\ roster'[j] = before[g[j]]
                /\ j >= i' - 1 => g[j] = j + Shrunk'
    <2>1. CASE j < w
      BY <1>1, <1>2, <1>6, <1>7, <1>11, <2>1 DEF Numbering, VictimIndex
    <2>2. CASE ~(j < w)
      <3>1. j + 1 \in 1..n /\ g[j] = f[j + 1] /\ roster'[j] = roster[j + 1]
        BY <1>1, <1>7, <1>11, <2>2
      <3>2. roster[j + 1] = before[f[j + 1]]
        BY <1>2, <3>1 DEF Numbering
      <3>3. j >= i => f[j + 1] = (j + 1) + Shrunk
        BY <1>1, <1>2, <3>1 DEF Numbering
      <3> QED BY <1>1, <1>8, <3>1, <3>2, <3>3
    <2> QED BY <2>1, <2>2
  <1>13. Numbering(g)'
    BY <1>7, <1>11, <1>12 DEF Numbering
  <1>14. i' # 1 /\ Shrunk' \in Nat /\ (i + Shrunk - 1 \notin Found(Own))'
    <2>1. (i' + Shrunk') - 1 = p + 1
      BY <1>1, <1>8
    <2> QED BY <1>1, <1>5, <1>8, <2>1
  <1> QED BY <1>7, <1>9, <1>10, <1>13, <1>14, <1>11 DEF LoopInv

LEMMA MissLoop ==
    ASSUME LoopTypes, LoopInv, pc = "leave", i <= Len(roster), roster[i] # user,
           UNCHANGED <<pc, roster, user, before>>, i' = i + 1
    PROVE  LoopInv'
  <1> DEFINE n == Len(roster)
             p == i + Shrunk
  <1>1. /\ Own \in SUBSET (Nat \ {0}) /\ n \in Nat /\ Shrunk \in Nat /\ i \in 1..n
        /\ Len(before) = n + Shrunk
    BY LoopFacts DEF Shrunk
  <1>2. PICK f \in [1..n -> KeptBelow(p)] : Numbering(f)
    BY DEF LoopInv
  <1>3. p \notin Own
    <2>1. f[i] = p /\ p \in 1..Len(before) /\ before[p] # user
      BY <1>1, <1>2 DEF Numbering
    <2> QED BY <2>1, LoopFacts
  <1>4. ErasedBelow(Own, p + 1) = ErasedBelow(Own, p) /\ p \notin Found(Own)
    BY <1>1, <1>3, MissAt
  <1>5. Own' = Own /\ Shrunk' = Shrunk /\ i' + Shrunk' = p + 1
    BY <1>1 DEF Own, Shrunk
  <1>6. KeptBelow(i + Shrunk)' = KeptBelow(p)
    BY <1>4, <1>5 DEF KeptBelow
  <1>7. Numbering(f)'
    BY <1>1, <1>2, <1>5 DEF Numbering
  <1>8. (i' + Shrunk') - 1 = p /\ i' # 1
    BY <1>1, <1>5
  <1> QED BY <1>1, <1>2, <1>4, <1>5, <1>6, <1>7, <1>8, LoopFacts DEF LoopInv

\* The loop begins with the whole list.
LEMMA LeaveLoop ==
    ASSUME LoopTypes, NEW s \in Users, Leave(s)
    PROVE  LoopInv'
  <1> DEFINE n == Len(roster)
             id == [j \in 1..n |-> j]
  <1>1. roster \in Seq(Users) /\ n \in Nat
    BY DEF LoopTypes, TypeOK
  <1>2. i' = 1 /\ before' = roster /\ roster' = roster /\ Shrunk' = 0
    BY <1>1 DEF Leave, Shrunk
  <1>3. (i + Shrunk)' = 1 /\ \A own : ErasedBelow(own, 1) = {}
    BY <1>2 DEF ErasedBelow
  <1>4. KeptBelow(i + Shrunk)' = 1..n
    BY <1>2, <1>3 DEF KeptBelow
  <1>5. Cardinality(1..n) = n
    BY <1>1, IntervalSize
  <1>6. id \in [1..n -> 1..n] /\ Numbering(id)'
    BY <1>1, <1>2 DEF Numbering, Increasing
  <1>7. (i + Shrunk - 1 \notin Found(Own))'
    BY <1>1, <1>2 DEF Found, Own
  <1> QED BY <1>2, <1>4, <1>5, <1>6, <1>7 DEF LoopInv

LEMMA LoopUndisturbed ==
    ASSUME LoopInv, UNCHANGED <<roster, user, before, i>>,
           pc' \in {"leave", "left"} => pc \in {"leave", "left"}
    PROVE  LoopInv'
  <1> SUFFICES ASSUME pc' \in {"leave", "left"} PROVE LoopInv'
    BY DEF LoopInv
  <1>1. /\ Own' = Own /\ Shrunk' = Shrunk /\ i' = i /\ roster' = roster
        /\ before' = before
    BY DEF Shrunk, Own
  <1>2. KeptBelow(i + Shrunk)' = KeptBelow(i + Shrunk)
    BY <1>1 DEF KeptBelow
  <1>3. \A f : Numbering(f) <=> Numbering(f)'
    BY <1>1 DEF Numbering
  <1> QED BY <1>1, <1>2, <1>3 DEF LoopInv

LEMMA LoopStep == LoopTypes /\ LoopTypes' /\ LoopInv /\ [Next]_vars => LoopInv'
<1> SUFFICES ASSUME LoopTypes, LoopTypes', LoopInv, [Next]_vars PROVE LoopInv'
  OBVIOUS
<1> USE DEF leaving, walk
<1>1. CASE pc' \notin {"leave", "left"}
  BY <1>1 DEF LoopInv
<1>2. CASE LeaveIteration
  <2>1. CASE Return
    BY <2>1 DEF Return, LoopInv
  <2>2. CASE /\ pc = "leave" /\ i <= Len(roster) /\ roster[i] # user /\ i' = i + 1
             /\ UNCHANGED <<pc, roster, view, user, before, walk>>
    BY <2>2, MissLoop
  <2>3. CASE /\ pc = "leave" /\ i <= Len(roster) /\ roster[i] = user
             /\ RosterBecomes(EraseAt(roster, VictimIndex(i))) /\ i' = i + 1
             /\ UNCHANGED <<user, before>>
    BY <2>3, MatchLoop DEF RosterBecomes
  <2>4. CASE pc' = "dead"
    BY <2>4 DEF LoopInv
  <2> QED BY <1>2, <2>1, <2>2, <2>3, <2>4 DEF LeaveIteration
<1>3. CASE Send
  BY <1>3, LoopUndisturbed DEF Send
<1>4. CASE Sent
  <2>1. CASE Return
    BY <2>1 DEF Return, LoopInv
  <2>2. CASE /\ \/ pc = "joined" /\ pc' = "list"
                \/ pc = "left" /\ pc' = "leave"
                \/ pc' = "dead"
             /\ UNCHANGED <<user, leaving, roster>>
    BY <2>2, LoopUndisturbed
  <2> QED BY <1>4, <2>1, <2>2 DEF Sent
<1>5. ASSUME NEW s \in Users, Leave(s) PROVE LoopInv'
  BY <1>5, LeaveLoop
<1>6. ASSUME NEW s \in Users, PeerGone(s) PROVE LoopInv'
  BY <1>6, LoopUndisturbed DEF PeerGone
<1>7. CASE UNCHANGED vars
  BY <1>7, LoopUndisturbed DEF vars
<1>8. CASE \/ List \/ Close
           \/ \E s \in Users : Join(s) \/ JoinRefused(s) \/ GetUsersInRoom(s)
  <2>1. pc' \notin {"leave", "left"}
    BY <1>8 DEF List, Return, Close, Join, JoinRefused, GetUsersInRoom
  <2> QED BY <1>1, <2>1
<1> QED BY <1>2, <1>3, <1>4, <1>5, <1>6, <1>7, <1>8 DEF Next, Handler

LEMMA AlwaysLoop == Spec => []LoopInv
<1>1. Init => LoopInv
  BY DEF Init, LoopInv
<1> QED BY <1>1, LoopStep, AlwaysTypes, PTL DEF Spec

\* Room::leaveRoom leaves on the roster what the closed form says, for every
\* list and every place and number of the leaver's occurrences on it: so Lobby
\* may take the closed form for the loop.
THEOREM LoopIsClosedForm == Spec => []LoopComputesAfterLeave
<1>1. ASSUME LoopTypes, LoopInv PROVE LoopComputesAfterLeave
  <2> SUFFICES ASSUME pc = "leave", i > Len(roster)
               PROVE  AfterLeave(before, Own) = {roster}
    BY DEF LoopComputesAfterLeave, Own
  <2> DEFINE n == Len(roster)
             p == i + Shrunk
             K == KeptBelow(p)
  <2>1. /\ Own \subseteq 1..Len(before) /\ K \in SUBSET Nat /\ IsFiniteSet(K)
        /\ Cardinality(K) = n /\ n \in Nat /\ Len(before) \in Nat
        /\ p \in Nat /\ p > Len(before)
    BY <1>1, LoopFacts DEF Shrunk
  <2>2. PICK f \in [1..n -> K] : Numbering(f)
    BY <1>1 DEF LoopInv
  <2>3. ErasedBelow(Own, p) = Erased(Own)
    <3>1. Found(Own) \subseteq 1..(p - 1)
      <4>1. Found(Own) \subseteq Own
        BY DEF Found
      <4>2. 1..Len(before) \subseteq 1..(p - 1)
        BY <2>1
      <4> QED BY <2>1, <4>1, <4>2
    <3>2. Found(Own) \cap 1..(p - 1) = Found(Own)
      BY <3>1
    <3>3. \A x : VictimIndex(x) = IF x = 1 THEN 1 ELSE x - 1
      BY DEF VictimIndex
    <3>4. Erased(Own) = {VictimIndex(x) : x \in Found(Own)}
      BY <3>3 DEF Erased
    <3> QED BY <3>2, <3>4 DEF ErasedBelow
  <2>4. AfterLeave(before, Own) = Kept(before, K)
    BY <2>3 DEF AfterLeave, KeptBelow
  <2>5. Kept(before, K) = {[j \in 1..n |-> before[f[j]]]}
    <3>1. Increasing(f, n)
      BY <2>2 DEF Numbering
    <3>2. n \in Nat /\ K \in SUBSET Nat /\ IsFiniteSet(K) /\ Cardinality(K) = n
      BY <2>1
    <3> HIDE DEF K, n
    <3> QED BY <3>1, <3>2, KeptByNumbering
  <2>6. roster = [j \in 1..n |-> before[f[j]]]
    <3>1. roster \in Seq(Users) /\ \A j \in 1..n : roster[j] = before[f[j]]
      BY <1>1, <2>2 DEF Numbering, LoopTypes, TypeOK
    <3> QED BY <3>1
  <2> QED BY <2>4, <2>5, <2>6
<1> QED BY <1>1, AlwaysTypes, AlwaysLoop, PTL
=============================================================================
