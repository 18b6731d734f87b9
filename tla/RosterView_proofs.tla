-------------------------- MODULE RosterView_proofs --------------------------
(***************************************************************************)
(* Theorems about what clients show, for any users and connections of one  *)
(* instance.  MeetingRoom's steps are RosterView's without the broadcasts, *)
(* so what is proved of seats and routers there holds here.                *)
(***************************************************************************)
EXTENDS RosterView, Seats_proofs

USE SingleInstance, HostAssumption, SocketsAssumption, RedisAssumption
USE DEF Types, Roles, NoRole, Places, Vias, MaybeSocket

LEMMA ViewSteps == [ViewNext]_allVars => [Next]_vars
<1>1. ViewNext => Next
  <2> SUFFICES ASSUME ViewNext PROVE Next
    OBVIOUS
  <2>1. CASE \E s \in Sockets : ViewJoinRoom(s) \/ ViewLeaveRoom(s) \/ ViewLeaveTimerFires(s)
    BY <2>1 DEF ViewJoinRoom, ViewLeaveRoom, ViewLeaveTimerFires, Next
  <2>2. CASE \E s \in Sockets : ViewDrop(s)
    BY <2>2 DEF ViewDrop, Next
  <2>3. CASE \E u \in Users : ViewAdmit(u) \/ ViewReject(u)
    BY <2>3 DEF ViewAdmit, ViewReject, Next
  <2>4. CASE \E r \in Roles \cup {"trusted"}, u \in Users : ViewKick(r, u)
    BY <2>4 DEF ViewKick, Next
  <2>5. CASE ViewRouterReady \/ ViewEnd
    BY <2>5 DEF ViewRouterReady, ViewEnd, Next
  <2>6. CASE ViewUnchanged
    BY <2>6 DEF ViewUnchanged, Next
  <2>7. QED
    BY <2>1, <2>2, <2>3, <2>4, <2>5, <2>6 DEF ViewNext
<1>2. UNCHANGED allVars => UNCHANGED vars
  BY DEF allVars
<1>3. QED
  BY <1>1, <1>2

(* What MeetingRoom's proofs establish of every state of RosterView.       *)
RoomFacts == SeatInv /\ ToldAreOpen /\ JoinedHasRouter

LEMMA RoomFactsHold == ViewSpec => []RoomFacts
<1>1. Spec => []SeatInv
  BY SeatInvHolds
<1>2. ViewInit => Init
  BY DEF ViewInit
<1>3. ViewSpec => Spec
  BY <1>2, ViewSteps, PTL DEF ViewSpec, Spec
<1>4. SeatInv /\ ToldAreOpen /\ JoinedHasRouter => RoomFacts
  BY DEF RoomFacts
<1>5. QED
  BY <1>1, <1>3, <1>4, ToldAreOpenHolds, JoinedFindRouter, PTL

Shown == SeatedHearBroadcasts /\ RosterIsExact

---------------------------------------------------------------------------
(* What each kind of step does to the lists shown.                         *)

(* Nobody comes or goes; connections may go down.                          *)
LEMMA NobodyMoves ==
    ASSUME Shown, socketId' = socketId,
           \A t \in Sockets : Active(t)' => Active(t),
           \A t \in Sockets : told'[t] = "joined" => told[t] = "joined",
           \A t \in room : Active(t)' => t \in room',
           Hear({}, {}, {}) \/ roster' = roster
    PROVE  Shown'
<1>1. Participants' = Participants
  BY DEF Participants, Seated
<1>2. SeatedHearBroadcasts'
  BY DEF Shown, SeatedHearBroadcasts
<1>3. ASSUME NEW t \in Sockets, told'[t] = "joined", Active(t)'
      PROVE  roster'[t] = Participants'
  <2>1. roster[t] = Participants /\ t \in room'
    BY <1>3 DEF Shown, SeatedHearBroadcasts, RosterIsExact
  <2>2. QED
    BY <1>1, <2>1 DEF Hear
<1>4. QED
  BY <1>2, <1>3 DEF Shown, RosterIsExact

(* One user leaves, and everyone hears of it.                              *)
LEMMA OneLeaves ==
    ASSUME RoomFacts, Shown, NEW u \in Users, socketId' = [socketId EXCEPT ![u] = NoSocket],
           \A t \in Sockets : Open(t)' => Open(t),
           \A t \in Sockets : told'[t] = "joined" => told[t] = "joined",
           \A t \in room \ room' : UserOf[t] = u,
           Hear({}, {}, {u})
    PROVE  Shown'
<1>1. /\ socketId \in [Users -> MaybeSocket]
      /\ \A v \in Users : socketId'[v] = IF v = u THEN NoSocket ELSE socketId[v]
  BY DEF RoomFacts, SeatInv, TypeOK
<1>2. Participants' = Participants \ {u}
  BY <1>1 DEF Participants, Seated
<1>3. ASSUME NEW t \in Sockets, Active(t)'
      PROVE  t \in room' /\ Active(t) /\ UserOf[t] # u
  BY <1>1, <1>3 DEF Active, Open, Shown, SeatedHearBroadcasts
<1>4. ASSUME NEW t \in Sockets, told'[t] = "joined", Active(t)'
      PROVE  roster'[t] = Participants'
  <2>1. roster[t] = Participants /\ t \in room'
    BY <1>3, <1>4 DEF Shown, RosterIsExact
  <2>2. QED
    BY <1>2, <2>1 DEF Hear
<1>5. QED
  BY <1>3, <1>4 DEF Shown, SeatedHearBroadcasts, RosterIsExact

(* The meeting is emptied.                                                 *)
LEMMA AllLeave ==
    ASSUME \A u \in Users : socketId'[u] = NoSocket
    PROVE  Shown'
BY DEF Shown, SeatedHearBroadcasts, RosterIsExact, Active

LEMMA LeaveShown ==
    ASSUME RoomFacts, Shown, NEW u \in Users, FinalizeLeave(u), sock' = sock,
           \A t \in Sockets : told'[t] = "joined" => told[t] = "joined",
           \A t \in room \ room' : UserOf[t] = u,
           Hear({}, {}, Gone(u))
    PROVE  Shown'
<1>1. CASE type = "one_to_one"
  BY <1>1, AllLeave DEF FinalizeLeave, End, ClearMeeting
<1>2. CASE type = "group"
  BY <1>2, OneLeaves DEF FinalizeLeave, Vacate, Gone, Open
<1>3. QED
  BY <1>1, <1>2 DEF FinalizeLeave

LEMMA JoinShown ==
    ASSUME RoomFacts, Shown, NEW s \in Sockets, NEW via \in Vias, NEW queue, Open(s),
           BeginJoin(s, via, queue), JoinHeard(s)
    PROVE  Shown'
<1> DEFINE u == UserOf[s]
<1>1. JoinMeeting(s, via, queue) /\ sock' = sock /\ u \in Users
  BY DEF BeginJoin, JoinMeeting, linkVars
<1>2. CASE Refuse(s, queue) \/ Park(s, via, queue)
  <2>1. /\ socketId' = socketId /\ ~JoinsRoom(s)
        /\ \A t \in Sockets : told'[t] = "joined" => told[t] = "joined"
    BY <1>2 DEF Refuse, Park, JoinsRoom, seatVars, Tell, RoomFacts, SeatInv, TypeOK
  <2>2. UNCHANGED <<room, roster>>
    BY <2>1 DEF JoinHeard, viewVars
  <2>3. QED
    BY <1>1, <2>1, <2>2, NobodyMoves DEF Active, Open
<1>3. CASE Rebind(s, queue) \/ TakeSeat(s, queue)
  <2>1. /\ socketId' = [socketId EXCEPT ![u] = s]
        /\ \E newcomer \in BOOLEAN : AwaitRouter(s, newcomer)
        /\ JoinsRoom(s)
    BY <1>3 DEF Rebind, TakeSeat, JoinsRoom
  <2>2. /\ room' = room \cup {s}
        /\ router = "ready" => Hear({s}, Announced(s), {})
        /\ router # "ready" => Hear({}, {}, {})
    BY <2>1 DEF JoinHeard
  <2>3. \A v \in Users : socketId'[v] = IF v = u THEN s ELSE socketId[v]
    BY <1>1, <2>1 DEF RoomFacts, SeatInv, TypeOK
  <2>4. Participants' = Participants \cup {u}
    BY <1>1, <2>3 DEF Participants, Seated
  <2>5. Participants' = Participants \cup Announced(s)
    BY <1>1, <2>4 DEF Announced, Existing, Participants
  <2>6. ASSUME NEW t \in Sockets, Active(t)', t # s
        PROVE  Active(t)
    BY <1>1, <2>3, <2>6 DEF Active, Open
  <2>7. /\ \A t \in Sockets : t # s => told'[t] = told[t]
        /\ told'[s] = "joined" => router = "ready"
    BY <2>1 DEF AwaitRouter, Tell, RoomFacts, SeatInv, TypeOK
  <2>8. ASSUME NEW t \in Sockets, told'[t] = "joined", Active(t)'
        PROVE  roster'[t] = Participants'
    <3>1. CASE t = s
      BY <2>2, <2>7, <2>8, <3>1 DEF Hear
    <3>2. CASE t # s
      <4>1. told[t] = "joined" /\ Active(t)
        BY <2>6, <2>7, <2>8, <3>2
      <4>2. router = "ready" /\ roster[t] = Participants /\ t \in room'
        BY <2>2, <4>1 DEF RoomFacts, JoinedHasRouter, Shown, RosterIsExact, SeatedHearBroadcasts
      <4>3. QED
        BY <2>2, <2>5, <3>2, <4>2 DEF Hear
    <3>3. QED
      BY <3>1, <3>2
  <2>9. SeatedHearBroadcasts'
    BY <2>2, <2>6 DEF Shown, SeatedHearBroadcasts
  <2>10. QED
    BY <2>8, <2>9 DEF Shown, RosterIsExact
<1>4. QED
  BY <1>1, <1>2, <1>3 DEF JoinMeeting

---------------------------------------------------------------------------
LEMMA ShownStep ==
    ASSUME RoomFacts, Shown, [ViewNext]_allVars
    PROVE  Shown'
<1>1. ASSUME NEW s \in Sockets, ViewJoinRoom(s) PROVE Shown'
  BY <1>1, JoinShown DEF ViewJoinRoom, JoinRoom
<1>2. ASSUME NEW s \in Sockets, ViewLeaveRoom(s) PROVE Shown'
  <2>1. /\ FinalizeLeave(UserOf[s]) /\ Tell(s, "nothing") /\ sock' = sock
        /\ room' = room \ {s} /\ Hear({}, {}, Gone(UserOf[s]))
    BY <1>2 DEF ViewLeaveRoom, LeaveRoom
  <2>2. \A t \in Sockets : told'[t] = "joined" => told[t] = "joined"
    BY <2>1 DEF Tell, RoomFacts, SeatInv, TypeOK
  <2>3. QED
    BY <2>1, <2>2, LeaveShown
<1>3. ASSUME NEW s \in Sockets, ViewDrop(s) PROVE Shown'
  <2>1. /\ socketId' = socketId /\ sock' = [sock EXCEPT ![s] = "closed"]
        /\ told' = [told EXCEPT ![s] = "nothing"]
        /\ room' = room \ {s} /\ Hear({}, {}, {})
    BY <1>3 DEF ViewDrop, Disconnect, ServerDisconnects, Drop
  <2>2. \A t \in Sockets : /\ Active(t)' => Active(t) /\ t # s
                           /\ told'[t] = "joined" => told[t] = "joined"
    BY <2>1 DEF Active, Open, RoomFacts, SeatInv, TypeOK
  <2>3. \A t \in room : Active(t)' => t \in room'
    BY <2>1 DEF Active, Open, RoomFacts, SeatInv, TypeOK
  <2>4. QED
    BY <2>1, <2>2, <2>3, NobodyMoves
<1>4. ASSUME NEW s \in Sockets, ViewLeaveTimerFires(s) PROVE Shown'
  <2>1. room' = room /\ sock' = sock /\ told' = told
    BY <1>4 DEF ViewLeaveTimerFires, LeaveTimerFires
  <2>2. CASE Seated(UserOf[s])
    BY <1>4, <2>1, <2>2, LeaveShown DEF ViewLeaveTimerFires, LeaveTimerFires
  <2>3. CASE ~Seated(UserOf[s])
    <3>1. socketId' = socketId /\ Hear({}, {}, {})
      BY <1>4, <2>3 DEF ViewLeaveTimerFires, LeaveTimerFires, seatVars
    <3>2. QED
      BY <2>1, <3>1, NobodyMoves DEF Active, Open
  <2>4. QED
    BY <2>2, <2>3
<1>5. ASSUME NEW u \in Users, ViewAdmit(u) PROVE Shown'
  <2>1. waiting[u] \in Sockets /\ Open(waiting[u])
    BY <1>5 DEF ViewAdmit, Admit, RoomFacts, SeatInv, SeatParts, WaitersAreConnected, Attached, TypeOK
  <2>2. QED
    BY <1>5, <2>1, JoinShown DEF ViewAdmit, Admit
<1>6. ASSUME NEW u \in Users, ViewReject(u) PROVE Shown'
  <2> DEFINE s == waiting[u]
  <2>1. /\ s \in Sockets /\ socketId' = socketId /\ sock' = [sock EXCEPT ![s] = "closed"]
        /\ told' = [told EXCEPT ![s] = "nothing"]
        /\ room' = room \ {s} /\ Hear({}, {}, {})
    BY <1>6 DEF ViewReject, Reject, HangUp, seatVars, RoomFacts, SeatInv, TypeOK
  <2> HIDE DEF s
  <2>2. \A t \in Sockets : /\ Active(t)' => Active(t) /\ t # s
                           /\ told'[t] = "joined" => told[t] = "joined"
    BY <2>1 DEF Active, Open, RoomFacts, SeatInv, TypeOK
  <2>3. \A t \in room : Active(t)' => t \in room'
    BY <2>1 DEF Active, Open, RoomFacts, SeatInv, TypeOK
  <2>4. QED
    BY <2>1, <2>2, <2>3, NobodyMoves
<1>7. ASSUME NEW r, NEW u \in Users, ViewKick(r, u) PROVE Shown'
  <2> DEFINE s == socketId[u]
  <2>1. /\ s \in Sockets /\ UserOf[s] = u
        /\ socketId' = [socketId EXCEPT ![u] = NoSocket]
        /\ sock' = [sock EXCEPT ![s] = "closed"] /\ told' = [told EXCEPT ![s] = "nothing"]
        /\ room' = room \ {s} /\ Hear({}, {}, {u})
    BY <1>7 DEF ViewKick, Kick, Vacate, HangUp, Seated, RoomFacts, SeatInv, SeatParts,
                OwnConnections, TypeOK
  <2> HIDE DEF s
  <2>2. \A t \in Sockets : /\ Open(t)' => Open(t)
                           /\ told'[t] = "joined" => told[t] = "joined"
    BY <2>1 DEF Open, RoomFacts, SeatInv, TypeOK
  <2>3. QED
    BY <2>1, <2>2, OneLeaves
<1>8. CASE ViewRouterReady
  <2>1. /\ router = "pending" /\ UNCHANGED <<socketId, sock, room>>
        /\ Hear({c.socket : c \in awaitingRouter},
                {UserOf[c.socket] : c \in {d \in awaitingRouter : d.newcomer}}, {})
        /\ \A t \in Sockets : told'[t] = "joined" =>
              told[t] = "joined" \/ t \in {c.socket : c \in awaitingRouter}
    BY <1>8 DEF ViewRouterReady, RouterReady, seatVars, linkVars
  <2>2. SeatedHearBroadcasts'
    BY <2>1 DEF Shown, SeatedHearBroadcasts, Active, Open
  <2>3. ASSUME NEW t \in Sockets, told'[t] = "joined", Active(t)'
        PROVE  roster'[t] = Participants'
    <3>1. Active(t) /\ t \in room'
      BY <2>1, <2>3 DEF Active, Open, Shown, SeatedHearBroadcasts
    <3>2. told[t] # "joined"
      BY <2>1, <3>1 DEF RoomFacts, JoinedHasRouter
    <3>3. QED
      BY <2>1, <2>3, <3>1, <3>2 DEF Hear
  <2>4. QED
    BY <2>2, <2>3 DEF Shown, RosterIsExact
<1>9. CASE ViewEnd
  <2>1. CASE \A u \in Users : socketId'[u] = NoSocket
    BY <2>1, AllLeave
  <2>2. CASE status # "live" /\ UNCHANGED <<socketId, sock, told, room>>
    BY <1>9, <2>2, NobodyMoves DEF ViewEnd, Active, Open
  <2>3. QED
    BY <1>9, <2>1, <2>2 DEF ViewEnd, EndMeeting, DeleteMeeting, End, ClearMeeting, seatVars
<1>10. CASE ViewUnchanged
  <2>1. UNCHANGED <<room, roster, socketId, told>>
    BY <1>10 DEF ViewUnchanged, viewVars, RouterFails, Connect, Promote, Demote, SetLocked,
                 seatVars
  <2>2. \A t \in Sockets : Active(t)' => Active(t)
    <3>1. CASE \E s \in Sockets : Connect(s)
      BY <2>1, <3>1 DEF Connect, Active, Open, Seated, RoomFacts, SeatInv, SeatParts,
                        SeatsHadConnections, TypeOK
    <3>2. CASE sock' = sock
      BY <2>1, <3>2 DEF Active, Open
    <3>3. QED
      BY <1>10, <3>1, <3>2 DEF ViewUnchanged, RouterFails, Promote, Demote, SetLocked, linkVars
  <2>3. QED
    BY <2>1, <2>2, NobodyMoves
<1>11. CASE UNCHANGED allVars
  <2>1. UNCHANGED <<room, roster, socketId, told, sock>>
    BY <1>11 DEF allVars, viewVars, vars, seatVars, linkVars
  <2>2. QED
    BY <2>1, NobodyMoves DEF Active, Open
<1>12. QED
  BY <1>1, <1>2, <1>3, <1>4, <1>5, <1>6, <1>7, <1>8, <1>9, <1>10, <1>11 DEF ViewNext

LEMMA ShownHolds == ViewSpec => []Shown
<1>1. ViewInit => Shown
  BY DEF ViewInit, Init, Shown, SeatedHearBroadcasts, RosterIsExact, Active, Open
<1>2. RoomFacts /\ Shown /\ [ViewNext]_allVars => Shown'
  BY ShownStep
<1>3. QED
  BY <1>1, <1>2, RoomFactsHold, PTL DEF ViewSpec

(* A participant's live connection is in the socket.io room, so it misses  *)
(* none of the broadcasts it keeps its list from.                          *)
THEOREM SeatedHear == ViewSpec => []SeatedHearBroadcasts
<1>1. Shown => SeatedHearBroadcasts
  BY DEF Shown
<1>2. QED
  BY <1>1, ShownHolds, PTL

(* Every participant that was told it joined shows the meeting's           *)
(* participants and nobody else, however many users join, drop, reconnect, *)
(* are kicked or leave while a router is created.                          *)
THEOREM RostersExact == ViewSpec => []RosterIsExact
<1>1. Shown => RosterIsExact
  BY DEF Shown
<1>2. QED
  BY <1>1, ShownHolds, PTL
=============================================================================
